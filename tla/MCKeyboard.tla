----------------------------- MODULE MCKeyboard -----------------------------
(* One key of each kind; three presses and releases are enough for two     *)
(* bytes to be under way while a third is being consumed.                  *)
EXTENDS Keyboard

MCPlain == {"a"}
MCArrows == {"up"}
=============================================================================

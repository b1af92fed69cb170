----------------------------- MODULE MCConsole -----------------------------
(* A screen of two rows of three columns over a scrollback of four lines,  *)
(* commands of up to three characters and a history of two; an editor of   *)
(* two rows for three characters, over files that fit and that do not.     *)
EXTENDS Console

MCLetters == {"s", "q"}
MCGarbage == {<<>>, <<"x">>}
MCPrompt == <<">">>
MCCharacters == {Blank, NL, BS, "s", "q", "x", ">", "o"}
MCReply == <<"o", NL>>
MCFiles == {<<>>, <<"s", EOL, "q", "s", EOL>>}
MCMice == {0, 3, 4}
MCMoves == [dx : {0}, dy : {0}, wheel : {-1, 1}] \cup [dx : {-4, 2}, dy : {3}, wheel : {0}]

(* Booting with a mouse that is moved and a keyboard that is used; typing  *)
(* commands with and without the wheel; editing.                           *)
Of(early, packets, keys, edits) ==
  [early |-> early, packets |-> packets, keys |-> keys, edits |-> edits]

MCBudgets ==
  {Of(1, 3, 0, 0), Of(0, 2, 2, 0), Of(0, 1, 4, 0), Of(0, 0, 7, 0), Of(0, 0, 1, 1)}
=============================================================================

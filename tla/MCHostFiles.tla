---------------------------- MODULE MCHostFiles -----------------------------
(* A file of three chunks, the last one short, of which two do not fit the *)
(* stage (16384 is no multiple of 1430); "g" is not on the host.  With a   *)
(* datagram under way in each direction and two in the receive ring, an    *)
(* answer can come in after the next command has begun.  Digits left in    *)
(* the buffer make the length 5 a smaller number, 52 % 50, or a larger     *)
(* one, 537 % 50; none make it one that is right by accident.              *)
EXTENDS HostFiles

MCNames == {"f", "g"}
MCPulled == {"f"}
MCHost == [n \in {"f"} |-> <<1, 2, 3, 4, 5>>]
MCStale == {[scale |-> 10, add |-> 2], [scale |-> 100, add |-> 37]}
=============================================================================

------------------------------- MODULE RxFifo -------------------------------
(***************************************************************************)
(* What the receive side of a network card promises its user: a queue of   *)
(* frames in the order in which they arrived, that loses a frame only when *)
(* it is full, and hands every other frame over once.                      *)
(***************************************************************************)
EXTENDS Naturals, Sequences

CONSTANTS Capacity, NoFrame

VARIABLES
  queue,       \* frames waiting
  arrived,     \* how many have arrived: frames are numbered in that order
  got          \* the frame handed over last

vars == <<queue, arrived, got>>

Init == queue = <<>> /\ arrived = 0 /\ got = NoFrame

Enqueue ==
  /\ Len(queue) < Capacity
  /\ arrived' = arrived + 1 /\ queue' = Append(queue, arrived')
  /\ UNCHANGED got

Lose ==
  /\ Len(queue) = Capacity
  /\ arrived' = arrived + 1
  /\ UNCHANGED <<queue, got>>

Dequeue ==
  /\ queue # <<>>
  /\ got' = Head(queue) /\ queue' = Tail(queue)
  /\ UNCHANGED arrived

Next == Enqueue \/ Lose \/ Dequeue

Spec == Init /\ [][Next]_vars
=============================================================================

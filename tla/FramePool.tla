----------------------------- MODULE FramePool -----------------------------
(***************************************************************************)
(* What callers of allocate_blocks rely on: a pool of frames from which a  *)
(* contiguous run is taken once and for all, and a refusal only when no    *)
(* more than the requested number of frames is left.                       *)
(***************************************************************************)
EXTENDS Integers, FiniteSets

CONSTANTS Blocks, Sizes, NULL

VARIABLES free, ret

Init == free \in SUBSET Blocks /\ ret = NULL

Take(n) ==
  \E s \in Blocks :
    /\ s .. s + n - 1 \subseteq free
    /\ free' = free \ (s .. s + n - 1)
    /\ ret' = s

Deny(n) ==
  /\ Cardinality(free) <= n \/ n = 0
  /\ ret' = NULL
  /\ UNCHANGED free

Next == \E n \in Sizes : (n # 0 /\ Take(n)) \/ Deny(n)

Spec == Init /\ [][Next]_<<free, ret>>
=============================================================================

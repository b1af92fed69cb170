---------------------------- MODULE AddressSpace ----------------------------
(***************************************************************************)
(* What paging promises: a map from virtual pages to physical ones that is *)
(* changed one page at a time.  Where its tables are kept, and that they   *)
(* grow, cannot be seen.                                                   *)
(***************************************************************************)
EXTENDS FiniteSets, Naturals

CONSTANTS Virtual, Physical, Absent

VARIABLE space

Empty == [v \in Virtual |-> Absent]

Init == space = Empty

Next ==
  LET changed == {v \in Virtual : space'[v] # space[v]}
  IN /\ Cardinality(changed) = 1
     /\ \A v \in changed : space'[v] \in Physical \cup {Absent}

Spec == Init /\ [][Next]_space
=============================================================================

----------------------------- MODULE HeapRange -----------------------------
(***************************************************************************)
(* The range of the kernel heap, which kalloc_init (kernel/mem.c) sets to  *)
(* two literals, and the sizes that are asked of it.                       *)
(***************************************************************************)
EXTENDS Integers

CONSTANTS
  HeapStart,  \* 0x200000
  HeapEnd,    \* 0x500000
  Requests    \* the sizes in bytes that callers pass to kmalloc

ASSUME HeapAssumption ==
  /\ HeapStart \in Nat \ {0}
  /\ HeapEnd \in Nat
  /\ HeapStart <= HeapEnd
  /\ HeapStart % 8 = 0
  /\ Requests \subseteq Nat
=============================================================================

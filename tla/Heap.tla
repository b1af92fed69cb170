-------------------------------- MODULE Heap --------------------------------
(***************************************************************************)
(* The kernel heap of kernel/mem.c.  Every block starts with a header      *)
(* {size, free, next}; blocks are cut off the bump pointer heap_ptr and    *)
(* kfree pushes them on a list that kmalloc searches first.                *)
(*                                                                         *)
(* Two things make the list delicate: kmalloc clears the free flag of the  *)
(* block it takes from the list but leaves it linked, and kfree pushes     *)
(* every block on the head without looking whether it is linked already.   *)
(* The search is therefore modelled step by step, so that it may go on     *)
(* forever.                                                                *)
(*                                                                         *)
(* Callers free only what kmalloc returned and only once (cmd_dumpelf,     *)
(* cmd_runelf); combine_blocks has no caller and is left out.              *)
(*                                                                         *)
(* A definition Fault... is the faulty variant of the one that follows it; *)
(* no specification uses it.                                               *)
(***************************************************************************)
EXTENDS HeapRange, FiniteSets

VARIABLES
  hdr,             \* the block headers in memory, by address
  heap_ptr,
  free_list_head,
  pc,              \* "idle", or "find" inside find_free_block
  p,               \* the cursor of find_free_block
  want,            \* the aligned size being searched for
  live,            \* history: requested size of each block a caller owns
  refreed          \* history: has a block from the list been freed again?

chain == <<hdr, heap_ptr, free_list_head, live, refreed>>
heap == <<hdr, heap_ptr, free_list_head, pc, p, want, live, refreed>>

Nil == 0                                \* the NULL of pointers to blocks
HeaderSize == 16                        \* sizeof(block)
Align8(x) == ((x + 7) \div 8) * 8

Blocks == DOMAIN hdr
Header(s, f, n) == [size |-> s, free |-> f, next |-> n]

\* The first address after block b.
EndOf(b) == b + HeaderSize + hdr[b].size

\* Writing the header at address a, and forgetting a key.
With(f, a, v) == [x \in DOMAIN f \cup {a} |-> IF x = a THEN v ELSE f[x]]
Without(f, a) == [x \in DOMAIN f \ {a} |-> f[x]]

-----------------------------------------------------------------------------
HeapInit ==                                                 \* kalloc_init
  /\ hdr = [b \in {} |-> Header(0, 0, Nil)]
  /\ heap_ptr = HeapStart
  /\ free_list_head = Nil
  /\ pc = "idle" /\ p = Nil /\ want = 0
  /\ live = [b \in {} |-> 0]
  /\ refreed = FALSE

(***************************************************************************)
(* kmalloc: align, then walk the list with find_free_block.                *)
(***************************************************************************)
Kmalloc(n) ==
  /\ pc = "idle"
  /\ pc' = "find"
  /\ want' = Align8(n)
  /\ p' = free_list_head
  /\ UNCHANGED chain

FaultIgnoresFlag(b) == hdr[b].size >= want
FaultIgnoresSize(b) == hdr[b].free = 1

Fits(b) == hdr[b].free = 1 /\ hdr[b].size >= want

FindNext ==
  /\ pc = "find" /\ p # Nil /\ ~Fits(p)
  /\ p' = hdr[p].next
  /\ UNCHANGED <<pc, want, chain>>

(***************************************************************************)
(* The block found is handed out.  split_block cuts off what lies after    *)
(* the first want bytes when a header and at least one byte fit there, and *)
(* links the rest behind the block.  The block itself stays linked.        *)
(***************************************************************************)
SplitAt(b) == b + HeaderSize + want

Splits(b) == hdr[b].size > want + HeaderSize

FaultDropsRest(b) ==
  IF Splits(b)
    THEN With(With(hdr, SplitAt(b),
                   Header(hdr[b].size - want - HeaderSize, 1, Nil)),
              b, Header(want, 0, SplitAt(b)))
    ELSE With(hdr, b, [hdr[b] EXCEPT !.free = 0])

HandOut(b) ==
  IF Splits(b)
    THEN With(With(hdr, SplitAt(b),
                   Header(hdr[b].size - want - HeaderSize, 1, hdr[b].next)),
              b, Header(want, 0, SplitAt(b)))
    ELSE With(hdr, b, [hdr[b] EXCEPT !.free = 0])

FindHit ==
  /\ pc = "find" /\ p # Nil /\ Fits(p)
  /\ hdr' = HandOut(p)
  /\ live' = With(live, p, want)
  /\ pc' = "idle" /\ p' = Nil /\ want' = 0
  /\ UNCHANGED <<heap_ptr, free_list_head, refreed>>

(***************************************************************************)
(* No block fits: create_block takes one from the bump pointer, or kmalloc *)
(* returns NULL when the heap is used up.                                 *)
(***************************************************************************)
FaultForgetsHeader == ~(heap_ptr + want > HeapEnd)

Room == ~(heap_ptr + HeaderSize + want > HeapEnd)

FaultNoHeaderSpace == Align8(want)

BlockSpace == Align8(HeaderSize + want)

CreateBlock ==
  /\ pc = "find" /\ p = Nil /\ Room
  /\ hdr' = With(hdr, heap_ptr, Header(want, 0, Nil))
  /\ live' = With(live, heap_ptr, want)
  /\ heap_ptr' = heap_ptr + BlockSpace
  /\ pc' = "idle" /\ want' = 0
  /\ UNCHANGED <<free_list_head, p, refreed>>

OutOfMemory ==
  /\ pc = "find" /\ p = Nil /\ ~Room
  /\ pc' = "idle" /\ want' = 0
  /\ UNCHANGED <<p, chain>>

(***************************************************************************)
(* The blocks that a walk from the head can visit: the least set that      *)
(* holds the head and with every block the next one.                       *)
(***************************************************************************)
Closed(S) ==
  /\ free_list_head \in S \cup {Nil}
  /\ \A b \in S : hdr[b].next \in S \cup {Nil}

Visited == {b \in Blocks : \A S \in SUBSET Blocks : Closed(S) => b \in S}

(***************************************************************************)
(* kfree: set the flag and push, whether or not the block is linked.       *)
(***************************************************************************)
Kfree(b) ==
  /\ pc = "idle"
  /\ b \in DOMAIN live
  /\ hdr' = With(hdr, b, Header(hdr[b].size, 1, free_list_head))
  /\ free_list_head' = b
  /\ live' = Without(live, b)
  /\ refreed' = (refreed \/ b \in Visited)
  /\ UNCHANGED <<heap_ptr, pc, p, want>>

Find == FindNext \/ FindHit \/ CreateBlock \/ OutOfMemory

HeapNext ==
  \/ \E n \in Requests : Kmalloc(n)
  \/ Find
  \/ \E b \in DOMAIN live : Kfree(b)

HeapSpec == HeapInit /\ [][HeapNext]_heap

-----------------------------------------------------------------------------
HeapTypes ==
  /\ Blocks \subseteq Nat \ {Nil}
  /\ hdr \in [Blocks -> [size : Nat, free : {0, 1}, next : Blocks \cup {Nil}]]
  /\ heap_ptr \in HeapStart .. HeapEnd
  /\ free_list_head \in Blocks \cup {Nil}
  /\ pc \in {"idle", "find"}
  /\ p \in Blocks \cup {Nil}
  /\ want \in Nat
  /\ DOMAIN live \subseteq Blocks
  /\ live \in [DOMAIN live -> Nat]
  /\ refreed \in BOOLEAN

(* No two blocks overlap, headers included, and all lie below the bump     *)
(* pointer: a caller that stays inside its block cannot damage a header or *)
(* another caller's data, however often blocks are split and reused.       *)
BlocksDisjoint ==
  \A b \in Blocks :
    /\ HeapStart <= b /\ EndOf(b) <= heap_ptr
    /\ \A c \in Blocks \ {b} : EndOf(b) <= c \/ EndOf(c) <= b

(* Whoever owns a block keeps at least the bytes asked for, although the   *)
(* block stays on the free list and later searches walk over it.           *)
OwnersServed ==
  \A b \in DOMAIN live : hdr[b].size >= live[b]

(* find_free_block never returns a block that a caller still owns.         *)
HandsOutUnowned ==
  [][pc = "find" /\ p # Nil /\ pc' = "idle" => p \notin DOMAIN live]_heap

(* As long as no block that is still linked is freed again, the list has   *)
(* an end, so that a search of it ends, and every free block is on it.     *)
(* Freeing such a block links it to itself, or closes a longer cycle: the  *)
(* next search that finds no fit then never ends.                          *)
FreeListSound ==
  ~refreed =>
    /\ \A b \in Blocks : hdr[b].free = 1 => b \in Visited
    /\ Visited # {} => \E b \in Visited : hdr[b].next = Nil
=============================================================================

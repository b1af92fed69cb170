------------------------------ MODULE PhysMem ------------------------------
(***************************************************************************)
(* The physical frame allocator of kernel/mem/physical_mem/physical_mem.c: *)
(* one bit per 4 KiB block, first fit, and a separate count of used blocks.*)
(*                                                                         *)
(* The bitmap is the set of the bits that are 1.  It is only MaxBlocks     *)
(* bits long, but neither find_first_free_blocks nor set_block compares a  *)
(* bit number with max_blocks: a run that starts below MaxBlocks is        *)
(* followed into whatever memory lies after the bitmap.  That memory is    *)
(* never initialised, so its bits start with any value.                    *)
(*                                                                         *)
(* The kernel itself only allocates (KernelSpec).  ApiSpec adds the two    *)
(* operations that are exported but have no caller in the repository,      *)
(* free_blocks and deinitialize_memory_region, called as their signatures  *)
(* require: free_blocks with an extent that was granted and is still held, *)
(* deinitialize_memory_region with blocks that are free.                   *)
(*                                                                         *)
(* A definition Fault... is the faulty variant of the one that follows it; *)
(* no specification uses it.                                               *)
(***************************************************************************)
EXTENDS Integers, FiniteSets

CONSTANTS
  MaxBlocks,  \* max_blocks; a multiple of 32 in the kernel (4096), see FitsAt
  Sizes,      \* the num_blocks that callers pass (1 and 32 in the kernel)
  Slack,      \* how many bits after the bitmap the model keeps
  Bases       \* first blocks at which initialize_memory_region may start

ASSUME PhysMemAssumption ==
  /\ MaxBlocks \in Nat \ {0}
  /\ Slack \in Nat
  /\ Sizes \subseteq 0..Slack
  /\ Bases \subseteq 0..MaxBlocks

VARIABLES
  base,         \* first block of the region made available at boot
  memory_map,   \* the bits that are 1
  used_blocks,
  ret,          \* what the last allocate_blocks returned, as a block number
  held          \* history: how many outstanding grants cover each block

vars == <<base, memory_map, used_blocks, ret, held>>

Bits == 0 .. MaxBlocks + Slack - 1
Beyond == MaxBlocks .. MaxBlocks + Slack - 1

\* The address 0 is block 0: callers read a grant of block 0 as a failure.
NULL == 0

Extent(s, n) == s .. s + n - 1

(***************************************************************************)
(* Boot: initialize_memory_manager marks everything used, then one call of *)
(* initialize_memory_region clears base..MaxBlocks-1, decrements the count *)
(* once per block and finally sets bit 0 again without counting it.        *)
(***************************************************************************)
RegionMap(b, garbage) == (0 .. b - 1) \cup {0} \cup garbage
RegionCount(b) == MaxBlocks - (MaxBlocks - b)

Init ==
  /\ base \in Bases
  /\ \E garbage \in SUBSET Beyond : memory_map = RegionMap(base, garbage)
  /\ used_blocks = RegionCount(base)
  /\ ret = NULL
  /\ held = [b \in Bits |-> 0]

(***************************************************************************)
(* find_first_free_blocks: the least start inside the bitmap from which n  *)
(* bits are 0.  Its outer loop runs over whole words; max_blocks is a      *)
(* multiple of the word size, so it visits every bit of the bitmap.        *)
(***************************************************************************)
FitsAt(s, n) == n # 0 /\ Extent(s, n) \cap memory_map = {}

FirstFit(s, n) ==
  /\ FitsAt(s, n)
  /\ \A t \in 0 .. MaxBlocks - 1 : FitsAt(t, n) => s <= t

(***************************************************************************)
(* allocate_blocks.  The free count is compared with <=, so a request for  *)
(* exactly the blocks that are left is refused.  The count is an unsigned  *)
(* difference: it wraps to a huge number once used_blocks exceeds          *)
(* max_blocks.                                                             *)
(***************************************************************************)
FaultNoCountCheck(n) == TRUE

CountAllows(n) == used_blocks > MaxBlocks \/ MaxBlocks - used_blocks > n

Grant(n) ==
  /\ CountAllows(n)
  /\ \E s \in 0 .. MaxBlocks - 1 :
       /\ FirstFit(s, n)
       /\ memory_map' = memory_map \cup Extent(s, n)
       /\ used_blocks' = used_blocks + n
       /\ ret' = s
       /\ held' = [b \in Bits |-> held[b] + IF b \in Extent(s, n) THEN 1 ELSE 0]
  /\ UNCHANGED base

Refuse(n) ==
  /\ CountAllows(n) => \A s \in 0 .. MaxBlocks - 1 : ~FitsAt(s, n)
  /\ ret' = NULL
  /\ UNCHANGED <<base, memory_map, used_blocks, held>>

(***************************************************************************)
(* free_blocks, of an extent all of whose blocks are held, and             *)
(* deinitialize_memory_region, of free blocks of the region.               *)
(***************************************************************************)
FreeBlocks(s, n) ==
  /\ Extent(s, n) \subseteq Bits
  /\ \A b \in Extent(s, n) : held[b] > 0
  /\ memory_map' = memory_map \ Extent(s, n)
  /\ used_blocks' = used_blocks - n
  /\ held' = [b \in Bits |-> held[b] - IF b \in Extent(s, n) THEN 1 ELSE 0]
  /\ UNCHANGED <<base, ret>>

DeinitializeRegion(s, n) ==
  /\ Extent(s, n) \subseteq base .. MaxBlocks - 1
  /\ FitsAt(s, n)
  /\ memory_map' = memory_map \cup Extent(s, n)
  /\ used_blocks' = used_blocks + n
  /\ UNCHANGED <<base, ret, held>>

KernelNext == \E n \in Sizes : Grant(n) \/ Refuse(n)

ApiNext ==
  \E n \in Sizes :
    \/ Grant(n)
    \/ Refuse(n)
    \/ n # 0 /\ \E s \in 0 .. MaxBlocks - 1 :
         FreeBlocks(s, n) \/ DeinitializeRegion(s, n)

KernelSpec == Init /\ [][KernelNext]_vars
ApiSpec == Init /\ [][ApiNext]_vars
-----------------------------------------------------------------------------
(* Types; the count stays a natural number, it never wraps below zero.     *)
TypeOK ==
  /\ base \in Bases
  /\ memory_map \subseteq Bits
  /\ used_blocks \in Nat
  /\ ret \in 0 .. MaxBlocks - 1
  /\ held \in [Bits -> Nat]

(* As long as nothing is freed, a request never runs over the end of the   *)
(* bitmap, although find_first_free_blocks has no bound on the inner scan: *)
(* the free blocks are one run at the top and the count check in           *)
(* allocate_blocks is strict.                                              *)
GrantsInBitmap == \A b \in Beyond : held[b] = 0

(* Under the kernel's calls max_blocks - used_blocks never wraps, so the   *)
(* count check of allocate_blocks always guards the scan.                  *)
CountInRange == used_blocks <= MaxBlocks

(* No block is granted again while it is held, whatever is freed and       *)
(* reserved in between.                                                    *)
NoDoubleGrant == \A b \in Bits : held[b] <= 1

(* Block 0 (the NULL of allocate_blocks) and the blocks below the region,  *)
(* which hold the kernel image and the bitmap itself, are never granted.   *)
NeverReserved == \A b \in (0 .. base - 1) \cup {0} : held[b] = 0

(* used_blocks agrees with the bits it counts: those of the bitmap and the *)
(* held ones a run has spilled past its end.  It is one short only when    *)
(* the region starts at block 0, whose bit initialize_memory_region sets   *)
(* last without counting it; the strict comparison in allocate_blocks      *)
(* makes up for it.                                                        *)
Counted ==
  (memory_map \cap (0 .. MaxBlocks - 1)) \cup {b \in Beyond : held[b] > 0}

Uncounted == IF base = 0 THEN 1 ELSE 0

CountExact == used_blocks + Uncounted = Cardinality(Counted)

(* allocate_blocks as its callers use it: every grant takes frames that    *)
(* were free, inside the managed memory, and never block 0; NULL means at  *)
(* most the requested number of frames was left.                           *)
Pool == INSTANCE FramePool WITH
          Blocks <- 1 .. MaxBlocks - 1,
          free <- (1 .. MaxBlocks - 1) \ memory_map

RefinesFramePool == Pool!Spec
=============================================================================

------------------------- MODULE KernelMemoryProofs -------------------------
(***************************************************************************)
(* Proofs about the kernel's memory, in three parts.                       *)
(*                                                                         *)
(* The frame allocator by itself, for every bitmap size, every set of      *)
(* request sizes and every boot region.  Under the kernel's calls the used *)
(* part of the bitmap is a prefix; its length is the used count, plus the  *)
(* block 0 that is not counted.  That is KInv, and the three kernel        *)
(* theorems follow from it.  With frees the prefix shape is lost; AInv is  *)
(* what survives fragmentation.                                            *)
(*                                                                         *)
(* The kernel heap by itself, for every heap window and every set of       *)
(* request sizes.  HInv adds to the properties of Heap what makes them     *)
(* inductive: sizes are multiples of 8, so that the two roundings of       *)
(* kmalloc agree, and an owned block's free flag is 0, so that the search  *)
(* never returns it.                                                       *)
(*                                                                         *)
(* Both together with the page tables.  A step of the memory is a step of  *)
(* the frame allocator or leaves it alone, and likewise for the heap.  So  *)
(* what the first two parts show carries over, and what the two hand out   *)
(* is apart when the bitmap lies above the heap.  The rest is about        *)
(* the page tables, of any depth and fan-out, in the frames that the       *)
(* allocator grants: that they form a tree, so that an entry of the last   *)
(* level belongs to one page; that growing it moves no page; and what is   *)
(* mapped once paging is on.                                               *)
(***************************************************************************)
EXTENDS KernelMemory, FiniteSetTheorems, WellFoundedInduction, TLAPS

(***************************************************************************)
(* The frame allocator.                                                    *)
(***************************************************************************)
\* First block of the free run under the kernel's calls.
Top == used_blocks + Uncounted

KInv ==
  /\ base \in Bases
  /\ base <= used_blocks
  /\ used_blocks \in Nat
  /\ Top <= MaxBlocks
  /\ memory_map \subseteq Bits
  /\ \A b \in 0 .. MaxBlocks - 1 : b \in memory_map <=> b < Top
  /\ ret \in 0 .. MaxBlocks - 1
  /\ held \in [Bits -> Nat]
  /\ GrantsInBitmap

-----------------------------------------------------------------------------
(* Under KInv a run of n blocks fits exactly from Top on, when the count   *)
(* check passes: the scan of find_first_free_blocks stops at Top.          *)
LEMMA TopFits ==
  ASSUME KInv, NEW n \in Sizes, n # 0, CountAllows(n)
  PROVE  /\ Top \in 0 .. MaxBlocks - 1
         /\ Top + n <= MaxBlocks
         /\ FitsAt(Top, n)
<1>1. n \in Nat \ {0}
  BY PhysMemAssumption
<1>2. used_blocks + n < MaxBlocks /\ used_blocks <= Top /\ Top <= used_blocks + 1
  BY <1>1, PhysMemAssumption DEF KInv, CountAllows, Top, Uncounted
<1>3. Top \in 0 .. MaxBlocks - 1 /\ Top + n <= MaxBlocks
  BY <1>1, <1>2, PhysMemAssumption DEF KInv, Top, Uncounted
<1>4. ASSUME NEW b \in Extent(Top, n)
      PROVE  b \notin memory_map
  <2>1. b \in 0 .. MaxBlocks - 1 /\ ~(b < Top)
    BY <1>1, <1>3, PhysMemAssumption DEF Extent
  <2>. QED  BY <2>1 DEF KInv
<1>5. FitsAt(Top, n)
  BY <1>4 DEF FitsAt
<1>. QED  BY <1>3, <1>5

(* The first fit is Top itself.                                            *)
LEMMA FirstFitIsTop ==
  ASSUME KInv, NEW n \in Sizes, n # 0, CountAllows(n),
         NEW s \in 0 .. MaxBlocks - 1, FirstFit(s, n)
  PROVE  s = Top
<1>1. n \in Nat \ {0}
  BY PhysMemAssumption
<1>2. s <= Top
  BY TopFits DEF FirstFit
<1>3. s \in Extent(s, n)
  BY <1>1 DEF Extent
<1>4. s \notin memory_map
  BY <1>3 DEF FirstFit, FitsAt
<1>5. ~(s < Top)
  BY <1>4 DEF KInv
<1>6. Top \in Nat
  BY DEF KInv, Top, Uncounted
<1>. QED  BY <1>2, <1>5, <1>6

LEMMA KInvInit == Init => KInv
<1>. SUFFICES ASSUME Init PROVE KInv
  OBVIOUS
<1>1. base \in Bases /\ base \in 0 .. MaxBlocks /\ used_blocks = base
  BY PhysMemAssumption DEF Init, RegionCount
<1>2. Top <= MaxBlocks /\ Top = (IF base = 0 THEN 1 ELSE base)
  BY <1>1, PhysMemAssumption DEF Top, Uncounted
<1>3. PICK garbage \in SUBSET Beyond : memory_map = RegionMap(base, garbage)
  BY DEF Init
<1>4. memory_map \subseteq Bits
  BY <1>1, <1>3, PhysMemAssumption DEF RegionMap, Beyond, Bits
<1>5. ASSUME NEW b \in 0 .. MaxBlocks - 1
      PROVE  b \in memory_map <=> b < Top
  <2>1. b \notin garbage
    BY <1>3, PhysMemAssumption DEF Beyond
  <2>2. b \in memory_map <=> b \in 0 .. base - 1 \/ b = 0
    BY <1>3, <2>1 DEF RegionMap
  <2>. QED  BY <1>1, <1>2, <2>2, PhysMemAssumption
<1>6. ret \in 0 .. MaxBlocks - 1
  BY PhysMemAssumption DEF Init, NULL
<1>7. held \in [Bits -> Nat] /\ GrantsInBitmap
  BY PhysMemAssumption DEF Init, GrantsInBitmap, Beyond, Bits
<1>. QED  BY <1>1, <1>2, <1>4, <1>5, <1>6, <1>7, PhysMemAssumption DEF KInv

LEMMA KInvGrant ==
  ASSUME KInv, NEW n \in Sizes, Grant(n)
  PROVE  KInv'
<1>1. PICK s \in 0 .. MaxBlocks - 1 :
        /\ FirstFit(s, n)
        /\ memory_map' = memory_map \cup Extent(s, n)
        /\ used_blocks' = used_blocks + n
        /\ ret' = s
        /\ held' = [b \in Bits |-> held[b] + IF b \in Extent(s, n) THEN 1 ELSE 0]
  BY DEF Grant
<1>2. n \in Nat \ {0}
  BY <1>1, PhysMemAssumption DEF FirstFit, FitsAt
<1>3. CountAllows(n) /\ base' = base
  BY DEF Grant
<1>4. s = Top
  BY <1>1, <1>2, <1>3, FirstFitIsTop
<1>5. Top + n <= MaxBlocks /\ Top \in Nat
  BY <1>2, <1>3, TopFits
<1>6. Top' = Top + n
  BY <1>1, <1>3, <1>2 DEF Top, Uncounted, KInv
<1>7. Extent(s, n) \subseteq 0 .. MaxBlocks - 1
  BY <1>2, <1>4, <1>5, PhysMemAssumption DEF Extent
<1>8. memory_map' \subseteq Bits
  <2>1. 0 .. MaxBlocks - 1 \subseteq Bits
    BY PhysMemAssumption DEF Bits
  <2>2. memory_map \subseteq Bits
    BY DEF KInv
  <2>. QED  BY <1>1, <1>7, <2>1, <2>2
<1>9. ASSUME NEW b \in 0 .. MaxBlocks - 1
      PROVE  b \in memory_map' <=> b < Top'
  <2>1. b \in Extent(s, n) <=> Top <= b /\ b < Top + n
    BY <1>2, <1>4, <1>5 DEF Extent
  <2>2. b \in memory_map <=> b < Top
    BY DEF KInv
  <2>. QED  BY <1>1, <1>2, <1>5, <1>6, <2>1, <2>2
<1>10. held' \in [Bits -> Nat]
  BY <1>1 DEF KInv
<1>11. GrantsInBitmap'
  <2>1. ASSUME NEW b \in Beyond PROVE held'[b] = 0
    <3>1. b \in Bits /\ b \notin Extent(s, n)
      BY <1>7, PhysMemAssumption DEF Beyond, Bits
    <3>. QED  BY <1>1, <3>1 DEF KInv, GrantsInBitmap
  <2>. QED  BY <2>1 DEF GrantsInBitmap, Beyond
<1>12. base' \in Bases /\ base' <= used_blocks' /\ used_blocks' \in Nat
  BY <1>1, <1>2, <1>3, PhysMemAssumption DEF KInv
<1>13. Top' <= MaxBlocks /\ ret' \in 0 .. MaxBlocks - 1
  BY <1>1, <1>5, <1>6
<1>. QED
  BY <1>8, <1>9, <1>10, <1>11, <1>12, <1>13 DEF KInv

LEMMA KInvRefuse ==
  ASSUME KInv, NEW n \in Sizes, Refuse(n)
  PROVE  KInv'
BY PhysMemAssumption DEF KInv, Refuse, Top, Uncounted, GrantsInBitmap, NULL, Bits, Beyond

LEMMA KInvStep == KInv /\ [KernelNext]_vars => KInv'
<1>1. ASSUME KInv, KernelNext PROVE KInv'
  BY <1>1, KInvGrant, KInvRefuse DEF KernelNext
<1>2. ASSUME KInv, UNCHANGED vars PROVE KInv'
  BY <1>2 DEF KInv, vars, Top, Uncounted, GrantsInBitmap, Bits, Beyond
<1>. QED  BY <1>1, <1>2

LEMMA KInvInvariant == KernelSpec => []KInv
BY KInvInit, KInvStep, PTL DEF KernelSpec

(* Under the kernel's calls allocate_blocks never grants a block past the  *)
(* end of the bitmap, whatever the memory after the bitmap contains.       *)
THEOREM KernelGrantsInBitmap == KernelSpec => []GrantsInBitmap
<1>1. KInv => GrantsInBitmap
  BY DEF KInv
<1>. QED  BY <1>1, KInvInvariant, PTL

(* Under the kernel's calls the unsigned free count never wraps.           *)
THEOREM KernelCountInRange == KernelSpec => []CountInRange
<1>1. KInv => CountInRange
  BY PhysMemAssumption DEF KInv, Top, Uncounted, CountInRange
<1>. QED  BY <1>1, KInvInvariant, PTL

-----------------------------------------------------------------------------
(* The free frames of the pool are the run from Top to the end.            *)
LEMMA PoolIsRun ==
  ASSUME KInv
  PROVE  /\ (1 .. MaxBlocks - 1) \ memory_map = Top .. MaxBlocks - 1
         /\ Cardinality((1 .. MaxBlocks - 1) \ memory_map) = MaxBlocks - Top
         /\ Top \in Nat \ {0}
<1>1. Top \in Nat \ {0} /\ Top <= MaxBlocks
  BY PhysMemAssumption DEF KInv, Top, Uncounted
<1>2. (1 .. MaxBlocks - 1) \ memory_map = Top .. MaxBlocks - 1
  BY <1>1, PhysMemAssumption DEF KInv
<1>3. Cardinality(Top .. MaxBlocks - 1) = MaxBlocks - Top
  <2>1. Top \in Int /\ MaxBlocks - 1 \in Int
    BY <1>1, PhysMemAssumption
  <2>2. Cardinality(Top .. MaxBlocks - 1)
          = IF Top > MaxBlocks - 1 THEN 0 ELSE (MaxBlocks - 1) - Top + 1
    BY <2>1, FS_Interval
  <2>. QED  BY <1>1, <2>1, <2>2, PhysMemAssumption
<1>. QED  BY <1>1, <1>2, <1>3

LEMMA PoolGrant ==
  ASSUME KInv, NEW n \in Sizes, Grant(n)
  PROVE  n # 0 /\ Pool!Take(n)
<1>1. PICK s \in 0 .. MaxBlocks - 1 :
        FirstFit(s, n) /\ memory_map' = memory_map \cup Extent(s, n) /\ ret' = s
  BY DEF Grant
<1>2. n \in Nat \ {0}
  BY <1>1, PhysMemAssumption DEF FirstFit, FitsAt
<1>3. s = Top /\ Top + n <= MaxBlocks
  BY <1>1, <1>2, FirstFitIsTop, TopFits DEF Grant
<1>4. Top \in Nat \ {0} /\ (1 .. MaxBlocks - 1) \ memory_map = Top .. MaxBlocks - 1
  BY PoolIsRun
<1>5. s \in 1 .. MaxBlocks - 1
  BY <1>3, <1>4, PhysMemAssumption
<1>6. s .. s + n - 1 \subseteq (1 .. MaxBlocks - 1) \ memory_map
  BY <1>2, <1>3, <1>4, PhysMemAssumption
<1>7. (1 .. MaxBlocks - 1) \ memory_map'
        = ((1 .. MaxBlocks - 1) \ memory_map) \ (s .. s + n - 1)
  BY <1>1 DEF Extent
<1>. QED  BY <1>1, <1>2, <1>5, <1>6, <1>7 DEF Pool!Take

LEMMA PoolRefuse ==
  ASSUME KInv, NEW n \in Sizes, Refuse(n)
  PROVE  Pool!Deny(n)
<1>1. n \in Nat
  BY PhysMemAssumption
<1>2. n # 0 => ~CountAllows(n)
  BY TopFits DEF Refuse
<1>3. n # 0 => MaxBlocks - Top <= n
  BY <1>1, <1>2, PhysMemAssumption DEF KInv, CountAllows, Top, Uncounted
<1>4. n = 0 \/ Cardinality((1 .. MaxBlocks - 1) \ memory_map) <= n
  BY <1>3, PoolIsRun
<1>5. Pool!Cardinality((1 .. MaxBlocks - 1) \ memory_map)
        = Cardinality((1 .. MaxBlocks - 1) \ memory_map)
  BY DEF Pool!Cardinality, Cardinality
<1>. QED  BY <1>4, <1>5 DEF Refuse, Pool!Deny

(* The allocator as the kernel uses it implements the frame pool: grants   *)
(* take free frames only, for good, and a refusal means the pool holds no  *)
(* more than the frames asked for.                                         *)
THEOREM KernelRefinesFramePool == KernelSpec => RefinesFramePool
<1>1. Init => Pool!Init
  BY DEF Init, Pool!Init
<1>2. KInv /\ [KernelNext]_vars
        => [Pool!Next]_<<(1 .. MaxBlocks - 1) \ memory_map, ret>>
  <2>1. ASSUME KInv, NEW n \in Sizes, Grant(n) \/ Refuse(n)
        PROVE  Pool!Next
    BY <2>1, PoolGrant, PoolRefuse DEF Pool!Next
  <2>. QED  BY <2>1 DEF KernelNext, vars
<1>. QED
  BY <1>1, <1>2, KInvInvariant, PTL DEF KernelSpec, RefinesFramePool, Pool!Spec
-----------------------------------------------------------------------------
(* What survives frees and reservations: a held block has its bit set and  *)
(* is held once, reserved blocks keep their bits, and the count is exact.  *)
AInv ==
  /\ TypeOK
  /\ NoDoubleGrant
  /\ NeverReserved
  /\ \A b \in Bits : held[b] > 0 => b \in memory_map
  /\ (0 .. base - 1) \cup {0} \subseteq memory_map
  /\ CountExact

LEMMA CountedFinite ==
  ASSUME TypeOK
  PROVE  IsFiniteSet(Counted)
<1>1. Counted \subseteq Bits
  BY PhysMemAssumption DEF Counted, Beyond, Bits
<1>2. IsFiniteSet(Bits)
  <2>1. MaxBlocks + Slack - 1 \in Int
    BY PhysMemAssumption
  <2>. QED  BY <2>1, FS_Interval DEF Bits
<1>. QED  BY <1>1, <1>2, FS_Subset

(* The blocks of a run of n: an interval of n elements inside Bits.        *)
LEMMA ExtentFacts ==
  ASSUME NEW s \in 0 .. MaxBlocks - 1, NEW n \in Sizes
  PROVE  /\ Extent(s, n) \subseteq Bits
         /\ IsFiniteSet(Extent(s, n))
         /\ Cardinality(Extent(s, n)) = n
<1>1. s \in Nat /\ n \in Nat /\ n <= Slack /\ s + n - 1 \in Int
  BY PhysMemAssumption
<1>2. Extent(s, n) \subseteq Bits
  BY <1>1, PhysMemAssumption DEF Extent, Bits
<1>3. /\ IsFiniteSet(Extent(s, n))
      /\ Cardinality(Extent(s, n)) = IF s > s + n - 1 THEN 0 ELSE s + n - 1 - s + 1
  BY <1>1, FS_Interval DEF Extent
<1>. QED  BY <1>1, <1>2, <1>3

(* Adding an extent none of whose blocks is counted adds n to the count.   *)
LEMMA CountAdd ==
  ASSUME TypeOK, NEW s \in 0 .. MaxBlocks - 1, NEW n \in Sizes,
         Extent(s, n) \cap Counted = {}
  PROVE  Cardinality(Counted \cup Extent(s, n)) = Cardinality(Counted) + n
<1>1. Cardinality(Counted \cup Extent(s, n))
        = Cardinality(Counted) + Cardinality(Extent(s, n))
          - Cardinality(Counted \cap Extent(s, n))
  BY CountedFinite, ExtentFacts, FS_Union
<1>2. Counted \cap Extent(s, n) = {}
  OBVIOUS
<1>3. Cardinality(Counted) \in Nat /\ n \in Nat
  BY CountedFinite, FS_CardinalityType, PhysMemAssumption
<1>4. Cardinality(Counted \cap Extent(s, n)) = 0
  BY <1>2, FS_EmptySet
<1>5. Cardinality(Extent(s, n)) = n
  BY ExtentFacts
<1>. QED  BY <1>1, <1>3, <1>4, <1>5

(* Removing an extent that is counted entirely takes n from the count.     *)
LEMMA CountRemove ==
  ASSUME TypeOK, NEW s \in 0 .. MaxBlocks - 1, NEW n \in Sizes,
         Extent(s, n) \subseteq Counted
  PROVE  Cardinality(Counted \ Extent(s, n)) = Cardinality(Counted) - n
<1>1. Cardinality(Counted \ Extent(s, n))
        = Cardinality(Counted) - Cardinality(Counted \cap Extent(s, n))
  BY CountedFinite, FS_Difference
<1>2. Counted \cap Extent(s, n) = Extent(s, n)
  OBVIOUS
<1>. QED  BY <1>1, <1>2, ExtentFacts

LEMMA AInvInit == Init => AInv
<1>. SUFFICES ASSUME Init PROVE AInv
  OBVIOUS
<1>1. base \in 0 .. MaxBlocks /\ base \in Bases /\ used_blocks = base
  BY PhysMemAssumption DEF Init, RegionCount
<1>2. PICK garbage \in SUBSET Beyond : memory_map = RegionMap(base, garbage)
  BY DEF Init
<1>3. TypeOK
  <2>1. memory_map \subseteq Bits
    BY <1>1, <1>2, PhysMemAssumption DEF RegionMap, Beyond, Bits
  <2>. QED  BY <1>1, <2>1, PhysMemAssumption DEF Init, TypeOK, NULL
<1>4. \A b \in Bits : held[b] = 0
  BY DEF Init
<1>5. (0 .. base - 1) \cup {0} \subseteq Bits
  BY <1>1, PhysMemAssumption DEF Bits
<1>6. Counted = 0 .. (base + Uncounted) - 1
  <2>1. {b \in Beyond : held[b] > 0} = {}
    BY <1>4, PhysMemAssumption DEF Beyond, Bits
  <2>2. memory_map \cap (0 .. MaxBlocks - 1) = (0 .. base - 1) \cup {0}
    BY <1>1, <1>2, PhysMemAssumption DEF RegionMap, Beyond
  <2>3. (0 .. base - 1) \cup {0} = 0 .. (base + Uncounted) - 1
    BY <1>1 DEF Uncounted
  <2>. QED  BY <2>1, <2>2, <2>3 DEF Counted
<1>7. CountExact
  <2>1. base + Uncounted \in Nat \ {0}
    BY <1>1 DEF Uncounted
  <2>2. (base + Uncounted) - 1 \in Int
    BY <2>1
  <2>3. Cardinality(0 .. (base + Uncounted) - 1)
          = IF 0 > (base + Uncounted) - 1 THEN 0 ELSE (base + Uncounted) - 1 - 0 + 1
    BY <2>2, FS_Interval
  <2>4. Cardinality(0 .. (base + Uncounted) - 1) = base + Uncounted
    BY <2>1, <2>3
  <2>. QED  BY <1>1, <1>6, <2>4 DEF CountExact
<1>8. NoDoubleGrant /\ NeverReserved
  BY <1>4, <1>5 DEF NoDoubleGrant, NeverReserved
<1>9. \A b \in Bits : held[b] > 0 => b \in memory_map
  BY <1>4
<1>10. (0 .. base - 1) \cup {0} \subseteq memory_map
  BY <1>2 DEF RegionMap
<1>. QED  BY <1>3, <1>7, <1>8, <1>9, <1>10 DEF AInv

(* A held or reserved block is never in an extent whose bits are 0, and    *)
(* neither is a counted one.                                               *)
LEMMA FitIsUnused ==
  ASSUME AInv, NEW s \in 0 .. MaxBlocks - 1, NEW n \in Sizes, FitsAt(s, n)
  PROVE  /\ Extent(s, n) \cap Counted = {}
         /\ \A b \in Extent(s, n) : held[b] = 0
         /\ Extent(s, n) \cap ((0 .. base - 1) \cup {0}) = {}
<1>1. Extent(s, n) \cap memory_map = {} /\ Extent(s, n) \subseteq Bits
  BY ExtentFacts DEF FitsAt
<1>2. \A b \in Extent(s, n) : held[b] = 0
  <2>1. ASSUME NEW b \in Extent(s, n) PROVE held[b] = 0
    <3>1. b \in Bits /\ held[b] \in Nat /\ ~(held[b] > 0)
      BY <1>1 DEF AInv, TypeOK
    <3>. QED  BY <3>1
  <2>. QED  BY <2>1
<1>3. Extent(s, n) \cap Counted = {}
  BY <1>1, <1>2 DEF Counted
<1>. QED  BY <1>1, <1>2, <1>3 DEF AInv

LEMMA AInvGrant ==
  ASSUME AInv, NEW n \in Sizes, Grant(n)
  PROVE  AInv'
<1>1. PICK s \in 0 .. MaxBlocks - 1 :
        /\ FirstFit(s, n)
        /\ memory_map' = memory_map \cup Extent(s, n)
        /\ used_blocks' = used_blocks + n
        /\ ret' = s
        /\ held' = [b \in Bits |-> held[b] + IF b \in Extent(s, n) THEN 1 ELSE 0]
  BY DEF Grant
<1>2. FitsAt(s, n) /\ base' = base /\ n \in Nat
  BY <1>1, PhysMemAssumption DEF FirstFit, Grant
<1>3. TypeOK
  BY DEF AInv
<1>4. /\ Extent(s, n) \cap Counted = {}
      /\ \A b \in Extent(s, n) : held[b] = 0
      /\ Extent(s, n) \cap ((0 .. base - 1) \cup {0}) = {}
  BY <1>2, FitIsUnused
<1>5. Extent(s, n) \subseteq Bits
  BY ExtentFacts
<1>6. \A b \in Bits : held'[b] = IF b \in Extent(s, n) THEN 1 ELSE held[b]
  BY <1>1, <1>3, <1>4 DEF TypeOK
<1>7. TypeOK'
  BY <1>1, <1>2, <1>3, <1>5 DEF TypeOK
<1>8. NoDoubleGrant'
  BY <1>6 DEF AInv, NoDoubleGrant
<1>9. (0 .. base - 1) \cup {0} \subseteq Bits
  BY <1>3, PhysMemAssumption DEF TypeOK, Bits
<1>10. NeverReserved'
  BY <1>2, <1>4, <1>6, <1>9 DEF AInv, NeverReserved
<1>11. \A b \in Bits : held'[b] > 0 => b \in memory_map'
  BY <1>1, <1>6 DEF AInv
<1>12. (0 .. base' - 1) \cup {0} \subseteq memory_map'
  BY <1>1, <1>2 DEF AInv
<1>13. Counted' = Counted \cup Extent(s, n)
  <2>1. {b \in Beyond : held'[b] > 0}
          = {b \in Beyond : held[b] > 0} \cup (Extent(s, n) \cap Beyond)
    <3>1. Beyond \subseteq Bits
      BY PhysMemAssumption DEF Beyond, Bits
    <3>. QED  BY <1>6, <3>1
  <2>2. Extent(s, n) \subseteq (0 .. MaxBlocks - 1) \cup Beyond
    BY <1>5, PhysMemAssumption DEF Bits, Beyond
  <2>. QED  BY <1>1, <2>1, <2>2 DEF Counted
<1>14. CountExact'
  <2>1. Cardinality(Counted') = Cardinality(Counted) + n
    BY <1>3, <1>4, <1>13, CountAdd
  <2>2. Uncounted' = Uncounted /\ Uncounted \in Nat
    BY <1>2 DEF Uncounted
  <2>. QED  BY <1>1, <1>2, <1>3, <2>1, <2>2 DEF AInv, CountExact, TypeOK
<1>. QED
  BY <1>7, <1>8, <1>10, <1>11, <1>12, <1>14 DEF AInv

LEMMA AInvRefuse ==
  ASSUME AInv, NEW n \in Sizes, Refuse(n)
  PROVE  AInv'
<1>1. UNCHANGED <<base, memory_map, used_blocks, held>> /\ ret' = NULL
  BY DEF Refuse
<1>2. TypeOK'
  BY <1>1, PhysMemAssumption DEF AInv, TypeOK, NULL
<1>3. CountExact'
  BY <1>1 DEF AInv, CountExact, Counted, Uncounted
<1>. QED
  BY <1>1, <1>2, <1>3 DEF AInv, NoDoubleGrant, NeverReserved

LEMMA AInvFree ==
  ASSUME AInv, NEW n \in Sizes, n # 0, NEW s \in 0 .. MaxBlocks - 1, FreeBlocks(s, n)
  PROVE  AInv'
<1>1. /\ Extent(s, n) \subseteq Bits
      /\ \A b \in Extent(s, n) : held[b] > 0
      /\ memory_map' = memory_map \ Extent(s, n)
      /\ used_blocks' = used_blocks - n
      /\ held' = [b \in Bits |-> held[b] - IF b \in Extent(s, n) THEN 1 ELSE 0]
      /\ base' = base /\ ret' = ret
  BY DEF FreeBlocks
<1>2. TypeOK /\ n \in Nat
  BY PhysMemAssumption DEF AInv
<1>3. \A b \in Extent(s, n) : held[b] = 1
  <2>1. ASSUME NEW b \in Extent(s, n) PROVE held[b] = 1
    <3>1. b \in Bits /\ held[b] \in Nat /\ held[b] > 0 /\ held[b] <= 1
      BY <1>1, <1>2 DEF AInv, TypeOK, NoDoubleGrant
    <3>. QED  BY <3>1
  <2>. QED  BY <2>1
<1>4. \A b \in Bits : held'[b] = IF b \in Extent(s, n) THEN 0 ELSE held[b]
  BY <1>1, <1>2, <1>3 DEF TypeOK
<1>5. (0 .. base - 1) \cup {0} \subseteq Bits
  BY <1>2, PhysMemAssumption DEF TypeOK, Bits
<1>6. Extent(s, n) \cap ((0 .. base - 1) \cup {0}) = {}
  BY <1>3 DEF AInv, NeverReserved
<1>7. Extent(s, n) \subseteq Counted
  <2>1. Extent(s, n) \subseteq memory_map
    BY <1>1 DEF AInv
  <2>2. Extent(s, n) \subseteq (0 .. MaxBlocks - 1) \cup Beyond
    BY <1>1, PhysMemAssumption DEF Bits, Beyond
  <2>. QED  BY <1>1, <2>1, <2>2 DEF Counted
<1>8. Counted' = Counted \ Extent(s, n)
  <2>1. {b \in Beyond : held'[b] > 0}
          = {b \in Beyond : held[b] > 0} \ Extent(s, n)
    <3>1. Beyond \subseteq Bits
      BY PhysMemAssumption DEF Beyond, Bits
    <3>. QED  BY <1>4, <3>1
  <2>. QED  BY <1>1, <2>1 DEF Counted
<1>9. Cardinality(Counted') = Cardinality(Counted) - n
  BY <1>2, <1>7, <1>8, CountRemove
<1>10. Uncounted' = Uncounted /\ Uncounted \in Nat
  BY <1>1 DEF Uncounted
<1>11. CountExact'
  BY <1>1, <1>2, <1>9, <1>10 DEF AInv, CountExact, TypeOK
<1>12. used_blocks' \in Nat
  \* Block 0 is counted among the bits but never held, so n of the counted
  \* blocks are held and at least Uncounted of them are not.
  <2>1. Cardinality(Counted') \in Nat
    BY <1>8, CountedFinite, <1>2, FS_Difference, FS_CardinalityType
  <2>2. base = 0 => 0 \in Counted'
    BY <1>6, <1>8, PhysMemAssumption DEF AInv, Counted
  <2>3. base = 0 => Cardinality(Counted') # 0
    BY <2>2, <1>8, CountedFinite, <1>2, FS_Difference, FS_EmptySet
  <2>4. Cardinality(Counted') >= Uncounted
    BY <2>1, <2>3 DEF Uncounted
  <2>5. used_blocks' + Uncounted = Cardinality(Counted')
    BY <1>10, <1>11 DEF CountExact
  <2>6. used_blocks' \in Int
    BY <1>1, <1>2 DEF TypeOK
  <2>. QED  BY <2>1, <2>4, <2>5, <2>6, <1>10
<1>13. TypeOK'
  <2>1. held' \in [Bits -> Nat]
    BY <1>1, <1>2, <1>4 DEF TypeOK
  <2>. QED  BY <1>1, <1>2, <1>12, <2>1 DEF TypeOK
<1>14. NoDoubleGrant' /\ NeverReserved'
  BY <1>1, <1>4, <1>5 DEF AInv, NoDoubleGrant, NeverReserved
<1>15. \A b \in Bits : held'[b] > 0 => b \in memory_map'
  BY <1>1, <1>4 DEF AInv
<1>16. (0 .. base' - 1) \cup {0} \subseteq memory_map'
  BY <1>1, <1>6 DEF AInv
<1>. QED
  BY <1>11, <1>13, <1>14, <1>15, <1>16 DEF AInv

LEMMA AInvDeinitialize ==
  ASSUME AInv, NEW n \in Sizes, NEW s \in 0 .. MaxBlocks - 1, DeinitializeRegion(s, n)
  PROVE  AInv'
<1>1. /\ Extent(s, n) \subseteq base .. MaxBlocks - 1
      /\ FitsAt(s, n)
      /\ memory_map' = memory_map \cup Extent(s, n)
      /\ used_blocks' = used_blocks + n
      /\ base' = base /\ ret' = ret /\ held' = held
  BY DEF DeinitializeRegion
<1>2. TypeOK /\ n \in Nat
  BY PhysMemAssumption DEF AInv
<1>3. Extent(s, n) \cap Counted = {} /\ Extent(s, n) \subseteq Bits
  BY <1>1, FitIsUnused, ExtentFacts
<1>4. Counted' = Counted \cup Extent(s, n)
  <2>1. Extent(s, n) \subseteq 0 .. MaxBlocks - 1
    BY <1>1, <1>2, PhysMemAssumption DEF TypeOK
  <2>. QED  BY <1>1, <2>1 DEF Counted
<1>5. Cardinality(Counted') = Cardinality(Counted) + n
  BY <1>2, <1>3, <1>4, CountAdd
<1>6. Uncounted' = Uncounted /\ Uncounted \in Nat
  BY <1>1 DEF Uncounted
<1>7. CountExact'
  BY <1>1, <1>2, <1>5, <1>6 DEF AInv, CountExact, TypeOK
<1>8. TypeOK'
  BY <1>1, <1>2, <1>3 DEF TypeOK
<1>9. NoDoubleGrant' /\ NeverReserved'
  BY <1>1 DEF AInv, NoDoubleGrant, NeverReserved
<1>10. /\ \A b \in Bits : held'[b] > 0 => b \in memory_map'
       /\ (0 .. base' - 1) \cup {0} \subseteq memory_map'
  BY <1>1 DEF AInv
<1>. QED
  BY <1>7, <1>8, <1>9, <1>10 DEF AInv

LEMMA AInvStep == AInv /\ [ApiNext]_vars => AInv'
<1>1. ASSUME AInv, ApiNext PROVE AInv'
  BY <1>1, AInvGrant, AInvRefuse, AInvFree, AInvDeinitialize DEF ApiNext
<1>2. ASSUME AInv, UNCHANGED vars PROVE AInv'
  <2>1. TypeOK' /\ NoDoubleGrant' /\ NeverReserved'
    BY <1>2 DEF AInv, vars, TypeOK, NoDoubleGrant, NeverReserved
  <2>2. CountExact'
    BY <1>2 DEF AInv, vars, CountExact, Counted, Uncounted
  <2>. QED  BY <1>2, <2>1, <2>2 DEF AInv, vars
<1>. QED  BY <1>1, <1>2

LEMMA AInvInvariant == ApiSpec => []AInv
BY AInvInit, AInvStep, PTL DEF ApiSpec

(* Type correctness of the allocator; the used count never drops below 0.  *)
THEOREM ApiTypeOK == ApiSpec => []TypeOK
<1>1. AInv => TypeOK
  BY DEF AInv
<1>. QED  BY <1>1, AInvInvariant, PTL

(* Whatever is freed or reserved in between, and even when a run spills    *)
(* past the bitmap, no block has two owners.                               *)
THEOREM ApiNoDoubleGrant == ApiSpec => []NoDoubleGrant
<1>1. AInv => NoDoubleGrant
  BY DEF AInv
<1>. QED  BY <1>1, AInvInvariant, PTL

(* Block 0, the kernel image and the bitmap are never granted.             *)
THEOREM ApiNeverReserved == ApiSpec => []NeverReserved
<1>1. AInv => NeverReserved
  BY DEF AInv
<1>. QED  BY <1>1, AInvInvariant, PTL

(* used_blocks is exact, up to block 0 when the region starts there.       *)
THEOREM ApiCountExact == ApiSpec => []CountExact
<1>1. AInv => CountExact
  BY DEF AInv
<1>. QED  BY <1>1, AInvInvariant, PTL

(***************************************************************************)
(* The kernel heap.                                                        *)
(***************************************************************************)
HInv ==
  /\ HeapTypes
  /\ BlocksDisjoint
  /\ OwnersServed
  /\ want % 8 = 0
  /\ \A b \in Blocks : hdr[b].size % 8 = 0
  /\ \A b \in DOMAIN live : hdr[b].free = 0

-----------------------------------------------------------------------------
(* ALIGN8 returns a multiple of 8 that is at least its argument, and the   *)
(* argument itself when that is one.                                       *)
LEMMA Align8Facts ==
  ASSUME NEW n \in Nat
  PROVE  /\ Align8(n) \in Nat
         /\ Align8(n) % 8 = 0
         /\ Align8(n) >= n
         /\ n % 8 = 0 => Align8(n) = n
BY SMTT(30) DEF Align8

LEMMA WithoutFacts ==
  ASSUME NEW f, NEW a
  PROVE  /\ DOMAIN Without(f, a) = DOMAIN f \ {a}
         /\ \A x \in DOMAIN f \ {a} : Without(f, a)[x] = f[x]
BY DEF Without

LEMMA HInvInit == HeapInit => HInv
<1>. SUFFICES ASSUME HeapInit PROVE HInv
  OBVIOUS
<1>1. Blocks = {} /\ DOMAIN live = {}
  BY DEF HeapInit, Blocks
<1>2. hdr \in [Blocks -> [size : Nat, free : {0, 1}, next : Blocks \cup {Nil}]]
  BY <1>1 DEF HeapInit, Blocks
<1>3. live \in [DOMAIN live -> Nat]
  BY <1>1 DEF HeapInit
<1>4. heap_ptr \in HeapStart .. HeapEnd
  BY HeapAssumption DEF HeapInit
<1>5. HeapTypes
  BY <1>1, <1>2, <1>3, <1>4 DEF HeapInit, HeapTypes
<1>. QED
  BY <1>1, <1>5 DEF HeapInit, HInv, BlocksDisjoint, OwnersServed

(* Steps that leave the heap itself alone.                                 *)
LEMMA HInvHeapUnchanged ==
  ASSUME HInv, UNCHANGED chain, pc' \in {"idle", "find"},
         p' \in Blocks \cup {Nil}, want' \in Nat, want' % 8 = 0
  PROVE  HInv'
BY DEF HInv, chain, HeapTypes, BlocksDisjoint, OwnersServed, Blocks, EndOf, Nil

LEMMA HInvKmalloc ==
  ASSUME HInv, NEW n \in Requests, Kmalloc(n)
  PROVE  HInv'
<1>1. want' \in Nat /\ want' % 8 = 0
  BY Align8Facts, HeapAssumption DEF Kmalloc
<1>2. p' \in Blocks \cup {Nil} /\ pc' \in {"idle", "find"} /\ UNCHANGED chain
  BY DEF HInv, HeapTypes, Kmalloc
<1>. QED  BY <1>1, <1>2, HInvHeapUnchanged

LEMMA HInvFindNext ==
  ASSUME HInv, FindNext
  PROVE  HInv'
<1>1. p \in Blocks /\ UNCHANGED <<pc, want, chain>>
  BY DEF HInv, HeapTypes, FindNext, Nil
<1>2. p' \in Blocks \cup {Nil}
  BY <1>1 DEF HInv, HeapTypes, FindNext
<1>. QED  BY <1>1, <1>2, HInvHeapUnchanged DEF HInv, HeapTypes

LEMMA HInvOutOfMemory ==
  ASSUME HInv, OutOfMemory
  PROVE  HInv'
<1>1. want' = 0 /\ pc' = "idle" /\ p' \in Blocks \cup {Nil} /\ UNCHANGED chain
  BY DEF HInv, HeapTypes, OutOfMemory
<1>. QED  BY <1>1, HInvHeapUnchanged

(* The typing of a header, in the form the step proofs use.                *)
LEMMA HeaderType ==
  ASSUME HInv, NEW b \in Blocks
  PROVE  /\ b \in Nat \ {Nil}
         /\ hdr[b].size \in Nat /\ hdr[b].size % 8 = 0
         /\ hdr[b].free \in {0, 1}
         /\ hdr[b].next \in Blocks \cup {Nil}
         /\ hdr[b] = Header(hdr[b].size, hdr[b].free, hdr[b].next)
<1>1. hdr[b] \in [size : Nat, free : {0, 1}, next : Blocks \cup {Nil}]
  BY DEF HInv, HeapTypes
<1>2. b \in Nat \ {Nil}
  BY DEF HInv, HeapTypes
<1>3. hdr[b] = Header(hdr[b].size, hdr[b].free, hdr[b].next)
  BY <1>1 DEF Header
<1>. QED  BY <1>1, <1>2, <1>3 DEF HInv

(* Where a block lies.                                                     *)
LEMMA BlockRange ==
  ASSUME HInv, NEW b \in Blocks
  PROVE  /\ EndOf(b) = b + 16 + hdr[b].size
         /\ EndOf(b) \in Nat /\ b \in Nat /\ b < EndOf(b)
         /\ HeapStart <= b /\ EndOf(b) <= heap_ptr
         /\ \A c \in Blocks \ {b} : EndOf(b) <= c \/ EndOf(c) <= b
<1>1. b \in Nat /\ hdr[b].size \in Nat
  BY HeaderType
<1>2. EndOf(b) = b + 16 + hdr[b].size
  BY DEF EndOf, HeaderSize
<1>. QED  BY <1>1, <1>2 DEF HInv, BlocksDisjoint

LEMMA HInvKfree ==
  ASSUME HInv, NEW b \in DOMAIN live, Kfree(b)
  PROVE  HInv'
<1>1. /\ hdr' = With(hdr, b, Header(hdr[b].size, 1, free_list_head))
      /\ free_list_head' = b
      /\ live' = Without(live, b)
      /\ refreed' \in BOOLEAN
      /\ UNCHANGED <<heap_ptr, pc, p, want>>
  BY DEF Kfree
<1>2. b \in Blocks /\ free_list_head \in Blocks \cup {Nil}
  BY DEF HInv, HeapTypes
<1>3. /\ Blocks' = Blocks
      /\ hdr'[b] = Header(hdr[b].size, 1, free_list_head)
      /\ \A x \in Blocks \ {b} : hdr'[x] = hdr[x]
  BY <1>1, <1>2 DEF With, Blocks
<1>4. \A x \in Blocks : hdr'[x].size = hdr[x].size
  BY <1>3 DEF Header
<1>5. hdr' \in [Blocks' -> [size : Nat, free : {0, 1}, next : Blocks' \cup {Nil}]]
  <2>1. hdr' = [x \in Blocks |-> hdr'[x]]
    BY <1>1, <1>2 DEF With, Blocks
  <2>2. ASSUME NEW x \in Blocks
        PROVE  hdr'[x] \in [size : Nat, free : {0, 1}, next : Blocks \cup {Nil}]
    <3>1. hdr[x].size \in Nat /\ hdr[x].free \in {0, 1} /\ hdr[x].next \in Blocks \cup {Nil}
      BY HeaderType
    <3>2. hdr'[x] = Header(hdr[x].size, 1, free_list_head) \/ hdr'[x] = hdr[x]
      BY <1>3
    <3>3. hdr[x] \in [size : Nat, free : {0, 1}, next : Blocks \cup {Nil}]
      BY DEF HInv, HeapTypes
    <3>. QED  BY <1>2, <3>1, <3>2, <3>3 DEF Header
  <2>. QED  BY <1>3, <2>1, <2>2
<1>6. /\ DOMAIN live' = DOMAIN live \ {b}
      /\ \A x \in DOMAIN live' : live'[x] = live[x]
      /\ live' \in [DOMAIN live' -> Nat]
  BY <1>1, WithoutFacts DEF HInv, HeapTypes, Without
<1>7. HeapTypes'
  BY <1>1, <1>2, <1>3, <1>5, <1>6 DEF HInv, HeapTypes
<1>8. BlocksDisjoint'
  BY <1>1, <1>3, <1>4 DEF HInv, BlocksDisjoint, EndOf
<1>9. OwnersServed'
  BY <1>4, <1>6 DEF HInv, OwnersServed, HeapTypes
<1>10. \A x \in DOMAIN live' : hdr'[x].free = 0
  BY <1>3, <1>6 DEF HInv, HeapTypes
<1>. QED
  BY <1>1, <1>3, <1>4, <1>7, <1>8, <1>9, <1>10 DEF HInv

LEMMA HInvCreateBlock ==
  ASSUME HInv, CreateBlock
  PROVE  HInv'
<1>1. /\ p = Nil /\ p' = p /\ Room
      /\ hdr' = With(hdr, heap_ptr, Header(want, 0, Nil))
      /\ live' = With(live, heap_ptr, want)
      /\ heap_ptr' = heap_ptr + BlockSpace
      /\ pc' = "idle" /\ want' = 0
      /\ free_list_head' = free_list_head /\ refreed' = refreed
  BY DEF CreateBlock
<1>2. want \in Nat /\ want % 8 = 0 /\ heap_ptr \in Nat
  BY HeapAssumption DEF HInv, HeapTypes
<1>3. BlockSpace = 16 + want
  <2>1. 16 + want \in Nat /\ (16 + want) % 8 = 0
    BY <1>2
  <2>. QED  BY <2>1, Align8Facts DEF BlockSpace, HeaderSize
<1>4. heap_ptr' \in HeapStart .. HeapEnd /\ heap_ptr' = heap_ptr + 16 + want
  BY <1>1, <1>2, <1>3, HeapAssumption DEF Room, HeaderSize, HInv, HeapTypes
<1>5. heap_ptr \notin Blocks /\ heap_ptr \in Nat \ {Nil}
  <2>1. ASSUME NEW b \in Blocks PROVE b < heap_ptr
    BY <1>2, BlockRange
  <2>. QED  BY <1>2, <2>1, HeapAssumption DEF HInv, HeapTypes, Nil
<1>6. /\ Blocks' = Blocks \cup {heap_ptr}
      /\ hdr'[heap_ptr] = Header(want, 0, Nil)
      /\ \A x \in Blocks : hdr'[x] = hdr[x]
  BY <1>1, <1>5 DEF With, Blocks
<1>7. hdr' \in [Blocks' -> [size : Nat, free : {0, 1}, next : Blocks' \cup {Nil}]]
  <2>1. hdr' = [x \in Blocks' |-> hdr'[x]]
    BY <1>1, <1>6 DEF With, Blocks
  <2>2. ASSUME NEW x \in Blocks'
        PROVE  hdr'[x] \in [size : Nat, free : {0, 1}, next : Blocks' \cup {Nil}]
    <3>1. CASE x = heap_ptr
      BY <1>2, <1>6, <3>1 DEF Header
    <3>2. CASE x \in Blocks
      <4>1. hdr[x] \in [size : Nat, free : {0, 1}, next : Blocks \cup {Nil}]
        BY <3>2 DEF HInv, HeapTypes
      <4>. QED  BY <1>6, <3>2, <4>1
    <3>. QED  BY <1>6, <3>1, <3>2
  <2>. QED  BY <2>1, <2>2
<1>8. /\ DOMAIN live' = DOMAIN live \cup {heap_ptr}
      /\ live'[heap_ptr] = want
      /\ \A x \in DOMAIN live : live'[x] = live[x]
  <2>1. heap_ptr \notin DOMAIN live
    BY <1>5 DEF HInv, HeapTypes
  <2>. QED  BY <1>1, <2>1 DEF With
<1>9. live' \in [DOMAIN live' -> Nat]
  <2>1. live' = [x \in DOMAIN live' |-> live'[x]]
    BY <1>1, <1>8 DEF With
  <2>2. \A x \in DOMAIN live' : live'[x] \in Nat
    BY <1>2, <1>8 DEF HInv, HeapTypes
  <2>. QED  BY <2>1, <2>2
<1>10. HeapTypes'
  <2>1. Blocks' \subseteq Nat \ {Nil} /\ DOMAIN live' \subseteq Blocks'
    BY <1>5, <1>6, <1>8 DEF HInv, HeapTypes
  <2>2. free_list_head' \in Blocks' \cup {Nil} /\ p' \in Blocks' \cup {Nil}
    BY <1>1, <1>6 DEF HInv, HeapTypes
  <2>. QED
    BY <1>1, <1>4, <1>7, <1>9, <2>1, <2>2 DEF HInv, HeapTypes
<1>11. BlocksDisjoint'
  <2>1. \A x \in Blocks : (EndOf(x))' = EndOf(x)
    BY <1>6 DEF EndOf
  <2>3. heap_ptr + HeaderSize + hdr'[heap_ptr].size = heap_ptr'
    BY <1>4, <1>6 DEF Header, HeaderSize
  <2>4. ASSUME NEW x \in Blocks'
        PROVE  /\ HeapStart <= x /\ x + HeaderSize + hdr'[x].size <= heap_ptr'
               /\ \A y \in Blocks' \ {x} :
                    \/ x + HeaderSize + hdr'[x].size <= y
                    \/ y + HeaderSize + hdr'[y].size <= x
    <3>1. CASE x = heap_ptr
      <4>1. \A y \in Blocks : y + HeaderSize + hdr'[y].size <= x
        BY <1>6, <3>1, BlockRange DEF EndOf
      <4>2. HeapStart <= x /\ x + HeaderSize + hdr'[x].size <= heap_ptr'
        BY <1>2, <1>4, <2>3, <3>1 DEF HInv, HeapTypes
      <4>. QED  BY <1>6, <3>1, <4>1, <4>2
    <3>2. CASE x \in Blocks
      <4>1. HeapStart <= x /\ x + HeaderSize + hdr'[x].size <= heap_ptr
        BY <1>6, <3>2, BlockRange DEF EndOf
      <4>2. x + HeaderSize + hdr'[x].size <= heap_ptr'
        BY <1>2, <1>4, <1>6, <3>2, <4>1, HeaderType DEF HeaderSize
      <4>3. ASSUME NEW y \in Blocks' \ {x}
            PROVE  \/ x + HeaderSize + hdr'[x].size <= y
                   \/ y + HeaderSize + hdr'[y].size <= x
        <5>1. CASE y = heap_ptr
          BY <4>1, <5>1
        <5>2. CASE y \in Blocks
          BY <1>6, <3>2, <5>2 DEF HInv, BlocksDisjoint, EndOf
        <5>. QED  BY <1>6, <5>1, <5>2
      <4>. QED  BY <4>1, <4>2, <4>3
    <3>. QED  BY <1>6, <3>1, <3>2
  <2>. QED  BY <2>4 DEF BlocksDisjoint, EndOf
<1>12. OwnersServed'
  BY <1>2, <1>6, <1>8 DEF HInv, HeapTypes, OwnersServed, Header
<1>13. \A x \in Blocks' : hdr'[x].size % 8 = 0
  BY <1>2, <1>6 DEF HInv, Header
<1>14. \A x \in DOMAIN live' : hdr'[x].free = 0
  BY <1>6, <1>8 DEF HInv, HeapTypes, Header
<1>. QED
  BY <1>1, <1>10, <1>11, <1>12, <1>13, <1>14 DEF HInv

(* Cutting block p in two leaves every other block where it was.           *)
LEMMA SplitFacts ==
  ASSUME HInv, p \in Blocks, Fits(p), Splits(p), hdr' = HandOut(p)
  PROVE  /\ SplitAt(p) = p + 16 + want
         /\ SplitAt(p) \in Nat \ {Nil} /\ SplitAt(p) \notin Blocks
         /\ Blocks' = Blocks \cup {SplitAt(p)}
         /\ hdr'[p] = Header(want, 0, SplitAt(p))
         /\ hdr'[SplitAt(p)] = Header(hdr[p].size - want - 16, 1, hdr[p].next)
         /\ \A x \in Blocks \ {p} : hdr'[x] = hdr[x]
         /\ hdr' = [x \in Blocks' |-> hdr'[x]]
<1>1. want \in Nat /\ p \in Nat /\ hdr[p].size \in Nat /\ hdr[p].size > want + 16
  BY HeaderType DEF HInv, HeapTypes, Splits, HeaderSize
<1>2. SplitAt(p) = p + 16 + want
  BY DEF SplitAt, HeaderSize
<1>3. p < SplitAt(p) /\ SplitAt(p) < EndOf(p) /\ SplitAt(p) \in Nat \ {Nil}
  BY <1>1, <1>2, BlockRange DEF Nil
<1>4. SplitAt(p) \notin Blocks
  <2>1. ASSUME NEW c \in Blocks \ {p} PROVE c # SplitAt(p)
    <3>1. EndOf(p) <= c \/ EndOf(c) <= p
      BY BlockRange
    <3>2. c \in Nat /\ c < EndOf(c) /\ EndOf(c) \in Nat /\ EndOf(p) \in Nat
      BY BlockRange
    <3>. QED  BY <1>1, <1>3, <3>1, <3>2
  <2>. QED  BY <1>1, <1>3, <2>1
<1>5. hdr' = With(With(hdr, SplitAt(p),
                       Header(hdr[p].size - want - 16, 1, hdr[p].next)),
                  p, Header(want, 0, SplitAt(p)))
  BY DEF HandOut, HeaderSize
<1>6. Blocks' = Blocks \cup {SplitAt(p)} /\ hdr' = [x \in Blocks' |-> hdr'[x]]
  BY <1>5 DEF With, Blocks
<1>7. hdr'[p] = Header(want, 0, SplitAt(p))
  BY <1>5 DEF With, Blocks
<1>8. /\ hdr'[SplitAt(p)] = Header(hdr[p].size - want - 16, 1, hdr[p].next)
      /\ \A x \in Blocks \ {p} : hdr'[x] = hdr[x]
  BY <1>1, <1>3, <1>4, <1>5 DEF With, Blocks
<1>. QED  BY <1>2, <1>3, <1>4, <1>6, <1>7, <1>8

LEMMA HInvFindHit ==
  ASSUME HInv, FindHit
  PROVE  HInv'
<1>1. /\ p \in Blocks /\ Fits(p)
      /\ hdr' = HandOut(p)
      /\ live' = With(live, p, want)
      /\ pc' = "idle" /\ p' = Nil /\ want' = 0
      /\ UNCHANGED <<heap_ptr, free_list_head, refreed>>
  BY DEF FindHit, HInv, HeapTypes, Nil
<1>2. /\ want \in Nat /\ want % 8 = 0
      /\ hdr[p].size \in Nat /\ hdr[p].size % 8 = 0 /\ hdr[p].size >= want
      /\ hdr[p].next \in Blocks \cup {Nil} /\ p \in Nat
  BY <1>1, HeaderType DEF Fits, HInv, HeapTypes
<1>3. /\ DOMAIN live' = DOMAIN live \cup {p}
      /\ live' \in [DOMAIN live' -> Nat]
      /\ live'[p] = want
      /\ \A x \in DOMAIN live \ {p} : live'[x] = live[x]
  <2>1. live' = [x \in DOMAIN live \cup {p} |-> IF x = p THEN want ELSE live[x]]
    BY <1>1 DEF With
  <2>2. \A x \in DOMAIN live : live[x] \in Nat
    BY DEF HInv, HeapTypes
  <2>. QED  BY <1>2, <2>1, <2>2
<1>4. CASE Splits(p)
  <2>. DEFINE n == SplitAt(p)
  <2>1. /\ n = p + 16 + want
        /\ n \in Nat \ {Nil} /\ n \notin Blocks
        /\ Blocks' = Blocks \cup {n}
        /\ hdr'[p] = Header(want, 0, n)
        /\ hdr'[n] = Header(hdr[p].size - want - 16, 1, hdr[p].next)
        /\ \A x \in Blocks \ {p} : hdr'[x] = hdr[x]
        /\ hdr' = [x \in Blocks' |-> hdr'[x]]
    BY <1>1, <1>4, SplitFacts
  <2>2. hdr[p].size - want - 16 \in Nat /\ (hdr[p].size - want - 16) % 8 = 0
    BY <1>2, <1>4 DEF Splits, HeaderSize
  <2>. HIDE DEF n
  <2>3. hdr' \in [Blocks' -> [size : Nat, free : {0, 1}, next : Blocks' \cup {Nil}]]
    <3>1. ASSUME NEW x \in Blocks'
          PROVE  hdr'[x] \in [size : Nat, free : {0, 1}, next : Blocks' \cup {Nil}]
      <4>1. CASE x = p
        BY <1>2, <2>1, <4>1 DEF Header
      <4>2. CASE x = n
        BY <1>2, <2>1, <2>2, <4>2 DEF Header
      <4>3. CASE x \in Blocks \ {p}
        <5>1. hdr[x] \in [size : Nat, free : {0, 1}, next : Blocks \cup {Nil}]
          BY <4>3 DEF HInv, HeapTypes
        <5>. QED  BY <2>1, <4>3, <5>1
      <4>. QED  BY <2>1, <4>1, <4>2, <4>3
    <3>. QED  BY <2>1, <3>1
  <2>4. HeapTypes'
    <3>1. Blocks' \subseteq Nat \ {Nil} /\ DOMAIN live' \subseteq Blocks'
      BY <1>1, <1>3, <2>1 DEF HInv, HeapTypes
    <3>2. free_list_head' \in Blocks' \cup {Nil} /\ p' \in Blocks' \cup {Nil}
      BY <1>1, <2>1 DEF HInv, HeapTypes
    <3>3. heap_ptr' \in HeapStart .. HeapEnd /\ refreed' \in BOOLEAN
      BY <1>1 DEF HInv, HeapTypes
    <3>. QED  BY <1>1, <1>3, <2>3, <3>1, <3>2, <3>3 DEF HeapTypes
  <2>5. /\ p + HeaderSize + hdr'[p].size = n
        /\ n + HeaderSize + hdr'[n].size = EndOf(p)
        /\ p < n /\ n < EndOf(p) /\ EndOf(p) \in Nat
    BY <1>1, <1>2, <2>1, <2>2, BlockRange DEF Header, HeaderSize
  <2>6. ASSUME NEW x \in Blocks \ {p}
        PROVE  /\ x + HeaderSize + hdr'[x].size = EndOf(x)
               /\ HeapStart <= x /\ EndOf(x) <= heap_ptr
               /\ x \in Nat /\ EndOf(x) \in Nat /\ x < EndOf(x)
               /\ EndOf(p) <= x \/ EndOf(x) <= p
    BY <1>1, <2>1, BlockRange DEF EndOf
  <2>7. BlocksDisjoint'
    <3>1. ASSUME NEW x \in Blocks'
          PROVE  /\ HeapStart <= x /\ x + HeaderSize + hdr'[x].size <= heap_ptr
                 /\ \A y \in Blocks' \ {x} :
                      \/ x + HeaderSize + hdr'[x].size <= y
                      \/ y + HeaderSize + hdr'[y].size <= x
      <4>1. HeapStart <= p /\ EndOf(p) <= heap_ptr /\ HeapStart \in Nat /\ heap_ptr \in Nat
        BY <1>1, BlockRange, HeapAssumption DEF HInv, HeapTypes
      <4>2. CASE x = p
        BY <1>2, <2>1, <2>5, <2>6, <4>1, <4>2
      <4>3. CASE x = n
        BY <1>2, <2>1, <2>5, <2>6, <4>1, <4>3
      <4>4. CASE x \in Blocks \ {p}
        <5>1. \A y \in Blocks \ {p, x} :
                \/ x + HeaderSize + hdr'[x].size <= y
                \/ y + HeaderSize + hdr'[y].size <= x
          BY <2>6, <4>4, BlockRange
        <5>2. \/ x + HeaderSize + hdr'[x].size <= p
              \/ p + HeaderSize + hdr'[p].size <= x
          BY <1>2, <2>1, <2>5, <2>6, <4>4
        <5>3. \/ x + HeaderSize + hdr'[x].size <= n
              \/ n + HeaderSize + hdr'[n].size <= x
          BY <1>2, <2>1, <2>5, <2>6, <4>4
        <5>. QED  BY <2>1, <2>6, <4>4, <5>1, <5>2, <5>3
      <4>. QED  BY <2>1, <4>2, <4>3, <4>4
    <3>. QED  BY <1>1, <3>1 DEF BlocksDisjoint, EndOf
  <2>8. OwnersServed'
    BY <1>1, <1>2, <1>3, <2>1 DEF HInv, HeapTypes, OwnersServed, Header
  <2>9. \A x \in Blocks' : hdr'[x].size % 8 = 0
    BY <1>2, <2>1, <2>2 DEF HInv, Header
  <2>10. \A x \in DOMAIN live' : hdr'[x].free = 0
    BY <1>1, <1>3, <2>1 DEF HInv, HeapTypes, Header
  <2>. QED  BY <1>1, <2>4, <2>7, <2>8, <2>9, <2>10 DEF HInv
<1>5. CASE ~Splits(p)
  <2>1. hdr' = With(hdr, p, [hdr[p] EXCEPT !.free = 0])
    BY <1>1, <1>5 DEF HandOut
  <2>2. /\ Blocks' = Blocks
        /\ hdr' = [x \in Blocks |-> hdr'[x]]
        /\ hdr'[p] = [hdr[p] EXCEPT !.free = 0]
        /\ \A x \in Blocks \ {p} : hdr'[x] = hdr[x]
    BY <1>1, <2>1 DEF With, Blocks
  <2>3. hdr[p] \in [size : Nat, free : {0, 1}, next : Blocks \cup {Nil}]
    BY <1>1 DEF HInv, HeapTypes
  <2>4. /\ hdr'[p].size = hdr[p].size /\ hdr'[p].free = 0
        /\ hdr'[p] \in [size : Nat, free : {0, 1}, next : Blocks \cup {Nil}]
    BY <2>2, <2>3
  <2>5. hdr' \in [Blocks' -> [size : Nat, free : {0, 1}, next : Blocks' \cup {Nil}]]
    <3>1. \A x \in Blocks : hdr'[x] \in [size : Nat, free : {0, 1}, next : Blocks \cup {Nil}]
      BY <2>2, <2>4 DEF HInv, HeapTypes
    <3>. QED  BY <2>2, <3>1
  <2>6. HeapTypes'
    BY <1>1, <1>3, <2>2, <2>5 DEF HInv, HeapTypes
  <2>7. \A x \in Blocks : hdr'[x].size = hdr[x].size
    BY <2>2, <2>4
  <2>8. BlocksDisjoint'
    BY <1>1, <2>2, <2>7 DEF HInv, BlocksDisjoint, EndOf
  <2>9. OwnersServed'
    BY <1>1, <1>2, <1>3, <2>7 DEF HInv, HeapTypes, OwnersServed
  <2>10. /\ \A x \in Blocks' : hdr'[x].size % 8 = 0
         /\ \A x \in DOMAIN live' : hdr'[x].free = 0
    BY <1>1, <1>3, <2>2, <2>4, <2>7 DEF HInv, HeapTypes
  <2>. QED  BY <1>1, <2>6, <2>8, <2>9, <2>10 DEF HInv
<1>. QED  BY <1>4, <1>5

LEMMA HInvStep == HInv /\ [HeapNext]_heap => HInv'
<1>1. ASSUME HInv, HeapNext PROVE HInv'
  BY <1>1, HInvKmalloc, HInvFindNext, HInvFindHit, HInvCreateBlock,
     HInvOutOfMemory, HInvKfree DEF HeapNext, Find
<1>2. ASSUME HInv, UNCHANGED heap PROVE HInv'
  BY <1>2, HInvHeapUnchanged DEF heap, chain, HInv, HeapTypes
<1>. QED  BY <1>1, <1>2

LEMMA HInvInvariant == HeapSpec => []HInv
BY HInvInit, HInvStep, PTL DEF HeapSpec

(* The types of the allocator's state; heap_ptr never passes heap_end.     *)
THEOREM HeapTypeOK == HeapSpec => []HeapTypes
<1>1. HInv => HeapTypes
  BY DEF HInv
<1>. QED  BY <1>1, HInvInvariant, PTL

(* Blocks never overlap one another or leave the heap, however they are    *)
(* split, freed and reused.                                                *)
THEOREM HeapBlocksDisjoint == HeapSpec => []BlocksDisjoint
<1>1. HInv => BlocksDisjoint
  BY DEF HInv
<1>. QED  BY <1>1, HInvInvariant, PTL

(* A caller's block never becomes smaller than what was asked for.         *)
THEOREM HeapOwnersServed == HeapSpec => []OwnersServed
<1>1. HInv => OwnersServed
  BY DEF HInv
<1>. QED  BY <1>1, HInvInvariant, PTL

(* kmalloc never returns a block that a caller still owns, even after the  *)
(* free list has become cyclic.                                            *)
THEOREM HeapHandsOutUnowned == HeapSpec => HandsOutUnowned
<1>1. HInv /\ [HeapNext]_heap
        => [pc = "find" /\ p # Nil /\ pc' = "idle" => p \notin DOMAIN live]_heap
  <2>. SUFFICES ASSUME HInv, HeapNext, pc = "find", p # Nil, pc' = "idle"
                PROVE  p \notin DOMAIN live
    OBVIOUS
  <2>1. FindHit
    BY DEF HeapNext, Find, Kmalloc, FindNext, CreateBlock, OutOfMemory, Kfree
  <2>2. hdr[p].free = 1
    BY <2>1 DEF FindHit, Fits
  <2>. QED  BY <2>2 DEF HInv
<1>. QED  BY <1>1, HInvInvariant, PTL DEF HeapSpec, HandsOutUnowned
-----------------------------------------------------------------------------
(* While no linked block has been freed again: no set of linked blocks has *)
(* all its links inside, so that there is no cycle, and what is free is    *)
(* linked.  The cursor of the search is on the list.                       *)
ListInv ==
  ~refreed =>
    /\ \A S \in SUBSET Visited : S # {} => \E b \in S : hdr[b].next \notin S
    /\ \A b \in Blocks : hdr[b].free = 1 => b \in Visited
    /\ p \in Visited \cup {Nil}

(* The walk from the head visits the least closed set.                     *)
LEMMA VisitedFacts ==
  ASSUME HInv
  PROVE  /\ Visited \in SUBSET Blocks /\ Closed(Visited)
         /\ Nil \notin Visited
<1>1. /\ free_list_head \in Blocks \cup {Nil} /\ Nil \notin Blocks
      /\ \A b \in Blocks : hdr[b].next \in Blocks \cup {Nil}
  BY HeaderType DEF HInv, HeapTypes
<1>2. free_list_head \in Visited \cup {Nil}
  BY <1>1 DEF Visited, Closed
<1>3. ASSUME NEW b \in Visited PROVE hdr[b].next \in Visited \cup {Nil}
  <2>1. b \in Blocks /\ \A S \in SUBSET Blocks : Closed(S) => b \in S
    BY DEF Visited
  <2>2. ASSUME NEW S \in SUBSET Blocks, Closed(S), hdr[b].next # Nil
        PROVE  hdr[b].next \in S
    BY <2>1, <2>2 DEF Closed
  <2>. QED  BY <1>1, <2>1, <2>2 DEF Visited
<1>4. Visited \in SUBSET Blocks
  BY DEF Visited
<1>. QED  BY <1>1, <1>2, <1>3, <1>4 DEF Closed

LEMMA VisitedLeast ==
  ASSUME NEW S \in SUBSET Blocks, Closed(S)
  PROVE  Visited \subseteq S
BY DEF Visited

(* A set that is closed after a step, and in every set that is, is what    *)
(* the walk visits then.                                                   *)
LEMMA VisitedNext ==
  ASSUME NEW W \in SUBSET Blocks', Closed(W)',
         \A S \in SUBSET Blocks' : Closed(S)' => W \subseteq S
  PROVE  Visited' = W
<1>1. Visited' = {b \in Blocks' : \A S \in SUBSET Blocks' : Closed(S)' => b \in S}
  BY DEF Visited
<1>. QED  BY <1>1

LEMMA ListInvInit == HeapInit => ListInv
<1>1. HeapInit => Blocks = {} /\ p = Nil
  BY DEF HeapInit, Blocks
<1>2. Visited \subseteq Blocks
  BY DEF Visited
<1>. QED  BY <1>1, <1>2 DEF ListInv

(* Steps that change no link.                                              *)
LEMMA LinksUnchanged ==
  ASSUME HInv, ListInv, UNCHANGED <<free_list_head, refreed>>, Blocks' = Blocks,
         \A b \in Blocks : hdr'[b].next = hdr[b].next,
         \A b \in Blocks : hdr'[b].free = 1 => hdr[b].free = 1,
         p' \in Visited \cup {Nil} \/ p' = p
  PROVE  ListInv'
<1>1. \A S \in SUBSET Blocks : Closed(S)' <=> Closed(S)
  BY DEF Closed
<1>2. Visited' = Visited
  BY <1>1, VisitedFacts, VisitedLeast, VisitedNext
<1>3. Visited \subseteq Blocks
  BY VisitedFacts
<1>. QED  BY <1>2, <1>3 DEF ListInv

LEMMA ListInvKmalloc ==
  ASSUME HInv, ListInv, NEW n \in Requests, Kmalloc(n)
  PROVE  ListInv'
<1>1. /\ UNCHANGED <<hdr, free_list_head, refreed>> /\ p' = free_list_head
      /\ Blocks' = Blocks
  BY DEF Kmalloc, chain, Blocks
<1>2. p' \in Visited \cup {Nil}
  BY <1>1, VisitedFacts DEF Closed
<1>. QED  BY <1>1, <1>2, LinksUnchanged

LEMMA ListInvFindNext ==
  ASSUME HInv, ListInv, FindNext
  PROVE  ListInv'
<1>1. /\ UNCHANGED <<hdr, free_list_head, refreed>> /\ p' = hdr[p].next /\ p # Nil
      /\ Blocks' = Blocks
  BY DEF FindNext, chain, Blocks
<1>2. ~refreed => p' \in Visited \cup {Nil}
  BY <1>1, VisitedFacts DEF Closed, ListInv
<1>3. CASE refreed
  BY <1>1, <1>3 DEF ListInv
<1>. QED  BY <1>1, <1>2, <1>3, LinksUnchanged

(* A new block is not linked, and not free.                                *)
LEMMA ListInvCreateBlock ==
  ASSUME HInv, ListInv, CreateBlock
  PROVE  ListInv'
<1>1. /\ hdr' = With(hdr, heap_ptr, Header(want, 0, Nil))
      /\ UNCHANGED <<free_list_head, refreed, p>>
  BY DEF CreateBlock
<1>2. heap_ptr \notin Blocks
  <2>1. \A b \in Blocks : b < heap_ptr /\ b \in Nat
    <3>1. heap_ptr \in Nat
      BY HeapAssumption DEF HInv, HeapTypes
    <3>. QED  BY <3>1, BlockRange
  <2>. QED  BY <2>1
<1>3. /\ Blocks' = Blocks \cup {heap_ptr}
      /\ hdr'[heap_ptr] = Header(want, 0, Nil)
      /\ \A x \in Blocks : hdr'[x] = hdr[x]
  BY <1>1, <1>2 DEF With, Blocks
<1>. PICK W \in SUBSET Blocks : W = Visited
  BY VisitedFacts
<1>4. W \in SUBSET Blocks' /\ Closed(W)'
  BY <1>1, <1>3, VisitedFacts DEF Closed
<1>5. ASSUME NEW S \in SUBSET Blocks', Closed(S)' PROVE W \subseteq S
  <2>1. Closed(S \cap Blocks)
    <3>1. free_list_head \in Blocks \cup {Nil} /\ \A b \in Blocks : hdr[b].next \in Blocks \cup {Nil}
      BY HeaderType DEF HInv, HeapTypes
    <3>. QED  BY <1>1, <1>3, <1>5, <3>1 DEF Closed
  <2>. QED  BY <2>1, VisitedLeast
<1>6. Visited' = W
  BY <1>4, <1>5, VisitedNext
<1>7. Visited \subseteq Blocks
  BY VisitedFacts
<1>. QED  BY <1>1, <1>3, <1>6, <1>7 DEF ListInv, Header

(* A block that is not linked is put before the first one.                 *)
LEMMA ListInvKfree ==
  ASSUME HInv, ListInv, NEW b \in DOMAIN live, Kfree(b)
  PROVE  ListInv'
<1>. SUFFICES ASSUME ~refreed'
              PROVE  ListInv'
  BY DEF ListInv
<1>1. /\ hdr' = With(hdr, b, Header(hdr[b].size, 1, free_list_head))
      /\ free_list_head' = b /\ p' = p
      /\ ~refreed /\ b \notin Visited /\ b \in Blocks
  BY DEF Kfree, HInv, HeapTypes
<1>2. /\ Blocks' = Blocks
      /\ hdr'[b].next = free_list_head
      /\ \A x \in Blocks \ {b} : hdr'[x] = hdr[x]
  BY <1>1 DEF With, Blocks, Header
<1>3. Visited \in SUBSET Blocks /\ Closed(Visited) /\ Nil \notin Visited /\ b # Nil
  BY VisitedFacts, <1>1 DEF HInv, HeapTypes
<1>4. \A x \in Visited : hdr'[x].next = hdr[x].next
  BY <1>1, <1>2, <1>3
<1>. PICK W \in SUBSET Blocks : W = Visited \cup {b}
  BY <1>1, <1>3
<1>5. W \in SUBSET Blocks' /\ Closed(W)'
  BY <1>1, <1>2, <1>3, <1>4 DEF Closed
<1>6. ASSUME NEW S \in SUBSET Blocks', Closed(S)' PROVE W \subseteq S
  <2>1. b \in S /\ free_list_head \in S \cup {Nil}
    BY <1>1, <1>2, <1>3, <1>6 DEF Closed
  <2>2. Closed(S \cap Visited) /\ S \cap Visited \in SUBSET Blocks
    BY <1>2, <1>3, <1>4, <1>6, <2>1 DEF Closed
  <2>. QED  BY <2>1, <2>2, VisitedLeast
<1>7. Visited' = Visited \cup {b}
  BY <1>5, <1>6, VisitedNext
<1>8. ASSUME NEW S \in SUBSET Visited', S # {}
      PROVE  \E x \in S : hdr'[x].next \notin S
  <2>1. CASE S = {b}
    BY <1>1, <1>2, <1>3, <2>1 DEF Closed
  <2>2. CASE S # {b}
    <3>1. S \ {b} \in SUBSET Visited /\ S \ {b} # {}
      BY <1>7, <1>8, <2>2
    <3>2. PICK x \in S \ {b} : hdr[x].next \notin S \ {b}
      BY <1>1, <3>1 DEF ListInv
    <3>3. x \in Visited /\ hdr[x].next # b
      BY <1>1, <1>3, <3>1, <3>2 DEF Closed
    <3>. QED  BY <1>4, <3>2, <3>3
  <2>. QED  BY <2>1, <2>2
<1>9. \A x \in Blocks' : hdr'[x].free = 1 => x \in Visited'
  BY <1>1, <1>2, <1>7 DEF ListInv
<1>. QED  BY <1>1, <1>7, <1>8, <1>9 DEF ListInv

(* The block that is found stays linked; what is cut off it is linked      *)
(* behind it.                                                              *)
LEMMA ListInvFindHit ==
  ASSUME HInv, ListInv, FindHit
  PROVE  ListInv'
<1>1. /\ p \in Blocks /\ Fits(p) /\ hdr' = HandOut(p) /\ p' = Nil
      /\ UNCHANGED <<free_list_head, refreed>>
  BY DEF FindHit, HInv, HeapTypes, Nil
<1>2. CASE ~Splits(p)
  <2>1. hdr' = With(hdr, p, [hdr[p] EXCEPT !.free = 0])
    BY <1>1, <1>2 DEF HandOut
  <2>2. hdr[p] \in [size : Nat, free : {0, 1}, next : Blocks \cup {Nil}]
    BY <1>1 DEF HInv, HeapTypes
  <2>3. /\ Blocks' = Blocks /\ hdr'[p].next = hdr[p].next /\ hdr'[p].free = 0
        /\ \A x \in Blocks \ {p} : hdr'[x] = hdr[x]
    BY <1>1, <2>1, <2>2 DEF With, Blocks
  <2>. QED  BY <1>1, <2>3, LinksUnchanged
<1>3. CASE Splits(p) /\ refreed
  BY <1>1, <1>3 DEF ListInv
<1>4. CASE Splits(p) /\ ~refreed
  <2>0. PICK n : n = SplitAt(p)
    OBVIOUS
  <2>1. /\ n # Nil /\ n \notin Blocks /\ Blocks' = Blocks \cup {n}
        /\ hdr'[p].next = n /\ hdr'[p].free = 0
        /\ hdr'[n].next = hdr[p].next
        /\ \A x \in Blocks \ {p} : hdr'[x] = hdr[x]
    BY <1>1, <1>4, <2>0, SplitFacts DEF Header
  <2>2. /\ Visited \in SUBSET Blocks /\ Closed(Visited) /\ Nil \notin Visited
        /\ p \in Visited /\ hdr[p].next \in Visited \cup {Nil}
        /\ hdr[p].next # n
    <3>1. Visited \in SUBSET Blocks /\ Closed(Visited) /\ Nil \notin Visited
      BY VisitedFacts
    <3>2. p \in Visited
      BY <1>1, <1>4 DEF ListInv, HInv, HeapTypes
    <3>. QED  BY <2>1, <3>1, <3>2 DEF Closed
  <2>3. \A x \in Visited \ {p} : hdr'[x].next = hdr[x].next /\ x # n
    BY <2>1, <2>2
  <2>. PICK W \in SUBSET (Blocks \cup {n}) : W = Visited \cup {n}
    BY <2>2
  <2>4. W \in SUBSET Blocks' /\ Closed(W)'
    BY <1>1, <2>1, <2>2, <2>3 DEF Closed
  <2>5. ASSUME NEW S \in SUBSET Blocks', Closed(S)' PROVE W \subseteq S
    <3>1. ASSUME NEW x \in S \cap Visited
          PROVE  hdr[x].next \in (S \cap Visited) \cup {Nil}
      <4>1. hdr[x].next \in Visited \cup {Nil}
        BY <2>2 DEF Closed
      <4>2. CASE x = p
        BY <2>1, <2>5, <4>1, <4>2 DEF Closed
      <4>3. CASE x # p
        BY <2>1, <2>3, <2>5, <4>1, <4>3 DEF Closed
      <4>. QED  BY <4>2, <4>3
    <3>2. free_list_head \in (S \cap Visited) \cup {Nil}
      BY <1>1, <2>2, <2>5 DEF Closed
    <3>3. Closed(S \cap Visited) /\ S \cap Visited \in SUBSET Blocks
      BY <2>2, <3>1, <3>2 DEF Closed
    <3>4. Visited \subseteq S
      BY <3>3, VisitedLeast
    <3>. QED  BY <2>1, <2>2, <2>5, <3>4 DEF Closed
  <2>6. Visited' = Visited \cup {n}
    BY <2>4, <2>5, VisitedNext
  <2>7. ASSUME NEW S \in SUBSET Visited', S # {}
        PROVE  \E x \in S : hdr'[x].next \notin S
    <3>1. CASE S = {n}
      BY <2>1, <2>2, <3>1
    <3>2. CASE S # {n}
      <4>1. S \ {n} \in SUBSET Visited /\ S \ {n} # {}
        BY <2>6, <2>7, <3>2
      <4>2. PICK x \in S \ {n} : hdr[x].next \notin S \ {n}
        BY <1>4, <4>1 DEF ListInv
      <4>3. x \in Visited /\ hdr[x].next # n
        BY <2>1, <2>2, <4>1 DEF Closed
      <4>4. CASE x = p /\ n \in S
        BY <2>1, <2>2, <4>2, <4>4
      <4>5. CASE x = p /\ n \notin S
        BY <2>1, <4>2, <4>5
      <4>6. CASE x # p
        BY <2>3, <4>2, <4>3, <4>6
      <4>. QED  BY <4>4, <4>5, <4>6
    <3>. QED  BY <3>1, <3>2
  <2>8. \A x \in Blocks' : hdr'[x].free = 1 => x \in Visited'
    BY <1>4, <2>1, <2>2, <2>6 DEF ListInv
  <2>. QED  BY <1>1, <2>7, <2>8 DEF ListInv
<1>. QED  BY <1>2, <1>3, <1>4

LEMMA ListInvStep == HInv /\ ListInv /\ [HeapNext]_heap => ListInv'
<1>1. ASSUME HInv, ListInv, OutOfMemory \/ UNCHANGED heap PROVE ListInv'
  <2>1. UNCHANGED <<hdr, free_list_head, refreed, p>> /\ Blocks' = Blocks
    BY <1>1 DEF OutOfMemory, heap, chain, Blocks
  <2>. QED  BY <1>1, <2>1, LinksUnchanged
<1>. QED
  BY <1>1, ListInvKmalloc, ListInvFindNext, ListInvFindHit, ListInvCreateBlock,
     ListInvKfree DEF HeapNext, Find

(* As long as no block that is still linked is freed again, the free list  *)
(* has an end and holds every free block: a search ends, and misses no     *)
(* block that would do.                                                    *)
THEOREM HeapFreeListSound == HeapSpec => []FreeListSound
<1>1. HInv /\ ListInv => FreeListSound
  <2>. SUFFICES ASSUME HInv, ListInv, ~refreed, Visited # {}
                PROVE  \E b \in Visited : hdr[b].next = Nil
    BY DEF FreeListSound, ListInv
  <2>1. PICK b \in Visited : hdr[b].next \notin Visited
    BY DEF ListInv
  <2>. QED  BY <2>1, VisitedFacts DEF Closed
<1>2. HeapSpec => []ListInv
  BY HInvInvariant, ListInvInit, ListInvStep, PTL DEF HeapSpec
<1>. QED  BY <1>1, <1>2, HInvInvariant, PTL

(***************************************************************************)
(* The kernel's memory map: both allocators and the page tables.           *)
(***************************************************************************)
LEMMA PageStepTakesFrames == ASSUME PagingStep PROVE [KernelNext]_vars
<1>1. 1 \in Sizes
  BY PagingAssumption
<1>2. Grant(1) \/ Refuse(1) => KernelNext
  BY <1>1 DEF KernelNext
<1>3. vmm_init \/ AddTable => Grant(1)
  BY DEF vmm_init, AddTable, Allocate
<1>4. OutOfFrames => Refuse(1)
  BY DEF OutOfFrames, NoFrame
<1>5. vmm_set_pml4 \/ Descend \/ SetEntry \/ MmioMapped => UNCHANGED vars
  BY DEF vmm_set_pml4, Descend, SetEntry, MmioMapped
<1>6. ASSUME NEW d \in Devices, mmio_map(d) PROVE UNCHANGED vars
  BY <1>6 DEF mmio_map
<1>7. ASSUME NEW v \in MmioBase .. mmio_virt_next - 1, vmm_unmap(v) PROVE UNCHANGED vars
  BY <1>7 DEF vmm_unmap
<1>. QED  BY <1>2, <1>3, <1>4, <1>5, <1>6, <1>7 DEF PagingStep

LEMMA MemoryHasFrames == MemorySpec => KernelSpec
<1>1. MemoryInit => Init
  BY DEF MemoryInit
<1>2. [MemoryNext]_memoryVars => [KernelNext]_vars
  BY PageStepTakesFrames DEF MemoryNext, HeapStep, FrameStep, PageStep, memoryVars
<1>. QED  BY <1>1, <1>2, PTL DEF MemorySpec, KernelSpec

LEMMA MemoryHasHeap == MemorySpec => HeapSpec
<1>1. MemoryInit => HeapInit
  BY DEF MemoryInit
<1>2. [MemoryNext]_memoryVars => [HeapNext]_heap
  BY DEF MemoryNext, HeapStep, FrameStep, PageStep, memoryVars
<1>. QED  BY <1>1, <1>2, PTL DEF MemorySpec, HeapSpec

LEMMA KernelIsApi == KernelSpec => ApiSpec
<1>1. [KernelNext]_vars => [ApiNext]_vars
  BY DEF KernelNext, ApiNext
<1>. QED  BY <1>1, PTL DEF KernelSpec, ApiSpec

(* The frame allocator is a pool of frames while page tables are built     *)
(* from its frames and other components take theirs in between.            *)
THEOREM MemoryRefinesFramePool == MemorySpec => RefinesFramePool
BY MemoryHasFrames, KernelRefinesFramePool, PTL

(* Heap blocks never overlap, whatever the rest of the kernel does.        *)
THEOREM MemoryBlocksDisjoint == MemorySpec => []BlocksDisjoint
BY MemoryHasHeap, HeapBlocksDisjoint, PTL

(* The free list keeps its end, and every free block, as long as no linked *)
(* block is freed again.                                                   *)
THEOREM MemoryFreeListSound == MemorySpec => []FreeListSound
BY MemoryHasHeap, HeapFreeListSound, PTL

(* The heap never hands out a block that is owned.                         *)
THEOREM MemoryHandsOutUnowned == MemorySpec => HandsOutUnowned
BY MemoryHasHeap, HeapHandsOutUnowned, PTL

(***************************************************************************)
(* FramesClear needs nothing but where the parts lie: granted frames are   *)
(* at or above base, the bitmap is the block below it, and the heap, where *)
(* it is used, ends below the bitmap.                                      *)
(***************************************************************************)
HeapBelowBitmap ==
  /\ \A b \in Bases : b >= 1
  /\ \A u \in Uses : u.heap => HeapEnd <= (u.base - 1) * BlockSize

Used ==
  /\ uses \in Uses /\ uses.base = base
  /\ Blocks # {} => uses.heap

LEMMA UsedInit == MemoryInit => Used
BY DEF MemoryInit, HeapInit, Used, Blocks

LEMMA UsedStep == Used /\ [MemoryNext]_memoryVars => Used'
<1>1. ASSUME [KernelNext]_vars PROVE base' = base
  BY <1>1 DEF KernelNext, Grant, Refuse, vars
<1>2. ASSUME Used, HeapStep, UNCHANGED uses PROVE Used'
  BY <1>2 DEF HeapStep, Used, vars
<1>3. ASSUME Used, FrameStep \/ PageStep, UNCHANGED uses PROVE Used'
  BY <1>1, <1>3, PageStepTakesFrames DEF FrameStep, PageStep, Used, Blocks, heap
<1>4. ASSUME Used, UNCHANGED memoryVars PROVE Used'
  BY <1>4 DEF memoryVars, vars, heap, Used, Blocks
<1>. QED  BY <1>2, <1>3, <1>4 DEF MemoryNext

LEMMA BytesInOrder ==
  ASSUME NEW b \in Nat, NEW c \in Nat, b < c
  PROVE  (b + 1) * BlockSize <= c * BlockSize
<1>1. BlockSize \in Nat
  BY PagingAssumption
<1>2. ASSUME NEW d \in Nat, NEW k \in Nat PROVE d * k \in Nat
  OBVIOUS
<1>3. (c - (b + 1)) * BlockSize >= 0
  BY <1>1, <1>2
<1>4. c * BlockSize = (b + 1) * BlockSize + (c - (b + 1)) * BlockSize
  BY <1>1
<1>. QED  BY <1>1, <1>3, <1>4

LEMMA ClearWhereTheyLie ==
  ASSUME HeapBelowBitmap, Used, TypeOK, NeverReserved, HeapTypes, BlocksDisjoint
  PROVE  FramesClear
<1>1. BlockSize \in Nat \ {0} /\ base \in Nat /\ BitmapBlock \in Nat /\ base = BitmapBlock + 1
  BY PhysMemAssumption, PagingAssumption DEF HeapBelowBitmap, TypeOK, BitmapBlock
<1>2. Blocks # {} => HeapEnd <= BitmapBlock * BlockSize
  BY DEF HeapBelowBitmap, Used, BitmapBlock
<1>3. ASSUME NEW r \in HeapRanges
      PROVE  r.to \in Int /\ r.to <= BitmapBlock * BlockSize
  <2>1. PICK b \in Blocks : r = [from |-> b, to |-> EndOf(b)]
    BY DEF HeapRanges
  <2>2. EndOf(b) <= heap_ptr /\ heap_ptr \in HeapStart .. HeapEnd
    BY DEF BlocksDisjoint, HeapTypes
  <2>3. EndOf(b) \in Int
    <3>1. hdr[b].size \in Nat /\ b \in Nat
      BY DEF HeapTypes
    <3>. QED  BY <3>1 DEF EndOf, HeaderSize
  <2>. QED  BY <1>1, <1>2, <2>1, <2>2, <2>3, HeapAssumption
<1>4. ASSUME NEW r \in HeapRanges PROVE Apart(r, BytesOf(BitmapBlock))
  BY <1>1, <1>3 DEF Apart, BytesOf
<1>5. ASSUME NEW b \in Granted
      PROVE  /\ b \in Nat /\ BitmapBlock < b
             /\ BitmapBlock * BlockSize <= b * BlockSize
  <2>1. b \in Bits /\ held[b] > 0
    BY DEF Granted
  <2>2. b \in Nat /\ ~(b <= base - 1)
    BY <1>1, <2>1, PhysMemAssumption DEF NeverReserved, Bits
  <2>3. BitmapBlock < b => (BitmapBlock + 1) * BlockSize <= b * BlockSize
    BY <1>1, <2>2, BytesInOrder
  <2>4. BitmapBlock * BlockSize <= (BitmapBlock + 1) * BlockSize
    BY <1>1
  <2>. QED  BY <1>1, <2>2, <2>3, <2>4
<1>6. ASSUME NEW b \in Granted PROVE Apart(BytesOf(b), Image)
  BY <1>1, <1>5 DEF Apart, BytesOf, Image
<1>7. ASSUME NEW b \in Granted, NEW r \in HeapRanges PROVE Apart(BytesOf(b), r)
  BY <1>1, <1>3, <1>5 DEF Apart, BytesOf
<1>. QED  BY <1>4, <1>5, <1>6, <1>7 DEF FramesClear, BitmapSafe

(* With the bitmap above the heap (kernel.c, mem.c), a granted frame is    *)
(* apart from the image, from the bitmap and from every heap block, and a  *)
(* heap block from the bitmap, for every size of the image and the memory. *)
(* Whether the heap lies on the image is not part of it.                   *)
THEOREM MemoryFramesClear ==
  ASSUME HeapBelowBitmap
  PROVE  MemorySpec => []FramesClear
<1>1. Used /\ TypeOK /\ NeverReserved /\ HeapTypes /\ BlocksDisjoint => FramesClear
  BY ClearWhereTheyLie
<1>. QED
  BY <1>1, UsedInit, UsedStep, MemoryHasFrames, KernelIsApi, ApiTypeOK,
     ApiNeverReserved, MemoryHasHeap, HeapTypeOK, HeapBlocksDisjoint, PTL DEF MemorySpec
-----------------------------------------------------------------------------
(***************************************************************************)
(* Induction over the levels of a walk.                                    *)
(***************************************************************************)
LEMMA LeastNatural ==
  ASSUME NEW T, T \subseteq Nat, T # {}
  PROVE  \E n \in T : \A m \in T : n <= m
<1>1. PICK n \in T : \A m \in T : ~ (<<m, n>> \in OpToRel(<, Nat))
  BY WFMin, NatLessThanWellFounded
<1>2. \A m \in T : ~(m < n)
  BY <1>1 DEF OpToRel
<1>. QED  BY <1>2

(* Induction up to n, for a set that is written down.                      *)
LEMMA SetInduction ==
  ASSUME NEW S, NEW n \in Nat, 0 \in S, \A l \in 0 .. n - 1 : l \in S => l + 1 \in S
  PROVE  0 .. n \subseteq S
<1>. SUFFICES ASSUME (0 .. n) \ S # {} PROVE FALSE
  OBVIOUS
<1>1. (0 .. n) \ S \subseteq Nat
  OBVIOUS
<1>2. PICK m \in (0 .. n) \ S : \A x \in (0 .. n) \ S : m <= x
  BY <1>1, LeastNatural
<1>3. m - 1 \in 0 .. n - 1
  BY <1>2
<1>4. m - 1 \in S
  BY <1>2, <1>3
<1>. QED  BY <1>2, <1>3, <1>4

LEMMA PagingConstants ==
  /\ Levels \in Nat \ {0} /\ Fanout \in Nat \ {0} /\ BlockSize \in Nat \ {0}
  /\ Absent \notin Nat
BY PagingAssumption DEF Absent

-----------------------------------------------------------------------------
(***************************************************************************)
(* A page is given by its indices.                                         *)
(***************************************************************************)
LEMMA ReachFacts ==
  /\ Reach[0] = 1
  /\ \A k \in 1 .. Levels : Reach[k] = Fanout * Reach[k - 1]
  /\ \A k \in 0 .. Levels : Reach[k] \in Nat \ {0}
<1>. DEFINE Is(n, g) == g = [k \in 0 .. n |-> IF k = 0 THEN 1 ELSE Fanout * g[k - 1]]
            S == {n \in Nat : \E g : Is(n, g)}
<1>1. 0 \in S
  <2>. DEFINE g == [k \in 0 .. 0 |-> 1]
  <2>1. Is(0, g)
    OBVIOUS
  <2>. QED  BY <2>1
<1>2. ASSUME NEW n \in 0 .. Levels - 1, n \in S PROVE n + 1 \in S
  <2>1. PICK f : Is(n, f)
    BY <1>2
  <2>. DEFINE g == [k \in 0 .. n + 1 |-> IF k = n + 1 THEN Fanout * f[n] ELSE f[k]]
  <2>2. \A k \in 0 .. n : f[k] = IF k = 0 THEN 1 ELSE Fanout * f[k - 1]
    BY <2>1
  <2>3. \A k \in 0 .. n + 1 : g[k] = IF k = 0 THEN 1 ELSE Fanout * g[k - 1]
    BY <2>2
  <2>4. n + 1 \in Nat /\ Is(n + 1, g)
    BY <2>3
  <2>. QED  BY <2>4
<1>. HIDE DEF S
<1>3. 0 .. Levels \subseteq S
  BY <1>1, <1>2, SetInduction, PagingConstants
<1>4. \E g : Is(Levels, g)
  BY <1>3, PagingConstants DEF S
<1>5. Reach = [k \in 0 .. Levels |-> IF k = 0 THEN 1 ELSE Fanout * Reach[k - 1]]
  BY <1>4, Zenon DEF Reach
<1>6. Reach[0] = 1 /\ \A k \in 1 .. Levels : Reach[k] = Fanout * Reach[k - 1]
  BY <1>5, PagingConstants
<1>. DEFINE T == {k \in 0 .. Levels : Reach[k] \in Nat \ {0}}
<1>7. 0 \in T
  BY <1>6, PagingConstants
<1>8. ASSUME NEW k \in 0 .. Levels - 1, k \in T PROVE k + 1 \in T
  <2>1. k + 1 \in 1 .. Levels /\ k + 1 \in 0 .. Levels /\ (k + 1) - 1 = k
    BY PagingConstants
  <2>2. Reach[k + 1] = Fanout * Reach[k] /\ Reach[k] \in Nat \ {0}
    BY <1>6, <1>8, <2>1
  <2>3. Reach[k + 1] \in Nat \ {0}
    BY <2>2, PagingConstants
  <2>. QED  BY <2>1, <2>3
<1>. HIDE DEF T
<1>9. 0 .. Levels \subseteq T
  BY <1>7, <1>8, SetInduction, PagingConstants
<1>. QED  BY <1>6, <1>9 DEF T

LEMMA DivTwice ==
  ASSUME NEW v \in Nat, NEW q \in Nat \ {0}, NEW f \in Nat \ {0}
  PROVE  v \div (f * q) = (v \div q) \div f
<1>1. PICK a \in Nat : a = v \div q /\ q * a <= v /\ v < q * a + q
  OBVIOUS
<1>2. PICK b \in Nat : b = a \div f /\ f * b <= a /\ a < f * b + f
  OBVIOUS
<1>3. q * (f * b) <= q * a
  BY <1>2
<1>4. q * a + q <= q * (f * b + f)
  BY <1>2
<1>5. PICK m \in Nat \ {0} : m = f * q
  OBVIOUS
<1>6. m * b <= v /\ v < m * b + m
  BY <1>1, <1>3, <1>4, <1>5
<1>7. v \div m = b
  BY <1>6
<1>. QED  BY <1>1, <1>2, <1>5, <1>7

LEMMA SameDigits ==
  ASSUME NEW a \in Nat, NEW b \in Nat, NEW f \in Nat \ {0}, a \div f = b \div f, a % f = b % f
  PROVE  a = b
<1>1. a = f * (a \div f) + (a % f) /\ b = f * (b \div f) + (b % f)
  OBVIOUS
<1>. QED  BY <1>1

LEMMA IndicesTell ==
  ASSUME NEW v \in Virtual, NEW w \in Virtual,
         \A l \in 0 .. Levels - 1 : Index(v, l) = Index(w, l)
  PROVE  v = w
<1>0. v \in Nat /\ w \in Nat /\ v < Reach[Levels] /\ w < Reach[Levels]
  BY ReachFacts, PagingConstants DEF Virtual
<1>. DEFINE S == {l \in 0 .. Levels : v \div Reach[Levels - l] = w \div Reach[Levels - l]}
<1>1. 0 \in S
  <2>1. PICK r \in Nat \ {0} : r = Reach[Levels]
    BY ReachFacts, PagingConstants
  <2>2. v \div r = 0 /\ w \div r = 0
    BY <1>0, <2>1
  <2>. QED  BY <2>1, <2>2, PagingConstants
<1>2. ASSUME NEW l \in 0 .. Levels - 1, l \in S PROVE l + 1 \in S
  <2>1. PICK k \in 0 .. Levels - 1 : k = Levels - 1 - l
    BY PagingConstants
  <2>2. Levels - l = k + 1 /\ Levels - (l + 1) = k /\ k + 1 \in 1 .. Levels /\ (k + 1) - 1 = k
        /\ k \in 0 .. Levels /\ l + 1 \in 0 .. Levels
    BY <2>1, PagingConstants
  <2>3. PICK q \in Nat \ {0} : q = Reach[k]
    BY <2>2, ReachFacts
  <2>4. PICK f \in Nat \ {0} : f = Fanout
    BY PagingConstants
  <2>5. Reach[k + 1] = f * q
    BY <2>2, <2>3, <2>4, ReachFacts
  <2>6. v \div (f * q) = w \div (f * q)
    BY <1>2, <2>2, <2>5
  <2>7. (v \div q) \div f = (w \div q) \div f
    BY <1>0, <2>6, DivTwice
  <2>8. (v \div q) % f = (w \div q) % f
    BY <2>1, <2>3, <2>4 DEF Index
  <2>9. v \div q \in Nat /\ w \div q \in Nat
    BY <1>0
  <2>10. v \div q = w \div q
    BY <2>7, <2>8, <2>9, SameDigits
  <2>. QED  BY <2>2, <2>3, <2>10
<1>. HIDE DEF S
<1>3. 0 .. Levels \subseteq S
  BY <1>1, <1>2, SetInduction, PagingConstants
<1>4. v \div Reach[Levels - Levels] = w \div Reach[Levels - Levels]
  BY <1>3, PagingConstants DEF S
<1>5. v \div 1 = w \div 1
  BY <1>4, ReachFacts, PagingConstants
<1>. QED  BY <1>0, <1>5

LEMMA IndexInTable ==
  ASSUME NEW v \in Nat, NEW l \in 0 .. Levels - 1
  PROVE  Index(v, l) \in 0 .. Fanout - 1
<1>1. PICK k \in 0 .. Levels : k = Levels - 1 - l
  BY PagingConstants
<1>2. PICK q \in Nat \ {0} : q = Reach[k]
  BY ReachFacts
<1>3. PICK a \in Nat : a = v \div q
  OBVIOUS
<1>4. a % Fanout \in 0 .. Fanout - 1
  BY PagingConstants
<1>. QED  BY <1>1, <1>2, <1>3, <1>4 DEF Index

-----------------------------------------------------------------------------
(***************************************************************************)
(* Walks.  tb is the tables, r the root, g what the walk for v comes to.   *)
(***************************************************************************)
Slots == 0 .. Fanout - 1

EntryIn(tb, t, v, l) == IF t \in DOMAIN tb THEN tb[t][Index(v, l)] ELSE Absent

Path(tb, r, v, g) ==
  g = [k \in 0 .. Levels |-> IF k = 0 THEN r ELSE EntryIn(tb, g[k - 1], v, k - 1)]

LEMMA PathExists ==
  ASSUME NEW tb, NEW r, NEW v
  PROVE  \E g : Path(tb, r, v, g)
<1>. DEFINE Is(n, g) ==
              g = [k \in 0 .. n |-> IF k = 0 THEN r ELSE EntryIn(tb, g[k - 1], v, k - 1)]
            S == {n \in Nat : \E g : Is(n, g)}
<1>1. 0 \in S
  <2>. DEFINE g == [k \in 0 .. 0 |-> r]
  <2>1. Is(0, g)
    OBVIOUS
  <2>. QED  BY <2>1
<1>2. ASSUME NEW n \in 0 .. Levels - 1, n \in S PROVE n + 1 \in S
  <2>1. PICK f : Is(n, f)
    BY <1>2
  <2>. DEFINE g == [k \in 0 .. n + 1 |-> IF k = n + 1 THEN EntryIn(tb, f[n], v, n) ELSE f[k]]
  <2>2. \A k \in 0 .. n : f[k] = IF k = 0 THEN r ELSE EntryIn(tb, f[k - 1], v, k - 1)
    BY <2>1
  <2>3. \A k \in 0 .. n + 1 : g[k] = IF k = 0 THEN r ELSE EntryIn(tb, g[k - 1], v, k - 1)
    BY <2>2
  <2>4. n + 1 \in Nat /\ Is(n + 1, g)
    BY <2>3
  <2>. QED  BY <2>4
<1>. HIDE DEF S
<1>3. 0 .. Levels \subseteq S
  BY <1>1, <1>2, SetInduction, PagingConstants
<1>. QED  BY <1>3, PagingConstants DEF S, Path

LEMMA PathFacts ==
  ASSUME NEW tb, NEW r, NEW v, NEW g, Path(tb, r, v, g)
  PROVE  /\ g[0] = r
         /\ \A k \in 0 .. Levels - 1 : g[k + 1] = EntryIn(tb, g[k], v, k)
<1>1. \A k \in 0 .. Levels : g[k] = IF k = 0 THEN r ELSE EntryIn(tb, g[k - 1], v, k - 1)
  BY DEF Path
<1>2. \A k \in 0 .. Levels - 1 : k + 1 \in 0 .. Levels /\ (k + 1) - 1 = k /\ k + 1 # 0
  BY PagingConstants
<1>3. 0 \in 0 .. Levels
  BY PagingConstants
<1>. QED  BY <1>1, <1>2, <1>3

LEMMA WalkIsPath ==
  ASSUME NEW v
  PROVE  \E g : Path(table, root, v, g) /\ \A l \in 0 .. Levels : Walk(v, l) = g[l]
<1>1. PICK g : Path(table, root, v, g)
  BY PathExists
<1>2. g = [k \in 0 .. Levels |-> IF k = 0 THEN root ELSE Entry(g[k - 1], v, k - 1)]
  BY <1>1 DEF Path, EntryIn, Entry
<1>. DEFINE h == CHOOSE after : after = [k \in 0 .. Levels |->
                        IF k = 0 THEN root ELSE Entry(after[k - 1], v, k - 1)]
<1>3. h = [k \in 0 .. Levels |-> IF k = 0 THEN root ELSE Entry(h[k - 1], v, k - 1)]
  BY <1>2, Zenon
<1>4. Path(table, root, v, h)
  BY <1>3 DEF Path, EntryIn, Entry
<1>5. \A l : Walk(v, l) = h[l]
  BY Zenon DEF Walk
<1>. QED  BY <1>4, <1>5

(* Tables form a tree: each is entered from one place, at one depth.       *)
Tables(tb) == \A t \in DOMAIN tb : t \in Nat /\ tb[t] \in [Slots -> Nat \cup {Absent}]

Tree(tb, r, depth) ==
  /\ depth \in [DOMAIN tb -> 0 .. Levels - 1]
  /\ r \in DOMAIN tb /\ depth[r] = 0
  /\ \A t \in DOMAIN tb, i \in Slots :
       depth[t] < Levels - 1 /\ tb[t][i] # Absent =>
         tb[t][i] \in DOMAIN tb /\ depth[tb[t][i]] = depth[t] + 1
  /\ \A t, u \in DOMAIN tb, i, j \in Slots :
       depth[t] < Levels - 1 /\ depth[u] < Levels - 1
         /\ tb[t][i] = tb[u][j] /\ tb[t][i] # Absent => t = u /\ i = j

LEMMA PathDepth ==
  ASSUME NEW tb, NEW r, NEW depth, Tables(tb), Tree(tb, r, depth),
         NEW v \in Nat, NEW g, Path(tb, r, v, g)
  PROVE  /\ \A l \in 0 .. Levels - 1 : g[l] = Absent \/ (g[l] \in DOMAIN tb /\ depth[g[l]] = l)
         /\ \A l \in 0 .. Levels - 1 : g[l] = Absent => g[l + 1] = Absent
         /\ g[Levels] \in Nat \cup {Absent}
<1>0. /\ g[0] = r
      /\ \A k \in 0 .. Levels - 1 : g[k + 1] = EntryIn(tb, g[k], v, k)
  BY PathFacts
<1>1. Absent \notin DOMAIN tb
  BY PagingConstants DEF Tables
<1>. DEFINE S == {l \in 0 .. Levels :
                    l <= Levels - 1 => g[l] = Absent \/ (g[l] \in DOMAIN tb /\ depth[g[l]] = l)}
<1>2. 0 \in S
  BY <1>0, PagingConstants DEF Tree
<1>3. ASSUME NEW l \in 0 .. Levels - 1, l \in S PROVE l + 1 \in S
  <2>. SUFFICES ASSUME l + 1 <= Levels - 1
                PROVE  g[l + 1] = Absent \/ (g[l + 1] \in DOMAIN tb /\ depth[g[l + 1]] = l + 1)
    BY PagingConstants
  <2>1. g[l + 1] = EntryIn(tb, g[l], v, l)
    BY <1>0
  <2>2. CASE g[l] = Absent
    BY <1>1, <2>1, <2>2 DEF EntryIn
  <2>3. CASE g[l] # Absent
    <3>1. g[l] \in DOMAIN tb /\ depth[g[l]] = l /\ l < Levels - 1
      BY <1>3, <2>3, PagingConstants
    <3>2. Index(v, l) \in Slots
      BY IndexInTable DEF Slots
    <3>3. g[l + 1] = tb[g[l]][Index(v, l)]
      BY <2>1, <3>1 DEF EntryIn
    <3>. QED  BY <3>1, <3>2, <3>3 DEF Tree
  <2>. QED  BY <2>2, <2>3
<1>. HIDE DEF S
<1>4. 0 .. Levels \subseteq S
  BY <1>2, <1>3, SetInduction, PagingConstants
<1>5. \A l \in 0 .. Levels - 1 : g[l] = Absent \/ (g[l] \in DOMAIN tb /\ depth[g[l]] = l)
  BY <1>4, PagingConstants DEF S
<1>6. \A l \in 0 .. Levels - 1 : g[l] = Absent => g[l + 1] = Absent
  BY <1>0, <1>1 DEF EntryIn
<1>7. g[Levels] \in Nat \cup {Absent}
  <2>1. Levels - 1 \in 0 .. Levels - 1 /\ (Levels - 1) + 1 = Levels
    BY PagingConstants
  <2>2. g[Levels] = EntryIn(tb, g[Levels - 1], v, Levels - 1)
    BY <1>0, <2>1
  <2>3. Index(v, Levels - 1) \in Slots
    BY <2>1, IndexInTable DEF Slots
  <2>. QED  BY <2>2, <2>3 DEF EntryIn, Tables
<1>. QED  BY <1>5, <1>6, <1>7

(* Walks that come to the same table took the same way.                    *)
LEMMA PathsMeet ==
  ASSUME NEW tb, NEW r, NEW depth, Tables(tb), Tree(tb, r, depth),
         NEW v \in Nat, NEW g, Path(tb, r, v, g),
         NEW w \in Nat, NEW h, Path(tb, r, w, h)
  PROVE  \A l \in 0 .. Levels - 1 :
           g[l] = h[l] /\ g[l] # Absent => \A j \in 0 .. l - 1 : Index(v, j) = Index(w, j)
<1>0. /\ \A k \in 0 .. Levels - 1 : g[k + 1] = EntryIn(tb, g[k], v, k)
      /\ \A k \in 0 .. Levels - 1 : h[k + 1] = EntryIn(tb, h[k], w, k)
  BY PathFacts
<1>1. /\ \A l \in 0 .. Levels - 1 : g[l] = Absent \/ (g[l] \in DOMAIN tb /\ depth[g[l]] = l)
      /\ \A l \in 0 .. Levels - 1 : h[l] = Absent \/ (h[l] \in DOMAIN tb /\ depth[h[l]] = l)
      /\ \A l \in 0 .. Levels - 1 : g[l] = Absent => g[l + 1] = Absent
      /\ \A l \in 0 .. Levels - 1 : h[l] = Absent => h[l + 1] = Absent
  BY PathDepth
<1>. DEFINE S == {l \in 0 .. Levels : l <= Levels - 1 =>
                    (g[l] = h[l] /\ g[l] # Absent =>
                       \A j \in 0 .. l - 1 : Index(v, j) = Index(w, j))}
<1>2. 0 \in S
  <2>1. \A j \in 0 .. 0 - 1 : FALSE
    OBVIOUS
  <2>. QED  BY <2>1, PagingConstants
<1>3. ASSUME NEW l \in 0 .. Levels - 1, l \in S PROVE l + 1 \in S
  <2>. SUFFICES ASSUME l + 1 <= Levels - 1, g[l + 1] = h[l + 1], g[l + 1] # Absent,
                       NEW j \in 0 .. l
                PROVE  Index(v, j) = Index(w, j)
    BY PagingConstants
  <2>1. /\ g[l] \in DOMAIN tb /\ depth[g[l]] = l /\ g[l] # Absent
        /\ h[l] \in DOMAIN tb /\ depth[h[l]] = l
    BY <1>1
  <2>2. l < Levels - 1
    BY PagingConstants
  <2>3. g[l + 1] = tb[g[l]][Index(v, l)] /\ h[l + 1] = tb[h[l]][Index(w, l)]
    BY <1>0, <2>1 DEF EntryIn
  <2>4. Index(v, l) \in Slots /\ Index(w, l) \in Slots
    BY IndexInTable DEF Slots
  <2>5. g[l] = h[l] /\ Index(v, l) = Index(w, l)
    <3>1. PICK t \in DOMAIN tb : t = g[l] /\ depth[t] < Levels - 1
      BY <2>1, <2>2
    <3>2. PICK u \in DOMAIN tb : u = h[l] /\ depth[u] < Levels - 1
      BY <2>1, <2>2
    <3>3. PICK i \in Slots : i = Index(v, l)
      BY <2>4
    <3>4. PICK k \in Slots : k = Index(w, l)
      BY <2>4
    <3>5. tb[t][i] = tb[u][k] /\ tb[t][i] # Absent
      BY <2>3, <3>1, <3>2, <3>3, <3>4
    <3>6. t = u /\ i = k
      BY <3>1, <3>2, <3>5 DEF Tree
    <3>. QED  BY <3>1, <3>2, <3>3, <3>4, <3>6
  <2>6. j = l \/ j \in 0 .. l - 1
    OBVIOUS
  <2>. QED  BY <1>3, <2>1, <2>5, <2>6
<1>. HIDE DEF S
<1>4. 0 .. Levels \subseteq S
  BY <1>2, <1>3, SetInduction, PagingConstants
<1>. QED  BY <1>4, PagingConstants DEF S

(* An entry of the last level belongs to one page.                         *)
LEMMA OnePage ==
  ASSUME NEW tb, NEW r, NEW depth, Tables(tb), Tree(tb, r, depth),
         NEW v \in Virtual, NEW g, Path(tb, r, v, g),
         NEW w \in Virtual, NEW h, Path(tb, r, w, h),
         g[Levels - 1] = h[Levels - 1], g[Levels - 1] # Absent,
         Index(v, Levels - 1) = Index(w, Levels - 1)
  PROVE  v = w
<1>1. v \in Nat /\ w \in Nat
  BY ReachFacts, PagingConstants DEF Virtual
<1>2. Levels - 1 \in 0 .. Levels - 1
  BY PagingConstants
<1>3. \A j \in 0 .. (Levels - 1) - 1 : Index(v, j) = Index(w, j)
  BY <1>1, <1>2, PathsMeet
<1>4. \A j \in 0 .. Levels - 1 : j = Levels - 1 \/ j \in 0 .. (Levels - 1) - 1
  BY PagingConstants
<1>5. \A j \in 0 .. Levels - 1 : Index(v, j) = Index(w, j)
  BY <1>3, <1>4
<1>. QED  BY <1>5, IndicesTell

(***************************************************************************)
(* What changing an entry of the last level, and adding a table, do to     *)
(* walks.                                                                  *)
(***************************************************************************)
LEMMA EntrySet ==
  ASSUME NEW tb, NEW r, NEW depth, Tables(tb), Tree(tb, r, depth),
         NEW t \in DOMAIN tb, depth[t] = Levels - 1, NEW i \in Slots, NEW x \in Nat \cup {Absent},
         NEW new, new = [tb EXCEPT ![t][i] = x]
  PROVE  Tables(new) /\ Tree(new, r, depth) /\ DOMAIN new = DOMAIN tb
<1>1. DOMAIN new = DOMAIN tb /\ \A u \in DOMAIN tb : u # t => new[u] = tb[u]
  OBVIOUS
<1>2. new[t] = [tb[t] EXCEPT ![i] = x]
  OBVIOUS
<1>3. Tables(new)
  <2>1. \A u \in DOMAIN tb : u \in Nat /\ tb[u] \in [Slots -> Nat \cup {Absent}]
    BY DEF Tables
  <2>2. new[t] \in [Slots -> Nat \cup {Absent}]
    BY <1>2, <2>1
  <2>. QED  BY <1>1, <2>1, <2>2 DEF Tables
<1>4. \A u \in DOMAIN tb : depth[u] < Levels - 1 => new[u] = tb[u]
  BY <1>1, PagingConstants
<1>5. Tree(new, r, depth)
  <2>1. /\ depth \in [DOMAIN new -> 0 .. Levels - 1]
        /\ r \in DOMAIN new /\ depth[r] = 0
    BY <1>1 DEF Tree
  <2>2. ASSUME NEW u \in DOMAIN new, NEW j \in Slots, depth[u] < Levels - 1, new[u][j] # Absent
        PROVE  new[u][j] \in DOMAIN new /\ depth[new[u][j]] = depth[u] + 1
    <3>1. u \in DOMAIN tb /\ new[u] = tb[u]
      BY <1>1, <1>4, <2>2
    <3>. QED  BY <1>1, <2>2, <3>1 DEF Tree
  <2>3. ASSUME NEW u \in DOMAIN new, NEW w \in DOMAIN new, NEW j \in Slots, NEW m \in Slots,
               depth[u] < Levels - 1, depth[w] < Levels - 1,
               new[u][j] = new[w][m], new[u][j] # Absent
        PROVE  u = w /\ j = m
    <3>1. u \in DOMAIN tb /\ w \in DOMAIN tb /\ new[u] = tb[u] /\ new[w] = tb[w]
      BY <1>1, <1>4, <2>3
    <3>. QED  BY <2>3, <3>1 DEF Tree
  <2>. QED  BY <2>1, <2>2, <2>3 DEF Tree
<1>. QED  BY <1>1, <1>3, <1>5

OneEntryChanged(tb, new, r, t, i, x) ==
  \A v \in Nat : \A g, h : Path(tb, r, v, g) /\ Path(new, r, v, h) =>
    h[Levels] = IF g[Levels - 1] = t /\ Index(v, Levels - 1) = i THEN x ELSE g[Levels]

LEMMA EntrySetWalk ==
  ASSUME NEW tb, NEW r, NEW depth, Tables(tb), Tree(tb, r, depth),
         NEW t \in DOMAIN tb, depth[t] = Levels - 1, NEW i \in Slots, NEW x \in Nat \cup {Absent},
         NEW new, new = [tb EXCEPT ![t][i] = x]
  PROVE  OneEntryChanged(tb, new, r, t, i, x)
<1>. SUFFICES \A v \in Nat : \A g, h : Path(tb, r, v, g) /\ Path(new, r, v, h) =>
           h[Levels] = IF g[Levels - 1] = t /\ Index(v, Levels - 1) = i THEN x ELSE g[Levels]
  BY DEF OneEntryChanged
<1>. SUFFICES ASSUME NEW v \in Nat, NEW g, Path(tb, r, v, g), NEW h, Path(new, r, v, h)
              PROVE  h[Levels] = IF g[Levels - 1] = t /\ Index(v, Levels - 1) = i
                                   THEN x ELSE g[Levels]
  OBVIOUS
<1>0. /\ g[0] = r /\ h[0] = r
      /\ \A k \in 0 .. Levels - 1 : g[k + 1] = EntryIn(tb, g[k], v, k)
      /\ \A k \in 0 .. Levels - 1 : h[k + 1] = EntryIn(new, h[k], v, k)
  BY PathFacts
<1>1. \A l \in 0 .. Levels - 1 : g[l] = Absent \/ (g[l] \in DOMAIN tb /\ depth[g[l]] = l)
  BY PathDepth
<1>2. DOMAIN new = DOMAIN tb /\ \A u \in DOMAIN tb : u # t => new[u] = tb[u]
  OBVIOUS
<1>3. Absent \notin DOMAIN tb
  BY PagingConstants DEF Tables
<1>. DEFINE S == {l \in 0 .. Levels : l <= Levels - 1 => h[l] = g[l]}
<1>4. 0 \in S
  BY <1>0, PagingConstants
<1>5. ASSUME NEW l \in 0 .. Levels - 1, l \in S PROVE l + 1 \in S
  <2>. SUFFICES ASSUME l + 1 <= Levels - 1 PROVE h[l + 1] = g[l + 1]
    BY PagingConstants
  <2>1. h[l] = g[l] /\ l # Levels - 1
    BY <1>5, PagingConstants
  <2>2. h[l + 1] = EntryIn(new, g[l], v, l) /\ g[l + 1] = EntryIn(tb, g[l], v, l)
    BY <1>0, <2>1
  <2>3. g[l] # t
    BY <1>1, <1>3, <2>1
  <2>. QED  BY <1>2, <2>2, <2>3 DEF EntryIn
<1>. HIDE DEF S
<1>6. 0 .. Levels \subseteq S
  BY <1>4, <1>5, SetInduction, PagingConstants
<1>7. \A l \in 0 .. Levels - 1 : h[l] = g[l]
  BY <1>6, PagingConstants DEF S
<1>8. PICK l \in 0 .. Levels - 1 : l = Levels - 1 /\ l + 1 = Levels
  BY PagingConstants
<1>9. g[Levels] = EntryIn(tb, g[l], v, l) /\ h[Levels] = EntryIn(new, g[l], v, l)
  BY <1>0, <1>7, <1>8
<1>10. h[Levels] = IF g[l] = t /\ Index(v, l) = i THEN x ELSE g[Levels]
  <2>1. CASE g[l] # t
    BY <1>2, <1>9, <2>1 DEF EntryIn
  <2>2. CASE g[l] = t
    <3>1. Index(v, l) \in Slots
      BY IndexInTable DEF Slots
    <3>2. new[t] = [tb[t] EXCEPT ![i] = x] /\ tb[t] \in [Slots -> Nat \cup {Absent}]
      BY DEF Tables
    <3>. QED  BY <1>2, <1>9, <2>2, <3>1, <3>2 DEF EntryIn
  <2>. QED  BY <2>1, <2>2
<1>. QED  BY <1>7, <1>8, <1>10

Added(tb, t, i, f) ==
  [[u \in DOMAIN tb \cup {f} |-> IF u = f THEN Cleared ELSE tb[u]] EXCEPT ![t][i] = f]

IsAdded(tb, t, i, f, new) ==
  /\ DOMAIN new = DOMAIN tb \cup {f}
  /\ \A u \in DOMAIN tb \ {t} : new[u] = tb[u]
  /\ new[t] = [tb[t] EXCEPT ![i] = f] /\ new[f] = Cleared
  /\ Cleared \in [Slots -> Nat \cup {Absent}] /\ \A j \in Slots : Cleared[j] = Absent

LEMMA AddedFacts ==
  ASSUME NEW tb, Tables(tb), NEW t \in DOMAIN tb, NEW i \in Slots,
         NEW f \in Nat, f \notin DOMAIN tb, NEW new, new = Added(tb, t, i, f)
  PROVE  IsAdded(tb, t, i, f, new)
BY DEF Added, IsAdded, Cleared, Slots

LEMMA TableAdded ==
  ASSUME NEW tb, NEW r, NEW depth, Tables(tb), Tree(tb, r, depth),
         NEW t \in DOMAIN tb, NEW k \in 0 .. Levels - 2, depth[t] = k,
         NEW i \in Slots, tb[t][i] = Absent, NEW f \in Nat, f \notin DOMAIN tb,
         NEW new, new = Added(tb, t, i, f),
         NEW deeper, deeper = [u \in DOMAIN tb \cup {f} |-> IF u = f THEN k + 1 ELSE depth[u]]
  PROVE  Tables(new) /\ Tree(new, r, deeper)
<1>1. /\ DOMAIN new = DOMAIN tb \cup {f}
      /\ \A u \in DOMAIN tb \ {t} : new[u] = tb[u]
      /\ new[t] = [tb[t] EXCEPT ![i] = f] /\ new[f] = Cleared
      /\ Cleared \in [Slots -> Nat \cup {Absent}] /\ \A j \in Slots : Cleared[j] = Absent
  <2>1. IsAdded(tb, t, i, f, new)
    BY AddedFacts
  <2>. QED  BY <2>1 DEF IsAdded
<1>2. tb[t] \in [Slots -> Nat \cup {Absent}]
  BY DEF Tables
<1>3. Tables(new)
  <2>1. new[t] \in [Slots -> Nat \cup {Absent}]
    BY <1>1, <1>2
  <2>2. \A u \in DOMAIN tb : u \in Nat /\ tb[u] \in [Slots -> Nat \cup {Absent}]
    BY DEF Tables
  <2>. QED  BY <1>1, <2>1, <2>2 DEF Tables
<1>4. /\ deeper \in [DOMAIN new -> 0 .. Levels - 1]
      /\ deeper[f] = k + 1 /\ \A u \in DOMAIN tb : deeper[u] = depth[u]
  <2>1. k + 1 \in 0 .. Levels - 1
    BY PagingConstants
  <2>. QED  BY <1>1, <2>1 DEF Tree
<1>5. r \in DOMAIN new /\ deeper[r] = 0
  BY <1>1, <1>4 DEF Tree
<1>6. ASSUME NEW u \in DOMAIN new, NEW j \in Slots, deeper[u] < Levels - 1, new[u][j] # Absent
      PROVE  \/ u = t /\ j = i /\ new[u][j] = f
             \/ u \in DOMAIN tb /\ depth[u] < Levels - 1 /\ new[u][j] = tb[u][j]
  <2>1. CASE u = f
    BY <1>1, <1>6, <2>1
  <2>2. CASE u = t
    BY <1>1, <1>2, <1>4, <1>6, <2>2
  <2>3. CASE u \in DOMAIN tb \ {t}
    BY <1>1, <1>4, <1>6, <2>3
  <2>. QED  BY <1>1, <2>1, <2>2, <2>3
<1>7. ASSUME NEW u \in DOMAIN new, NEW j \in Slots, deeper[u] < Levels - 1, new[u][j] # Absent
      PROVE  new[u][j] \in DOMAIN new /\ deeper[new[u][j]] = deeper[u] + 1
  <2>1. CASE u = t /\ j = i /\ new[u][j] = f
    BY <1>1, <1>4, <2>1
  <2>2. CASE u \in DOMAIN tb /\ depth[u] < Levels - 1 /\ new[u][j] = tb[u][j]
    <3>1. tb[u][j] \in DOMAIN tb /\ depth[tb[u][j]] = depth[u] + 1
      BY <1>7, <2>2 DEF Tree
    <3>. QED  BY <1>1, <1>4, <2>2, <3>1
  <2>. QED  BY <1>6, <1>7, <2>1, <2>2
<1>8. \A u, w \in DOMAIN new, j, m \in Slots :
        deeper[u] < Levels - 1 /\ deeper[w] < Levels - 1
          /\ new[u][j] = new[w][m] /\ new[u][j] # Absent => u = w /\ j = m
  <2>. TAKE u, w \in DOMAIN new, j, m \in Slots
  <2>. HAVE /\ deeper[u] < Levels - 1 /\ deeper[w] < Levels - 1
            /\ new[u][j] = new[w][m] /\ new[u][j] # Absent
  <2>0. /\ \/ u = t /\ j = i /\ new[u][j] = f
           \/ u \in DOMAIN tb /\ depth[u] < Levels - 1 /\ new[u][j] = tb[u][j]
        /\ \/ w = t /\ m = i /\ new[w][m] = f
           \/ w \in DOMAIN tb /\ depth[w] < Levels - 1 /\ new[w][m] = tb[w][m]
    BY <1>6
  <2>1. CASE new[u][j] = f
    <3>1. ASSUME NEW y \in DOMAIN tb, NEW n \in Slots, depth[y] < Levels - 1, tb[y][n] = f
          PROVE  FALSE
      <4>1. tb[y][n] # Absent
        BY <3>1, PagingConstants
      <4>2. tb[y][n] \in DOMAIN tb
        BY <3>1, <4>1 DEF Tree
      <4>. QED  BY <3>1, <4>2
    <3>. QED  BY <2>0, <2>1, <3>1
  <2>2. CASE new[u][j] # f
    <3>1. /\ u \in DOMAIN tb /\ depth[u] < Levels - 1 /\ new[u][j] = tb[u][j]
          /\ w \in DOMAIN tb /\ depth[w] < Levels - 1 /\ new[w][m] = tb[w][m]
      BY <2>0, <2>2
    <3>2. tb[u][j] = tb[w][m] /\ tb[u][j] # Absent
      BY <3>1
    <3>. QED  BY <3>1, <3>2 DEF Tree
  <2>. QED  BY <2>1, <2>2
<1>9. Tree(new, r, deeper)
  <2>1. \A u \in DOMAIN new, j \in Slots :
          deeper[u] < Levels - 1 /\ new[u][j] # Absent =>
            new[u][j] \in DOMAIN new /\ deeper[new[u][j]] = deeper[u] + 1
    BY <1>7
  <2>. QED  BY <1>4, <1>5, <1>8, <2>1 DEF Tree
<1>. QED  BY <1>3, <1>9

TableChanged(tb, new, r, k, t, i, f) ==
  \A v \in Nat : \A g, h : Path(tb, r, v, g) /\ Path(new, r, v, h) =>
    \A l \in 0 .. Levels :
      h[l] = IF l = k + 1 /\ g[k] = t /\ Index(v, k) = i THEN f ELSE g[l]

LEMMA TableAddedWalk ==
  ASSUME NEW tb, NEW r, NEW depth, Tables(tb), Tree(tb, r, depth),
         NEW t \in DOMAIN tb, NEW k \in 0 .. Levels - 2, depth[t] = k,
         NEW i \in Slots, tb[t][i] = Absent, NEW f \in Nat, f \notin DOMAIN tb,
         NEW new, new = Added(tb, t, i, f)
  PROVE  TableChanged(tb, new, r, k, t, i, f)
<1>. SUFFICES \A v \in Nat : \A g, h : Path(tb, r, v, g) /\ Path(new, r, v, h) =>
                \A l \in 0 .. Levels :
                  h[l] = IF l = k + 1 /\ g[k] = t /\ Index(v, k) = i THEN f ELSE g[l]
  BY DEF TableChanged
<1>. SUFFICES ASSUME NEW v \in Nat, NEW g, Path(tb, r, v, g), NEW h, Path(new, r, v, h)
              PROVE  \A l \in 0 .. Levels :
                       h[l] = IF l = k + 1 /\ g[k] = t /\ Index(v, k) = i THEN f ELSE g[l]
  OBVIOUS
<1>0. /\ g[0] = r /\ h[0] = r
      /\ \A m \in 0 .. Levels - 1 : g[m + 1] = EntryIn(tb, g[m], v, m)
      /\ \A m \in 0 .. Levels - 1 : h[m + 1] = EntryIn(new, h[m], v, m)
  BY PathFacts
<1>1. \A l \in 0 .. Levels - 1 : g[l] = Absent \/ (g[l] \in DOMAIN tb /\ depth[g[l]] = l)
  BY PathDepth
<1>2. /\ DOMAIN new = DOMAIN tb \cup {f}
      /\ \A u \in DOMAIN tb \ {t} : new[u] = tb[u]
      /\ new[t] = [tb[t] EXCEPT ![i] = f] /\ new[f] = Cleared
      /\ Cleared \in [Slots -> Nat \cup {Absent}] /\ \A j \in Slots : Cleared[j] = Absent
  <2>1. IsAdded(tb, t, i, f, new)
    BY AddedFacts
  <2>. QED  BY <2>1 DEF IsAdded
<1>3. Absent \notin DOMAIN tb /\ Absent # f /\ tb[t] \in [Slots -> Nat \cup {Absent}]
  BY PagingConstants DEF Tables
<1>. DEFINE Fresh(l) == l = k + 1 /\ g[k] = t /\ Index(v, k) = i
            S == {l \in 0 .. Levels : h[l] = IF Fresh(l) THEN f ELSE g[l]}
<1>4. 0 \in S
  BY <1>0, PagingConstants
<1>5. ASSUME NEW l \in 0 .. Levels - 1, l \in S PROVE l + 1 \in S
  <2>1. /\ h[l + 1] = EntryIn(new, h[l], v, l) /\ g[l + 1] = EntryIn(tb, g[l], v, l)
        /\ Index(v, l) \in Slots
    BY <1>0, IndexInTable DEF Slots
  <2>2. h[l] = IF Fresh(l) THEN f ELSE g[l]
    BY <1>5
  <2>3. l + 1 \in 0 .. Levels
    BY PagingConstants
  <2>4. CASE Fresh(l)
    <3>1. g[l] = Absent
      <4>1. k \in 0 .. Levels - 1
        BY PagingConstants
      <4>2. g[k + 1] = EntryIn(tb, g[k], v, k)
        BY <1>0, <4>1
      <4>. QED  BY <2>4, <4>2 DEF EntryIn
    <3>2. h[l + 1] = Absent /\ g[l + 1] = Absent
      BY <1>2, <1>3, <2>1, <2>2, <2>4, <3>1 DEF EntryIn
    <3>3. ~Fresh(l + 1)
      BY <2>4
    <3>. QED  BY <2>3, <3>2, <3>3
  <2>5. CASE ~Fresh(l) /\ g[l] = t
    <3>1. l = k
      BY <1>1, <1>3, <2>5
    <3>2. h[l + 1] = [tb[t] EXCEPT ![i] = f][Index(v, l)] /\ g[l + 1] = tb[t][Index(v, l)]
      BY <1>2, <2>1, <2>2, <2>5 DEF EntryIn
    <3>3. CASE Index(v, l) = i
      BY <1>3, <2>3, <2>5, <3>1, <3>2, <3>3
    <3>4. CASE Index(v, l) # i
      BY <1>3, <2>1, <2>3, <2>5, <3>1, <3>2, <3>4
    <3>. QED  BY <3>3, <3>4
  <2>6. CASE ~Fresh(l) /\ g[l] # t
    <3>1. h[l] = g[l] /\ ~Fresh(l + 1)
      BY <2>2, <2>6
    <3>2. g[l] # f
      BY <1>1, <1>3
    <3>3. h[l + 1] = g[l + 1]
      BY <1>2, <2>1, <2>6, <3>1, <3>2 DEF EntryIn
    <3>. QED  BY <2>3, <3>1, <3>3
  <2>. QED  BY <2>4, <2>5, <2>6
<1>. HIDE DEF S
<1>6. 0 .. Levels \subseteq S
  BY <1>4, <1>5, SetInduction, PagingConstants
<1>. QED  BY <1>6 DEF S

(* There is one path for a page.                                           *)
LEMMA PathUnique ==
  ASSUME NEW tb, NEW r, NEW v, NEW g, Path(tb, r, v, g), NEW h, Path(tb, r, v, h)
  PROVE  \A l \in 0 .. Levels : g[l] = h[l]
<1>0. /\ g[0] = r /\ h[0] = r
      /\ \A m \in 0 .. Levels - 1 : g[m + 1] = EntryIn(tb, g[m], v, m)
      /\ \A m \in 0 .. Levels - 1 : h[m + 1] = EntryIn(tb, h[m], v, m)
  BY PathFacts
<1>. DEFINE S == {l \in 0 .. Levels : g[l] = h[l]}
<1>1. 0 \in S
  BY <1>0, PagingConstants
<1>2. ASSUME NEW l \in 0 .. Levels - 1, l \in S PROVE l + 1 \in S
  <2>1. l + 1 \in 0 .. Levels
    BY PagingConstants
  <2>. QED  BY <1>0, <1>2, <2>1
<1>. HIDE DEF S
<1>3. 0 .. Levels \subseteq S
  BY <1>1, <1>2, SetInduction, PagingConstants
<1>. QED  BY <1>3 DEF S

(* vmm_get_phys and get_pte follow the path, before a step and after it.   *)
WalksArePaths ==
  \A v : \E g : Path(table, root, v, g) /\ \A l \in 0 .. Levels : Walk(v, l) = g[l]

LEMMA WalksFollowPaths == WalksArePaths
BY WalkIsPath DEF WalksArePaths

LEMMA OneEntry ==
  ASSUME NEW depth, Tables(table), Tree(table, root, depth),
         NEW v \in Virtual, NEW t, t = Walk(v, Levels - 1), t # Absent,
         NEW x \in Nat \cup {Absent},
         table' = [table EXCEPT ![t][Index(v, Levels - 1)] = x], root' = root
  PROVE  /\ Tables(table') /\ Tree(table', root', depth) /\ DOMAIN table' = DOMAIN table
         /\ \A w \in Virtual :
              vmm_get_phys(w)' = IF w = v THEN x ELSE vmm_get_phys(w)
<1>1. WalksArePaths /\ WalksArePaths'
  BY WalksFollowPaths, PTL
<1>2. Levels - 1 \in 0 .. Levels - 1 /\ Levels - 1 \in 0 .. Levels /\ Levels \in 0 .. Levels
  BY PagingConstants
<1>3. PICK g : Path(table, root, v, g) /\ \A l \in 0 .. Levels : Walk(v, l) = g[l]
  BY <1>1 DEF WalksArePaths
<1>4. \A w \in Virtual : w \in Nat
  BY ReachFacts, PagingConstants DEF Virtual
<1>5. t = g[Levels - 1]
  BY <1>2, <1>3
<1>6. t \in DOMAIN table /\ depth[t] = Levels - 1
  BY <1>2, <1>3, <1>4, <1>5, PathDepth
<1>7. PICK i \in Slots : i = Index(v, Levels - 1)
  BY <1>2, <1>4, IndexInTable DEF Slots
<1>8. PICK new : new = [table EXCEPT ![t][i] = x]
  OBVIOUS
<1>9. Tables(new) /\ Tree(new, root, depth) /\ DOMAIN new = DOMAIN table
  BY <1>6, <1>8, EntrySet
<1>10. table' = new
  BY <1>7, <1>8
<1>11. OneEntryChanged(table, new, root, t, i, x)
  BY <1>6, <1>8, EntrySetWalk
<1>12. ASSUME NEW w \in Virtual
       PROVE  vmm_get_phys(w)' = IF w = v THEN x ELSE vmm_get_phys(w)
  <2>1. PICK f : Path(table, root, w, f) /\ \A l \in 0 .. Levels : Walk(w, l) = f[l]
    BY <1>1 DEF WalksArePaths
  <2>2. PICK h : Path(table', root', w, h) /\ \A l \in 0 .. Levels : Walk(w, l)' = h[l]
    BY <1>1 DEF WalksArePaths
  <2>3. Path(new, root, w, h)
    BY <1>10, <2>2
  <2>4. h[Levels] = IF f[Levels - 1] = t /\ Index(w, Levels - 1) = i THEN x ELSE f[Levels]
    BY <1>4, <1>11, <2>1, <2>3 DEF OneEntryChanged
  <2>5. w = v => f[Levels - 1] = t /\ Index(w, Levels - 1) = i
    BY <1>2, <1>5, <1>7, <1>3, <2>1
  <2>6. f[Levels - 1] = t /\ Index(w, Levels - 1) = i => w = v
    <3>. SUFFICES ASSUME f[Levels - 1] = t, Index(w, Levels - 1) = i PROVE v = w
      OBVIOUS
    <3>1. g[Levels - 1] = f[Levels - 1] /\ g[Levels - 1] # Absent
          /\ Index(v, Levels - 1) = Index(w, Levels - 1)
      BY <1>5, <1>7
    <3>. QED  BY <1>3, <2>1, <3>1, OnePage
  <2>7. vmm_get_phys(w)' = h[Levels] /\ vmm_get_phys(w) = f[Levels]
    BY <1>2, <2>1, <2>2 DEF vmm_get_phys
  <2>. QED  BY <2>4, <2>5, <2>6, <2>7
<1>. QED  BY <1>9, <1>10, <1>12

LEMMA OneTable ==
  ASSUME NEW depth, Tables(table), Tree(table, root, depth),
         NEW v \in Nat, NEW k \in 0 .. Levels - 2, NEW t \in DOMAIN table,
         t = Walk(v, k), depth[t] = k, table[t][Index(v, k)] = Absent,
         NEW f \in Nat, f \notin DOMAIN table,
         table' = Added(table, t, Index(v, k), f), root' = root
  PROVE  /\ Tables(table') /\ DOMAIN table' = DOMAIN table \cup {f}
         /\ \E deeper : Tree(table', root', deeper) /\ deeper[f] = k + 1
         /\ Walk(v, k + 1)' = f
         /\ \A w \in Nat : vmm_get_phys(w)' = vmm_get_phys(w)
<1>1. WalksArePaths /\ WalksArePaths'
  BY WalksFollowPaths, PTL
<1>2. k \in 0 .. Levels - 1 /\ k \in 0 .. Levels /\ k + 1 \in 0 .. Levels /\ k + 1 # Levels
      /\ Levels \in 0 .. Levels
  BY PagingConstants
<1>3. PICK i \in Slots : i = Index(v, k)
  BY <1>2, IndexInTable DEF Slots
<1>4. PICK new : new = Added(table, t, i, f)
  OBVIOUS
<1>5. table' = new /\ table[t][i] = Absent
  BY <1>3, <1>4
<1>6. PICK deeper : deeper = [u \in DOMAIN table \cup {f} |-> IF u = f THEN k + 1 ELSE depth[u]]
  OBVIOUS
<1>7. Tables(new) /\ Tree(new, root, deeper)
  BY <1>4, <1>5, <1>6, TableAdded
<1>8. DOMAIN new = DOMAIN table \cup {f}
  BY <1>4 DEF Added
<1>9. TableChanged(table, new, root, k, t, i, f)
  BY <1>4, <1>5, TableAddedWalk
<1>10. ASSUME NEW w \in Nat
       PROVE  \E g, h :
                /\ Path(table, root, w, g) /\ \A l \in 0 .. Levels : Walk(w, l) = g[l]
                /\ \A l \in 0 .. Levels : Walk(w, l)' = h[l]
                /\ \A l \in 0 .. Levels :
                     h[l] = IF l = k + 1 /\ g[k] = t /\ Index(w, k) = i THEN f ELSE g[l]
  <2>1. PICK g : Path(table, root, w, g) /\ \A l \in 0 .. Levels : Walk(w, l) = g[l]
    BY <1>1 DEF WalksArePaths
  <2>2. PICK h : Path(table', root', w, h) /\ \A l \in 0 .. Levels : Walk(w, l)' = h[l]
    BY <1>1 DEF WalksArePaths
  <2>3. Path(new, root, w, h)
    BY <1>5, <2>2
  <2>4. \A l \in 0 .. Levels :
          h[l] = IF l = k + 1 /\ g[k] = t /\ Index(w, k) = i THEN f ELSE g[l]
    BY <1>9, <2>1, <2>3 DEF TableChanged
  <2>. QED  BY <2>1, <2>2, <2>4
<1>11. Walk(v, k + 1)' = f
  BY <1>2, <1>3, <1>10
<1>12. ASSUME NEW w \in Nat PROVE vmm_get_phys(w)' = vmm_get_phys(w)
  BY <1>2, <1>10 DEF vmm_get_phys
<1>. QED  BY <1>5, <1>6, <1>7, <1>8, <1>11, <1>12

(* A step that writes no table changes no walk.                            *)
LEMMA NoTable ==
  ASSUME table' = table, root' = root
  PROVE  \A v : \A l \in 0 .. Levels : Walk(v, l)' = Walk(v, l)
<1>1. WalksArePaths /\ WalksArePaths'
  BY WalksFollowPaths, PTL
<1>. TAKE v
<1>2. PICK g : Path(table, root, v, g) /\ \A l \in 0 .. Levels : Walk(v, l) = g[l]
  BY <1>1 DEF WalksArePaths
<1>3. PICK h : Path(table', root', v, h) /\ \A l \in 0 .. Levels : Walk(v, l)' = h[l]
  BY <1>1 DEF WalksArePaths
<1>4. Path(table, root, v, h)
  BY <1>3
<1>5. \A l \in 0 .. Levels : g[l] = h[l]
  BY <1>2, <1>4, PathUnique
<1>. QED  BY <1>2, <1>3, <1>5

LEMMA WalksBegin == \A v : Walk(v, 0)' = root'
<1>1. WalksArePaths'
  BY WalksFollowPaths, PTL
<1>. TAKE v
<1>2. PICK h : Path(table', root', v, h) /\ \A l \in 0 .. Levels : Walk(v, l)' = h[l]
  BY <1>1 DEF WalksArePaths
<1>. QED  BY <1>2, PathFacts, PagingConstants

LEMMA WalkSteps ==
  \A v : /\ Walk(v, 0) = root
         /\ \A l \in 0 .. Levels - 1 : Walk(v, l + 1) = Entry(Walk(v, l), v, l)
<1>. TAKE v
<1>1. PICK g : Path(table, root, v, g) /\ \A l \in 0 .. Levels : Walk(v, l) = g[l]
  BY WalkIsPath
<1>2. /\ g[0] = root
      /\ \A l \in 0 .. Levels - 1 : g[l + 1] = EntryIn(table, g[l], v, l)
  BY <1>1, PathFacts
<1>3. \A l \in 0 .. Levels - 1 : l \in 0 .. Levels /\ l + 1 \in 0 .. Levels
  BY PagingConstants
<1>4. 0 \in 0 .. Levels
  BY PagingConstants
<1>. QED  BY <1>1, <1>2, <1>3, <1>4 DEF EntryIn, Entry

-----------------------------------------------------------------------------
(***************************************************************************)
(* The invariant of the page tables.                                       *)
(***************************************************************************)
Mappings == [virt : Virtual, phys : Mappable]

\* Every table lies in a granted frame, so a frame that is granted is new.
InFrames == 0 \in memory_map /\ DOMAIN table \subseteq memory_map

InPhase ==
  /\ (phase = "boot") <=> (root = NULL)
  /\ phase = "boot" => DOMAIN table = {}
  /\ pages # <<>> => phase \in {"init", "mmio"}

Todo ==
  /\ pages \in Seq(Mappings)
  /\ mmio_virt_next \in Nat
  /\ MmioBase .. mmio_virt_next - 1 \subseteq Virtual

\* The loop of the caller stands where the walk for its page has come to.
Cursor ==
  /\ level \in 0 .. Levels - 1
  /\ IF pages = <<>> THEN at = root /\ level = 0 ELSE at = Walk(Page.virt, level)

Grown ==
  root # NULL =>
    Tables(table) /\ \E depth : Tree(table, root, depth) /\ at \in DOMAIN table /\ depth[at] = level

PageInv == InFrames /\ InPhase /\ Todo /\ Cursor /\ Grown

LEMMA GrantIsNew ==
  ASSUME Grant(1)
  PROVE  ret' \in Nat /\ ret' \notin memory_map /\ memory_map' = memory_map \cup {ret'}
<1>1. PICK s \in 0 .. MaxBlocks - 1 :
        FirstFit(s, 1) /\ memory_map' = memory_map \cup Extent(s, 1) /\ ret' = s
  BY DEF Grant
<1>2. Extent(s, 1) = {s}
  BY DEF Extent
<1>3. Extent(s, 1) \cap memory_map = {}
  BY <1>1 DEF FirstFit, FitsAt
<1>. QED  BY <1>1, <1>2, <1>3

LEMMA FramesGrow == ASSUME [KernelNext]_vars PROVE memory_map \subseteq memory_map'
BY DEF KernelNext, Grant, Refuse, vars

LEMMA VirtualFacts == Virtual \subseteq Nat /\ \A w \in Nat, v \in Virtual : w <= v => w \in Virtual
BY ReachFacts, PagingConstants DEF Virtual

(* What the callers of vmm_map have to map.                                *)
LEMMA RunMaps ==
  ASSUME NEW v \in Nat, NEW q \in Nat, NEW n \in Nat,
         \A i \in 1 .. n : v + i - 1 \in Virtual /\ q + i - 1 \in Mappable
  PROVE  Run(v, q, n) \in Seq(Mappings)
BY DEF Run, Mappings

PlainMapping == [virt : Nat, phys : Nat]

LEMMA InitPagesPlain == InitPages \in Seq(PlainMapping)
<1>1. /\ BlockSize \in Nat \ {0} /\ LowPages \in Nat /\ FbAddr \in Nat /\ FbSize \in Nat
      /\ KernelVirt \in Nat /\ KernelPhys \in Nat /\ KernelPages \in Nat
  BY PagingAssumption
<1>2. ASSUME NEW v \in Nat, NEW q \in Nat, NEW n \in Nat PROVE Run(v, q, n) \in Seq(PlainMapping)
  <2>1. \A i \in 1 .. n : v + i - 1 \in Nat /\ q + i - 1 \in Nat
    OBVIOUS
  <2>. QED  BY <2>1 DEF Run, PlainMapping
<1>3. PageOf(FbAddr) \in Nat /\ FbPages \in Nat
  <2>1. FbSize + BlockSize - 1 \in Nat
    BY <1>1
  <2>2. \A a \in Nat : a \div BlockSize \in Nat
    BY <1>1
  <2>. QED  BY <1>1, <2>1, <2>2 DEF PageOf, FbPages
<1>4. Run(0, 0, LowPages) \in Seq(PlainMapping)
  BY <1>1, <1>2
<1>5. Run(PageOf(FbAddr), PageOf(FbAddr), FbPages) \in Seq(PlainMapping)
  BY <1>2, <1>3
<1>6. Run(KernelVirt, KernelPhys, KernelPages) \in Seq(PlainMapping)
  BY <1>1, <1>2
<1>. QED  BY <1>4, <1>5, <1>6 DEF InitPages

LEMMA InitPagesMap == InitPages \in Seq(Mappings)
<1>1. ASSUME NEW i \in 1 .. Len(InitPages) PROVE InitPages[i] \in Mappings
  <2>1. i \in DOMAIN InitPages /\ InitPages[i] \in PlainMapping
    BY InitPagesPlain
  <2>2. InitPages[i].virt \in Virtual
    BY <2>1, InitPagesAssumption
  <2>3. InitPages[i].phys \in Mappable
    BY <2>1 DEF Mappable
  <2>. QED  BY <2>1, <2>2, <2>3 DEF Mappings, PlainMapping
<1>. QED  BY <1>1, InitPagesPlain

LEMMA MappableNat == Mappable \subseteq Nat
<1>1. ASSUME NEW i \in DOMAIN InitPages PROVE InitPages[i].phys \in Nat
  <2>1. InitPages[i] \in PlainMapping
    BY InitPagesPlain
  <2>. QED  BY <2>1 DEF PlainMapping
<1>2. ASSUME NEW d \in Devices, NEW b \in PageOf(d.phys) .. PageOf(d.phys + d.size - 1)
      PROVE  b \in Nat
  <2>1. PageOf(d.phys) \in Nat
    BY PagingAssumption DEF PageOf
  <2>. QED  BY <1>2, <2>1
<1>. QED  BY <1>1, <1>2 DEF Mappable

LEMMA DeviceMaps ==
  ASSUME NEW d \in Devices, NEW v \in Nat, v + PageCount(d.phys, d.size) - 1 \in Virtual
  PROVE  /\ PageCount(d.phys, d.size) \in Nat
         /\ Run(v, PageOf(d.phys), PageCount(d.phys, d.size)) \in Seq(Mappings)
<1>1. PICK B \in Nat \ {0} : B = BlockSize
  BY PagingAssumption
<1>2. PICK x \in Nat : x = d.phys
  BY PagingAssumption
<1>3. PICK s \in Nat : s = d.size
  BY PagingAssumption
<1>4. PICK a \in Nat : a = x \div B
  BY <1>1
<1>5. PICK o \in 0 .. B - 1 : o = x % B
  BY <1>1
<1>6. x = B * a + o
  BY <1>4, <1>5
<1>7. PICK n \in Nat : n = (s + o + B - 1) \div B
  BY <1>1
<1>8. PageCount(d.phys, d.size) = n /\ PageOf(d.phys) = a
  BY <1>1, <1>2, <1>3, <1>4, <1>5, <1>7 DEF PageCount, PageOf
<1>9. n > 0 => (x + s - 1) \div B = a + n - 1
  <2>. SUFFICES ASSUME n > 0 PROVE (x + s - 1) \div B = a + n - 1
    OBVIOUS
  <2>1. B * n <= s + o + B - 1 /\ s + o + B - 1 < B * n + B
    BY <1>7
  <2>2. B * (n - 1) = B * n - B /\ B * (a + n - 1) = B * a + B * n - B
    OBVIOUS
  <2>3. B * (a + n - 1) <= x + s - 1 /\ x + s - 1 < B * (a + n - 1) + B
    BY <1>6, <2>1, <2>2
  <2>. QED  BY <2>3
<1>10. ASSUME NEW i \in 1 .. n PROVE v + i - 1 \in Virtual /\ a + i - 1 \in Mappable
  <2>1. v + i - 1 \in Virtual
    BY <1>8, VirtualFacts
  <2>2. PageOf(d.phys + d.size - 1) = a + n - 1
    BY <1>1, <1>2, <1>3, <1>9 DEF PageOf
  <2>3. a + i - 1 \in PageOf(d.phys) .. PageOf(d.phys + d.size - 1)
    BY <1>8, <2>2
  <2>. QED  BY <2>1, <2>3 DEF Mappable
<1>. QED  BY <1>8, <1>10, RunMaps

-----------------------------------------------------------------------------
(* The map that the tables stand for, and the steps that change it.        *)
Mapped == [v \in Virtual |-> IF root = NULL THEN Absent ELSE vmm_get_phys(v)]

OnePageChanged ==
  \E w \in Virtual, x \in Mappable \cup {Absent} : Mapped' = [Mapped EXCEPT ![w] = x]

MappedStep == Mapped' = Mapped \/ OnePageChanged

LEMMA PageInvInit == MemoryInit => PageInv
<1>. SUFFICES ASSUME MemoryInit PROVE PageInv
  OBVIOUS
<1>1. 0 \in memory_map /\ DOMAIN table = {} /\ root = NULL /\ phase = "boot"
      /\ pages = <<>> /\ at = NULL /\ level = 0 /\ mmio_virt_next = MmioBase
  BY DEF MemoryInit, Init, PagingInit, RegionMap
<1>2. MmioBase \in Nat /\ MmioBase .. MmioBase - 1 = {} /\ 0 \in 0 .. Levels - 1
  BY PagingAssumption
<1>. QED  BY <1>1, <1>2 DEF PageInv, InFrames, InPhase, Todo, Cursor, Grown

(* Steps that write no table and stay at the root, or leave the walk alone.*)
LEMMA SameTables ==
  ASSUME table' = table, root' = root
  PROVE  Mapped' = Mapped
<1>1. \A v : vmm_get_phys(v)' = vmm_get_phys(v)
  <2>1. Levels \in 0 .. Levels
    BY PagingConstants
  <2>. QED  BY <2>1, NoTable DEF vmm_get_phys
<1>. QED  BY <1>1 DEF Mapped

LEMMA PageInvOthers ==
  ASSUME PageInv, UNCHANGED pagingVars, memory_map \subseteq memory_map'
  PROVE  PageInv' /\ Mapped' = Mapped
<1>1. /\ table' = table /\ root' = root /\ phase' = phase /\ pages' = pages /\ at' = at
      /\ level' = level /\ mmio_virt_next' = mmio_virt_next
  BY DEF pagingVars, walk, mmio
<1>2. InFrames' /\ InPhase' /\ Todo' /\ Grown'
  BY <1>1 DEF PageInv, InFrames, InPhase, Todo, Grown
<1>3. Cursor'
  <2>1. level \in 0 .. Levels /\ level \in 0 .. Levels - 1
    BY PagingConstants DEF PageInv, Cursor
  <2>2. Page' = Page
    BY <1>1 DEF Page
  <2>. QED  BY <1>1, <2>1, <2>2, NoTable DEF PageInv, Cursor
<1>. QED  BY <1>1, <1>2, <1>3, SameTables DEF PageInv

LEMMA AtRoot ==
  ASSUME PageInv, table' = table, root' = root, at' = root, level' = 0
  PROVE  Cursor' /\ Grown' /\ Mapped' = Mapped
<1>1. Cursor'
  BY WalksBegin, PagingConstants DEF Cursor
<1>2. Grown'
  BY DEF PageInv, Grown, Tree
<1>. QED  BY <1>1, <1>2, SameTables

LEMMA BootStep == ASSUME PageInv, vmm_init PROVE PageInv' /\ Mapped' = Mapped
<1>1. /\ phase = "boot" /\ root = NULL /\ DOMAIN table = {} /\ level = 0
      /\ 0 \in memory_map
      /\ mmio_virt_next \in Nat /\ MmioBase .. mmio_virt_next - 1 \subseteq Virtual
  BY DEF PageInv, InFrames, InPhase, Todo, Cursor, vmm_init
<1>2. /\ ret' \in Nat /\ ret' # 0 /\ memory_map' = memory_map \cup {ret'}
  BY <1>1, GrantIsNew DEF vmm_init, Allocate
<1>3. /\ table' = WithTable(ret') /\ root' = ret' /\ at' = ret' /\ phase' = "init"
      /\ pages' = InitPages /\ level' = 0 /\ mmio_virt_next' = mmio_virt_next
  BY <1>1 DEF vmm_init, mmio
<1>4. PICK f \in Nat : f = ret' /\ f # 0
  BY <1>2
<1>5. PICK tb : tb = table'
  OBVIOUS
<1>6. DOMAIN tb = {f} /\ tb[f] = Cleared
  BY <1>1, <1>3, <1>4, <1>5 DEF WithTable
<1>7. Cleared \in [Slots -> Nat \cup {Absent}] /\ \A i \in Slots : Cleared[i] = Absent
  BY DEF Cleared, Slots
<1>8. Tables(tb)
  BY <1>4, <1>6, <1>7 DEF Tables
<1>. DEFINE depth == [u \in {f} |-> 0]
<1>9. Tree(tb, f, depth) /\ depth[f] = 0
  BY <1>6, <1>7, PagingConstants DEF Tree
<1>10. InFrames' /\ InPhase'
  BY <1>1, <1>2, <1>3, <1>4, <1>5, <1>6 DEF InFrames, InPhase, NULL
<1>11. Todo'
  BY <1>1, <1>3, InitPagesMap DEF Todo
<1>12. WalksArePaths'
  BY WalksFollowPaths, PTL
<1>13. Cursor'
  BY <1>3, WalksBegin, PagingConstants DEF Cursor
<1>14. Grown'
  BY <1>3, <1>4, <1>5, <1>6, <1>8, <1>9 DEF Grown
<1>15. ASSUME NEW v \in Virtual PROVE vmm_get_phys(v)' = Absent
  <2>1. PICK h : Path(tb, f, v, h) /\ \A l \in 0 .. Levels : Walk(v, l)' = h[l]
    BY <1>3, <1>4, <1>5, <1>12 DEF WalksArePaths
  <2>2. v \in Nat
    BY VirtualFacts
  <2>3. /\ h[0] = f
        /\ \A m \in 0 .. Levels - 1 : h[m + 1] = EntryIn(tb, h[m], v, m)
    BY <2>1, PathFacts
  <2>4. /\ \A l \in 0 .. Levels - 1 : h[l] = Absent => h[l + 1] = Absent
    BY <1>8, <1>9, <2>1, <2>2, PathDepth
  <2>5. \A m \in 0 .. Levels - 1 : h[m + 1] = Absent
    <3>1. ASSUME NEW m \in 0 .. Levels - 1 PROVE EntryIn(tb, h[m], v, m) = Absent
      <4>1. Index(v, m) \in Slots
        BY <2>2, IndexInTable DEF Slots
      <4>. QED  BY <1>6, <1>7, <4>1 DEF EntryIn
    <3>. QED  BY <2>3, <3>1
  <2>6. Levels - 1 \in 0 .. Levels - 1 /\ (Levels - 1) + 1 = Levels /\ Levels \in 0 .. Levels
    BY PagingConstants
  <2>7. h[Levels] = Absent
    BY <2>5, <2>6
  <2>. QED  BY <2>1, <2>6, <2>7 DEF vmm_get_phys
<1>16. Mapped' = Mapped
  BY <1>1, <1>3, <1>15 DEF Mapped
<1>. QED  BY <1>10, <1>11, <1>13, <1>14, <1>16 DEF PageInv

LEMMA SwitchStep == ASSUME PageInv, vmm_set_pml4 PROVE PageInv' /\ Mapped' = Mapped
<1>1. /\ phase = "init" /\ phase' = "idle" /\ pages = <<>> /\ pages' = pages
      /\ table' = table /\ root' = root /\ at' = at /\ level' = level
      /\ mmio_virt_next' = mmio_virt_next /\ memory_map' = memory_map
  BY DEF vmm_set_pml4, walk, mmio, vars
<1>2. at' = root /\ level' = 0
  BY <1>1 DEF PageInv, Cursor
<1>3. InFrames' /\ InPhase' /\ Todo'
  BY <1>1 DEF PageInv, InFrames, InPhase, Todo
<1>. QED  BY <1>1, <1>2, <1>3, AtRoot DEF PageInv

LEMMA CallStep == ASSUME PageInv, NEW d \in Devices, mmio_map(d) PROVE PageInv' /\ Mapped' = Mapped
<1>. DEFINE n == PageCount(d.phys, d.size)
<1>1. /\ phase = "idle" /\ phase' = "mmio" /\ mmio_virt_next + n - 1 \in Virtual
      /\ pages' = Run(mmio_virt_next, PageOf(d.phys), n)
      /\ table' = table /\ root' = root /\ at' = at /\ level' = level
      /\ mmio_virt_next' = mmio_virt_next + n /\ memory_map' = memory_map
  BY DEF mmio_map, vars
<1>2. at' = root /\ level' = 0
  BY <1>1 DEF PageInv, Cursor, InPhase
<1>3. mmio_virt_next \in Nat
  BY DEF PageInv, Todo
<1>4. n \in Nat /\ pages' \in Seq(Mappings)
  BY <1>1, <1>3, DeviceMaps
<1>5. InFrames' /\ InPhase'
  BY <1>1 DEF PageInv, InFrames, InPhase
<1>6. MmioBase .. mmio_virt_next' - 1 \subseteq Virtual
  <2>. HIDE DEF n
  <2>1. MmioBase \in Nat
    BY PagingAssumption
  <2>2. ASSUME NEW w \in MmioBase .. mmio_virt_next' - 1 PROVE w \in Nat /\ w <= mmio_virt_next + n - 1
    BY <1>1, <1>3, <1>4, <2>1
  <2>. QED  BY <1>1, <2>2, VirtualFacts
<1>7. Todo'
  BY <1>1, <1>3, <1>4, <1>6 DEF Todo
<1>. QED  BY <1>1, <1>2, <1>5, <1>7, AtRoot DEF PageInv

LEMMA ReturnStep == ASSUME PageInv, MmioMapped PROVE PageInv' /\ Mapped' = Mapped
<1>1. /\ phase = "mmio" /\ phase' = "idle" /\ pages = <<>> /\ pages' = pages
      /\ table' = table /\ root' = root /\ at' = at /\ level' = level
      /\ mmio_virt_next' = mmio_virt_next /\ memory_map' = memory_map
  BY DEF MmioMapped, walk, mmio, vars
<1>2. at' = root /\ level' = 0
  BY <1>1 DEF PageInv, Cursor
<1>3. InFrames' /\ InPhase' /\ Todo'
  BY <1>1 DEF PageInv, InFrames, InPhase, Todo
<1>. QED  BY <1>1, <1>2, <1>3, AtRoot DEF PageInv

LEMMA GiveUpStep == ASSUME PageInv, OutOfFrames PROVE PageInv' /\ Mapped' = Mapped
<1>1. /\ pages # <<>> /\ pages' = <<>> /\ phase' = (IF phase = "init" THEN "halted" ELSE "idle")
      /\ table' = table /\ root' = root /\ at' = root /\ level' = 0
      /\ mmio_virt_next' = mmio_virt_next /\ memory_map' = memory_map
  BY DEF OutOfFrames, NoFrame, Refuse, Walking
<1>2. InFrames' /\ InPhase'
  BY <1>1 DEF PageInv, InFrames, InPhase
<1>3. Todo'
  BY <1>1 DEF PageInv, Todo
<1>. QED  BY <1>1, <1>2, <1>3, AtRoot DEF PageInv

LEMMA PageFacts ==
  ASSUME PageInv, pages # <<>>
  PROVE  /\ Page.virt \in Virtual /\ Page.virt \in Nat /\ Page.phys \in Mappable
         /\ Tail(pages) \in Seq(Mappings)
         /\ phase \in {"init", "mmio"} /\ root # NULL
         /\ level \in 0 .. Levels - 1 /\ at = Walk(Page.virt, level)
         /\ Index(Page.virt, level) \in Slots
<1>1. pages \in Seq(Mappings)
  BY DEF PageInv, Todo
<1>2. Page \in Mappings /\ Tail(pages) \in Seq(Mappings)
  BY <1>1 DEF Page
<1>3. Page.virt \in Virtual /\ Page.phys \in Mappable
  BY <1>2 DEF Mappings
<1>4. level \in 0 .. Levels - 1 /\ at = Walk(Page.virt, level)
  BY DEF PageInv, Cursor
<1>5. phase \in {"init", "mmio"} /\ root # NULL
  BY DEF PageInv, InPhase
<1>. QED  BY <1>2, <1>3, <1>4, <1>5, VirtualFacts, IndexInTable DEF Slots

LEMMA DownStep == ASSUME PageInv, Descend PROVE PageInv' /\ Mapped' = Mapped
<1>1. /\ pages # <<>> /\ level < Levels - 1 /\ Here # Absent /\ at' = Here /\ level' = level + 1
      /\ table' = table /\ root' = root /\ pages' = pages /\ phase' = phase
      /\ mmio_virt_next' = mmio_virt_next /\ memory_map' = memory_map
  BY DEF Descend, Walking, mmio, vars
<1>2. PICK v \in Virtual : v = Page.virt
  BY <1>1, PageFacts
<1>3. PICK l \in 0 .. Levels - 1 : l = level /\ l < Levels - 1
  BY <1>1, PageFacts
<1>4. PICK t : t = at
  OBVIOUS
<1>5. t = Walk(v, l) /\ Here = table[t][Index(v, l)] /\ Index(v, l) \in Slots
  BY <1>1, <1>2, <1>3, <1>4, PageFacts DEF Here
<1>6. PICK depth : Tables(table) /\ Tree(table, root, depth) /\ t \in DOMAIN table /\ depth[t] = l
  BY <1>1, <1>3, <1>4, PageFacts DEF PageInv, Grown
<1>7. Here \in DOMAIN table /\ depth[Here] = l + 1
  BY <1>1, <1>3, <1>5, <1>6 DEF Tree
<1>8. Walk(v, l + 1) = Here
  BY <1>5, <1>6, WalkSteps DEF Entry
<1>9. Page' = Page
  BY <1>1 DEF Page
<1>10. Walk(v, l + 1)' = Here /\ l + 1 \in 0 .. Levels - 1
  BY <1>1, <1>3, <1>8, NoTable, PagingConstants
<1>11. Cursor'
  <2>1. at' = Walk(v, l + 1)' /\ Page.virt' = v /\ level' = l + 1
    BY <1>1, <1>2, <1>3, <1>9, <1>10
  <2>. QED  BY <1>1, <1>10, <2>1 DEF Cursor
<1>12. Grown'
  BY <1>1, <1>3, <1>6, <1>7 DEF Grown
<1>13. InFrames' /\ InPhase' /\ Todo'
  BY <1>1 DEF PageInv, InFrames, InPhase, Todo
<1>. QED  BY <1>1, <1>11, <1>12, <1>13, SameTables DEF PageInv

LEMMA GrowStep == ASSUME PageInv, AddTable PROVE PageInv' /\ Mapped' = Mapped
<1>1. /\ pages # <<>> /\ level < Levels - 1 /\ Here = Absent /\ Grant(1)
      /\ table' = [WithTable(ret') EXCEPT ![at][Index(Page.virt, level)] = ret']
      /\ at' = ret' /\ level' = level + 1
      /\ root' = root /\ pages' = pages /\ phase' = phase /\ mmio_virt_next' = mmio_virt_next
  BY DEF AddTable, Walking, Allocate, mmio
<1>2. PICK v \in Virtual : v = Page.virt
  BY <1>1, PageFacts
<1>3. PICK l \in 0 .. Levels - 2 : l = level
  BY <1>1, PageFacts, PagingConstants
<1>4. PICK t : t = at
  OBVIOUS
<1>5. v \in Nat /\ t = Walk(v, l) /\ table[t][Index(v, l)] = Absent
  BY <1>1, <1>2, <1>3, <1>4, PageFacts DEF Here
<1>6. PICK depth : Tables(table) /\ Tree(table, root, depth) /\ t \in DOMAIN table /\ depth[t] = l
  BY <1>1, <1>3, <1>4, PageFacts DEF PageInv, Grown
<1>7. PICK f \in Nat : f = ret' /\ f \notin memory_map /\ memory_map' = memory_map \cup {f}
  BY <1>1, GrantIsNew
<1>8. f \notin DOMAIN table
  BY <1>7 DEF PageInv, InFrames
<1>9. table' = Added(table, t, Index(v, l), f)
  BY <1>1, <1>2, <1>3, <1>4, <1>7 DEF Added, WithTable
<1>10. /\ Tables(table') /\ DOMAIN table' = DOMAIN table \cup {f}
       /\ \E deeper : Tree(table', root', deeper) /\ deeper[f] = l + 1
       /\ Walk(v, l + 1)' = f
       /\ \A w \in Nat : vmm_get_phys(w)' = vmm_get_phys(w)
  BY <1>1, <1>5, <1>6, <1>8, <1>9, OneTable
<1>11. Cursor'
  <2>1. Page' = Page
    BY <1>1 DEF Page
  <2>2. at' = Walk(v, l + 1)' /\ Page.virt' = v /\ level' = l + 1 /\ l + 1 \in 0 .. Levels - 1
    BY <1>1, <1>2, <1>3, <1>7, <1>10, <2>1, PagingConstants
  <2>. QED  BY <1>1, <2>2 DEF Cursor
<1>12. Grown'
  BY <1>1, <1>3, <1>7, <1>10 DEF Grown
<1>13. InFrames' /\ InPhase' /\ Todo'
  BY <1>1, <1>7, <1>10 DEF PageInv, InFrames, InPhase, Todo
<1>14. Mapped' = Mapped
  BY <1>1, <1>10, VirtualFacts DEF Mapped
<1>. QED  BY <1>11, <1>12, <1>13, <1>14 DEF PageInv

LEMMA EntryStep ==
  ASSUME PageInv, SetEntry
  PROVE  PageInv' /\ Mapped' = [Mapped EXCEPT ![Page.virt] = Page.phys]
<1>1. /\ pages # <<>> /\ level = Levels - 1
      /\ table' = [table EXCEPT ![at][Index(Page.virt, level)] = Page.phys]
      /\ pages' = Tail(pages) /\ at' = root /\ level' = 0
      /\ root' = root /\ phase' = phase /\ mmio_virt_next' = mmio_virt_next
      /\ memory_map' = memory_map
  BY DEF SetEntry, mmio, vars
<1>2. PICK v \in Virtual : v = Page.virt
  BY <1>1, PageFacts
<1>3. PICK x \in Nat \cup {Absent} : x = Page.phys /\ x \in Mappable
  BY <1>1, PageFacts, MappableNat
<1>4. PICK t : t = at
  OBVIOUS
<1>5. PICK depth : Tables(table) /\ Tree(table, root, depth) /\ t \in DOMAIN table
  BY <1>1, <1>4, PageFacts DEF PageInv, Grown
<1>6. t # Absent
  BY <1>5, PagingConstants DEF Tables
<1>7. t = Walk(v, Levels - 1) /\ table' = [table EXCEPT ![t][Index(v, Levels - 1)] = x]
      /\ root' = root
  BY <1>1, <1>2, <1>3, <1>4, PageFacts
<1>8. /\ Tables(table') /\ Tree(table', root', depth) /\ DOMAIN table' = DOMAIN table
      /\ \A w \in Virtual :
           vmm_get_phys(w)' = IF w = v THEN x ELSE vmm_get_phys(w)
  BY <1>5, <1>6, <1>7, OneEntry
<1>9. InFrames' /\ InPhase' /\ Todo'
  <2>1. phase \in {"init", "mmio"} /\ Tail(pages) \in Seq(Mappings)
    BY <1>1, PageFacts
  <2>. QED  BY <1>1, <1>8, <2>1 DEF PageInv, InFrames, InPhase, Todo
<1>10. Cursor'
  <2>1. 0 \in 0 .. Levels - 1
    BY PagingConstants
  <2>. QED  BY <1>1, <2>1, WalksBegin DEF Cursor
<1>11. Grown'
  BY <1>1, <1>8 DEF Grown, Tree
<1>12. Mapped' = [Mapped EXCEPT ![v] = x]
  BY <1>1, <1>8, PageFacts DEF Mapped
<1>. QED  BY <1>2, <1>3, <1>9, <1>10, <1>11, <1>12 DEF PageInv

LEMMA UnmapStep ==
  ASSUME PageInv, NEW v \in MmioBase .. mmio_virt_next - 1, vmm_unmap(v)
  PROVE  PageInv' /\ v \in Virtual /\ Mapped' = [Mapped EXCEPT ![v] = Absent]
<1>1. /\ phase = "idle" /\ vmm_get_phys(v) # Absent
      /\ table' = [table EXCEPT ![Walk(v, Levels - 1)][Index(v, Levels - 1)] = Absent]
      /\ root' = root /\ phase' = phase /\ mmio_virt_next' = mmio_virt_next
      /\ pages' = pages /\ at' = at /\ level' = level /\ memory_map' = memory_map
  BY DEF vmm_unmap, walk, vars
<1>2. v \in Virtual /\ root # NULL /\ pages = <<>> /\ at = root /\ level = 0
  BY <1>1 DEF PageInv, Todo, InPhase, Cursor
<1>3. PICK t : t = Walk(v, Levels - 1)
  OBVIOUS
<1>4. PICK depth : Tables(table) /\ Tree(table, root, depth)
  BY <1>2 DEF PageInv, Grown
<1>5. t # Absent
  <2>1. Levels - 1 \in 0 .. Levels - 1 /\ (Levels - 1) + 1 = Levels
    BY PagingConstants
  <2>2. vmm_get_phys(v) = Entry(t, v, Levels - 1)
    BY <1>3, <2>1, WalkSteps DEF vmm_get_phys
  <2>3. Absent \notin DOMAIN table
    BY <1>4, PagingConstants DEF Tables
  <2>. QED  BY <1>1, <2>2, <2>3 DEF Entry
<1>6. /\ Tables(table') /\ Tree(table', root', depth) /\ DOMAIN table' = DOMAIN table
      /\ \A w \in Virtual :
           vmm_get_phys(w)' = IF w = v THEN Absent ELSE vmm_get_phys(w)
  BY <1>1, <1>2, <1>3, <1>4, <1>5, OneEntry
<1>7. InFrames' /\ InPhase' /\ Todo' /\ Cursor'
  BY <1>1, <1>2, <1>6 DEF PageInv, InFrames, InPhase, Todo, Cursor
<1>8. Grown'
  BY <1>1, <1>2, <1>6 DEF Grown, Tree
<1>9. Mapped' = [Mapped EXCEPT ![v] = Absent]
  BY <1>1, <1>2, <1>6 DEF Mapped
<1>. QED  BY <1>2, <1>7, <1>8, <1>9 DEF PageInv

LEMMA PagingStepMaps == ASSUME PageInv, PagingStep PROVE PageInv' /\ MappedStep
<1>1. ASSUME SetEntry PROVE PageInv' /\ OnePageChanged
  <2>1. Page.virt \in Virtual /\ Page.phys \in Mappable
    BY <1>1, PageFacts DEF SetEntry
  <2>. QED  BY <1>1, <2>1, EntryStep DEF OnePageChanged
<1>2. ASSUME NEW v \in MmioBase .. mmio_virt_next - 1, vmm_unmap(v) PROVE PageInv' /\ OnePageChanged
  BY <1>2, UnmapStep DEF OnePageChanged
<1>. QED
  BY <1>1, <1>2, BootStep, SwitchStep, DownStep, GrowStep, GiveUpStep, CallStep, ReturnStep
     DEF PagingStep, MappedStep

LEMMA PageInvStep == PageInv /\ [MemoryNext]_memoryVars => PageInv' /\ MappedStep
<1>. SUFFICES ASSUME PageInv, [MemoryNext]_memoryVars PROVE PageInv' /\ MappedStep
  OBVIOUS
<1>1. CASE PageStep
  BY <1>1, PagingStepMaps DEF PageStep
<1>2. CASE FrameStep
  <2>1. memory_map \subseteq memory_map'
    BY <1>2, FramesGrow DEF FrameStep
  <2>. QED  BY <1>2, <2>1, PageInvOthers DEF FrameStep, MappedStep
<1>3. CASE HeapStep
  BY <1>3, PageInvOthers DEF HeapStep, vars, MappedStep
<1>4. CASE UNCHANGED memoryVars
  BY <1>4, PageInvOthers DEF memoryVars, vars, MappedStep
<1>. QED  BY <1>1, <1>2, <1>3, <1>4 DEF MemoryNext

LEMMA OnePageIsStep == ASSUME OnePageChanged PROVE [Space!Next]_Mapped
<1>1. PICK w \in Virtual, x \in Mappable \cup {Absent} : Mapped' = [Mapped EXCEPT ![w] = x]
  BY DEF OnePageChanged
<1>2. DOMAIN Mapped = Virtual
  BY DEF Mapped
<1>3. \A v \in Virtual : Mapped'[v] = IF v = w THEN x ELSE Mapped[v]
  BY <1>1, <1>2
<1>4. CASE x = Mapped[w]
  BY <1>1, <1>4 DEF Mapped
<1>5. CASE x # Mapped[w]
  <2>. DEFINE new == [v \in Virtual |-> IF root = NULL THEN Absent ELSE vmm_get_phys(v)]'
              old == [v \in Virtual |-> IF root = NULL THEN Absent ELSE vmm_get_phys(v)]
  <2>1. \A v \in Virtual : new[v] = IF v = w THEN x ELSE old[v]
    BY <1>3 DEF Mapped
  <2>2. old[w] # x
    BY <1>5 DEF Mapped
  <2>. HIDE DEF new, old
  <2>3. {v \in Virtual : new[v] # old[v]} = {w}
    BY <2>1, <2>2
  <2>4. Cardinality({v \in Virtual : new[v] # old[v]}) = 1
    BY <2>3, FS_Singleton
  <2>5. \A v \in {v \in Virtual : new[v] # old[v]} : new[v] \in Mappable \cup {Absent}
    BY <2>1, <2>3
  <2>6. \A S : Space!Cardinality(S) = Cardinality(S)
    BY DEF Space!Cardinality, Cardinality
  <2>7. Space!Cardinality({v \in Virtual : new[v] # old[v]}) = 1
    BY <2>4, <2>6
  <2>8. Space!Next
    BY <2>5, <2>7 DEF Space!Next, new, old
  <2>. QED  BY <2>8
<1>. QED  BY <1>4, <1>5

(* For every memory and every depth and fan-out of the tables, building    *)
(* and walking them in granted frames is a map of pages that changes one   *)
(* page at a time, whatever else the kernel allocates in between.          *)
THEOREM MemoryRefinesAddressSpace == MemorySpec => RefinesAddressSpace
<1>1. MemoryInit => Space!Init
  BY DEF MemoryInit, PagingInit, Space!Init, Space!Empty
<1>2. MappedStep => [Space!Next]_Mapped
  BY OnePageIsStep DEF MappedStep
<1>3. PageInv /\ [MemoryNext]_memoryVars => [Space!Next]_Mapped
  BY PageInvStep, <1>2
<1>. QED
  BY <1>1, <1>3, PageInvInit, PageInvStep, PTL
     DEF MemorySpec, RefinesAddressSpace, Space!Spec, Mapped

-----------------------------------------------------------------------------
(***************************************************************************)
(* What is mapped.  The three runs of vmm_init agree where they meet, the  *)
(* frames that can be granted are all in the first, and what mmio_map      *)
(* gives out lies above all three.  (In the kernel: 4096 blocks and 4096   *)
(* low pages, the framebuffer at its own address, and MMIO_VIRT_BASE above *)
(* the kernel's second place.)                                             *)
(***************************************************************************)
PlacesApart ==
  /\ MaxBlocks <= LowPages
  /\ \A i, j \in DOMAIN InitPages :
       InitPages[i].virt = InitPages[j].virt => InitPages[i].phys = InitPages[j].phys
  /\ \A i \in DOMAIN InitPages : InitPages[i].virt < MmioBase

Start == mmio_virt_next - PageCount(device.phys, device.size)
DevicePages == Run(Start, PageOf(device.phys), PageCount(device.phys, device.size))

\* A loop over all has come to pages, and has mapped those before.
Progress(all) ==
  /\ Len(pages) <= Len(all)
  /\ \A j \in 1 .. Len(pages) : pages[j] = all[Len(all) - Len(pages) + j]
  /\ \A i \in 1 .. Len(all) - Len(pages) : Mapped[all[i].virt] = all[i].phys

InitInv ==
  /\ phase = "init" => Progress(InitPages)
  /\ phase \in {"idle", "mmio"} =>
       \A i \in DOMAIN InitPages : Mapped[InitPages[i].virt] = InitPages[i].phys
  /\ current_pml4 # NULL => phase \in {"idle", "mmio"}

DeviceInv ==
  /\ MmioBase <= mmio_virt_next
  /\ phase = "mmio" => device \in Devices /\ MmioBase <= Start /\ Progress(DevicePages)

\* Pages below are given out to devices that are mapped, or were in vain.
Given == IF phase = "mmio" THEN Start ELSE mmio_virt_next

ByteMapped(s, i, limit, m) ==
  /\ PageOf(s.virt + i) \in MmioBase .. limit - 1
  /\ m[PageOf(s.virt + i)] = PageOf(s.phys + i)
  /\ (s.virt + i) % BlockSize = (s.phys + i) % BlockSize

ServedInv ==
  \A s \in served :
    /\ s.phys \in Nat /\ s.size \in Nat /\ s.virt \in Nat
    /\ \A i \in 0 .. s.size - 1 : ByteMapped(s, i, Given, Mapped)

MapInv == PageInv /\ InitInv /\ DeviceInv /\ ServedInv

(* A loop that maps its first page goes on, if its pages do not disagree.  *)
LEMMA ProgressMade ==
  ASSUME PageInv, pages # <<>>, NEW all \in Seq(Mappings), Progress(all),
         \A i, j \in DOMAIN all : all[i].virt = all[j].virt => all[i].phys = all[j].phys,
         pages' = Tail(pages), Mapped' = [Mapped EXCEPT ![Page.virt] = Page.phys]
  PROVE  Progress(all)'
<1>1. pages \in Seq(Mappings) /\ Len(pages) \in Nat \ {0}
  BY DEF PageInv, Todo
<1>2. PICK n \in Nat \ {0} : n = Len(pages)
  BY <1>1
<1>3. PICK k \in Nat : k = Len(all) - n
  <2>1. Len(all) \in Nat
    OBVIOUS
  <2>2. n <= Len(all)
    BY <1>2 DEF Progress
  <2>3. Len(all) - n \in Nat
    BY <2>1, <2>2
  <2>. QED  BY <2>3
<1>4. Len(all) = k + n /\ DOMAIN all = 1 .. k + n
  BY <1>2, <1>3
<1>5. /\ \A j \in 1 .. n : pages[j] = all[k + j]
      /\ \A i \in 1 .. k : Mapped[all[i].virt] = all[i].phys
  BY <1>2, <1>3 DEF Progress
<1>6. Page = all[k + 1] /\ k + 1 \in DOMAIN all
  BY <1>1, <1>2, <1>4, <1>5 DEF Page
<1>7. Len(pages') = n - 1 /\ \A j \in 1 .. n - 1 : pages'[j] = pages[j + 1]
  BY <1>1, <1>2
<1>8. \A j \in 1 .. n - 1 : pages'[j] = all[k + 1 + j]
  BY <1>5, <1>7
<1>9. DOMAIN Mapped = Virtual
  BY DEF Mapped
<1>10. ASSUME NEW i \in 1 .. k + 1 PROVE Mapped'[all[i].virt] = all[i].phys
  <2>1. i \in DOMAIN all /\ all[i] \in Mappings
    BY <1>4
  <2>2. all[i].virt \in Virtual
    BY <2>1 DEF Mappings
  <2>3. CASE all[i].virt = Page.virt
    <3>1. all[i].phys = Page.phys
      BY <1>6, <2>1, <2>3
    <3>. QED  BY <1>9, <2>2, <2>3, <3>1
  <2>4. CASE all[i].virt # Page.virt
    <3>1. i \in 1 .. k
      BY <1>6, <2>4
    <3>. QED  BY <1>5, <1>9, <2>2, <2>4, <3>1
  <2>. QED  BY <2>3, <2>4
<1>11. Len(all) - Len(pages') = k + 1
  BY <1>4, <1>7
<1>. QED  BY <1>4, <1>7, <1>8, <1>10, <1>11 DEF Progress

LEMMA ProgressKept ==
  ASSUME NEW all, Progress(all), pages' = pages, Mapped' = Mapped
  PROVE  Progress(all)'
BY DEF Progress

LEMMA ProgressStarts ==
  ASSUME NEW all \in Seq(Mappings), pages' = all
  PROVE  Progress(all)'
BY DEF Progress

LEMMA ProgressEnds ==
  ASSUME NEW all \in Seq(Mappings), Progress(all), pages = <<>>
  PROVE  \A i \in DOMAIN all : Mapped[all[i].virt] = all[i].phys
BY DEF Progress

(* The pages of a device are in order, from its first virtual page.        *)
LEMMA RunFacts ==
  ASSUME NEW v, NEW q, NEW n \in Nat
  PROVE  /\ Len(Run(v, q, n)) = n /\ DOMAIN Run(v, q, n) = 1 .. n
         /\ \A i \in 1 .. n : Run(v, q, n)[i].virt = v + i - 1 /\ Run(v, q, n)[i].phys = q + i - 1
BY DEF Run

LEMMA DevicePagesMap ==
  ASSUME PageInv, DeviceInv, phase = "mmio"
  PROVE  /\ PageCount(device.phys, device.size) \in Nat /\ PageOf(device.phys) \in Nat
         /\ Start \in Nat /\ Start <= mmio_virt_next
         /\ DevicePages \in Seq(Mappings)
         /\ \A i, j \in DOMAIN DevicePages :
              DevicePages[i].virt = DevicePages[j].virt => DevicePages[i].phys = DevicePages[j].phys
<1>1. device \in Devices /\ MmioBase <= Start /\ MmioBase \in Nat /\ mmio_virt_next \in Nat
      /\ BlockSize \in Nat \ {0}
  BY PagingAssumption DEF DeviceInv, PageInv, Todo
<1>2. PICK x \in Nat : x = device.phys
  BY <1>1, PagingAssumption
<1>3. PICK s \in Nat : s = device.size
  BY <1>1, PagingAssumption
<1>4. PICK n \in Nat : n = PageCount(device.phys, device.size)
  <2>1. (s + (x % BlockSize) + BlockSize - 1) \in Nat
    BY <1>1
  <2>2. \A y \in Nat : y \div BlockSize \in Nat
    BY <1>1
  <2>. QED  BY <1>2, <1>3, <2>1, <2>2 DEF PageCount
<1>5. PICK a \in Nat : a = PageOf(device.phys)
  BY <1>1, <1>2 DEF PageOf
<1>6. Start \in Nat /\ Start = mmio_virt_next - n
  BY <1>1, <1>4 DEF Start
<1>7. DevicePages = Run(Start, a, n)
  BY <1>4, <1>5 DEF DevicePages
<1>8. Run(Start, a, n) \in Seq(Mappings)
  <2>1. CASE n = 0
    BY <2>1 DEF Run
  <2>2. CASE n > 0
    <3>1. Start + n - 1 \in MmioBase .. mmio_virt_next - 1
      BY <1>1, <1>6, <2>2
    <3>2. Start + n - 1 \in Virtual
      BY <3>1 DEF PageInv, Todo
    <3>. QED  BY <1>1, <1>4, <1>5, <1>6, <3>2, DeviceMaps
  <2>. QED  BY <2>1, <2>2
<1>9. \A i, j \in DOMAIN Run(Start, a, n) :
        Run(Start, a, n)[i].virt = Run(Start, a, n)[j].virt
          => Run(Start, a, n)[i].phys = Run(Start, a, n)[j].phys
  <2>1. /\ DOMAIN Run(Start, a, n) = 1 .. n
        /\ \A i \in 1 .. n : Run(Start, a, n)[i].virt = Start + i - 1
                             /\ Run(Start, a, n)[i].phys = a + i - 1
    BY RunFacts
  <2>. QED  BY <1>6, <2>1
<1>. QED  BY <1>1, <1>4, <1>5, <1>6, <1>7, <1>8, <1>9

LEMMA GivenFacts ==
  ASSUME PageInv, DeviceInv
  PROVE  Given \in Nat /\ MmioBase <= Given /\ Given <= mmio_virt_next
BY DevicePagesMap DEF Given, DeviceInv, PageInv, Todo

LEMMA WiderRange ==
  ASSUME NEW m \in Nat, NEW g \in Nat, NEW h \in Nat, g <= h
  PROVE  m .. g - 1 \subseteq m .. h - 1
OBVIOUS

(* Where the served bytes are mapped as before, they stay served.          *)
LEMMA ServedKept ==
  ASSUME ServedInv, served' \subseteq served,
         Given \in Nat, Given' \in Nat, Given <= Given',
         \A s \in served' : \A i \in 0 .. s.size - 1 :
           PageOf(s.virt + i) \in MmioBase .. Given - 1 =>
             Mapped'[PageOf(s.virt + i)] = Mapped[PageOf(s.virt + i)]
  PROVE  ServedInv'
<1>. SUFFICES ASSUME NEW s \in served'
              PROVE  /\ s.phys \in Nat /\ s.size \in Nat /\ s.virt \in Nat
                     /\ \A i \in 0 .. s.size - 1 : ByteMapped(s, i, Given', Mapped')
  BY DEF ServedInv, ByteMapped
<1>1. /\ s.phys \in Nat /\ s.size \in Nat /\ s.virt \in Nat
      /\ \A i \in 0 .. s.size - 1 : ByteMapped(s, i, Given, Mapped)
  BY DEF ServedInv
<1>2. ASSUME NEW i \in 0 .. s.size - 1 PROVE ByteMapped(s, i, Given', Mapped')
  <2>1. ByteMapped(s, i, Given, Mapped)
    BY <1>1
  <2>2. PICK v : v = PageOf(s.virt + i)
    OBVIOUS
  <2>3. v \in MmioBase .. Given - 1 /\ Mapped[v] = PageOf(s.phys + i)
    BY <2>1, <2>2 DEF ByteMapped
  <2>4. Mapped'[v] = Mapped[v]
    BY <2>2, <2>3
  <2>5. v \in MmioBase .. Given' - 1
    <3>1. MmioBase \in Nat
      BY PagingAssumption
    <3>. QED  BY <2>3, <3>1, WiderRange
  <2>. QED  BY <2>1, <2>2, <2>3, <2>4, <2>5 DEF ByteMapped
<1>. QED  BY <1>1, <1>2

(* Steps that map nothing and finish no loop.                              *)
LEMMA QuietKeeps ==
  ASSUME MapInv, PageInv', Mapped' = Mapped, UNCHANGED <<phase, pages, current_pml4, mmio>>
  PROVE  MapInv'
<1>1. /\ phase' = phase /\ pages' = pages /\ current_pml4' = current_pml4
      /\ device' = device /\ mmio_virt_next' = mmio_virt_next /\ served' = served
  BY DEF mmio
<1>2. InitInv'
  BY <1>1, ProgressKept DEF MapInv, InitInv
<1>3. DevicePages' = DevicePages /\ Start' = Start /\ Given' = Given
  BY <1>1 DEF DevicePages, Start, Given
<1>4. DeviceInv'
  <2>1. PICK all : all = DevicePages
    OBVIOUS
  <2>2. phase = "mmio" => Progress(all)'
    BY <1>1, <2>1, ProgressKept DEF MapInv, DeviceInv
  <2>. QED  BY <1>1, <1>3, <2>1, <2>2 DEF MapInv, DeviceInv, Progress
<1>5. ServedInv'
  BY <1>1, <1>3, GivenFacts, ServedKept DEF MapInv
<1>. QED  BY <1>2, <1>4, <1>5 DEF MapInv

LEMMA MapBoot == ASSUME MapInv, vmm_init PROVE MapInv'
<1>1. PageInv' /\ Mapped' = Mapped
  BY BootStep DEF MapInv
<1>2. /\ phase = "boot" /\ phase' = "init" /\ pages' = InitPages /\ current_pml4' = current_pml4
      /\ device' = device /\ mmio_virt_next' = mmio_virt_next /\ served' = served
  BY DEF vmm_init, mmio
<1>3. InitInv'
  <2>1. Progress(InitPages)'
    BY <1>2, InitPagesMap, ProgressStarts
  <2>. QED  BY <1>2, <2>1 DEF MapInv, InitInv
<1>4. DeviceInv'
  BY <1>2 DEF MapInv, DeviceInv
<1>5. Given' = Given
  BY <1>2 DEF Given
<1>6. ServedInv'
  BY <1>1, <1>2, <1>5, GivenFacts, ServedKept DEF MapInv
<1>. QED  BY <1>1, <1>3, <1>4, <1>6 DEF MapInv

LEMMA MapSwitch == ASSUME MapInv, vmm_set_pml4 PROVE MapInv'
<1>1. PageInv' /\ Mapped' = Mapped
  BY SwitchStep DEF MapInv
<1>2. /\ phase = "init" /\ phase' = "idle" /\ pages = <<>>
      /\ device' = device /\ mmio_virt_next' = mmio_virt_next /\ served' = served
  BY DEF vmm_set_pml4, mmio
<1>3. \A i \in DOMAIN InitPages : Mapped[InitPages[i].virt] = InitPages[i].phys
  BY <1>2, InitPagesMap, ProgressEnds DEF MapInv, InitInv
<1>4. InitInv'
  BY <1>1, <1>2, <1>3 DEF InitInv
<1>5. DeviceInv'
  BY <1>2 DEF MapInv, DeviceInv
<1>6. Given' = Given
  BY <1>2 DEF Given
<1>7. ServedInv'
  BY <1>1, <1>2, <1>6, GivenFacts, ServedKept DEF MapInv
<1>. QED  BY <1>1, <1>4, <1>5, <1>7 DEF MapInv

LEMMA MapGiveUp == ASSUME MapInv, OutOfFrames PROVE MapInv'
<1>1. PageInv' /\ Mapped' = Mapped
  BY GiveUpStep DEF MapInv
<1>2. /\ phase' = (IF phase = "init" THEN "halted" ELSE "idle") /\ pages # <<>>
      /\ current_pml4' = current_pml4
      /\ mmio_virt_next' = mmio_virt_next /\ served' = served
  BY DEF OutOfFrames, Walking
<1>3. phase \in {"init", "mmio"}
  BY <1>2, PageFacts DEF MapInv
<1>4. InitInv'
  BY <1>1, <1>2, <1>3 DEF MapInv, InitInv
<1>5. DeviceInv'
  BY <1>2, <1>3 DEF MapInv, DeviceInv
<1>6. Given' = mmio_virt_next
  BY <1>2, <1>3 DEF Given
<1>7. Given \in Nat /\ Given' \in Nat /\ Given <= Given'
  BY <1>6, GivenFacts DEF MapInv, PageInv, Todo
<1>8. ServedInv'
  BY <1>1, <1>2, <1>7, ServedKept DEF MapInv
<1>. QED  BY <1>1, <1>4, <1>5, <1>8 DEF MapInv

LEMMA MapCall == ASSUME MapInv, NEW d \in Devices, mmio_map(d) PROVE MapInv'
<1>1. PageInv' /\ Mapped' = Mapped
  BY CallStep DEF MapInv
<1>. DEFINE n == PageCount(d.phys, d.size)
<1>2. /\ phase = "idle" /\ phase' = "mmio" /\ current_pml4' = current_pml4
      /\ pages' = Run(mmio_virt_next, PageOf(d.phys), n)
      /\ mmio_virt_next + n - 1 \in Virtual
      /\ device' = d /\ mmio_virt_next' = mmio_virt_next + n /\ served' = served
  BY DEF mmio_map
<1>3. /\ mmio_virt_next \in Nat /\ n \in Nat /\ MmioBase <= mmio_virt_next /\ MmioBase \in Nat
      /\ pages' \in Seq(Mappings)
  BY <1>2, DeviceMaps, PagingAssumption DEF MapInv, DeviceInv, PageInv, Todo
<1>4. Start' = mmio_virt_next
  <2>1. Start' = (mmio_virt_next + n) - n
    BY <1>2 DEF Start
  <2>. HIDE DEF n
  <2>. QED  BY <1>3, <2>1
<1>5. DevicePages' = pages'
  BY <1>2, <1>4 DEF DevicePages
<1>6. DeviceInv'
  <2>1. PICK all \in Seq(Mappings) : all = pages'
    BY <1>3
  <2>2. Progress(all)'
    BY <2>1, ProgressStarts
  <2>3. Progress(DevicePages)'
    BY <1>5, <2>1, <2>2 DEF Progress
  <2>4. MmioBase <= mmio_virt_next'
    <3>. HIDE DEF n
    <3>. QED  BY <1>2, <1>3
  <2>. QED  BY <1>2, <1>3, <1>4, <2>3, <2>4 DEF DeviceInv
<1>7. InitInv'
  BY <1>1, <1>2 DEF MapInv, InitInv
<1>8. Given' = Given
  BY <1>2, <1>4 DEF Given
<1>9. ServedInv'
  BY <1>1, <1>2, <1>8, GivenFacts, ServedKept DEF MapInv
<1>. QED  BY <1>1, <1>6, <1>7, <1>9 DEF MapInv

(* vmm_unmap takes back a page of a device, and with it the device.        *)
LEMMA MapUnmap ==
  ASSUME PlacesApart, MapInv, NEW v \in MmioBase .. mmio_virt_next - 1, vmm_unmap(v)
  PROVE  MapInv'
<1>1. PageInv' /\ v \in Virtual /\ Mapped' = [Mapped EXCEPT ![v] = Absent]
  BY UnmapStep DEF MapInv
<1>2. /\ phase = "idle" /\ phase' = phase /\ current_pml4' = current_pml4
      /\ device' = device /\ mmio_virt_next' = mmio_virt_next
      /\ served' = {s \in served : v \notin PageOf(s.virt) .. PageOf(s.virt + s.size - 1)}
  BY DEF vmm_unmap
<1>3. \A w : w # v /\ w \in Virtual => Mapped'[w] = Mapped[w]
  BY <1>1 DEF Mapped
<1>4. MmioBase \in Nat /\ BlockSize \in Nat \ {0}
  BY PagingAssumption
<1>5. ASSUME NEW i \in DOMAIN InitPages PROVE InitPages[i].virt # v /\ InitPages[i].virt \in Virtual
  <2>1. InitPages[i].virt \in Virtual /\ InitPages[i].virt < MmioBase
    BY InitPagesAssumption DEF PlacesApart
  <2>. QED  BY <1>4, <2>1, VirtualFacts
<1>6. InitInv'
  BY <1>2, <1>3, <1>5 DEF MapInv, InitInv
<1>7. DeviceInv'
  BY <1>2 DEF MapInv, DeviceInv
<1>8. Given' = Given
  BY <1>2 DEF Given
<1>9. ASSUME NEW s \in served', NEW i \in 0 .. s.size - 1,
             PageOf(s.virt + i) \in MmioBase .. Given - 1
      PROVE  Mapped'[PageOf(s.virt + i)] = Mapped[PageOf(s.virt + i)]
  <2>1. s \in served /\ v \notin PageOf(s.virt) .. PageOf(s.virt + s.size - 1)
    BY <1>2
  <2>2. s.virt \in Nat /\ s.size \in Nat
    BY <2>1 DEF MapInv, ServedInv
  <2>3. PageOf(s.virt + i) \in PageOf(s.virt) .. PageOf(s.virt + s.size - 1)
    <3>1. PICK a \in Nat : a = s.virt
      BY <2>2
    <3>2. PICK b \in Nat : b = s.virt + i
      BY <2>2
    <3>3. PICK c \in Nat : c = s.virt + s.size - 1
      BY <2>2
    <3>4. a <= b /\ b <= c
      BY <2>2, <3>1, <3>2, <3>3
    <3>5. /\ a \div BlockSize <= b \div BlockSize /\ b \div BlockSize <= c \div BlockSize
          /\ a \div BlockSize \in Nat /\ b \div BlockSize \in Nat /\ c \div BlockSize \in Nat
      BY <1>4, <3>4
    <3>. QED  BY <3>1, <3>2, <3>3, <3>5 DEF PageOf
  <2>4. PageOf(s.virt + i) # v
    BY <2>1, <2>3
  <2>5. PageOf(s.virt + i) \in MmioBase .. mmio_virt_next - 1
    BY <1>2, <1>9 DEF Given
  <2>6. PageOf(s.virt + i) \in Virtual
    BY <2>5 DEF MapInv, PageInv, Todo
  <2>. QED  BY <1>3, <2>4, <2>6
<1>10. ServedInv'
  BY <1>2, <1>8, <1>9, GivenFacts, ServedKept DEF MapInv
<1>. QED  BY <1>1, <1>6, <1>7, <1>10 DEF MapInv

(* A page of a device lies above what earlier devices have been given.     *)
LEMMA PageIsNew ==
  ASSUME MapInv, phase = "mmio", pages # <<>>
  PROVE  Page.virt \in Nat /\ Given <= Page.virt /\ MmioBase <= Page.virt
<1>1. /\ PageCount(device.phys, device.size) \in Nat
      /\ Start \in Nat /\ Given = Start /\ MmioBase <= Start /\ MmioBase \in Nat
  BY DevicePagesMap, PagingAssumption DEF MapInv, DeviceInv, Given
<1>2. PICK n \in Nat : n = PageCount(device.phys, device.size)
  BY <1>1
<1>3. PICK a : a = PageOf(device.phys)
  OBVIOUS
<1>4. DevicePages = Run(Start, a, n)
  BY <1>2, <1>3 DEF DevicePages
<1>5. /\ Len(DevicePages) = n
      /\ \A i \in 1 .. n : DevicePages[i].virt = Start + i - 1
  BY <1>4, RunFacts
<1>6. PICK m \in Nat \ {0} : m = Len(pages) /\ m <= n
  BY <1>5 DEF MapInv, PageInv, Todo, DeviceInv, Progress
<1>7. Page = DevicePages[n - m + 1]
  <2>1. pages[1] = DevicePages[n - m + 1]
    BY <1>5, <1>6 DEF MapInv, DeviceInv, Progress
  <2>. QED  BY <2>1 DEF Page
<1>8. n - m + 1 \in 1 .. n
  BY <1>6
<1>9. Page.virt = Start + (n - m + 1) - 1
  BY <1>5, <1>7, <1>8
<1>. QED  BY <1>1, <1>6, <1>9

LEMMA MapEntry == ASSUME PlacesApart, MapInv, SetEntry PROVE MapInv'
<1>1. PageInv' /\ Mapped' = [Mapped EXCEPT ![Page.virt] = Page.phys]
  BY EntryStep DEF MapInv
<1>2. /\ pages # <<>> /\ pages' = Tail(pages) /\ phase' = phase /\ current_pml4' = current_pml4
      /\ device' = device /\ mmio_virt_next' = mmio_virt_next /\ served' = served
  BY DEF SetEntry, mmio
<1>3. PICK v \in Virtual : v = Page.virt
  BY <1>2, PageFacts DEF MapInv
<1>4. phase \in {"init", "mmio"}
  BY <1>2, PageFacts DEF MapInv
<1>5. \A w : w # v /\ w \in Virtual => Mapped'[w] = Mapped[w]
  BY <1>1, <1>3 DEF Mapped
<1>6. Given' = Given /\ Start' = Start /\ DevicePages' = DevicePages
  BY <1>2 DEF Given, Start, DevicePages
<1>7. MmioBase \in Nat /\ Given \in Nat
  BY PagingAssumption, GivenFacts DEF MapInv
<1>8. CASE phase = "init"
  <2>1. Progress(InitPages)'
    BY <1>1, <1>2, <1>8, InitPagesMap, ProgressMade DEF MapInv, InitInv, PlacesApart
  <2>2. InitInv'
    BY <1>2, <1>8, <2>1 DEF MapInv, InitInv
  <2>3. DeviceInv'
    BY <1>2, <1>8 DEF MapInv, DeviceInv
  <2>4. v \in Nat /\ v < MmioBase
    <3>1. PICK k \in DOMAIN InitPages : Page = InitPages[k]
      <4>1. PICK m \in Nat \ {0} : m = Len(pages) /\ m <= Len(InitPages)
        BY <1>2, <1>8 DEF MapInv, PageInv, Todo, InitInv, Progress
      <4>2. pages[1] = InitPages[Len(InitPages) - m + 1]
        BY <1>8, <4>1 DEF MapInv, InitInv, Progress
      <4>3. Len(InitPages) - m + 1 \in DOMAIN InitPages
        BY <4>1, InitPagesMap
      <4>. QED  BY <4>2, <4>3 DEF Page
    <3>. QED  BY <1>3, <3>1, VirtualFacts DEF PlacesApart
  <2>5. ASSUME NEW w \in MmioBase .. Given - 1 PROVE Mapped'[w] = Mapped[w]
    <3>1. w # v
      BY <1>7, <2>4
    <3>2. w \in MmioBase .. mmio_virt_next - 1
      BY <1>7, GivenFacts DEF MapInv, PageInv, Todo
    <3>. QED  BY <1>5, <3>1, <3>2 DEF MapInv, PageInv, Todo
  <2>6. ServedInv'
    BY <1>2, <1>6, <1>7, <2>5, ServedKept DEF MapInv
  <2>. QED  BY <1>1, <2>2, <2>3, <2>6 DEF MapInv
<1>9. CASE phase = "mmio"
  <2>1. v \in Nat /\ Given <= v /\ MmioBase <= v
    BY <1>2, <1>3, <1>9, PageIsNew
  <2>2. ASSUME NEW i \in DOMAIN InitPages
        PROVE  Mapped'[InitPages[i].virt] = Mapped[InitPages[i].virt]
    <3>1. InitPages[i].virt \in Virtual /\ InitPages[i].virt < MmioBase
      BY InitPagesAssumption DEF PlacesApart
    <3>2. InitPages[i].virt # v
      BY <1>7, <2>1, <3>1, VirtualFacts
    <3>. QED  BY <1>5, <3>1, <3>2
  <2>3. InitInv'
    BY <1>2, <1>9, <2>2 DEF MapInv, InitInv
  <2>4. DeviceInv'
    <3>1. PICK all : all = DevicePages
      OBVIOUS
    <3>2. /\ all \in Seq(Mappings)
          /\ \A i, j \in DOMAIN all : all[i].virt = all[j].virt => all[i].phys = all[j].phys
      BY <1>9, <3>1, DevicePagesMap DEF MapInv
    <3>3. Progress(all)
      BY <1>9, <3>1 DEF MapInv, DeviceInv
    <3>4. Progress(all)'
      BY <1>1, <1>2, <3>2, <3>3, ProgressMade DEF MapInv
    <3>5. Progress(DevicePages)'
      BY <1>6, <3>1, <3>4 DEF Progress
    <3>. QED  BY <1>2, <1>6, <1>9, <3>5 DEF MapInv, DeviceInv
  <2>5. ASSUME NEW w \in MmioBase .. Given - 1 PROVE Mapped'[w] = Mapped[w]
    <3>1. w # v
      BY <1>7, <2>1
    <3>2. w \in MmioBase .. mmio_virt_next - 1
      BY <1>7, GivenFacts DEF MapInv, PageInv, Todo
    <3>. QED  BY <1>5, <3>1, <3>2 DEF MapInv, PageInv, Todo
  <2>6. ServedInv'
    BY <1>2, <1>6, <1>7, <2>5, ServedKept DEF MapInv
  <2>. QED  BY <1>1, <2>3, <2>4, <2>6 DEF MapInv
<1>. QED  BY <1>4, <1>8, <1>9

LEMMA DivMod ==
  ASSUME NEW b \in Nat \ {0}, NEW y \in Nat, NEW k \in Nat, b * k <= y, y < b * k + b
  PROVE  y \div b = k /\ y % b = y - b * k
<1>1. y \div b = k
  OBVIOUS
<1>2. y = b * (y \div b) + (y % b)
  OBVIOUS
<1>3. y % b \in Nat
  OBVIOUS
<1>4. y = b * k + (y % b)
  BY <1>1, <1>2
<1>5. PICK m \in Nat : m = b * k
  OBVIOUS
<1>6. y % b = y - m
  BY <1>3, <1>4, <1>5
<1>. QED  BY <1>1, <1>5, <1>6

(* Every byte of the range, from the address that is returned.             *)
AddressIn(st, x) == st * BlockSize + (x % BlockSize)

LEMMA BytesOfRun ==
  ASSUME NEW x \in Nat, NEW s \in Nat, NEW st \in Nat
  PROVE  \A i \in 0 .. s - 1 : \E j \in 0 .. PageCount(x, s) - 1 :
           /\ PageOf(AddressIn(st, x) + i) = st + j /\ PageOf(x + i) = PageOf(x) + j
           /\ (AddressIn(st, x) + i) % BlockSize = (x + i) % BlockSize
<1>. TAKE i \in 0 .. s - 1
<1>0. PICK virt : virt = st * BlockSize + (x % BlockSize) /\ virt = AddressIn(st, x)
  BY DEF AddressIn
<1>1. PICK B \in Nat \ {0} : B = BlockSize
  BY PagingAssumption
<1>2. PICK a \in Nat : a = x \div B
  BY <1>1
<1>3. PICK o \in 0 .. B - 1 : o = x % B
  BY <1>1
<1>4. x = B * a + o
  BY <1>2, <1>3
<1>5. PICK j \in Nat : j = (o + i) \div B
  BY <1>1, <1>3
<1>6. B * j <= o + i /\ o + i < B * j + B
  BY <1>3, <1>5
<1>7. B * (a + j) <= x + i /\ x + i < B * (a + j) + B
  <2>1. B * (a + j) = B * a + B * j
    OBVIOUS
  <2>. QED  BY <1>4, <1>6, <2>1
<1>8. virt + i = B * st + o + i /\ virt \in Nat
  BY <1>0, <1>1, <1>3
<1>9. B * (st + j) <= virt + i /\ virt + i < B * (st + j) + B
  <2>1. B * (st + j) = B * st + B * j
    OBVIOUS
  <2>. QED  BY <1>3, <1>6, <1>8, <2>1
<1>10. PICK y \in Nat : y = x + i
  OBVIOUS
<1>11. PICK z \in Nat : z = virt + i
  BY <1>8
<1>12. y \div B = a + j /\ y % B = y - B * (a + j)
  <2>1. PICK k \in Nat : k = a + j
    OBVIOUS
  <2>2. B * k <= y /\ y < B * k + B
    BY <1>7, <1>10, <2>1
  <2>3. y \div B = k /\ y % B = y - B * k
    BY <2>2, DivMod
  <2>. QED  BY <2>1, <2>3
<1>13. z \div B = st + j /\ z % B = z - B * (st + j)
  <2>1. PICK k \in Nat : k = st + j
    OBVIOUS
  <2>2. B * k <= z /\ z < B * k + B
    BY <1>9, <1>11, <2>1
  <2>3. z \div B = k /\ z % B = z - B * k
    BY <2>2, DivMod
  <2>. QED  BY <2>1, <2>3
<1>14. y % B = z % B
  <2>1. PICK m \in Nat : m = B * j
    OBVIOUS
  <2>2. B * (st + j) = B * st + m /\ B * (a + j) = B * a + m
    BY <2>1
  <2>3. z - B * (st + j) = (o + i) - m
    <3>1. PICK k \in Nat : k = B * st
      OBVIOUS
    <3>2. z = k + o + i
      BY <1>8, <1>11, <3>1
    <3>3. B * (st + j) = k + m
      BY <2>2, <3>1
    <3>. QED  BY <3>2, <3>3
  <2>4. y - B * (a + j) = (o + i) - m
    <3>1. PICK k \in Nat : k = B * a
      OBVIOUS
    <3>2. y = k + o + i
      BY <1>4, <1>10, <3>1
    <3>3. B * (a + j) = k + m
      BY <2>2, <3>1
    <3>. QED  BY <3>2, <3>3
  <2>. QED  BY <1>12, <1>13, <2>3, <2>4
<1>15. PICK n \in Nat : n = (s + o + B - 1) \div B
  BY <1>1, <1>3
<1>16. s + o + B - 1 < B * n + B
  BY <1>15
<1>17. j < n
  <2>. SUFFICES ASSUME j >= n PROVE FALSE
    OBVIOUS
  <2>1. B * j >= B * n
    BY <1>15
  <2>. QED  BY <1>3, <1>6, <1>16, <2>1
<1>18. PageCount(x, s) = n
  BY <1>1, <1>3, <1>15 DEF PageCount
<1>19. PageOf(virt + i) = st + j /\ PageOf(x + i) = PageOf(x) + j
  BY <1>1, <1>2, <1>10, <1>11, <1>12, <1>13 DEF PageOf
<1>20. (virt + i) % BlockSize = (x + i) % BlockSize
  BY <1>1, <1>10, <1>11, <1>14
<1>21. j \in 0 .. PageCount(x, s) - 1
  BY <1>17, <1>18
<1>. QED  BY <1>0, <1>19, <1>20, <1>21

LEMMA MapReturn == ASSUME MapInv, MmioMapped PROVE MapInv'
<1>1. PageInv' /\ Mapped' = Mapped
  BY ReturnStep DEF MapInv
<1>. DEFINE new == [phys |-> device.phys, size |-> device.size, virt |-> Returned]
<1>2. /\ phase = "mmio" /\ phase' = "idle" /\ pages = <<>>
      /\ current_pml4' = current_pml4 /\ mmio_virt_next' = mmio_virt_next
      /\ served' = served \cup {new}
  BY DEF MmioMapped, walk
<1>3. InitInv'
  BY <1>1, <1>2 DEF MapInv, InitInv
<1>4. DeviceInv'
  BY <1>2 DEF MapInv, DeviceInv
<1>5. Given \in Nat /\ Given' = mmio_virt_next /\ mmio_virt_next \in Nat /\ Given <= mmio_virt_next
      /\ Given = Start /\ MmioBase <= Start /\ MmioBase \in Nat
  BY <1>2, GivenFacts, PagingAssumption DEF MapInv, PageInv, Todo, Given, DeviceInv
<1>6. PICK x \in Nat : x = device.phys
  BY <1>2, PagingAssumption DEF MapInv, DeviceInv
<1>7. PICK s \in Nat : s = device.size
  BY <1>2, PagingAssumption DEF MapInv, DeviceInv
<1>8. PICK n \in Nat : n = PageCount(x, s) /\ Start = mmio_virt_next - n
  BY <1>2, <1>6, <1>7, DevicePagesMap DEF MapInv, Start
<1>9. PICK st \in Nat : st = Start
  BY <1>5
<1>10. PICK virt \in Nat : virt = st * BlockSize + (x % BlockSize) /\ virt = Returned
  <2>1. BlockSize \in Nat \ {0}
    BY PagingAssumption
  <2>2. x % BlockSize \in Nat /\ st * BlockSize \in Nat
    BY <2>1
  <2>3. Returned = st * BlockSize + (x % BlockSize)
    BY <1>6, <1>9 DEF Returned, Start
  <2>. QED  BY <2>2, <2>3
<1>11. DevicePages = Run(st, PageOf(x), n)
  BY <1>6, <1>7, <1>8, <1>9 DEF DevicePages
<1>12. ASSUME NEW j \in 0 .. n - 1 PROVE Mapped[st + j] = PageOf(x) + j
  <2>1. j + 1 \in 1 .. n /\ (j + 1) - 1 = j
    OBVIOUS
  <2>2. DOMAIN DevicePages = 1 .. n
    BY <1>11, RunFacts
  <2>3. Mapped[DevicePages[j + 1].virt] = DevicePages[j + 1].phys
    BY <1>2, <2>1, <2>2, DevicePagesMap, ProgressEnds DEF MapInv, DeviceInv
  <2>4. /\ DevicePages[j + 1].virt = st + (j + 1) - 1
        /\ DevicePages[j + 1].phys = PageOf(x) + (j + 1) - 1
    BY <1>11, <2>1, RunFacts
  <2>5. PageOf(x) \in Nat
    BY PagingAssumption DEF PageOf
  <2>6. st + (j + 1) - 1 = st + j /\ PageOf(x) + (j + 1) - 1 = PageOf(x) + j
    BY <2>5
  <2>. QED  BY <2>3, <2>4, <2>6
<1>13. ASSUME NEW i \in 0 .. s - 1
       PROVE  ByteMapped([phys |-> x, size |-> s, virt |-> virt], i, mmio_virt_next, Mapped)
  <2>1. PICK j \in 0 .. n - 1 :
          /\ PageOf(virt + i) = st + j /\ PageOf(x + i) = PageOf(x) + j
          /\ (virt + i) % BlockSize = (x + i) % BlockSize
    <3>1. virt = AddressIn(st, x)
      BY <1>10 DEF AddressIn
    <3>2. \A k \in 0 .. s - 1 : \E j \in 0 .. PageCount(x, s) - 1 :
            /\ PageOf(AddressIn(st, x) + k) = st + j /\ PageOf(x + k) = PageOf(x) + j
            /\ (AddressIn(st, x) + k) % BlockSize = (x + k) % BlockSize
      BY BytesOfRun
    <3>. QED  BY <1>8, <3>1, <3>2
  <2>2. st + j \in MmioBase .. mmio_virt_next - 1
    BY <1>5, <1>8, <1>9
  <2>. QED  BY <1>12, <2>1, <2>2 DEF ByteMapped
<1>14. new = [phys |-> x, size |-> s, virt |-> virt]
  BY <1>6, <1>7, <1>10
<1>15. ASSUME NEW t \in served'
       PROVE  /\ t.phys \in Nat /\ t.size \in Nat /\ t.virt \in Nat
              /\ \A i \in 0 .. t.size - 1 : ByteMapped(t, i, mmio_virt_next, Mapped)
  <2>1. CASE t \in served
    <3>1. /\ t.phys \in Nat /\ t.size \in Nat /\ t.virt \in Nat
          /\ \A i \in 0 .. t.size - 1 : ByteMapped(t, i, Given, Mapped)
      BY <2>1 DEF MapInv, ServedInv
    <3>2. MmioBase .. Given - 1 \subseteq MmioBase .. mmio_virt_next - 1
      BY <1>5, WiderRange
    <3>. QED  BY <3>1, <3>2 DEF ByteMapped
  <2>2. CASE t = new
    <3>1. t = [phys |-> x, size |-> s, virt |-> virt]
      BY <1>14, <2>2
    <3>2. t.phys = x /\ t.size = s /\ t.virt = virt
      BY <3>1
    <3>. QED  BY <1>13, <3>1, <3>2
  <2>. QED  BY <1>2, <2>1, <2>2
<1>16. ServedInv'
  BY <1>1, <1>5, <1>15 DEF ServedInv, ByteMapped
<1>. QED  BY <1>1, <1>3, <1>4, <1>16 DEF MapInv

LEMMA MapInvInit == MemoryInit => MapInv
<1>. SUFFICES ASSUME MemoryInit PROVE MapInv
  OBVIOUS
<1>1. phase = "boot" /\ current_pml4 = NULL /\ served = {} /\ mmio_virt_next = MmioBase
  BY DEF MemoryInit, PagingInit
<1>2. MmioBase \in Nat
  BY PagingAssumption
<1>. QED  BY <1>1, <1>2, PageInvInit DEF MapInv, InitInv, DeviceInv, ServedInv

LEMMA MapInvStep ==
  ASSUME PlacesApart
  PROVE  MapInv /\ [MemoryNext]_memoryVars => MapInv'
<1>. SUFFICES ASSUME MapInv, [MemoryNext]_memoryVars PROVE MapInv'
  OBVIOUS
<1>1. ASSUME UNCHANGED pagingVars, memory_map \subseteq memory_map' PROVE MapInv'
  <2>1. PageInv' /\ Mapped' = Mapped
    BY <1>1, PageInvOthers DEF MapInv
  <2>. QED  BY <1>1, <2>1, QuietKeeps DEF pagingVars, walk
<1>2. CASE PageStep
  <2>1. ASSUME Descend PROVE MapInv'
    BY <2>1, DownStep, QuietKeeps DEF Descend, MapInv
  <2>2. ASSUME AddTable PROVE MapInv'
    BY <2>2, GrowStep, QuietKeeps DEF AddTable, MapInv
  <2>. QED
    BY <1>2, <2>1, <2>2, MapBoot, MapSwitch, MapEntry, MapGiveUp, MapCall, MapReturn, MapUnmap
       DEF PageStep, PagingStep
<1>3. CASE FrameStep
  BY <1>1, <1>3, FramesGrow DEF FrameStep
<1>4. CASE HeapStep
  BY <1>1, <1>4 DEF HeapStep, vars
<1>5. CASE UNCHANGED memoryVars
  BY <1>1, <1>5 DEF memoryVars, vars
<1>. QED  BY <1>2, <1>3, <1>4, <1>5 DEF MemoryNext

LEMMA ThreeRuns ==
  ASSUME NEW S, NEW a \in Seq(S), NEW b \in Seq(S), NEW c \in Seq(S)
  PROVE  /\ DOMAIN (a \o b \o c) = 1 .. Len(a) + Len(b) + Len(c)
         /\ \A i \in 1 .. Len(a) : (a \o b \o c)[i] = a[i]
         /\ \A i \in 1 .. Len(b) : (a \o b \o c)[Len(a) + i] = b[i]
         /\ \A i \in 1 .. Len(c) : (a \o b \o c)[Len(a) + Len(b) + i] = c[i]
<1>1. PICK d \in Seq(S) : d = a \o b
  <2>1. a \o b \in Seq(S)
    OBVIOUS
  <2>. QED  BY <2>1
<1>2. /\ Len(d) = Len(a) + Len(b) /\ Len(a) \in Nat /\ Len(b) \in Nat /\ Len(c) \in Nat
      /\ \A i \in 1 .. Len(a) : d[i] = a[i]
      /\ \A i \in 1 .. Len(b) : d[Len(a) + i] = b[i]
  BY <1>1
<1>3. PICK e \in Seq(S) : e = d \o c
  <2>1. d \o c \in Seq(S)
    OBVIOUS
  <2>. QED  BY <2>1
<1>4. /\ DOMAIN e = 1 .. Len(d) + Len(c)
      /\ \A i \in 1 .. Len(d) : e[i] = d[i]
      /\ \A i \in 1 .. Len(c) : e[Len(d) + i] = c[i]
  BY <1>3
<1>5. \A i \in 1 .. Len(a) : i \in 1 .. Len(d)
  BY <1>2
<1>6. \A i \in 1 .. Len(b) : Len(a) + i \in 1 .. Len(d)
  BY <1>2
<1>7. e = a \o b \o c
  BY <1>1, <1>3
<1>. QED  BY <1>2, <1>4, <1>5, <1>6, <1>7

(* What vmm_init maps, page by page.                                       *)
LEMMA InitPagesAt ==
  /\ \A b \in 0 .. LowPages - 1 :
       \E k \in DOMAIN InitPages : InitPages[k].virt = b /\ InitPages[k].phys = b
  /\ \A j \in 0 .. FbPages - 1 :
       \E k \in DOMAIN InitPages :
         InitPages[k].virt = PageOf(FbAddr) + j /\ InitPages[k].phys = PageOf(FbAddr) + j
  /\ \A i \in 0 .. KernelPages - 1 :
       \E k \in DOMAIN InitPages :
         InitPages[k].virt = KernelVirt + i /\ InitPages[k].phys = KernelPhys + i
<1>1. /\ BlockSize \in Nat \ {0} /\ LowPages \in Nat /\ FbAddr \in Nat /\ FbSize \in Nat
      /\ KernelVirt \in Nat /\ KernelPhys \in Nat /\ KernelPages \in Nat
  BY PagingAssumption
<1>2. PICK m \in Nat : m = FbPages
  <2>1. FbSize + BlockSize - 1 \in Nat
    BY <1>1
  <2>2. \A a \in Nat : a \div BlockSize \in Nat
    BY <1>1
  <2>. QED  BY <2>1, <2>2 DEF FbPages
<1>3. PICK fb \in Nat : fb = PageOf(FbAddr)
  BY <1>1 DEF PageOf
<1>4. PICK low : low = Run(0, 0, LowPages)
  OBVIOUS
<1>5. PICK mid : mid = Run(fb, fb, m)
  OBVIOUS
<1>6. PICK high : high = Run(KernelVirt, KernelPhys, KernelPages)
  OBVIOUS
<1>7. InitPages = low \o mid \o high
  BY <1>2, <1>3, <1>4, <1>5, <1>6 DEF InitPages
<1>8. /\ low \in Seq(PlainMapping) /\ mid \in Seq(PlainMapping) /\ high \in Seq(PlainMapping)
  <2>1. ASSUME NEW v \in Nat, NEW q \in Nat, NEW n \in Nat PROVE Run(v, q, n) \in Seq(PlainMapping)
    <3>1. \A i \in 1 .. n : v + i - 1 \in Nat /\ q + i - 1 \in Nat
      OBVIOUS
    <3>. QED  BY <3>1 DEF Run, PlainMapping
  <2>. QED  BY <1>1, <1>4, <1>5, <1>6, <2>1
<1>9. /\ Len(low) = LowPages /\ Len(mid) = m /\ Len(high) = KernelPages
      /\ \A i \in 1 .. LowPages : low[i].virt = i - 1 /\ low[i].phys = i - 1
      /\ \A i \in 1 .. m : mid[i].virt = fb + i - 1 /\ mid[i].phys = fb + i - 1
      /\ \A i \in 1 .. KernelPages :
           high[i].virt = KernelVirt + i - 1 /\ high[i].phys = KernelPhys + i - 1
  <2>1. /\ Len(low) = LowPages
        /\ \A i \in 1 .. LowPages : low[i].virt = 0 + i - 1 /\ low[i].phys = 0 + i - 1
    BY <1>1, <1>4, RunFacts
  <2>2. /\ Len(mid) = m
        /\ \A i \in 1 .. m : mid[i].virt = fb + i - 1 /\ mid[i].phys = fb + i - 1
    BY <1>5, RunFacts
  <2>3. /\ Len(high) = KernelPages
        /\ \A i \in 1 .. KernelPages :
             high[i].virt = KernelVirt + i - 1 /\ high[i].phys = KernelPhys + i - 1
    BY <1>1, <1>6, RunFacts
  <2>4. \A i \in 1 .. LowPages : 0 + i - 1 = i - 1
    BY <1>1
  <2>. QED  BY <2>1, <2>2, <2>3, <2>4
<1>10. /\ DOMAIN InitPages = 1 .. LowPages + m + KernelPages
       /\ \A i \in 1 .. LowPages : InitPages[i] = low[i]
       /\ \A i \in 1 .. m : InitPages[LowPages + i] = mid[i]
       /\ \A i \in 1 .. KernelPages : InitPages[LowPages + m + i] = high[i]
  <2>1. /\ DOMAIN InitPages = 1 .. Len(low) + Len(mid) + Len(high)
        /\ \A i \in 1 .. Len(low) : InitPages[i] = low[i]
        /\ \A i \in 1 .. Len(mid) : InitPages[Len(low) + i] = mid[i]
        /\ \A i \in 1 .. Len(high) : InitPages[Len(low) + Len(mid) + i] = high[i]
    BY <1>7, <1>8, ThreeRuns
  <2>. QED  BY <1>9, <2>1
<1>11. ASSUME NEW b \in 0 .. LowPages - 1
       PROVE  \E k \in DOMAIN InitPages : InitPages[k].virt = b /\ InitPages[k].phys = b
  <2>1. b + 1 \in 1 .. LowPages /\ (b + 1) - 1 = b /\ b + 1 \in DOMAIN InitPages
    BY <1>1, <1>10
  <2>. QED  BY <1>9, <1>10, <2>1
<1>12. ASSUME NEW j \in 0 .. m - 1
       PROVE  \E k \in DOMAIN InitPages : InitPages[k].virt = fb + j /\ InitPages[k].phys = fb + j
  <2>1. /\ j + 1 \in 1 .. m /\ fb + (j + 1) - 1 = fb + j
        /\ LowPages + (j + 1) \in DOMAIN InitPages
    BY <1>1, <1>10
  <2>. QED  BY <1>9, <1>10, <2>1
<1>13. ASSUME NEW i \in 0 .. KernelPages - 1
       PROVE  \E k \in DOMAIN InitPages :
                InitPages[k].virt = KernelVirt + i /\ InitPages[k].phys = KernelPhys + i
  <2>1. /\ i + 1 \in 1 .. KernelPages
        /\ KernelVirt + (i + 1) - 1 = KernelVirt + i /\ KernelPhys + (i + 1) - 1 = KernelPhys + i
        /\ LowPages + m + (i + 1) \in DOMAIN InitPages
    BY <1>1, <1>10
  <2>. QED  BY <1>9, <1>10, <2>1
<1>. QED  BY <1>2, <1>3, <1>11, <1>12, <1>13

LEMMA MapInvIsMapped ==
  ASSUME PlacesApart, MapInv, GrantsInBitmap, base \in Bases
  PROVE  KernelMapped
<1>. SUFFICES ASSUME current_pml4 # NULL PROVE KernelMapped
  BY DEF KernelMapped
<1>1. /\ phase \in {"idle", "mmio"} /\ root # NULL
      /\ \A k \in DOMAIN InitPages : Mapped[InitPages[k].virt] = InitPages[k].phys
  BY DEF MapInv, InitInv, PageInv, InPhase
<1>2. ASSUME NEW v \in Virtual PROVE vmm_get_phys(v) = Mapped[v]
  BY <1>1 DEF Mapped
<1>3. ASSUME NEW k \in DOMAIN InitPages PROVE vmm_get_phys(InitPages[k].virt) = InitPages[k].phys
  BY <1>1, <1>2, InitPagesAssumption
<1>4. ASSUME NEW b \in (0 .. base - 1) \cup {b \in Bits : held[b] > 0} PROVE vmm_get_phys(b) = b
  <2>1. base \in 0 .. MaxBlocks /\ MaxBlocks \in Nat /\ Slack \in Nat
        /\ MaxBlocks <= LowPages /\ LowPages \in Nat
    BY PhysMemAssumption, PagingAssumption DEF PlacesApart
  <2>2. b \in 0 .. LowPages - 1
    <3>1. CASE b \in 0 .. base - 1
      BY <2>1, <3>1
    <3>2. CASE b \in Bits /\ held[b] > 0
      <4>1. b \notin Beyond
        BY <3>2 DEF GrantsInBitmap
      <4>. QED  BY <2>1, <3>2, <4>1 DEF Bits, Beyond
    <3>. QED  BY <1>4, <3>1, <3>2
  <2>3. PICK k \in DOMAIN InitPages : InitPages[k].virt = b /\ InitPages[k].phys = b
    BY <2>2, InitPagesAt
  <2>. QED  BY <1>3, <2>3
<1>5. ASSUME FbAddr # 0, NEW a \in FbAddr .. FbAddr + FbSize - 1
      PROVE  vmm_get_phys(PageOf(a)) = PageOf(a)
  <2>1. PICK B \in Nat \ {0} : B = BlockSize
    BY PagingAssumption
  <2>2. FbAddr \in Nat /\ FbSize \in Nat
    BY PagingAssumption
  <2>3. PICK c \in Nat : c = FbAddr
    BY <2>2
  <2>4. PICK d \in Nat : d = a /\ c <= d /\ d <= c + FbSize - 1
    BY <2>2, <2>3
  <2>5. PICK f \in Nat : f = c \div B /\ B * f <= c /\ c < B * f + B
    BY <2>1
  <2>6. PICK e \in Nat : e = d \div B /\ B * e <= d /\ d < B * e + B
    BY <2>1
  <2>7. PICK m \in Nat : m = (FbSize + B - 1) \div B /\ FbSize + B - 1 < B * m + B
    <3>1. PICK y \in Nat : y = FbSize + B - 1
      BY <2>1, <2>2
    <3>2. y \div B \in Nat /\ y < B * (y \div B) + B
      BY <2>1
    <3>. QED  BY <3>1, <3>2
  <2>8. f <= e
    <3>. SUFFICES ASSUME e < f PROVE FALSE
      OBVIOUS
    <3>1. B * e + B <= B * f
      <4>1. B * (f - e - 1) >= 0 /\ B * (f - e - 1) = B * f - B * e - B
        OBVIOUS
      <4>. QED  BY <4>1
    <3>. QED  BY <2>4, <2>5, <2>6, <3>1
  <2>9. e - f <= m
    <3>. SUFFICES ASSUME e - f > m PROVE FALSE
      OBVIOUS
    <3>1. B * f + B * m + B <= B * e
      <4>1. B * (e - f - m - 1) >= 0 /\ B * (e - f - m - 1) = B * e - B * f - B * m - B
        OBVIOUS
      <4>. QED  BY <4>1
    <3>. QED  BY <2>2, <2>4, <2>5, <2>6, <2>7, <3>1
  <2>10. PICK j \in 0 .. FbPages - 1 : j = e - f
    <3>1. FbPages = m + 1
      BY <1>5, <2>1, <2>7 DEF FbPages
    <3>. QED  BY <2>8, <2>9, <3>1
  <2>11. PageOf(a) = PageOf(FbAddr) + j
    BY <2>1, <2>3, <2>4, <2>5, <2>6, <2>10 DEF PageOf
  <2>12. PICK k \in DOMAIN InitPages :
           InitPages[k].virt = PageOf(FbAddr) + j /\ InitPages[k].phys = PageOf(FbAddr) + j
    BY InitPagesAt
  <2>. QED  BY <1>3, <2>11, <2>12
<1>6. ASSUME NEW i \in 0 .. KernelPages - 1 PROVE vmm_get_phys(KernelVirt + i) = KernelPhys + i
  <2>1. PICK k \in DOMAIN InitPages :
          InitPages[k].virt = KernelVirt + i /\ InitPages[k].phys = KernelPhys + i
    BY InitPagesAt
  <2>. QED  BY <1>3, <2>1
<1>7. ASSUME NEW s \in served, NEW i \in 0 .. s.size - 1
      PROVE  /\ vmm_get_phys(PageOf(s.virt + i)) = PageOf(s.phys + i)
             /\ (s.virt + i) % BlockSize = (s.phys + i) % BlockSize
  <2>1. ByteMapped(s, i, Given, Mapped)
    BY DEF MapInv, ServedInv
  <2>2. PICK v : v = PageOf(s.virt + i)
    OBVIOUS
  <2>3. /\ v \in MmioBase .. Given - 1 /\ Mapped[v] = PageOf(s.phys + i)
        /\ (s.virt + i) % BlockSize = (s.phys + i) % BlockSize
    BY <2>1, <2>2 DEF ByteMapped
  <2>4. v \in Virtual
    <3>1. MmioBase .. Given - 1 \subseteq MmioBase .. mmio_virt_next - 1
      BY GivenFacts, WiderRange, PagingAssumption DEF MapInv, PageInv, Todo
    <3>. QED  BY <2>3, <3>1 DEF MapInv, PageInv, Todo
  <2>. QED  BY <1>2, <2>2, <2>3, <2>4
<1>. QED  BY <1>4, <1>5, <1>6, <1>7 DEF KernelMapped

(* Whatever the kernel uses by its address is mapped there once paging is  *)
(* on, and what mmio_map returned leads to every byte of the device.       *)
THEOREM MemoryKernelMapped ==
  ASSUME PlacesApart
  PROVE  MemorySpec => []KernelMapped
<1>1. MapInv /\ GrantsInBitmap /\ TypeOK => KernelMapped
  BY MapInvIsMapped DEF TypeOK
<1>. QED
  BY <1>1, MapInvInit, MapInvStep, MemoryHasFrames, KernelIsApi, ApiTypeOK,
     KernelGrantsInBitmap, PTL DEF MemorySpec
=============================================================================

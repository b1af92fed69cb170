---------------------------- MODULE Fat32Proofs -----------------------------
(***************************************************************************)
(* What the FAT32 driver keeps, whatever the names, texts, sizes and       *)
(* cluster numbers.  A volume with files that are created, appended to and *)
(* copied stays sound through power failures and failed sectors            *)
(* (Fat32NoCrossLinks, Fat32OthersIntact, Fat32AppendAtomic).  Calls of    *)
(* every kind lose no cluster and link none twice as long as they succeed  *)
(* (Fat32NoLeak, Fat32FilesApart), and leave the second FAT a copy of the  *)
(* first when nothing fails (Fat32MirrorAgrees).                           *)
(*                                                                         *)
(* Calls that delete or replace are left out of the first three: they free *)
(* the old chain before they write the entry, so a power failure between   *)
(* leaves an entry that leads to free clusters.                            *)
(*                                                                         *)
(* There are three inductive invariants.  GrowInv is the one for the world *)
(* in which anything may fail.  NoCrossLinks speaks of chains, but         *)
(* every step changes one FAT entry; what such a step keeps is that no     *)
(* cluster has two predecessors (Sound), that files start at clusters that *)
(* have none (DirInv), and that the call in progress holds a chain of its  *)
(* own (BuiltInv) and a cluster that is nobody's yet (FreshInv).  Chains   *)
(* are then shown disjoint by induction along them.  TailInv says where an *)
(* append writes: behind what the size in the directory accounts for.      *)
(*                                                                         *)
(* SpaceInv is the one for calls that succeed.  It says that the used      *)
(* clusters are exactly those of some chains (Forest): the files', the     *)
(* one that the call builds and what is left of the one that it frees.     *)
(* Chains must end where the sizes say, or an append would link its new    *)
(* clusters in the middle and lose the rest.                               *)
(*                                                                         *)
(* StoreInv is the one behind Fat32RefinesFileStore.  It ties the clusters *)
(* that the call in progress has written to the text that the request asks *)
(* for (Doing), and the entry that it will write to the answer (Promise).  *)
(***************************************************************************)
EXTENDS Fat32, SequenceTheorems, FiniteSetTheorems, WellFoundedInduction, TLAPS

LEMMA LeastNatural ==
  ASSUME NEW T, T \subseteq Nat, T # {}
  PROVE  Min(T) \in T /\ \A m \in T : Min(T) <= m
<1>1. PICK n \in T : \A m \in T : ~ (<<m, n>> \in OpToRel(<, Nat))
  BY WFMin, NatLessThanWellFounded
<1>2. \A m \in T : ~(m < n)
  BY <1>1 DEF OpToRel
<1>3. \E x \in T : \A y \in T : x =< y
  BY <1>2
<1>. QED  BY <1>3, Zenon DEF Min

(* Induction, for a set that is written down.                              *)
LEMMA SetInduction ==
  ASSUME NEW S, 0 \in S, \A n \in Nat : n \in S => n + 1 \in S
  PROVE  Nat \subseteq S
<1>. SUFFICES ASSUME Nat \ S # {} PROVE FALSE
  OBVIOUS
<1>1. PICK m \in Nat \ S : \A x \in Nat \ S : m <= x
  BY LeastNatural
<1>2. m - 1 \in Nat
  BY <1>1
<1>3. m - 1 \in S
  BY <1>1, <1>2
<1>. QED  BY <1>1, <1>2, <1>3

-----------------------------------------------------------------------------
(***************************************************************************)
(* Chains.                                                                 *)
(***************************************************************************)
Follow(table, x) == IF x \in Clusters THEN table[x] ELSE x

Walks(table, c, n, g) ==
  g = [k \in 0 .. n |-> IF k = 0 THEN c ELSE Follow(table, g[k - 1])]

LEMMA ChainExists ==
  ASSUME NEW table, NEW c
  PROVE  \A n \in Nat : \E g : Walks(table, c, n, g)
<1>. DEFINE S == {n \in Nat : \E g : Walks(table, c, n, g)}
<1>1. 0 \in S
  <2>. DEFINE g == [k \in 0 .. 0 |-> c]
  <2>1. Walks(table, c, 0, g)
    BY DEF Walks
  <2>. QED  BY <2>1
<1>2. ASSUME NEW n \in Nat, n \in S PROVE n + 1 \in S
  <2>1. PICK f : Walks(table, c, n, f)
    BY <1>2
  <2>. DEFINE g == [k \in 0 .. n + 1 |-> IF k = n + 1 THEN Follow(table, f[n]) ELSE f[k]]
  <2>2. \A k \in 0 .. n : f[k] = IF k = 0 THEN c ELSE Follow(table, f[k - 1])
    BY <2>1 DEF Walks
  <2>3. \A k \in 0 .. n + 1 : g[k] = IF k = 0 THEN c ELSE Follow(table, g[k - 1])
    BY <2>2
  <2>4. g = [k \in 0 .. n + 1 |-> IF k = 0 THEN c ELSE Follow(table, g[k - 1])]
    BY <2>3
  <2>5. Walks(table, c, n + 1, g)
    BY <2>4 DEF Walks
  <2>. QED  BY <2>5
<1>. HIDE DEF S
<1>3. Nat \subseteq S
  BY <1>1, <1>2, SetInduction
<1>. QED  BY <1>3 DEF S

LEMMA ChainFacts ==
  ASSUME NEW table, NEW c
  PROVE  /\ ChainIn(table, c) = [k \in 0 .. MaxLen |-> ChainIn(table, c)[k]]
         /\ DOMAIN ChainIn(table, c) = 0 .. MaxLen
         /\ ChainIn(table, c)[0] = c
         /\ \A k \in 1 .. MaxLen :
              ChainIn(table, c)[k] = Follow(table, ChainIn(table, c)[k - 1])
<1>1. MaxLen \in Nat
  BY FatAssumption
<1>2. PICK g : Walks(table, c, MaxLen, g)
  BY <1>1, ChainExists
<1>3. g = [k \in 0 .. MaxLen |->
             IF k = 0 THEN c ELSE IF g[k - 1] \in Clusters THEN table[g[k - 1]] ELSE g[k - 1]]
  BY <1>2 DEF Walks, Follow
<1>4. ChainIn(table, c) = [k \in 0 .. MaxLen |->
             IF k = 0 THEN c
             ELSE IF ChainIn(table, c)[k - 1] \in Clusters THEN table[ChainIn(table, c)[k - 1]]
                  ELSE ChainIn(table, c)[k - 1]]
  BY <1>3, Zenon DEF ChainIn
<1>5. PICK h : h = ChainIn(table, c)
  OBVIOUS
<1>6. /\ h = [k \in 0 .. MaxLen |-> h[k]]
      /\ DOMAIN h = 0 .. MaxLen
      /\ \A k \in 0 .. MaxLen : h[k] = IF k = 0 THEN c ELSE Follow(table, h[k - 1])
  BY <1>4, <1>5 DEF Follow
<1>7. 0 \in 0 .. MaxLen /\ \A k \in 1 .. MaxLen : k \in 0 .. MaxLen /\ k # 0
  BY <1>1
<1>. QED  BY <1>5, <1>6, <1>7

(* What a chain has led out of the data area does not come back.           *)
LEMMA ChainStops ==
  ASSUME NEW table, NEW c, NEW k \in 0 .. MaxLen, ChainIn(table, c)[k] \notin Clusters
  PROVE  \A j \in k .. MaxLen : ChainIn(table, c)[j] = ChainIn(table, c)[k]
<1>. PICK nth : nth = ChainIn(table, c)
  OBVIOUS
<1>. DEFINE S == {j \in Nat : k <= j /\ j <= MaxLen => nth[j] = nth[k]}
<1>0. MaxLen \in Nat /\ \A i \in 1 .. MaxLen : nth[i] = Follow(table, nth[i - 1])
  BY FatAssumption, ChainFacts
<1>1. 0 \in S
  OBVIOUS
<1>2. ASSUME NEW j \in Nat, j \in S PROVE j + 1 \in S
  <2>. SUFFICES ASSUME k <= j + 1, j + 1 <= MaxLen PROVE nth[j + 1] = nth[k]
    OBVIOUS
  <2>1. CASE k = j + 1
    BY <2>1
  <2>2. CASE k <= j
    <3>1. nth[j] = nth[k] /\ nth[j + 1] = Follow(table, nth[j])
      BY <1>0, <1>2, <2>2
    <3>. QED  BY <3>1 DEF Follow
  <2>. QED  BY <2>1, <2>2
<1>. HIDE DEF S
<1>3. Nat \subseteq S
  BY <1>1, <1>2, SetInduction
<1>. QED  BY <1>0, <1>3 DEF S

(* A table in which no cluster has two predecessors, and a cluster that    *)
(* has one is in use.                                                      *)
Sound(table) ==
  /\ table \in [Clusters -> Clusters \cup {FREE, EOC}]
  /\ \A c, d \in Clusters : table[c] = table[d] /\ table[c] \in Clusters => c = d
  /\ \A c \in Clusters : table[c] \in Clusters => table[table[c]] # FREE

Unpointed(table, c) == \A d \in Clusters : table[d] # c

\* c is used and nothing points at it.
Heads(table, c) == c \in Clusters /\ table[c] # FREE /\ Unpointed(table, c)

OwnedIn(table, c) == {ChainIn(table, c)[k] : k \in 0 .. MaxLen} \cap Clusters

LEMMA ConstantFacts ==
  /\ Clusters \subseteq Nat \ {0} /\ FREE \notin Clusters /\ EOC \notin Clusters
  /\ FREE # EOC /\ MaxLen \in Nat \ {0} /\ ClusterSize \in Nat \ {0} /\ MaxSlots \in Nat
BY FatAssumption DEF FREE, EOC, BAD

(* A chain of used clusters is used throughout.                            *)
LEMMA ChainUsed ==
  ASSUME NEW table, Sound(table), NEW c, c = 0 \/ Heads(table, c)
  PROVE  \A x \in OwnedIn(table, c) : table[x] # FREE
<1>. PICK nth : nth = ChainIn(table, c)
  OBVIOUS
<1>0. /\ MaxLen \in Nat /\ \A i \in 1 .. MaxLen : nth[i] = Follow(table, nth[i - 1])
      /\ nth[0] = c /\ 0 \notin Clusters
  BY ConstantFacts, ChainFacts DEF FREE
<1>1. ASSUME NEW k \in 0 .. MaxLen, nth[k] \in Clusters PROVE table[nth[k]] # FREE
  <2>1. CASE k = 0
    BY <1>0, <1>1, <2>1 DEF Heads
  <2>2. CASE k # 0
    <3>1. k \in 1 .. MaxLen /\ k - 1 \in 0 .. MaxLen /\ MaxLen \in Nat
      BY <1>0, <2>2
    <3>2. nth[k] = Follow(table, nth[k - 1])
      BY <1>0, <3>1
    <3>3. nth[k - 1] \in Clusters
      <4>1. SUFFICES ASSUME nth[k - 1] \notin Clusters PROVE FALSE
        OBVIOUS
      <4>. QED  BY <1>1, <3>2, <4>1 DEF Follow
    <3>. QED  BY <1>1, <3>2, <3>3 DEF Follow, Sound
  <2>. QED  BY <2>1, <2>2
<1>. QED  BY <1>1 DEF OwnedIn

(* Two chains that meet are the same chain, at the same place.             *)
LEMMA ChainsMeet ==
  ASSUME NEW table, Sound(table), NEW c, c = 0 \/ Heads(table, c),
         NEW d, d = 0 \/ Heads(table, d)
  PROVE  \A a, b \in 0 .. MaxLen :
           ChainIn(table, c)[a] = ChainIn(table, d)[b] /\ ChainIn(table, c)[a] \in Clusters
             => c = d /\ a = b
<1>. PICK f : f = ChainIn(table, c)
  OBVIOUS
<1>. PICK g : g = ChainIn(table, d)
  OBVIOUS
<1>0. /\ MaxLen \in Nat /\ 0 \notin Clusters /\ f[0] = c /\ g[0] = d
      /\ \A i \in 1 .. MaxLen : f[i] = Follow(table, f[i - 1])
      /\ \A i \in 1 .. MaxLen : g[i] = Follow(table, g[i - 1])
  BY ConstantFacts, ChainFacts DEF FREE
<1>. DEFINE S == {a \in Nat : a <= MaxLen =>
                    \A b \in 0 .. MaxLen : f[a] = g[b] /\ f[a] \in Clusters => c = d /\ a = b}
<1>1. 0 \in S
  <2>. SUFFICES ASSUME NEW b \in 0 .. MaxLen, f[0] = g[b], f[0] \in Clusters
                PROVE  c = d /\ 0 = b
    OBVIOUS
  <2>1. CASE b = 0
    BY <1>0, <2>1
  <2>2. CASE b # 0
    <3>1. b \in 1 .. MaxLen
      BY <1>0, <2>2
    <3>2. Follow(table, g[b - 1]) = c /\ c \in Clusters /\ Heads(table, c)
      BY <1>0, <3>1
    <3>3. CASE g[b - 1] \in Clusters
      BY <3>2, <3>3 DEF Follow, Heads, Unpointed
    <3>4. CASE g[b - 1] \notin Clusters
      BY <3>2, <3>4 DEF Follow
    <3>. QED  BY <3>3, <3>4
  <2>. QED  BY <2>1, <2>2
<1>2. ASSUME NEW a \in Nat, a \in S PROVE a + 1 \in S
  <2>. SUFFICES ASSUME a + 1 <= MaxLen, NEW b \in 0 .. MaxLen,
                       f[a + 1] = g[b], f[a + 1] \in Clusters
                PROVE  c = d /\ a + 1 = b
    OBVIOUS
  <2>1. a + 1 \in 1 .. MaxLen /\ (a + 1) - 1 = a
    BY <1>0
  <2>2. f[a + 1] = Follow(table, f[a])
    BY <1>0, <2>1
  <2>3. f[a] \in Clusters /\ table[f[a]] = g[b] /\ g[b] \in Clusters
    <3>1. CASE f[a] \in Clusters
      BY <2>2, <3>1 DEF Follow
    <3>2. CASE f[a] \notin Clusters
      BY <2>2, <3>2 DEF Follow
    <3>. QED  BY <3>1, <3>2
  <2>4. CASE b = 0
    BY <1>0, <2>3, <2>4 DEF Heads, Unpointed
  <2>5. CASE b # 0
    <3>1. b \in 1 .. MaxLen /\ b - 1 \in 0 .. MaxLen /\ MaxLen \in Nat
      BY <1>0, <2>5
    <3>2. g[b] = Follow(table, g[b - 1])
      BY <1>0, <3>1
    <3>3. g[b - 1] \in Clusters /\ table[g[b - 1]] = g[b]
      <4>1. CASE g[b - 1] \in Clusters
        BY <3>2, <4>1 DEF Follow
      <4>2. CASE g[b - 1] \notin Clusters
        BY <2>3, <3>2, <4>2 DEF Follow
      <4>. QED  BY <4>1, <4>2
    <3>4. f[a] = g[b - 1]
      BY <2>3, <3>3 DEF Sound
    <3>5. a <= MaxLen
      BY <1>0
    <3>6. c = d /\ a = b - 1
      BY <1>2, <2>3, <3>1, <3>4, <3>5
    <3>. QED  BY <3>1, <3>6
  <2>. QED  BY <2>4, <2>5
<1>. HIDE DEF S
<1>3. Nat \subseteq S
  BY <1>1, <1>2, SetInduction
<1>. QED  BY <1>0, <1>3 DEF S

(* A cluster that nothing points at can only be the first of a chain.      *)
LEMMA OnlyHead ==
  ASSUME NEW table, NEW c, NEW x, Unpointed(table, x), x # c
  PROVE  x \notin OwnedIn(table, c)
<1>. PICK nth : nth = ChainIn(table, c)
  OBVIOUS
<1>0. /\ MaxLen \in Nat /\ nth[0] = c
      /\ \A i \in 1 .. MaxLen : nth[i] = Follow(table, nth[i - 1])
  BY ConstantFacts, ChainFacts
<1>. DEFINE S == {k \in Nat : k <= MaxLen => nth[k] # x}
<1>1. 0 \in S
  BY <1>0
<1>2. ASSUME NEW k \in Nat, k \in S PROVE k + 1 \in S
  <2>. SUFFICES ASSUME k + 1 <= MaxLen PROVE nth[k + 1] # x
    OBVIOUS
  <2>1. k + 1 \in 1 .. MaxLen /\ (k + 1) - 1 = k /\ nth[k] # x
    BY <1>0, <1>2
  <2>2. nth[k + 1] = Follow(table, nth[k])
    BY <1>0, <2>1
  <2>. QED  BY <2>1, <2>2 DEF Follow, Unpointed
<1>. HIDE DEF S
<1>3. Nat \subseteq S
  BY <1>1, <1>2, SetInduction
<1>4. \A k \in 0 .. MaxLen : nth[k] # x
  BY <1>0, <1>3 DEF S
<1>. QED  BY <1>4 DEF OwnedIn

(* A chain stays as it is up to the first cluster whose entry changes.     *)
LEMMA ChainKept ==
  ASSUME NEW table, NEW new, NEW c, NEW m \in 0 .. MaxLen,
         \A k \in 0 .. m - 1 : ChainIn(table, c)[k] \in Clusters =>
           new[ChainIn(table, c)[k]] = table[ChainIn(table, c)[k]]
  PROVE  \A k \in 0 .. m : ChainIn(new, c)[k] = ChainIn(table, c)[k]
<1>. PICK f : f = ChainIn(table, c)
  OBVIOUS
<1>. PICK g : g = ChainIn(new, c)
  OBVIOUS
<1>0. /\ MaxLen \in Nat /\ f[0] = c /\ g[0] = c
      /\ \A i \in 1 .. MaxLen : f[i] = Follow(table, f[i - 1])
      /\ \A i \in 1 .. MaxLen : g[i] = Follow(new, g[i - 1])
  BY ConstantFacts, ChainFacts
<1>. DEFINE S == {k \in Nat : k <= m => g[k] = f[k]}
<1>1. 0 \in S
  BY <1>0
<1>2. ASSUME NEW k \in Nat, k \in S PROVE k + 1 \in S
  <2>. SUFFICES ASSUME k + 1 <= m PROVE g[k + 1] = f[k + 1]
    OBVIOUS
  <2>1. k + 1 \in 1 .. MaxLen /\ (k + 1) - 1 = k /\ g[k] = f[k] /\ k \in 0 .. m - 1
    BY <1>0, <1>2
  <2>2. f[k + 1] = Follow(table, f[k]) /\ g[k + 1] = Follow(new, f[k])
    BY <1>0, <2>1
  <2>3. f[k] \in Clusters => new[f[k]] = table[f[k]]
    BY <2>1
  <2>. QED  BY <2>2, <2>3 DEF Follow
<1>. HIDE DEF S
<1>3. Nat \subseteq S
  BY <1>1, <1>2, SetInduction
<1>. QED  BY <1>3 DEF S

LEMMA ChainUntouched ==
  ASSUME NEW table, NEW new, NEW c,
         \A x \in OwnedIn(table, c) : new[x] = table[x]
  PROVE  ChainIn(new, c) = ChainIn(table, c) /\ OwnedIn(new, c) = OwnedIn(table, c)
<1>1. MaxLen \in 0 .. MaxLen /\ MaxLen \in Nat
  BY ConstantFacts
<1>2. \A k \in 0 .. MaxLen - 1 : ChainIn(table, c)[k] \in Clusters =>
        new[ChainIn(table, c)[k]] = table[ChainIn(table, c)[k]]
  BY <1>1 DEF OwnedIn
<1>3. \A k \in 0 .. MaxLen : ChainIn(new, c)[k] = ChainIn(table, c)[k]
  BY <1>1, <1>2, ChainKept
<1>4. PICK f : f = ChainIn(table, c)
  OBVIOUS
<1>5. PICK g : g = ChainIn(new, c)
  OBVIOUS
<1>6. f = [k \in 0 .. MaxLen |-> f[k]] /\ g = [k \in 0 .. MaxLen |-> g[k]]
  BY <1>4, <1>5, ChainFacts
<1>7. \A k \in 0 .. MaxLen : f[k] = g[k]
  BY <1>3, <1>4, <1>5
<1>8. f = g
  BY <1>6, <1>7
<1>. QED  BY <1>4, <1>5, <1>8 DEF OwnedIn

-----------------------------------------------------------------------------
(***************************************************************************)
(* The invariant.                                                          *)
(***************************************************************************)
\* Calls that never free a cluster, nor take a name away.
Growing == {"create", "append", "mkdir", "cp"}

Entries == [name : Names \cup {None}, dir : BOOLEAN, first : Clusters \cup {0},
            size : 0 .. MaxLen]

(* No two files start at the same cluster, and none inside another.        *)
DirInv ==
  /\ dir \in Seq(Entries) /\ Len(dir) <= MaxSlots
  /\ \A i \in Live : dir[i].first = 0 \/ Heads(fat, dir[i].first)
  /\ \A i, j \in Live : i # j /\ dir[i].first = dir[j].first => dir[i].first = 0

\* Entries that the call in progress is not about.
Others == Live \ {op.slot}

Shaped(o) ==
  o = [kind |-> o.kind, name |-> o.name, then |-> o.then, dir |-> o.dir, slot |-> o.slot,
       first |-> o.first, last |-> o.last, cl |-> o.cl, need |-> o.need,
       rest |-> o.rest, size |-> o.size]

(* Which call, and which entry it will write.                              *)
CallInv ==
  /\ Shaped(op)
  /\ req # <<>> => req.kind # "mv"
  /\ op.then = None
  /\ pc = "idle" => op = NoOp
  /\ pc # "idle" =>
       /\ pc \in {"alloc", "allocMirror", "link", "linkMirror", "data", "fill", "entry"}
       /\ op.name \in Names /\ op.dir \in BOOLEAN /\ op.size \in 0 .. MaxLen
       /\ op.slot \in 1 .. MaxSlots /\ op.slot <= Len(dir) + 1
       /\ \/ op.kind = "create" /\ op.slot \notin Live
          \/ op.kind = "append" /\ op.slot \in Live /\ op.slot \in Matches(op.name)
                                /\ \A i \in Matches(op.name) : op.slot <= i

(* The chain that the call has built: it is not in a file's way, and ends  *)
(* in a cluster of no other file.                                          *)
BuiltInv ==
  /\ op.first = 0 \/ Heads(fat, op.first)
  /\ \A i \in Others : dir[i].first = op.first => op.first = 0
  /\ op.last = 0 \/ (op.last \in Clusters /\ fat[op.last] # FREE)
  /\ \A i \in Others : op.last \notin OwnedIn(fat, dir[i].first)

(* The cluster that has just been allocated is nobody's until it is        *)
(* linked; then it is the last one.                                        *)
FreshInv ==
  /\ pc \in {"allocMirror", "link"} =>
       /\ op.cl \in Clusters /\ fat[op.cl] = EOC /\ Unpointed(fat, op.cl)
       /\ op.cl # op.first /\ op.cl # op.last /\ \A i \in Live : dir[i].first # op.cl
  /\ pc \in {"linkMirror", "data"} => op.cl \in Clusters /\ op.cl = op.last

(* An append writes behind what its file's size accounts for.              *)
TailInv ==
  op.kind = "append" =>
    /\ op.last # 0 => \A k \in 0 .. MaxLen :
         (\/ k + 1 < ClustersFor(dir[op.slot].size)
          \/ pc \in {"linkMirror", "data"} /\ k < ClustersFor(dir[op.slot].size))
         => Chain(dir[op.slot].first)[k] # op.last
    /\ pc = "fill" => /\ dir[op.slot].size = 0 \/ dir[op.slot].size % ClusterSize # 0
                      /\ op.last \in Clusters

GrowInv == Sound(fat) /\ DirInv /\ CallInv /\ BuiltInv /\ FreshInv /\ TailInv
-----------------------------------------------------------------------------
LEMMA NoOpFacts ==
  /\ NoOp.kind = None /\ NoOp.then = None /\ NoOp.slot = 0 /\ NoOp.first = 0 /\ NoOp.last = 0
  /\ NoOp.name = None /\ NoOp.cl = 0 /\ Shaped(NoOp)
BY DEF NoOp, Shaped

LEMMA GrowInit == Init => GrowInv
<1>. SUFFICES ASSUME Init PROVE GrowInv
  OBVIOUS
<1>1. dir = <<>> /\ op = NoOp /\ pc = "idle" /\ req = <<>>
  BY DEF Init
<1>2. \A c \in Clusters : fat[c] = FREE
  BY DEF Init
<1>3. Sound(fat)
  BY <1>2, ConstantFacts DEF Init, Sound
<1>4. Live = {}
  BY <1>1 DEF Live
<1>5. DirInv
  BY <1>1, <1>4, ConstantFacts DEF DirInv
<1>6. CallInv
  BY <1>1, NoOpFacts DEF CallInv
<1>7. BuiltInv
  BY <1>1, <1>4, NoOpFacts DEF BuiltInv, Others
<1>8. FreshInv
  BY <1>1 DEF FreshInv
<1>9. TailInv
  BY <1>1, NoOpFacts DEF TailInv, None
<1>. QED  BY <1>3, <1>5, <1>6, <1>7, <1>8, <1>9 DEF GrowInv

(* While the directory stays, so do the entries.                           *)
LEMMA SameEntries ==
  ASSUME UNCHANGED dir
  PROVE  Live' = Live /\ FreeSlots' = FreeSlots /\ \A n : Matches(n)' = Matches(n)
BY DEF Live, FreeSlots, Matches

LEMMA AnswerStep ==
  ASSUME GrowInv, UNCHANGED <<fat, dir>>, NEW b, Answer(b)
  PROVE  GrowInv'
<1>1. op' = NoOp /\ pc' = "idle" /\ req' = <<>>
  BY DEF Answer
<1>2. Sound(fat)' /\ DirInv'
  BY SameEntries DEF GrowInv, DirInv
<1>3. CallInv'
  BY <1>1, NoOpFacts DEF CallInv
<1>4. BuiltInv'
  <2>1. \A i : 0 \notin OwnedIn(fat', dir'[i].first)
    BY ConstantFacts DEF OwnedIn
  <2>2. op'.first = 0 /\ op'.last = 0
    BY <1>1, NoOpFacts
  <2>. QED  BY <2>1, <2>2 DEF BuiltInv
<1>5. FreshInv'
  BY <1>1 DEF FreshInv
<1>6. TailInv'
  BY <1>1, NoOpFacts DEF TailInv, None
<1>. QED  BY <1>2, <1>3, <1>4, <1>5, <1>6 DEF GrowInv

(* The slot for a new entry.                                               *)
LEMMA SlotFacts ==
  ASSUME dir \in Seq(Entries), FreeSlots # {}
  PROVE  /\ Min(FreeSlots) \in 1 .. MaxSlots /\ Min(FreeSlots) <= Len(dir) + 1
         /\ Min(FreeSlots) \notin Live
<1>1. FreeSlots \subseteq Nat /\ MaxSlots \in Nat /\ Len(dir) \in Nat
  BY ConstantFacts DEF FreeSlots
<1>2. PICK s : s = Min(FreeSlots) /\ s \in FreeSlots /\ \A m \in FreeSlots : s <= m
  BY <1>1, LeastNatural
<1>3. s <= Len(dir) + 1
  <2>. SUFFICES ASSUME s > Len(dir) + 1 PROVE FALSE
    BY <1>1, <1>2
  <2>1. Len(dir) + 1 \in FreeSlots
    BY <1>1, <1>2 DEF FreeSlots, Live
  <2>. QED  BY <1>1, <1>2, <2>1
<1>. QED  BY <1>2, <1>3 DEF FreeSlots

LEMMA TextLength ==
  ASSUME NEW e, e.size \in 0 .. MaxLen, NEW table, NEW content
  PROVE  \E n \in 0 .. e.size : \E t \in Seq({TextIn(table, content, e)[i] : i \in 1 .. n}) :
           t = TextIn(table, content, e) /\ Len(t) = n
<1>. DEFINE nth == ChainIn(table, e.first)
            readable == {i \in 1 .. e.size :
                           \A k \in 0 .. (i - 1) \div ClusterSize : nth[k] \in Volume}
<1>1. IsFiniteSet(1 .. e.size) /\ Cardinality(1 .. e.size) = e.size
  <2>1. PICK z \in Nat : z = e.size
    BY ConstantFacts
  <2>2. IsFiniteSet(1 .. z) /\ Cardinality(1 .. z) = z
    BY FS_Interval
  <2>. QED  BY <2>1, <2>2
<1>2. PICK n : n = Cardinality(readable)
  OBVIOUS
<1>3. n \in 0 .. e.size
  <2>1. readable \subseteq 1 .. e.size
    OBVIOUS
  <2>2. IsFiniteSet(readable) /\ Cardinality(readable) <= Cardinality(1 .. e.size)
    BY <1>1, <2>1, FS_Subset
  <2>. QED  BY <1>1, <1>2, <2>2, FS_CardinalityType, ConstantFacts
<1>4. PICK t : t = TextIn(table, content, e)
  OBVIOUS
<1>5. t = [i \in 1 .. n |-> content[nth[(i - 1) \div ClusterSize]][((i - 1) % ClusterSize) + 1]]
  BY <1>2, <1>4 DEF TextIn
<1>6. t = [i \in 1 .. n |-> t[i]]
  BY <1>5
<1>7. t \in Seq({t[i] : i \in 1 .. n}) /\ Len(t) = n
  BY <1>3, <1>6
<1>. QED  BY <1>3, <1>4, <1>7

(* What fits in the buffer of cmd_cp and cmd_mv is no longer than a file.  *)
LEMMA CopyLength ==
  ASSUME NEW e \in Entries
  PROVE  Len(SubSeq(Text(e), 1, Least(CopyLimit, Len(Text(e))))) \in 0 .. MaxLen
<1>1. e.size \in 0 .. MaxLen
  BY DEF Entries
<1>2. PICK k \in 0 .. e.size : \E t \in Seq({TextIn(fat, data, e)[j] : j \in 1 .. k}) :
        t = TextIn(fat, data, e) /\ Len(t) = k
  BY <1>1, TextLength
<1>3. PICK t \in Seq({TextIn(fat, data, e)[j] : j \in 1 .. k}) : t = Text(e) /\ Len(t) = k
  BY <1>2 DEF Text
<1>4. PICK l \in 0 .. k : l = Least(CopyLimit, Len(t))
  BY <1>1, <1>3, FatAssumption DEF Least
<1>5. PICK s : s = SubSeq(t, 1, l)
  OBVIOUS
<1>6. Len(s) = l
  <2>1. k \in Nat /\ l \in Nat /\ l <= k
    BY <1>1, ConstantFacts
  <2>2. \A j \in 1 .. l : t[j] \in {TextIn(fat, data, e)[x] : x \in 1 .. k}
    BY <1>3, <2>1
  <2>. QED  BY <1>5, <2>1, <2>2, SubSeqProperties
<1>. QED  BY <1>1, <1>3, <1>4, <1>5, <1>6, ConstantFacts

-----------------------------------------------------------------------------
LEMMA DivFacts ==
  ASSUME NEW a \in Nat, NEW c \in Nat \ {0}
  PROVE  /\ a \div c \in Nat /\ a \div c <= a
         /\ c * (a \div c) <= a /\ a < c * (a \div c) + c /\ a % c = a - c * (a \div c)
OBVIOUS

LEMMA DivUnique ==
  ASSUME NEW a \in Nat, NEW c \in Nat \ {0}, NEW q \in Nat, c * q <= a, a < c * q + c
  PROVE  a \div c = q
OBVIOUS

LEMMA DivMonotone ==
  ASSUME NEW a \in Nat, NEW b \in Nat, NEW c \in Nat \ {0}, a <= b
  PROVE  a \div c <= b \div c
OBVIOUS

\* In the last cluster of s units, those before the end of it.
LEMMA DivTail ==
  ASSUME NEW a \in Nat, NEW s \in Nat, NEW c \in Nat \ {0}, a < s, s % c # 0,
         a \div c = (s - 1) \div c
  PROVE  (a % c) + 1 <= s % c
<1>1. PICK q \in Nat : q = s \div c
  BY DivFacts
<1>2. c * q <= s /\ s < c * q + c /\ s % c = s - c * q
  BY <1>1, DivFacts
<1>3. c * q <= s - 1 /\ s - 1 < c * q + c
  BY <1>2
<1>4. (s - 1) \div c = q
  BY <1>3, DivUnique
<1>5. a % c = a - c * q
  BY <1>4, DivFacts
<1>. QED  BY <1>2, <1>5

LEMMA ClusterCount ==
  ASSUME NEW s \in Nat
  PROVE  /\ ClustersFor(s) \in Nat /\ (s = 0 => ClustersFor(s) = 0)
         /\ s > 0 => ClustersFor(s) = ((s - 1) \div ClusterSize) + 1
<1>1. PICK c \in Nat \ {0} : c = ClusterSize
  BY ConstantFacts
<1>2. CASE s = 0
  <2>1. (s + c - 1) \div c = 0
    BY <1>2
  <2>. QED  BY <1>1, <1>2, <2>1 DEF ClustersFor
<1>3. CASE s > 0
  <2>1. PICK a \in Nat : a = s - 1
    BY <1>3
  <2>2. (a + 1 + c - 1) \div c = (a \div c) + 1 /\ a \div c \in Nat
    OBVIOUS
  <2>3. s + c - 1 = a + 1 + c - 1
    BY <2>1
  <2>. QED  BY <1>1, <1>3, <2>1, <2>2, <2>3 DEF ClustersFor
<1>. QED  BY <1>2, <1>3
-----------------------------------------------------------------------------
(***************************************************************************)
(* How calls start.                                                        *)
(***************************************************************************)
LEMMA BeginCreate ==
  ASSUME GrowInv, FreeSlots # {}, NEW r, r.kind # "mv",
         NEW o, Shaped(o), o.kind = "create", o.then = None, o.name \in Names, o.dir \in BOOLEAN,
         o.size \in 0 .. MaxLen, o.slot = Min(FreeSlots), o.first = 0, o.last = 0,
         NEW at \in {"alloc", "entry"}, Begin(r, o, at)
  PROVE  GrowInv'
<1>1. op' = o /\ pc' = at /\ req' = r /\ UNCHANGED <<fat, dir>>
  BY DEF Begin, disk
<1>2. Sound(fat)' /\ DirInv' /\ Live' = Live
  BY <1>1, SameEntries DEF GrowInv, DirInv
<1>3. o.slot \in 1 .. MaxSlots /\ o.slot <= Len(dir) + 1 /\ o.slot \notin Live
  BY SlotFacts DEF GrowInv, DirInv
<1>4. CallInv'
  BY <1>1, <1>2, <1>3 DEF CallInv
<1>5. BuiltInv'
  <2>1. \A i : 0 \notin OwnedIn(fat', dir'[i].first)
    BY ConstantFacts DEF OwnedIn
  <2>. QED  BY <1>1, <2>1 DEF BuiltInv
<1>6. FreshInv'
  BY <1>1 DEF FreshInv
<1>7. TailInv'
  BY <1>1 DEF TailInv
<1>. QED  BY <1>2, <1>4, <1>5, <1>6, <1>7 DEF GrowInv

(* The first entry of a name.                                              *)
LEMMA FirstMatch ==
  ASSUME dir \in Seq(Entries), NEW n, Matches(n) # {}
  PROVE  /\ Min(Matches(n)) \in Live /\ dir[Min(Matches(n))] \in Entries
         /\ dir[Min(Matches(n))].name = n
         /\ Min(Matches(n)) \in Matches(n) /\ \A j \in Matches(n) : Min(Matches(n)) <= j
<1>1. Matches(n) \subseteq Nat /\ Matches(n) \subseteq Live
  BY DEF Matches, Live
<1>2. PICK i \in Live : i = Min(Matches(n)) /\ i \in Matches(n)
           /\ \A j \in Matches(n) : i <= j
  BY <1>1, LeastNatural
<1>3. dir[i] \in Entries
  BY DEF Live
<1>. QED  BY <1>2, <1>3 DEF Matches

(* An append finds its file's last cluster.                                *)
LEMMA BeginAppend ==
  ASSUME GrowInv, NEW n \in Names, Matches(n) # {}, NEW r, r.kind # "mv",
         NEW t, dir[Min(Matches(n))].size + Len(t) \in 0 .. MaxLen,
         EnterAppend(r, n, t)
  PROVE  GrowInv'
<1>0. CASE Refuse
  BY <1>0, AnswerStep DEF Refuse, disk
<1>. PICK i \in Live : i = Min(Matches(n)) /\ i \in Matches(n)
          /\ \A j \in Matches(n) : i <= j
  <2>1. Matches(n) \subseteq Nat /\ Matches(n) \subseteq Live
    BY DEF Matches, Live, GrowInv, DirInv
  <2>. QED  BY <2>1, LeastNatural
<1>. PICK e \in Entries : e = dir[i]
  BY DEF GrowInv, DirInv, Live
<1>. PICK last : last = LastCluster(e)
  OBVIOUS
<1>. PICK o : o = [Changing("append", i, t, e.size + Len(t))
              EXCEPT !.first = e.first, !.last = last, !.need = ClustersFor(Len(t))]
  OBVIOUS
<1>1. CASE /\ ~(e.first # 0 /\ last \notin Clusters)
           /\ Begin(r, o, IF HasTail(e) THEN "fill" ELSE "alloc")
  <2>. PICK at \in {"fill", "alloc"} : at = IF HasTail(e) THEN "fill" ELSE "alloc"
    OBVIOUS
  <2>1. op' = o /\ pc' = at /\ req' = r /\ UNCHANGED <<fat, dir>>
    BY <1>1 DEF Begin, disk
  <2>2. Sound(fat)' /\ DirInv' /\ Live' = Live /\ Matches(n)' = Matches(n)
    BY <2>1, SameEntries DEF GrowInv, DirInv
  <2>3. /\ o.kind = "append" /\ o.then = None /\ o.name = n /\ o.dir \in BOOLEAN
        /\ o.size \in 0 .. MaxLen /\ o.slot = i /\ o.first = e.first /\ o.last = last
        /\ Shaped(o)
    BY DEF Changing, NoOp, Entries, Matches, Shaped
  <2>4. i \in 1 .. Len(dir) /\ Len(dir) \in Nat /\ Len(dir) <= MaxSlots /\ MaxSlots \in Nat
    BY ConstantFacts DEF Live, GrowInv, DirInv
  <2>5. CallInv'
    <3>1. i \in 1 .. MaxSlots /\ i <= Len(dir) + 1
      BY <2>4
    <3>. QED  BY <2>1, <2>2, <2>3, <3>1 DEF CallInv
  <2>. PICK at0 \in 0 .. MaxLen :
         /\ at0 = (IF e.size = 0 THEN 0 ELSE ClustersFor(e.size) - 1)
         /\ e.size > 0 => ClustersFor(e.size) = at0 + 1
         /\ e.size = 0 => ClustersFor(e.size) = 0
    <3>1. PICK s \in 0 .. MaxLen : s = e.size
      BY DEF Entries
    <3>2. s \in Nat /\ MaxLen \in Nat /\ ClusterSize \in Nat \ {0}
      BY ConstantFacts
    <3>3. CASE s = 0
      BY <3>1, <3>2, <3>3, ClusterCount
    <3>4. CASE s > 0
      <4>1. PICK q \in Nat : q = (s - 1) \div ClusterSize /\ q <= s - 1
        BY <3>2, <3>4, DivFacts
      <4>2. ClustersFor(s) = q + 1
        BY <3>2, <3>4, <4>1, ClusterCount
      <4>. QED  BY <3>1, <3>2, <3>4, <4>1, <4>2
    <3>. QED  BY <3>2, <3>3, <3>4
  <2>6. last = ChainIn(fat, e.first)[at0]
    BY DEF LastCluster, Chain
  <2>7. e.first = 0 \/ Heads(fat, e.first)
    BY DEF GrowInv, DirInv
  <2>8. last = 0 \/ (last \in OwnedIn(fat, e.first) /\ last \in Clusters)
    <3>1. CASE e.first = 0
      <4>1. 0 \in 0 .. MaxLen /\ 0 \notin Clusters
        BY ConstantFacts DEF FREE
      <4>2. ChainIn(fat, 0)[0] = 0
        BY ChainFacts
      <4>3. ChainIn(fat, 0)[at0] = 0
        BY <4>1, <4>2, ChainStops
      <4>. QED  BY <2>6, <3>1, <4>3
    <3>2. CASE e.first # 0
      <4>1. last \in Clusters
        BY <1>1, <3>2
      <4>. QED  BY <2>6, <4>1 DEF OwnedIn
    <3>. QED  BY <3>1, <3>2
  <2>9. BuiltInv'
    <3>1. \A j \in Live \ {i} : dir[j].first = e.first => e.first = 0
      BY DEF GrowInv, DirInv
    <3>2. last = 0 \/ (last \in Clusters /\ fat[last] # FREE)
      BY <2>7, <2>8, ChainUsed DEF GrowInv
    <3>3. ASSUME NEW j \in Live \ {i} PROVE last \notin OwnedIn(fat, dir[j].first)
      <4>1. CASE last = 0
        BY <4>1, ConstantFacts DEF OwnedIn
      <4>2. CASE last # 0
        <5>1. last \in Clusters
          BY <2>8, <4>2
        <5>2. dir[j].first = 0 \/ Heads(fat, dir[j].first)
          BY DEF GrowInv, DirInv
        <5>3. SUFFICES ASSUME NEW b \in 0 .. MaxLen, last = ChainIn(fat, dir[j].first)[b]
                       PROVE  FALSE
          BY DEF OwnedIn
        <5>4. dir[j].first = e.first
          <6>1. PICK c : c = e.first
            OBVIOUS
          <6>2. PICK d : d = dir[j].first
            OBVIOUS
          <6>3. (c = 0 \/ Heads(fat, c)) /\ (d = 0 \/ Heads(fat, d)) /\ Sound(fat)
            BY <2>7, <5>2, <6>1, <6>2 DEF GrowInv
          <6>4. ChainIn(fat, c)[at0] = ChainIn(fat, d)[b]
                /\ ChainIn(fat, c)[at0] \in Clusters
            BY <2>6, <5>1, <5>3, <6>1, <6>2
          <6>. QED  BY <6>1, <6>2, <6>3, <6>4, ChainsMeet
        <5>5. e.first = 0
          BY <3>1, <5>4
        <5>6. ChainIn(fat, 0)[at0] = 0
          <6>1. 0 \in 0 .. MaxLen /\ 0 \notin Clusters
            BY ConstantFacts DEF FREE
          <6>2. ChainIn(fat, 0)[0] = 0
            BY ChainFacts
          <6>. QED  BY <6>1, <6>2, ChainStops
        <5>. QED  BY <2>6, <4>2, <5>5, <5>6
      <4>. QED  BY <4>1, <4>2
    <3>4. Others' = Live \ {i}
      BY <2>1, <2>2, <2>3 DEF Others
    <3>5. op'.first = e.first /\ op'.last = last /\ fat' = fat /\ dir' = dir
      BY <2>1, <2>3
    <3>. QED  BY <2>7, <3>1, <3>2, <3>3, <3>4, <3>5 DEF BuiltInv
  <2>10. FreshInv'
    BY <2>1 DEF FreshInv
  <2>11. TailInv'
    <3>1. dir'[op'.slot] = e /\ op'.last = last /\ pc' \notin {"linkMirror", "data"}
      BY <2>1, <2>3
    <3>2. ASSUME NEW k \in 0 .. MaxLen, k + 1 < ClustersFor(e.size), last # 0
          PROVE  ChainIn(fat, e.first)[k] # last
      <4>1. e.size \in Nat /\ k < at0
        BY <3>2, ConstantFacts DEF Entries
      <4>. SUFFICES ASSUME ChainIn(fat, e.first)[k] = last PROVE FALSE
        OBVIOUS
      <4>2. PICK c : c = e.first
        OBVIOUS
      <4>3. (c = 0 \/ Heads(fat, c)) /\ Sound(fat)
        BY <2>7, <4>2 DEF GrowInv
      <4>4. ChainIn(fat, c)[k] = ChainIn(fat, c)[at0] /\ ChainIn(fat, c)[k] \in Clusters
        BY <2>6, <2>8, <3>2, <4>2
      <4>5. k = at0
        BY <4>3, <4>4, ChainsMeet
      <4>. QED  BY <4>1, <4>5
    <3>3. pc' = "fill" => /\ e.size = 0 \/ e.size % ClusterSize # 0
                          /\ last \in Clusters
      BY <1>1, <2>1 DEF HasTail
    <3>4. fat' = fat /\ dir'[op'.slot].size = e.size /\ dir'[op'.slot].first = e.first
      BY <2>1, <3>1
    <3>. QED  BY <3>1, <3>2, <3>3, <3>4 DEF TailInv, Chain
  <2>. QED  BY <2>2, <2>5, <2>9, <2>10, <2>11 DEF GrowInv
<1>. QED  BY <1>0, <1>1 DEF EnterAppend

-----------------------------------------------------------------------------
(***************************************************************************)
(* How calls go on.  op's other fields play no part.                       *)
(***************************************************************************)
Same(o) == /\ Shaped(o) /\ o.kind = op.kind /\ o.name = op.name /\ o.then = op.then
           /\ o.dir = op.dir /\ o.slot = op.slot /\ o.size = op.size

LEMMA OthersSame ==
  ASSUME UNCHANGED dir, Same(op')
  PROVE  Live' = Live /\ Others' = Others /\ \A n : Matches(n)' = Matches(n)
<1>1. Live' = Live /\ op'.slot = op.slot
  BY SameEntries DEF Same
<1>. QED  BY <1>1, SameEntries DEF Others

LEMMA CallKept ==
  ASSUME GrowInv, pc # "idle", UNCHANGED <<dir, req>>, Same(op'),
         pc' \in {"alloc", "allocMirror", "link", "linkMirror", "data", "fill", "entry"}
  PROVE  CallInv'
<1>1. Live' = Live
  BY OthersSame
<1>2. CallInv
  BY DEF GrowInv
<1>. QED  BY <1>1, <1>2 DEF CallInv, Same, Matches

(* Nothing but what the next write is changes.                             *)
LEMMA QuietStep ==
  ASSUME GrowInv, pc # "idle", UNCHANGED <<fat, dir, req>>, Same(op'),
         op'.first \in {op.first, 0}, op'.last = op.last,
         \/ pc' \in {"alloc", "entry"}
         \/ pc = "allocMirror" /\ pc' = "link" /\ op' = op
         \/ pc = "linkMirror" /\ pc' = "data" /\ op'.cl = op.cl
  PROVE  GrowInv'
<1>1. Live' = Live /\ Others' = Others
  BY OthersSame
<1>2. Sound(fat)' /\ DirInv'
  BY <1>1 DEF GrowInv, DirInv
<1>3. CallInv'
  BY CallKept
<1>4. BuiltInv'
  BY <1>1 DEF GrowInv, BuiltInv
<1>5. FreshInv'
  BY <1>1 DEF GrowInv, FreshInv
<1>6. TailInv'
  BY DEF GrowInv, TailInv, Same, Chain
<1>. QED  BY <1>2, <1>3, <1>4, <1>5, <1>6 DEF GrowInv

(* A fresh cluster is in no file's chain.                                  *)
LEMMA FreshFacts ==
  ASSUME GrowInv, pc = "link"
  PROVE  \A i \in Live : op.cl \notin OwnedIn(fat, dir[i].first)
<1>1. Unpointed(fat, op.cl) /\ \A i \in Live : dir[i].first # op.cl
  BY DEF GrowInv, FreshInv
<1>. QED  BY <1>1, OnlyHead

(* The clusters that the size of a file accounts for.                      *)
LEMMA SizeCount ==
  ASSUME NEW s \in 0 .. MaxLen
  PROVE  ClustersFor(s) \in 0 .. MaxLen
<1>1. s \in Nat /\ MaxLen \in Nat /\ ClusterSize \in Nat \ {0}
  BY ConstantFacts
<1>2. CASE s = 0
  BY <1>1, <1>2, ClusterCount
<1>3. CASE s > 0
  <2>0. s - 1 \in Nat
    BY <1>1, <1>3
  <2>1. PICK q \in Nat : q = (s - 1) \div ClusterSize /\ q <= s - 1
    BY <1>1, <2>0, DivFacts
  <2>2. ClustersFor(s) = q + 1
    BY <1>1, <1>3, <2>1, ClusterCount
  <2>. QED  BY <1>1, <2>1, <2>2
<1>. QED  BY <1>1, <1>2, <1>3

LEMMA FullFacts ==
  ASSUME DirInv, NEW i \in Live
  PROVE  ClustersFor(dir[i].size) \in 0 .. MaxLen
<1>1. dir[i] \in Entries
  BY DEF DirInv, Live
<1>. QED  BY <1>1, SizeCount DEF Entries

(* The fresh cluster becomes the last, linked or not.                      *)
LEMMA LinkedFacts ==
  ASSUME GrowInv, pc \in {"link", "linkMirror"}, Linked
  PROVE  /\ Same(op') /\ op'.last = op.cl /\ op'.cl = op.cl
         /\ op'.first = IF op.last = 0 THEN op.cl ELSE op.first
BY DEF GrowInv, CallInv, Shaped, Linked, Same

LEMMA LinkedStep ==
  ASSUME GrowInv, pc = "link", Linked, pc' = "data", UNCHANGED <<fat, dir, req>>
  PROVE  GrowInv'
<1>0. /\ Same(op') /\ op'.last = op.cl /\ op'.cl = op.cl
      /\ op'.first = IF op.last = 0 THEN op.cl ELSE op.first
  BY LinkedFacts
<1>1. Live' = Live /\ Others' = Others /\ Others \subseteq Live
  BY <1>0, OthersSame DEF Others
<1>2. Sound(fat)' /\ DirInv'
  BY <1>1 DEF GrowInv, DirInv
<1>3. CallInv'
  BY <1>0, CallKept
<1>4. BuiltInv'
  <2>1. op.cl \in Clusters /\ fat[op.cl] # FREE /\ Heads(fat, op.cl)
    BY ConstantFacts DEF GrowInv, FreshInv, Heads
  <2>2. \A i \in Live : op.cl \notin OwnedIn(fat, dir[i].first) /\ dir[i].first # op.cl
    BY FreshFacts DEF GrowInv, FreshInv
  <2>. QED  BY <1>0, <1>1, <2>1, <2>2 DEF GrowInv, BuiltInv
<1>5. FreshInv'
  BY <1>0 DEF GrowInv, FreshInv
<1>6. TailInv'
  <2>. SUFFICES ASSUME op.kind = "append" PROVE TailInv'
    BY <1>0 DEF TailInv, Same
  <2>1. op.slot \in Live /\ op'.slot = op.slot
    BY <1>0 DEF GrowInv, CallInv, Same
  <2>2. \A k \in 0 .. MaxLen : ChainIn(fat, dir[op.slot].first)[k] # op.cl
    BY <2>1, FreshFacts DEF OwnedIn, GrowInv, FreshInv
  <2>. QED  BY <1>0, <2>1, <2>2 DEF TailInv, Chain
<1>. QED  BY <1>2, <1>3, <1>4, <1>5, <1>6 DEF GrowInv

LEMMA LinkFatStep ==
  ASSUME GrowInv, pc = "link", op.last # 0, SetFat(op.last, op.cl), Linked,
         pc' = "linkMirror", UNCHANGED req
  PROVE  GrowInv'
<1>0. /\ Same(op') /\ op'.last = op.cl /\ op'.cl = op.cl /\ op'.first = op.first
      /\ UNCHANGED dir
  BY LinkedFacts DEF SetFat
<1>1. Live' = Live /\ Others' = Others /\ Others \subseteq Live
  BY <1>0, OthersSame DEF Others
<1>. PICK cl \in Clusters : cl = op.cl
  BY DEF GrowInv, FreshInv
<1>. PICK last \in Clusters : last = op.last
  BY DEF GrowInv, BuiltInv
<1>2. /\ fat \in [Clusters -> Clusters \cup {FREE, EOC}] /\ fat' = [fat EXCEPT ![last] = cl]
      /\ fat[cl] = EOC /\ EOC # FREE /\ Unpointed(fat, cl) /\ cl # last /\ FREE \notin Clusters
      /\ fat[last] # FREE
  BY ConstantFacts DEF GrowInv, Sound, FreshInv, SetFat, BuiltInv
<1>3. Sound(fat')
  BY <1>2 DEF GrowInv, Sound, Unpointed
<1>4. ASSUME NEW x, Heads(fat, x), x # cl PROVE Heads(fat', x)
  BY <1>2, <1>4 DEF Heads, Unpointed
<1>5. DirInv'
  BY <1>0, <1>1, <1>4 DEF GrowInv, DirInv, FreshInv
<1>6. CallInv'
  BY <1>0, CallKept
<1>7. ASSUME NEW i \in Others
      PROVE  OwnedIn(fat', dir[i].first) = OwnedIn(fat, dir[i].first)
  <2>1. last \notin OwnedIn(fat, dir[i].first)
    BY DEF GrowInv, BuiltInv
  <2>2. \A x \in OwnedIn(fat, dir[i].first) : fat'[x] = fat[x]
    BY <1>2, <2>1 DEF OwnedIn
  <2>. QED  BY <2>2, ChainUntouched
<1>8. BuiltInv'
  <2>1. op.first = 0 \/ Heads(fat', op.first)
    BY <1>4 DEF GrowInv, BuiltInv, FreshInv
  <2>2. \A i \in Others : cl \notin OwnedIn(fat', dir[i].first)
    BY <1>1, <1>7, FreshFacts
  <2>3. fat'[cl] # FREE
    BY <1>2
  <2>. QED  BY <1>0, <1>1, <2>1, <2>2, <2>3 DEF GrowInv, BuiltInv
<1>9. FreshInv'
  BY <1>0 DEF FreshInv
<1>10. TailInv'
  <2>. SUFFICES ASSUME op.kind = "append" PROVE TailInv'
    BY <1>0 DEF TailInv, Same
  <2>1. op.slot \in Live /\ op'.slot = op.slot
    BY <1>0 DEF GrowInv, CallInv, Same
  <2>. PICK c : c = dir[op.slot].first
    OBVIOUS
  <2>. PICK full \in 0 .. MaxLen : full = ClustersFor(dir[op.slot].size)
    BY <2>1, FullFacts DEF GrowInv
  <2>2. \A k \in 0 .. MaxLen : k + 1 < full => ChainIn(fat, c)[k] # last
    BY ConstantFacts DEF GrowInv, TailInv, Chain
  <2>3. \A k \in 0 .. MaxLen : ChainIn(fat, c)[k] # cl
    BY <2>1, FreshFacts DEF OwnedIn
  <2>4. \A k \in 0 .. MaxLen : k < full => ChainIn(fat', c)[k] # cl
    <3>1. CASE full = 0
      BY <3>1
    <3>2. CASE full # 0
      <4>1. PICK m \in 0 .. MaxLen : m = full - 1
        BY <3>2, ConstantFacts
      <4>2. \A k \in 0 .. m - 1 : ChainIn(fat, c)[k] \in Clusters =>
              fat'[ChainIn(fat, c)[k]] = fat[ChainIn(fat, c)[k]]
        <5>1. ASSUME NEW k \in 0 .. m - 1 PROVE ChainIn(fat, c)[k] # last
          <6>1. k \in 0 .. MaxLen /\ k + 1 < full
            BY <4>1, ConstantFacts
          <6>. QED  BY <2>2, <6>1
        <5>. QED  BY <1>2, <5>1
      <4>3. \A k \in 0 .. m : ChainIn(fat', c)[k] = ChainIn(fat, c)[k]
        BY <4>2, ChainKept
      <4>. QED  BY <2>3, <4>1, <4>3, ConstantFacts
    <3>. QED  BY <3>1, <3>2
  <2>5. full \in Nat
    BY ConstantFacts
  <2>. QED  BY <1>0, <2>1, <2>4, <2>5 DEF TailInv, Chain
<1>. QED  BY <1>3, <1>5, <1>6, <1>8, <1>9, <1>10 DEF GrowInv

(* A free cluster is in no chain at all.                                   *)
LEMMA FreeFacts ==
  ASSUME NEW table, Sound(table), NEW c \in Clusters, table[c] = FREE
  PROVE  /\ Unpointed(table, c)
         /\ \A x : x = 0 \/ Heads(table, x) => x # c /\ c \notin OwnedIn(table, x)
<1>1. Unpointed(table, c)
  BY DEF Sound, Unpointed
<1>2. \A x : x = 0 \/ Heads(table, x) => c \notin OwnedIn(table, x)
  BY ChainUsed
<1>. QED  BY <1>1, <1>2, ConstantFacts DEF Heads

LEMMA AllocStep ==
  ASSUME GrowInv, Alloc
  PROVE  GrowInv'
<1>. PICK c \in Clusters : fat[c] = FREE /\ SetFat(c, EOC) /\ op' = [op EXCEPT !.cl = c]
  BY DEF Alloc, Allocatable, EndMark
<1>0. pc = "alloc" /\ pc' = "allocMirror" /\ UNCHANGED <<dir, req>>
  BY DEF Alloc, SetFat, history
<1>1. Same(op') /\ op'.first = op.first /\ op'.last = op.last /\ op'.cl = c
  BY DEF GrowInv, CallInv, Shaped, Same
<1>2. Live' = Live /\ Others' = Others /\ Others \subseteq Live
  BY <1>0, <1>1, OthersSame DEF Others
<1>3. /\ fat \in [Clusters -> Clusters \cup {FREE, EOC}] /\ fat' = [fat EXCEPT ![c] = EOC]
      /\ FREE \notin Clusters /\ EOC \notin Clusters /\ EOC # FREE
      /\ Unpointed(fat, c)
      /\ \A x : x = 0 \/ Heads(fat, x) => x # c /\ c \notin OwnedIn(fat, x)
  BY ConstantFacts, FreeFacts DEF GrowInv, Sound, SetFat
<1>4. Sound(fat')
  BY <1>3 DEF GrowInv, Sound
<1>5. \A x : Heads(fat, x) => Heads(fat', x)
  BY <1>3 DEF Heads, Unpointed
<1>6. ASSUME NEW x, x = 0 \/ Heads(fat, x)
      PROVE  ChainIn(fat', x) = ChainIn(fat, x) /\ OwnedIn(fat', x) = OwnedIn(fat, x)
  <2>1. \A y \in OwnedIn(fat, x) : fat'[y] = fat[y]
    BY <1>3, <1>6 DEF OwnedIn
  <2>. QED  BY <2>1, ChainUntouched
<1>7. DirInv'
  BY <1>0, <1>2, <1>5 DEF GrowInv, DirInv
<1>8. CallInv'
  BY <1>0, <1>1, CallKept
<1>9. \A i \in Live : dir[i].first = 0 \/ Heads(fat, dir[i].first)
  BY DEF GrowInv, DirInv
<1>10. BuiltInv'
  <2>1. \A i \in Others : OwnedIn(fat', dir[i].first) = OwnedIn(fat, dir[i].first)
    BY <1>2, <1>6, <1>9
  <2>. QED  BY <1>0, <1>1, <1>2, <1>3, <1>5, <2>1 DEF GrowInv, BuiltInv
<1>11. FreshInv'
  <2>1. fat'[c] = EOC /\ Unpointed(fat', c)
    BY <1>3 DEF Unpointed
  <2>2. c # op.first /\ c # op.last
    BY <1>3 DEF GrowInv, BuiltInv
  <2>3. \A i \in Live : dir[i].first # c
    BY <1>3, <1>9
  <2>. QED  BY <1>0, <1>1, <1>2, <2>1, <2>2, <2>3 DEF FreshInv
<1>12. TailInv'
  <2>. SUFFICES ASSUME op.kind = "append" PROVE TailInv'
    BY <1>1 DEF TailInv, Same
  <2>1. op.slot \in Live /\ op'.slot = op.slot
    BY <1>0, <1>1 DEF GrowInv, CallInv, Same
  <2>2. ChainIn(fat', dir[op.slot].first) = ChainIn(fat, dir[op.slot].first)
    BY <1>6, <1>9, <2>1
  <2>. QED  BY <1>0, <1>1, <2>1, <2>2 DEF GrowInv, TailInv, Chain
<1>. QED  BY <1>4, <1>7, <1>8, <1>10, <1>11, <1>12 DEF GrowInv

(* The entry that a call writes in the end.                                *)
LEMMA EntryFacts ==
  ASSUME GrowInv, pc = "entry", WriteEntry
  PROVE  /\ Live' = Live \cup {op.slot} /\ dir' \in Seq(Entries) /\ Len(dir') <= MaxSlots
         /\ dir'[op.slot] = Entry(op.name, op.dir, op.first, op.size)
         /\ \A i \in Live \ {op.slot} : dir'[i] = dir[i]
         /\ UNCHANGED <<fat, fat2, data>> /\ \E b : Answer(b)
<1>1. /\ dir \in Seq(Entries) /\ Len(dir) \in Nat /\ Len(dir) <= MaxSlots
      /\ op.slot \in 1 .. MaxSlots /\ op.slot <= Len(dir) + 1 /\ MaxSlots \in Nat
  BY ConstantFacts DEF GrowInv, DirInv, CallInv
<1>2. op.kind # "delete" /\ op.name \in Names /\ op.then = None
  BY DEF GrowInv, CallInv
<1>. PICK e : e = Entry(op.name, op.dir, op.first, op.size)
  OBVIOUS
<1>3. NewEntry = e
  BY <1>2 DEF NewEntry
<1>4. e \in Entries /\ e # FreeEntry
  <2>1. /\ op.name \in Names /\ op.dir \in BOOLEAN /\ op.size \in 0 .. MaxLen
        /\ op.first \in Clusters \cup {0}
    BY DEF GrowInv, CallInv, BuiltInv, Heads
  <2>2. e \in Entries
    BY <2>1 DEF Entry, Entries
  <2>3. e.name # None /\ FreeEntry.name = None
    BY <2>1, FatAssumption DEF Entry, FreeEntry
  <2>. QED  BY <2>2, <2>3
<1>5. CASE op.slot <= Len(dir)
  <2>1. dir' = [dir EXCEPT ![op.slot] = e]
    BY <1>3, <1>5 DEF WriteEntry
  <2>2. /\ dir' \in Seq(Entries) /\ Len(dir') = Len(dir) /\ dir'[op.slot] = e
        /\ \A i \in (1 .. Len(dir)) \ {op.slot} : dir'[i] = dir[i]
    BY <1>1, <1>4, <1>5, <2>1
  <2>3. Live' = Live \cup {op.slot}
    BY <1>1, <1>4, <1>5, <2>2 DEF Live
  <2>. QED  BY <1>1, <1>2, <2>2, <2>3 DEF WriteEntry, Return, Live
<1>6. CASE op.slot = Len(dir) + 1
  <2>1. dir' = Append(dir, e)
    BY <1>1, <1>3, <1>6 DEF WriteEntry
  <2>2. /\ dir' \in Seq(Entries) /\ Len(dir') = Len(dir) + 1 /\ dir'[op.slot] = e
        /\ \A i \in 1 .. Len(dir) : dir'[i] = dir[i]
    BY <1>1, <1>4, <1>6, <2>1, AppendProperties
  <2>3. Live' = Live \cup {op.slot}
    BY <1>1, <1>4, <1>6, <2>2 DEF Live
  <2>. QED  BY <1>1, <1>2, <1>6, <2>2, <2>3 DEF WriteEntry, Return, Live
<1>. QED  BY <1>1, <1>5, <1>6

LEMMA WriteEntryStep ==
  ASSUME GrowInv, pc = "entry", WriteEntry
  PROVE  GrowInv'
<1>0. /\ Live' = Live \cup {op.slot} /\ dir' \in Seq(Entries) /\ Len(dir') <= MaxSlots
      /\ dir'[op.slot].first = op.first
      /\ \A i \in Live \ {op.slot} : dir'[i] = dir[i]
      /\ UNCHANGED fat
  BY EntryFacts DEF Entry
<1>1. op' = NoOp /\ pc' = "idle" /\ req' = <<>>
  BY EntryFacts DEF Answer
<1>2. Sound(fat)'
  BY <1>0 DEF GrowInv
<1>3. DirInv'
  <2>1. op.first = 0 \/ Heads(fat, op.first)
    BY DEF GrowInv, BuiltInv
  <2>2. \A i \in Live \ {op.slot} : dir[i].first = op.first => op.first = 0
    BY DEF GrowInv, BuiltInv, Others
  <2>3. /\ \A i \in Live : dir[i].first = 0 \/ Heads(fat, dir[i].first)
        /\ \A i, j \in Live : i # j /\ dir[i].first = dir[j].first => dir[i].first = 0
    BY DEF GrowInv, DirInv
  <2>4. \A i \in Live' : i = op.slot \/ i \in Live \ {op.slot}
    BY <1>0
  <2>5. \A i \in Live' : dir'[i].first = 0 \/ Heads(fat', dir'[i].first)
    BY <1>0, <2>1, <2>3, <2>4
  <2>6. ASSUME NEW i \in Live', NEW j \in Live', i # j, dir'[i].first = dir'[j].first
        PROVE  dir'[i].first = 0
    BY <1>0, <2>2, <2>3, <2>4, <2>6
  <2>. QED  BY <1>0, <2>5, <2>6 DEF DirInv
<1>4. CallInv'
  BY <1>1, NoOpFacts DEF CallInv
<1>5. BuiltInv'
  <2>1. \A i : 0 \notin OwnedIn(fat', dir'[i].first)
    BY ConstantFacts DEF OwnedIn
  <2>. QED  BY <1>1, <2>1, NoOpFacts DEF BuiltInv
<1>6. FreshInv'
  BY <1>1 DEF FreshInv
<1>7. TailInv'
  BY <1>1, NoOpFacts DEF TailInv, None
<1>. QED  BY <1>2, <1>3, <1>4, <1>5, <1>6, <1>7 DEF GrowInv

(* All writes of a call.                                                   *)
LEMMA ProgressStep ==
  ASSUME GrowInv, Progress
  PROVE  GrowInv'
<1>. CallInv /\ op.kind \in {None, "create", "append"} /\ op.kind # "delete"
  BY NoOpFacts DEF GrowInv, CallInv, None
<1>1. CASE FreeDone \/ FreeCluster \/ FreeMirror
  BY <1>1 DEF FreeDone, FreeCluster, FreeMirror, CallInv
<1>2. CASE Alloc
  BY <1>2, AllocStep
<1>3. CASE AllocFails
  <2>1. CASE Return(FALSE)
    BY <1>3, <2>1, AnswerStep DEF AllocFails, Return, disk
  <2>2. CASE op' = [op EXCEPT !.need = 0, !.first = 0] /\ pc' = "alloc" /\ UNCHANGED history
    <3>1. Same(op') /\ op'.first = 0 /\ op'.last = op.last
      BY <2>2 DEF CallInv, Shaped, Same
    <3>. QED  BY <1>3, <2>2, <3>1, QuietStep DEF AllocFails, disk, history
  <2>. QED  BY <1>3, <2>1, <2>2 DEF AllocFails
<1>4. CASE AllocMirror \/ AllDone
  <2>1. Same(op') /\ op' = op /\ UNCHANGED <<fat, dir, req>>
    BY <1>4 DEF AllocMirror, AllDone, Mirror, disk, history, CallInv, Same
  <2>. QED  BY <1>4, <2>1, QuietStep DEF AllocMirror, AllDone
<1>5. CASE Link
  <2>1. CASE Return(FALSE) /\ UNCHANGED disk
    BY <2>1, AnswerStep DEF Return, disk
  <2>2. CASE op.last # 0 /\ SetFat(op.last, op.cl) /\ Linked /\ pc' = "linkMirror"
        /\ UNCHANGED history
    BY <1>5, <2>2, LinkFatStep DEF Link, history
  <2>3. CASE Linked /\ pc' = "data" /\ UNCHANGED <<disk, history>>
    BY <1>5, <2>3, LinkedStep DEF Link, disk, history
  <2>. QED  BY <1>5, <2>1, <2>2, <2>3 DEF Link, IgnoreOrFail
<1>6. CASE LinkMirror
  <2>1. CASE Return(FALSE) /\ UNCHANGED disk
    BY <2>1, AnswerStep DEF Return, disk
  <2>2. CASE Mirror /\ pc' = "data" /\ UNCHANGED <<op, history>>
    <3>1. Same(op') /\ UNCHANGED <<fat, dir, req>>
      BY <2>2 DEF Mirror, history, CallInv, Same
    <3>. QED  BY <1>6, <2>2, <3>1, QuietStep DEF LinkMirror
  <2>3. CASE Linked /\ pc' = "data" /\ UNCHANGED <<disk, history>>
    <3>1. /\ Same(op') /\ op'.last = op.cl /\ op'.cl = op.cl
          /\ op'.first = IF op.last = 0 THEN op.cl ELSE op.first
      BY <1>6, <2>3, LinkedFacts DEF LinkMirror
    <3>2. op.cl = op.last /\ op.last # 0
      BY <1>6, ConstantFacts DEF LinkMirror, GrowInv, FreshInv
    <3>. QED  BY <1>6, <2>3, <3>1, <3>2, QuietStep DEF LinkMirror, disk, history
  <2>. QED  BY <1>6, <2>1, <2>2, <2>3 DEF LinkMirror, IgnoreOrFail
<1>7. CASE Data
  <2>1. CASE Return(FALSE) /\ UNCHANGED disk
    BY <2>1, AnswerStep DEF Return, disk
  <2>2. CASE Written /\ pc' = "alloc" /\ UNCHANGED <<fat, dir, history>>
    <3>1. Same(op') /\ op'.first = op.first /\ op'.last = op.last
      BY <2>2 DEF Written, CallInv, Shaped, Same
    <3>. QED  BY <1>7, <2>2, <3>1, QuietStep DEF Data, history
  <2>. QED  BY <1>7, <2>1, <2>2 DEF Data, disk
<1>8. CASE Fill
  <2>1. CASE Return(FALSE) /\ UNCHANGED disk
    BY <2>1, AnswerStep DEF Return, disk
  <2>2. CASE ~(Return(FALSE) /\ UNCHANGED disk)
    <3>1. \E n : op' = [op EXCEPT !.rest = Drop(@, n), !.need = ClustersFor(Len(op.rest) - n)]
      BY <1>8, <2>2 DEF Fill
    <3>2. pc = "fill" /\ pc' = "alloc" /\ UNCHANGED <<fat, dir, req>>
      BY <1>8, <2>2 DEF Fill, history
    <3>3. Same(op') /\ op'.first = op.first /\ op'.last = op.last
      BY <3>1 DEF CallInv, Shaped, Same
    <3>. QED  BY <3>2, <3>3, QuietStep
  <2>. QED  BY <2>1, <2>2
<1>9. CASE WriteEntry
  BY <1>9, WriteEntryStep DEF WriteEntry
<1>10. CASE EntryFails
  <2>1. \E b : Answer(b)
    BY <1>10 DEF EntryFails, Return
  <2>. QED  BY <1>10, <2>1, AnswerStep DEF EntryFails, disk
<1>. QED  BY <1>1, <1>2, <1>3, <1>4, <1>5, <1>6, <1>7, <1>8, <1>9, <1>10 DEF Progress

(* A new file, or a copy.                                                  *)
LEMMA EnterCreateStep ==
  ASSUME GrowInv, NEW r, r.kind # "mv", NEW n \in Names, NEW t, Len(t) \in 0 .. MaxLen,
         EnterCreate(r, n, t, None)
  PROVE  GrowInv'
<1>1. CASE Refuse
  BY <1>1, AnswerStep DEF Refuse, disk
<1>2. CASE FreeSlots # {} /\ Begin(r, Creating(n, t, None), "alloc")
  <2>1. PICK o : o = Creating(n, t, None)
    OBVIOUS
  <2>2. /\ Shaped(o) /\ o.kind = "create" /\ o.then = None /\ o.name \in Names
        /\ o.dir \in BOOLEAN /\ o.slot = Min(FreeSlots) /\ o.first = 0 /\ o.last = 0
        /\ o.size = Len(t)
    BY <2>1 DEF Creating, NoOp, Shaped
  <2>. QED  BY <1>2, <2>1, <2>2, BeginCreate
<1>. QED  BY <1>1, <1>2 DEF EnterCreate

LEMMA GrowNext ==
  ASSUME Kinds \subseteq Growing, GrowInv, Next
  PROVE  GrowInv'
<1>1. CASE Progress
  BY <1>1, ProgressStep
<1>2. CASE PowerFails
  BY <1>2, AnswerStep DEF PowerFails, disk
<1>3. ASSUME NEW n \in Names, NEW t \in Texts, Create(n, t) PROVE GrowInv'
  <2>1. EnterCreate(Request("create", n, t, None), n, t, None) /\ Len(t) \in 0 .. MaxLen
    BY <1>3, FatAssumption DEF Create
  <2>2. Request("create", n, t, None).kind # "mv"
    BY DEF Request
  <2>. QED  BY <2>1, <2>2, EnterCreateStep
<1>4. ASSUME NEW n \in Names, NEW t \in Texts, AppendTo(n, t) PROVE GrowInv'
  <2>0. Request("append", n, t, None).kind # "mv"
    BY DEF Request
  <2>1. PICK r : r = Request("append", n, t, None) /\ r.kind # "mv"
    BY <2>0
  <2>2. CASE Matches(n) # {} /\ EnterAppend(r, n, t)
    <3>1. \A i \in Matches(n) : dir[i].size + Len(t) <= MaxLen
      BY <1>4 DEF AppendTo
    <3>2. Min(Matches(n)) \in Matches(n) /\ Matches(n) \subseteq Live
      <4>1. Matches(n) \subseteq Nat /\ Matches(n) \subseteq Live
        BY DEF Matches, Live, GrowInv, DirInv
      <4>. QED  BY <2>2, <4>1, LeastNatural
    <3>3. \A i \in Live : dir[i] \in Entries
      BY DEF GrowInv, DirInv, Live
    <3>4. \A i \in Live : dir[i].size \in Nat
      BY <3>3, ConstantFacts DEF Entries
    <3>5. Len(t) \in Nat /\ MaxLen \in Nat
      BY FatAssumption, ConstantFacts
    <3>6. dir[Min(Matches(n))].size + Len(t) \in 0 .. MaxLen
      <4>1. PICK i : i = Min(Matches(n)) /\ i \in Live /\ i \in Matches(n)
        BY <3>2
      <4>. QED  BY <3>1, <3>4, <3>5, <4>1
    <3>. QED  BY <2>1, <2>2, <3>6, BeginAppend
  <2>3. CASE EnterCreate(r, n, t, None)
    BY <2>1, <2>3, EnterCreateStep, FatAssumption
  <2>. QED  BY <1>4, <2>1, <2>2, <2>3 DEF AppendTo, Lookup
<1>5. ASSUME NEW n \in Names, Mkdir(n) PROVE GrowInv'
  <2>1. CASE Refuse
    BY <2>1, AnswerStep DEF Refuse, disk
  <2>0. Request("mkdir", n, <<>>, None).kind # "mv"
    BY DEF Request
  <2>2. PICK r : r = Request("mkdir", n, <<>>, None) /\ r.kind # "mv"
    BY <2>0
  <2>3. PICK o : o = [NoOp EXCEPT !.kind = "create", !.name = n, !.dir = TRUE,
                                 !.slot = Min(FreeSlots)]
    OBVIOUS
  <2>4. CASE FreeSlots # {} /\ Begin(r, o, "entry")
    <3>1. /\ Shaped(o) /\ o.kind = "create" /\ o.then = None /\ o.name \in Names
          /\ o.dir \in BOOLEAN /\ o.slot = Min(FreeSlots) /\ o.first = 0 /\ o.last = 0
      BY <2>3 DEF NoOp, Shaped
    <3>2. o.size = 0 /\ 0 \in 0 .. MaxLen
      BY <2>3, ConstantFacts DEF NoOp
    <3>. QED  BY <2>2, <2>4, <3>1, <3>2, BeginCreate
  <2>. QED  BY <1>5, <2>1, <2>2, <2>3, <2>4 DEF Mkdir
<1>6. ASSUME NEW n \in Names, NEW m \in Names, Copy("cp", n, m) PROVE GrowInv'
  <2>0. Request("cp", n, <<>>, m).kind # "mv"
    BY DEF Request
  <2>1. PICK r : r = Request("cp", n, <<>>, m) /\ r.kind # "mv"
    BY <2>0
  <2>2. PICK i \in Matches(n) :
          EnterCreate(r, m, SubSeq(Text(dir[i]), 1, Least(CopyLimit, Len(Text(dir[i])))), None)
    BY <1>6, <2>1 DEF Copy
  <2>3. dir[i] \in Entries
    BY DEF Matches, Live, GrowInv, DirInv
  <2>4. PICK s : s = SubSeq(Text(dir[i]), 1, Least(CopyLimit, Len(Text(dir[i]))))
    OBVIOUS
  <2>5. Len(s) \in 0 .. MaxLen
    BY <2>3, <2>4, CopyLength
  <2>6. EnterCreate(r, m, s, None)
    BY <2>2, <2>4
  <2>. QED  BY <2>1, <2>5, <2>6, EnterCreateStep
<1>7. ASSUME NEW n, NEW t, Write(n, t) PROVE FALSE
  BY <1>7 DEF Write, Make, Growing
<1>8. ASSUME NEW n, Delete(n) PROVE FALSE
  BY <1>8 DEF Delete, Make, Growing
<1>9. ASSUME NEW n, NEW m, Copy("mv", n, m) PROVE FALSE
  BY <1>9 DEF Copy, Make, Growing
<1>. QED  BY <1>1, <1>2, <1>3, <1>4, <1>5, <1>6, <1>7, <1>8, <1>9 DEF Next

LEMMA GrowStep ==
  ASSUME Kinds \subseteq Growing, GrowInv, [Next]_vars
  PROVE  GrowInv'
<1>1. CASE UNCHANGED vars
  <2>1. UNCHANGED <<fat, dir, op, pc, req>>
    BY <1>1 DEF vars, disk, history
  <2>. QED  BY <2>1, SameEntries DEF GrowInv, DirInv, CallInv, BuiltInv, FreshInv, TailInv,
               Others, Matches, Chain
<1>. QED  BY <1>1, GrowNext

(* Whatever touch, write, mkdir and cp do, and wherever they are cut off,  *)
(* what has been built is sound.                                           *)
THEOREM Fat32Always == ASSUME Kinds \subseteq Growing PROVE Spec => []GrowInv
<1>1. GrowInv /\ [Next]_vars => GrowInv'
  BY GrowStep
<1>. QED  BY <1>1, GrowInit, PTL DEF Spec
-----------------------------------------------------------------------------
LEMMA OwnedFacts == \A e : Owned(e) = OwnedIn(fat, e.first)
BY ChainFacts DEF Owned, OwnedIn, Chain

(* Files that start at different clusters, which nothing points at, share  *)
(* no cluster, and no chain runs into itself.                              *)
LEMMA FilesApart ==
  ASSUME Sound(fat), NEW files,
         \A i \in files : dir[i].first = 0 \/ Heads(fat, dir[i].first),
         \A i, j \in files : i # j /\ dir[i].first = dir[j].first => dir[i].first = 0
  PROVE  \A i \in files :
           /\ \A c \in Owned(dir[i]) : fat[c] # FREE
           /\ \A c, d \in Owned(dir[i]) : fat[c] = fat[d] => c = d
           /\ \A j \in files \ {i} : Owned(dir[i]) \cap Owned(dir[j]) = {}
<1>1. ASSUME NEW i \in files, NEW c \in Owned(dir[i]) PROVE fat[c] # FREE
  BY ChainUsed, OwnedFacts
<1>2. ASSUME NEW i \in files, NEW c \in Owned(dir[i]), NEW d \in Owned(dir[i]),
             fat[c] = fat[d]
      PROVE  c = d
  <2>1. PICK x : x = dir[i].first
    OBVIOUS
  <2>2. PICK nth : nth = ChainIn(fat, x)
    OBVIOUS
  <2>3. c \in OwnedIn(fat, x) /\ d \in OwnedIn(fat, x) /\ c \in Clusters /\ d \in Clusters
    BY <2>1, OwnedFacts DEF OwnedIn
  <2>4. PICK a \in 0 .. MaxLen : nth[a] = c
    BY <2>2, <2>3 DEF OwnedIn
  <2>5. PICK b \in 0 .. MaxLen : nth[b] = d
    BY <2>2, <2>3 DEF OwnedIn
  <2>6. /\ MaxLen \in Nat /\ \A k \in 1 .. MaxLen : nth[k] = Follow(fat, nth[k - 1])
    BY <2>2, ChainFacts, ConstantFacts
  <2>7. ASSUME NEW p \in 0 .. MaxLen, NEW q \in 0 .. MaxLen, p < q,
               nth[p] \in Clusters, nth[q] \in Clusters, fat[nth[p]] = fat[nth[q]]
        PROVE  nth[p] = nth[q]
    <3>1. CASE fat[nth[p]] \in Clusters
      BY <2>7, <3>1 DEF Sound
    <3>2. CASE fat[nth[p]] \notin Clusters
      <4>1. p + 1 \in 1 .. MaxLen /\ (p + 1) - 1 = p /\ p + 1 \in 0 .. MaxLen
            /\ q \in p + 1 .. MaxLen
        BY <2>6, <2>7
      <4>2. nth[p + 1] = fat[nth[p]]
        BY <2>6, <2>7, <4>1 DEF Follow
      <4>3. nth[q] = nth[p + 1]
        BY <2>2, <3>2, <4>1, <4>2, ChainStops
      <4>. QED  BY <2>7, <3>2, <4>2, <4>3
    <3>. QED  BY <3>1, <3>2
  <2>8. a < b \/ b < a \/ a = b
    BY <2>6
  <2>. QED  BY <1>2, <2>3, <2>4, <2>5, <2>7, <2>8
<1>3. ASSUME NEW i \in files,
             NEW j \in files \ {i} PROVE Owned(dir[i]) \cap Owned(dir[j]) = {}
  <2>1. PICK x : x = dir[i].first
    OBVIOUS
  <2>2. PICK y : y = dir[j].first
    OBVIOUS
  <2>3. (x = 0 \/ Heads(fat, x)) /\ (y = 0 \/ Heads(fat, y)) /\ (x = y => x = 0)
    BY <1>3, <2>1, <2>2
  <2>4. SUFFICES ASSUME NEW c \in Clusters, c \in OwnedIn(fat, x), c \in OwnedIn(fat, y)
                 PROVE  FALSE
    BY <2>1, <2>2, OwnedFacts DEF OwnedIn
  <2>5. PICK a \in 0 .. MaxLen : ChainIn(fat, x)[a] = c
    BY <2>4 DEF OwnedIn
  <2>6. PICK b \in 0 .. MaxLen : ChainIn(fat, y)[b] = c
    BY <2>4 DEF OwnedIn
  <2>7. x = y
    BY <2>3, <2>5, <2>6, ChainsMeet
  <2>8. ChainIn(fat, 0)[a] = 0
    <3>1. 0 \in 0 .. MaxLen /\ 0 \notin Clusters
      BY ConstantFacts DEF FREE
    <3>2. ChainIn(fat, 0)[0] = 0
      BY ChainFacts
    <3>. QED  BY <3>1, <3>2, ChainStops
  <2>. QED  BY <2>3, <2>5, <2>7, <2>8, ConstantFacts
<1>. QED  BY <1>1, <1>2, <1>3

(* No two files share a cluster, none leads to a free one, no chain runs   *)
(* into itself.                                                            *)
THEOREM Fat32NoCrossLinks ==
  ASSUME Kinds \subseteq Growing PROVE Spec => []NoCrossLinks
<1>1. GrowInv => NoCrossLinks
  <2>. SUFFICES ASSUME GrowInv PROVE NoCrossLinks
    OBVIOUS
  <2>. PICK settled \in SUBSET Live :
         settled = Live \ (IF op.kind \in {"delete", "write"} THEN {op.slot} ELSE {})
    OBVIOUS
  <2>1. /\ Sound(fat) /\ \A i \in settled : dir[i].first = 0 \/ Heads(fat, dir[i].first)
        /\ \A i, j \in settled : i # j /\ dir[i].first = dir[j].first => dir[i].first = 0
    BY DEF GrowInv, DirInv
  <2>. QED  BY <2>1, FilesApart DEF NoCrossLinks
<1>. QED  BY <1>1, Fat32Always, PTL
-----------------------------------------------------------------------------
(***************************************************************************)
(* What files read as.                                                     *)
(***************************************************************************)
\* A set that holds, with a number, every smaller one is full up to its size.
LEMMA Prefix ==
  ASSUME NEW n \in Nat, NEW S \in SUBSET (1 .. n),
         \A i \in S : \A j \in 1 .. i : j \in S
  PROVE  \A i \in 1 .. Cardinality(S) : i \in S
<1>1. IsFiniteSet(S) /\ Cardinality(S) \in Nat
  <2>1. PICK T : T = 1 .. n /\ IsFiniteSet(T)
    BY FS_Interval
  <2>2. IsFiniteSet(S)
    BY <2>1, FS_Subset
  <2>. QED  BY <2>2, FS_CardinalityType
<1>. SUFFICES ASSUME NEW i \in 1 .. Cardinality(S), i \notin S PROVE FALSE
  OBVIOUS
<1>2. S \subseteq 1 .. i - 1
  <2>. SUFFICES ASSUME NEW x \in S, x >= i PROVE FALSE
    BY <1>1
  <2>. QED  BY <1>1
<1>3. i - 1 \in Nat
  BY <1>1
<1>4. IsFiniteSet(1 .. i - 1) /\ Cardinality(1 .. i - 1) = i - 1
  <2>1. PICK m \in Nat : m = i - 1
    BY <1>3
  <2>2. IsFiniteSet(1 .. m) /\ Cardinality(1 .. m) = m
    BY FS_Interval
  <2>. QED  BY <2>1, <2>2
<1>5. Cardinality(S) <= i - 1
  <2>1. PICK T : T = 1 .. i - 1 /\ IsFiniteSet(T) /\ Cardinality(T) = i - 1
    BY <1>4
  <2>2. S \in SUBSET T
    BY <1>2, <2>1
  <2>3. Cardinality(S) <= Cardinality(T)
    BY <2>1, <2>2, FS_Subset
  <2>. QED  BY <2>1, <2>3
<1>. QED  BY <1>1, <1>5

\* The clusters that the units of a file are in.
LEMMA UnitFacts ==
  ASSUME NEW s \in 0 .. MaxLen, NEW i \in 1 .. s
  PROVE  /\ (i - 1) \div ClusterSize \in 0 .. MaxLen
         /\ (i - 1) \div ClusterSize < ClustersFor(s)
         /\ ClustersFor(s) - 1 = (s - 1) \div ClusterSize
         /\ \A j \in 1 .. i : (j - 1) \div ClusterSize <= (i - 1) \div ClusterSize
<1>0. MaxLen \in Nat /\ ClusterSize \in Nat \ {0} /\ s \in Nat /\ s > 0
  BY ConstantFacts
<1>1. PICK a \in Nat : a = i - 1 /\ a <= s - 1
  BY <1>0
<1>2. a \div ClusterSize \in Nat /\ a \div ClusterSize <= a
  BY <1>0, DivFacts
<1>3. ClustersFor(s) = ((s - 1) \div ClusterSize) + 1
  BY <1>0, ClusterCount
<1>4. PICK b \in Nat : b = s - 1
  BY <1>0
<1>5. a \div ClusterSize <= b \div ClusterSize /\ b \div ClusterSize \in Nat
  BY <1>0, <1>1, <1>4, DivMonotone, DivFacts
<1>6. ASSUME NEW j \in 1 .. i PROVE (j - 1) \div ClusterSize <= (i - 1) \div ClusterSize
  <2>1. PICK c \in Nat : c = j - 1 /\ c <= a
    BY <1>0, <1>1
  <2>. QED  BY <1>0, <1>1, <2>1, DivMonotone
<1>. QED  BY <1>0, <1>1, <1>2, <1>3, <1>4, <1>5, <1>6

\* A text stays if the clusters it is in do, and what is written in them.
LEMMA TextKept ==
  ASSUME NEW table, NEW new, NEW content, NEW written, NEW e, e.size \in 0 .. MaxLen,
         \A k \in 0 .. MaxLen : k < ClustersFor(e.size) =>
           ChainIn(new, e.first)[k] = ChainIn(table, e.first)[k],
         \A i \in 1 .. e.size :
           LET c == ChainIn(table, e.first)[(i - 1) \div ClusterSize]
           IN c \in Volume => written[c][((i - 1) % ClusterSize) + 1]
                                = content[c][((i - 1) % ClusterSize) + 1]
  PROVE  TextIn(new, written, e) = TextIn(table, content, e)
<1>. PICK s \in 0 .. MaxLen : s = e.size
  OBVIOUS
<1>. PICK f : f = ChainIn(table, e.first)
  OBVIOUS
<1>. PICK g : g = ChainIn(new, e.first)
  OBVIOUS
<1>. DEFINE at(i) == (i - 1) \div ClusterSize
            R(h) == {i \in 1 .. s : \A k \in 0 .. at(i) : h[k] \in Volume}
<1>0. s \in Nat /\ MaxLen \in Nat
  BY ConstantFacts
<1>1. \A i \in 1 .. s : /\ at(i) \in 0 .. MaxLen /\ at(i) < ClustersFor(s)
                        /\ \A j \in 1 .. i : at(j) <= at(i)
  BY UnitFacts
<1>2. ClustersFor(s) \in Nat
  BY <1>0, ClusterCount
<1>. HIDE DEF at
<1>3. \A i \in 1 .. s : \A k \in 0 .. at(i) : g[k] = f[k]
  BY <1>0, <1>1, <1>2
<1>4. R(g) = R(f)
  BY <1>3
<1>5. \A i \in 1 .. Cardinality(R(f)) : i \in R(f)
  <2>1. PICK S \in SUBSET (1 .. s) : S = R(f)
    OBVIOUS
  <2>2. ASSUME NEW i \in S, NEW j \in 1 .. i PROVE j \in S
    <3>1. i \in 1 .. s /\ j \in 1 .. s
      BY <1>0, <2>1
    <3>2. at(j) <= at(i) /\ at(j) \in 0 .. MaxLen /\ at(i) \in 0 .. MaxLen
      BY <1>1, <3>1
    <3>3. \A k \in 0 .. at(j) : k \in 0 .. at(i)
      BY <1>0, <3>2
    <3>. QED  BY <2>1, <3>1, <3>3
  <2>3. \A i \in 1 .. Cardinality(S) : i \in S
    BY <1>0, <2>2, Prefix
  <2>. QED  BY <2>1, <2>3
<1>6. \A i \in R(f) : f[at(i)] \in Volume /\ g[at(i)] = f[at(i)]
  <2>. SUFFICES ASSUME NEW i \in R(f) PROVE f[at(i)] \in Volume /\ g[at(i)] = f[at(i)]
    OBVIOUS
  <2>1. at(i) \in 0 .. at(i)
    BY <1>0, <1>1
  <2>. QED  BY <1>3, <2>1
<1>7. \A i \in R(f) : written[g[at(i)]][((i - 1) % ClusterSize) + 1]
                        = content[f[at(i)]][((i - 1) % ClusterSize) + 1]
  BY <1>6 DEF at
<1>8. TextIn(table, content, e) =
        [i \in 1 .. Cardinality(R(f)) |-> content[f[at(i)]][((i - 1) % ClusterSize) + 1]]
  BY DEF TextIn, at
<1>9. TextIn(new, written, e) =
        [i \in 1 .. Cardinality(R(g)) |-> written[g[at(i)]][((i - 1) % ClusterSize) + 1]]
  BY DEF TextIn, at
<1>. HIDE DEF R
<1>10. \A i \in 1 .. Cardinality(R(f)) :
          written[g[at(i)]][((i - 1) % ClusterSize) + 1]
            = content[f[at(i)]][((i - 1) % ClusterSize) + 1]
  BY <1>5, <1>7
<1>. QED  BY <1>4, <1>8, <1>9, <1>10

LEMMA ReadsKept ==
  ASSUME NEW n, UNCHANGED dir,
         Matches(n) # {} => TextIn(fat', data', dir[Min(Matches(n))])
                              = TextIn(fat, data, dir[Min(Matches(n))])
  PROVE  Reads(n)' = Reads(n)
<1>1. Matches(n)' = Matches(n)
  BY SameEntries
<1>. QED  BY <1>1 DEF Reads, Text
-----------------------------------------------------------------------------
(***************************************************************************)
(* What single writes do to the disk.                                      *)
(***************************************************************************)
Allocates == /\ pc = "alloc" /\ UNCHANGED <<data, dir>>
             /\ \E c \in Clusters : fat[c] = FREE /\ fat' = [fat EXCEPT ![c] = EOC]

Links == /\ pc = "link" /\ op.last # 0 /\ UNCHANGED <<data, dir>>
         /\ fat' = [fat EXCEPT ![op.last] = op.cl]

Stores == /\ pc = "data" /\ UNCHANGED <<fat, dir>>
          /\ \E text : data' = [data EXCEPT ![op.last] = text]

Fills ==
  /\ pc = "fill" /\ UNCHANGED <<fat, dir>>
  /\ \/ UNCHANGED data
     \/ \E n :
          data' = [data EXCEPT ![op.last] =
                     [i \in 1 .. ClusterSize |->
                        IF i \in TailStart + 1 .. TailStart + n
                          THEN op.rest[i - TailStart] ELSE data[op.last][i]]]

Writes == Allocates \/ Links \/ Stores \/ Fills

LEMMA DiskStep ==
  ASSUME Kinds \subseteq Growing, GrowInv, [Next]_vars
  PROVE  UNCHANGED <<fat, data, dir>> \/ Writes \/ (pc = "entry" /\ WriteEntry)
<1>. CallInv
  BY DEF GrowInv
<1>1. CASE UNCHANGED vars
  BY <1>1 DEF vars, disk
<1>2. CASE \/ FreeDone \/ FreeCluster \/ FreeMirror
  BY <1>2 DEF FreeDone, FreeCluster, FreeMirror, CallInv
<1>3. CASE Alloc
  BY <1>3 DEF Alloc, Allocatable, SetFat, EndMark, Writes, Allocates
<1>4. CASE AllocFails \/ AllocMirror \/ LinkMirror \/ AllDone \/ EntryFails \/ PowerFails
  BY <1>4 DEF AllocFails, AllocMirror, LinkMirror, AllDone, EntryFails, PowerFails, Mirror,
     disk
<1>5. CASE Link
  BY <1>5 DEF Link, SetFat, disk, Writes, Links
<1>6. CASE Data
  <2>1. pc = "data" /\ op.cl = op.last
    BY <1>6 DEF Data, GrowInv, FreshInv
  <2>. QED  BY <1>6, <2>1 DEF Data, disk, Writes, Stores
<1>7. CASE Fill
  <2>1. CASE UNCHANGED disk
    BY <2>1 DEF disk
  <2>2. CASE ~UNCHANGED disk
    <3>1. PICK n : /\ data' = IF n = 0 THEN data
                       ELSE [data EXCEPT ![op.last] =
                              [i \in 1 .. ClusterSize |->
                                 IF i \in TailStart + 1 .. TailStart + n
                                   THEN op.rest[i - TailStart] ELSE data[op.last][i]]]
                   /\ pc = "fill" /\ UNCHANGED <<fat, dir>>
      BY <1>7, <2>2 DEF Fill
    <3>. QED  BY <3>1 DEF Writes, Fills
  <2>. QED  BY <2>1, <2>2
<1>8. CASE WriteEntry
  BY <1>8 DEF WriteEntry
<1>9. ASSUME NEW n \in Names, NEW t \in Texts, Create(n, t) \/ AppendTo(n, t)
      PROVE  UNCHANGED disk
  BY <1>9 DEF Create, AppendTo, Lookup, EnterCreate, EnterAppend, Begin, Refuse
<1>10. ASSUME NEW n \in Names, Mkdir(n) PROVE UNCHANGED disk
  BY <1>10 DEF Mkdir, Begin, Refuse
<1>11. ASSUME NEW n \in Names, NEW m \in Names, Copy("cp", n, m) PROVE UNCHANGED disk
  BY <1>11 DEF Copy, EnterCreate, Begin, Refuse
<1>12. ASSUME NEW n, NEW t, Write(n, t) PROVE FALSE
  BY <1>12 DEF Write, Make, Growing
<1>13. ASSUME NEW n, Delete(n) PROVE FALSE
  BY <1>13 DEF Delete, Make, Growing
<1>14. ASSUME NEW n, NEW m, Copy("mv", n, m) PROVE FALSE
  BY <1>14 DEF Copy, Make, Growing
<1>15. UNCHANGED disk => UNCHANGED <<fat, data, dir>>
  BY DEF disk
<1>. QED  BY <1>1, <1>2, <1>3, <1>4, <1>5, <1>6, <1>7, <1>8, <1>9, <1>10, <1>11, <1>12,
             <1>13,
             <1>14, <1>15 DEF Next, Progress

HasData == DOMAIN data = Volume

LEMMA DataAlways == ASSUME Kinds \subseteq Growing PROVE Spec => []HasData
<1>1. Init => HasData
  BY DEF Init, HasData
<1>2. GrowInv /\ HasData /\ [Next]_vars => HasData'
  <2>. SUFFICES ASSUME GrowInv, HasData, [Next]_vars PROVE HasData'
    OBVIOUS
  <2>1. \/ UNCHANGED data
        \/ \E x, v : data' = [data EXCEPT ![x] = v]
    BY DiskStep DEF Writes, Allocates, Links, Stores, Fills, WriteEntry
  <2>. QED  BY <2>1 DEF HasData
<1>. QED  BY <1>1, <1>2, Fat32Always, PTL DEF Spec

LEMMA FirstFacts ==
  ASSUME GrowInv, NEW n, Matches(n) # {}
  PROVE  /\ Min(Matches(n)) \in Live /\ dir[Min(Matches(n))].name = n
         /\ Min(Matches(n)) \in Matches(n) /\ \A j \in Matches(n) : Min(Matches(n)) <= j
         /\ dir[Min(Matches(n))].size \in 0 .. MaxLen
         /\ LET c == dir[Min(Matches(n))].first IN c = 0 \/ Heads(fat, c)
<1>. PICK i \in Live : /\ i = Min(Matches(n)) /\ dir[i] \in Entries /\ dir[i].name = n
                       /\ i \in Matches(n) /\ \A j \in Matches(n) : i <= j
  BY FirstMatch DEF GrowInv, DirInv
<1>1. dir[i].size \in 0 .. MaxLen
  BY DEF Entries
<1>. QED  BY <1>1 DEF GrowInv, DirInv

\* Clusters that a write of the call leaves alone.
LEMMA AllocatesKeeps ==
  ASSUME GrowInv, Allocates, NEW x, x = 0 \/ Heads(fat, x)
  PROVE  ChainIn(fat', x) = ChainIn(fat, x)
<1>. PICK c \in Clusters : fat[c] = FREE /\ fat' = [fat EXCEPT ![c] = EOC]
  BY DEF Allocates
<1>1. c \notin OwnedIn(fat, x)
  BY FreeFacts DEF GrowInv
<1>2. \A y \in OwnedIn(fat, x) : fat'[y] = fat[y]
  BY <1>1 DEF OwnedIn, GrowInv, Sound
<1>. QED  BY <1>2, ChainUntouched

(* A call changes no other name's text, whatever fails and wherever it is  *)
(* cut off.                                                                *)
LEMMA OtherText ==
  ASSUME GrowInv, HasData, Writes, NEW n, n # op.name
  PROVE  Reads(n)' = Reads(n)
<1>1. UNCHANGED dir
  BY DEF Writes, Allocates, Links, Stores, Fills
<1>. SUFFICES ASSUME Matches(n) # {}
              PROVE  TextIn(fat', data', dir[Min(Matches(n))])
                       = TextIn(fat, data, dir[Min(Matches(n))])
  BY <1>1, ReadsKept
<1>. PICK i \in Live : i = Min(Matches(n))
  BY FirstFacts
<1>. PICK e : e = dir[i]
  OBVIOUS
<1>2. e.size \in 0 .. MaxLen /\ (e.first = 0 \/ Heads(fat, e.first)) /\ e.name = n
  BY FirstFacts
<1>3. i \in Others
  <2>1. pc # "idle"
    BY DEF Writes, Allocates, Links, Stores, Fills
  <2>2. op.slot \in Live => dir[op.slot].name = op.name
    BY <2>1 DEF GrowInv, CallInv, Matches
  <2>. QED  BY <1>2, <2>2 DEF Others
<1>4. op.last \notin OwnedIn(fat, e.first)
  BY <1>3 DEF GrowInv, BuiltInv
<1>5. ChainIn(fat', e.first) = ChainIn(fat, e.first)
  <2>1. CASE Allocates
    BY <1>2, <2>1, AllocatesKeeps
  <2>2. CASE Links
    <3>1. \A y \in OwnedIn(fat, e.first) : fat'[y] = fat[y]
      BY <1>4, <2>2 DEF Links, OwnedIn, GrowInv, Sound
    <3>. QED  BY <3>1, ChainUntouched
  <2>3. CASE Stores \/ Fills
    BY <2>3 DEF Stores, Fills
  <2>. QED  BY <2>1, <2>2, <2>3 DEF Writes
<1>6. ASSUME NEW c \in Volume, c # op.last PROVE data'[c] = data[c]
  BY <1>6 DEF Writes, Allocates, Links, Stores, Fills, HasData
<1>7. \A u \in 1 .. e.size :
        LET c == ChainIn(fat, e.first)[(u - 1) \div ClusterSize]
        IN c \in Volume => data'[c][((u - 1) % ClusterSize) + 1]
                             = data[c][((u - 1) % ClusterSize) + 1]
  <2>. SUFFICES ASSUME NEW u \in 1 .. e.size, NEW c \in Volume,
                       c = ChainIn(fat, e.first)[(u - 1) \div ClusterSize]
                PROVE  data'[c] = data[c]
    OBVIOUS
  <2>1. (u - 1) \div ClusterSize \in 0 .. MaxLen
    BY <1>2, UnitFacts
  <2>2. c \in Clusters
    BY FatAssumption
  <2>3. c # op.last
    BY <1>4, <2>1, <2>2 DEF OwnedIn
  <2>. QED  BY <1>6, <2>3
<1>. QED  BY <1>2, <1>5, <1>7, TextKept

LEMMA OtherEntries ==
  ASSUME GrowInv, pc = "entry", WriteEntry, NEW n, n # op.name
  PROVE  Reads(n)' = Reads(n)
<1>1. /\ Live' = Live \cup {op.slot} /\ dir'[op.slot].name = op.name
      /\ \A i \in Live \ {op.slot} : dir'[i] = dir[i] /\ UNCHANGED <<fat, data>>
  BY EntryFacts DEF Entry
<1>2. UNCHANGED <<fat, data>>
  BY EntryFacts
<1>3. op.slot \notin Matches(n)
  BY DEF GrowInv, CallInv, Matches
<1>4. Matches(n)' = Matches(n)
  BY <1>1, <1>3 DEF Matches
<1>5. \A i \in Matches(n) : dir'[i] = dir[i]
  BY <1>1, <1>3 DEF Matches
<1>6. CASE Matches(n) = {}
  BY <1>4, <1>6 DEF Reads
<1>7. CASE Matches(n) # {}
  <2>1. PICK i \in Matches(n) : i = Min(Matches(n))
    BY <1>7, FirstFacts
  <2>2. PICK e : e = dir[i] /\ e = dir'[i]
    BY <1>5
  <2>3. Reads(n) = [there |-> TRUE, dir |-> e.dir, text |-> TextIn(fat, data, e)]
    BY <1>7, <2>1, <2>2 DEF Reads, Text
  <2>4. Reads(n)' = [there |-> TRUE, dir |-> e.dir, text |-> TextIn(fat', data', e)]
    BY <1>4, <1>7, <2>1, <2>2 DEF Reads, Text
  <2>. QED  BY <1>2, <2>3, <2>4
<1>. QED  BY <1>6, <1>7

(* The same of every step: what a name other than the call's reads as is   *)
(* never changed, neither by a write to a cluster or the FAT nor by the    *)
(* entry that ends the call.                                               *)
THEOREM Fat32OthersIntact ==
  ASSUME Kinds \subseteq Growing PROVE Spec => OthersIntact
<1>1. GrowInv /\ HasData /\ [Next]_vars => [OthersKept]_vars
  <2>. SUFFICES ASSUME GrowInv, HasData, [Next]_vars, NEW n \in Names, n # op.name
                PROVE  Reads(n)' = Reads(n)
    BY DEF OthersKept
  <2>1. CASE UNCHANGED <<fat, data, dir>>
    BY <2>1, ReadsKept
  <2>. QED  BY <2>1, DiskStep, OtherText, OtherEntries
<1>. QED  BY <1>1, Fat32Always, DataAlways, PTL DEF Spec, OthersIntact
-----------------------------------------------------------------------------
\* The last cluster that an append finds is behind all that its size accounts
\* for, but for the free rest that it fills.
LEMMA OwnText ==
  ASSUME GrowInv, HasData, Writes, op.kind = "append"
  PROVE  \A n : n = op.name => Reads(n)' = Reads(n)
<1>. SUFFICES ASSUME NEW n, n = op.name PROVE Reads(n)' = Reads(n)
  OBVIOUS
<1>1. UNCHANGED dir
  BY DEF Writes, Allocates, Links, Stores, Fills
<1>. SUFFICES ASSUME Matches(n) # {}
              PROVE  TextIn(fat', data', dir[Min(Matches(n))])
                       = TextIn(fat, data, dir[Min(Matches(n))])
  BY <1>1, ReadsKept
<1>. PICK i \in Live : i = Min(Matches(n)) /\ i \in Matches(n)
          /\ \A j \in Matches(n) : i <= j
  BY FirstFacts
<1>2. i = op.slot
  <2>1. pc # "idle"
    BY DEF Writes, Allocates, Links, Stores, Fills
  <2>2. op.slot \in Matches(n) /\ \A j \in Matches(n) : op.slot <= j
    BY <2>1 DEF GrowInv, CallInv
  <2>3. i \in Int /\ op.slot \in Int
    BY <2>2 DEF Matches, Live, GrowInv, DirInv
  <2>. QED  BY <2>2, <2>3
<1>. PICK e : e = dir[i]
  OBVIOUS
<1>3. e.size \in 0 .. MaxLen /\ (e.first = 0 \/ Heads(fat, e.first))
  BY FirstFacts
<1>. PICK s \in 0 .. MaxLen : s = e.size
  BY <1>3
<1>. PICK nth : nth = ChainIn(fat, e.first)
  OBVIOUS
<1>. PICK full \in Nat : full = ClustersFor(s)
  BY ClusterCount, ConstantFacts
<1>4. \A u \in 1 .. s : /\ (u - 1) \div ClusterSize \in 0 .. MaxLen
                        /\ (u - 1) \div ClusterSize < full
                        /\ full - 1 = (s - 1) \div ClusterSize
  BY UnitFacts
<1>5. full <= MaxLen + 1
  <2>1. CASE s = 0
    BY <2>1, ClusterCount, ConstantFacts
  <2>2. CASE s # 0
    <3>1. s \in 1 .. s /\ MaxLen \in Nat
      BY <2>2, ConstantFacts
    <3>. QED  BY <1>4, <3>1
  <2>. QED  BY <2>1, <2>2
<1>6. op.last # 0 => \A k \in 0 .. MaxLen :
        k + 1 < full \/ (pc \in {"linkMirror", "data"} /\ k < full) => nth[k] # op.last
  BY <1>2 DEF GrowInv, TailInv, Chain
<1>7. \A k \in 0 .. MaxLen : k < full => ChainIn(fat', e.first)[k] = nth[k]
  <2>1. CASE Allocates
    BY <1>3, <2>1, AllocatesKeeps
  <2>2. CASE Links
    <3>1. CASE full = 0
      BY <3>1
    <3>2. CASE full # 0
      <4>1. MaxLen \in Nat
        BY ConstantFacts
      <4>2. PICK m \in 0 .. MaxLen : m = full - 1
        BY <1>5, <3>2, <4>1
      <4>3. ASSUME NEW k \in 0 .. m - 1,
                   nth[k] \in Clusters PROVE fat'[nth[k]] = fat[nth[k]]
        <5>1. k \in 0 .. MaxLen /\ k + 1 < full
          BY <4>1, <4>2
        <5>2. nth[k] # op.last
          BY <1>6, <2>2, <5>1 DEF Links
        <5>. QED  BY <2>2, <4>3, <5>2 DEF Links, GrowInv, Sound
      <4>4. \A k \in 0 .. m : ChainIn(fat', e.first)[k] = nth[k]
        BY <4>3, ChainKept
      <4>5. \A k \in 0 .. MaxLen : k < full => k \in 0 .. m
        BY <4>1, <4>2
      <4>. QED  BY <4>4, <4>5
    <3>. QED  BY <3>1, <3>2
  <2>3. CASE Stores \/ Fills
    BY <2>3 DEF Stores, Fills
  <2>. QED  BY <2>1, <2>2, <2>3 DEF Writes
<1>8. ASSUME NEW c \in Volume, c # op.last PROVE data'[c] = data[c]
  BY <1>8 DEF Writes, Allocates, Links, Stores, Fills, HasData
<1>9. ASSUME NEW u \in 1 .. s, NEW c \in Volume, c = nth[(u - 1) \div ClusterSize]
      PROVE  data'[c][((u - 1) % ClusterSize) + 1] = data[c][((u - 1) % ClusterSize) + 1]
  <2>0. CASE UNCHANGED data
    BY <2>0
  <2>1. PICK k \in 0 .. MaxLen : k = (u - 1) \div ClusterSize /\ k < full
    BY <1>4
  <2>2. CASE Stores
    <3>1. op.last # 0 /\ pc = "data"
      BY <2>2, ConstantFacts DEF Stores, GrowInv, FreshInv, FREE
    <3>2. c # op.last
      BY <1>6, <1>9, <2>1, <3>1
    <3>. QED  BY <1>8, <3>2
  <2>3. CASE Fills /\ c # op.last
    BY <1>8, <2>3
  <2>4. CASE Fills /\ c = op.last
    <3>1. pc = "fill"
      BY <2>4 DEF Fills
    <3>2. op.last # 0 /\ (s = 0 \/ s % ClusterSize # 0)
      BY <1>2, <3>1, ConstantFacts DEF GrowInv, TailInv, FREE
    <3>3. k = full - 1
      <4>1. ~(k + 1 < full)
        BY <1>6, <1>9, <2>1, <2>4, <3>2
      <4>. QED  BY <2>1, <4>1, ConstantFacts
    <3>4. PICK a \in Nat : a = u - 1 /\ a < s
      BY ConstantFacts
    <3>5. PICK z \in Nat \ {0} : z = ClusterSize
      BY ConstantFacts
    <3>6. s \in Nat /\ s % z # 0 /\ a \div z = (s - 1) \div z
      BY <1>4, <2>1, <3>2, <3>3, <3>4, <3>5, ConstantFacts
    <3>7. (a % z) + 1 <= s % z
      BY <3>4, <3>6, DivTail
    <3>8. PICK p \in 1 .. z : p = (a % z) + 1
      BY <3>5
    <3>9. PICK off \in Nat : off = TailStart /\ p <= off
      <4>1. TailStart = s % z /\ s % z \in Nat
        BY <1>2, <3>5, <3>6 DEF TailStart
      <4>. QED  BY <3>7, <3>8, <4>1
    <3>10. \A x : p \notin off + 1 .. off + x
      BY <3>9
    <3>11. data'[c][p] = data[c][p]
      <4>1. CASE UNCHANGED data
        BY <4>1
      <4>2. ASSUME NEW x, data' = [data EXCEPT ![op.last] =
                     [y \in 1 .. ClusterSize |->
                        IF y \in TailStart + 1 .. TailStart + x
                          THEN op.rest[y - TailStart] ELSE data[op.last][y]]]
            PROVE  data'[c][p] = data[c][p]
        <5>1. data'[c] = [y \in 1 .. ClusterSize |->
                        IF y \in off + 1 .. off + x
                          THEN op.rest[y - off] ELSE data[c][y]]
          BY <2>4, <3>9, <4>2 DEF HasData
        <5>. QED  BY <3>5, <3>8, <3>10, <5>1
      <4>. QED  BY <2>4, <4>1, <4>2 DEF Fills
    <3>. QED  BY <3>4, <3>5, <3>8, <3>11
  <2>5. UNCHANGED data \/ Stores \/ Fills
    BY DEF Writes, Allocates, Links
  <2>. QED  BY <2>0, <2>2, <2>3, <2>4, <2>5
<1>. QED  BY <1>3, <1>7, <1>9, TextKept

(* Until its last write an append has not changed what its file reads as:  *)
(* the power may go, and a sector fail, at any time.                       *)
THEOREM Fat32AppendAtomic ==
  ASSUME Kinds \subseteq Growing PROVE Spec => AppendAtomic
<1>1. GrowInv /\ HasData /\ [Next]_vars => [OldTextKept]_vars
  <2>. SUFFICES ASSUME GrowInv, HasData, [Next]_vars, op.kind = "append", pc # "entry"
                PROVE  \A n : n = op.name => Reads(n)' = Reads(n)
    BY DEF OldTextKept
  <2>1. CASE UNCHANGED <<fat, data, dir>>
    BY <2>1, ReadsKept
  <2>. QED  BY <2>1, DiskStep, OwnText
<1>. QED  BY <1>1, Fat32Always, DataAlways, PTL DEF Spec, AppendAtomic
-----------------------------------------------------------------------------
(***************************************************************************)
(* The two copies of the FAT, when nothing fails.                          *)
(***************************************************************************)
\* Between the two writes of write_fat the copies differ.
Unmirrored == {"freeMirror", "allocMirror", "linkMirror"}

MirrorInv == pc \notin Unmirrored => fat2 = fat

LEMMA MirrorStep ==
  ASSUME ~Crashes, ~Faults, MirrorInv, [Next]_vars
  PROVE  MirrorInv'
<1>1. CASE UNCHANGED vars
  BY <1>1 DEF vars, disk, MirrorInv
<1>2. CASE FreeDone
  BY <1>2 DEF FreeDone, MirrorInv, Unmirrored, AfterFree, disk
<1>3. CASE FreeCluster
  BY <1>3 DEF FreeCluster, MirrorInv, Unmirrored
<1>4. CASE FreeMirror \/ AllocMirror
  BY <1>4 DEF FreeMirror, AllocMirror, Mirror, MirrorInv
<1>5. CASE Alloc
  BY <1>5 DEF Alloc, MirrorInv, Unmirrored
<1>6. CASE AllocFails
  BY <1>6 DEF AllocFails, MirrorInv, Unmirrored, disk
<1>7. CASE Link
  BY <1>7 DEF Link, MirrorInv, Unmirrored, disk
<1>8. CASE LinkMirror
  BY <1>8 DEF LinkMirror, Mirror, MirrorInv
<1>9. CASE Data
  BY <1>9 DEF Data, MirrorInv, Unmirrored, disk
<1>10. CASE Fill
  BY <1>10 DEF Fill, MirrorInv, Unmirrored, disk
<1>11. CASE AllDone
  BY <1>11 DEF AllDone, MirrorInv, Unmirrored, disk
<1>12. CASE WriteEntry
  BY <1>12 DEF WriteEntry, MirrorInv, Unmirrored
<1>13. CASE EntryFails \/ PowerFails
  BY <1>13 DEF EntryFails, PowerFails
<1>14. ASSUME UNCHANGED disk, pc = "idle" PROVE MirrorInv'
  BY <1>14 DEF disk, MirrorInv, Unmirrored
<1>15. ASSUME NEW n, NEW t, Create(n, t) \/ Write(n, t) \/ AppendTo(n, t)
       PROVE  UNCHANGED disk /\ pc = "idle"
  BY <1>15 DEF Create, Write, AppendTo, Make, Lookup, EnterCreate, EnterWrite, EnterAppend,
               Begin, Refuse
<1>16. ASSUME NEW n, Delete(n) \/ Mkdir(n) PROVE UNCHANGED disk /\ pc = "idle"
  BY <1>16 DEF Delete, Mkdir, Make, Lookup, Begin, Refuse
<1>17. ASSUME NEW kind, NEW n, NEW m, Copy(kind, n, m) PROVE UNCHANGED disk /\ pc = "idle"
  BY <1>17 DEF Copy, Make, EnterCreate, Begin, Refuse
<1>. QED  BY <1>1, <1>2, <1>3, <1>4, <1>5, <1>6, <1>7, <1>8, <1>9, <1>10, <1>11, <1>12,
             <1>13,
             <1>14, <1>15, <1>16, <1>17 DEF Next, Progress

(* Between calls the second FAT is a copy of the first, for calls of all   *)
(* kinds, as long as no sector fails and no call is cut off.               *)
THEOREM Fat32MirrorAgrees ==
  ASSUME ~Crashes, ~Faults PROVE Spec => []MirrorAgrees
<1>1. Init => MirrorInv
  BY DEF Init, MirrorInv
<1>2. MirrorInv /\ [Next]_vars => MirrorInv'
  BY MirrorStep
<1>3. MirrorInv => MirrorAgrees
  BY DEF MirrorInv, MirrorAgrees, Unmirrored
<1>. QED  BY <1>1, <1>2, <1>3, PTL DEF Spec
-----------------------------------------------------------------------------
(***************************************************************************)
(* Forests: every used cluster is in the chain of exactly one root.  The   *)
(* three ways in which the calls change a FAT entry keep a forest: a       *)
(* cluster is allocated, it is linked behind the end of a chain, and the   *)
(* first cluster of a chain is freed.                                      *)
(***************************************************************************)

(* The chain from c has n clusters and ends there.                         *)
Ends(table, c, n) ==
  /\ n \in 1 .. MaxLen
  /\ ChainIn(table, c)[n - 1] \in Clusters /\ table[ChainIn(table, c)[n - 1]] = EOC

LEMMA EndsFacts ==
  ASSUME NEW table, NEW c, NEW n, Ends(table, c, n)
  PROVE  /\ \A k \in 0 .. n - 1 : ChainIn(table, c)[k] \in Clusters
         /\ \A k \in n .. MaxLen : ChainIn(table, c)[k] = EOC
         /\ \A k \in 1 .. n - 1 : ChainIn(table, c)[k] = table[ChainIn(table, c)[k - 1]]
         /\ OwnedIn(table, c) = {ChainIn(table, c)[k] : k \in 0 .. n - 1}
<1>. PICK f : f = ChainIn(table, c)
  OBVIOUS
<1>0. /\ MaxLen \in Nat /\ n \in 1 .. MaxLen /\ f[n - 1] \in Clusters /\ table[f[n - 1]] = EOC
      /\ EOC \notin Clusters
      /\ \A i \in 1 .. MaxLen : f[i] = Follow(table, f[i - 1])
  BY ConstantFacts, ChainFacts DEF Ends
<1>1. ASSUME NEW k \in 0 .. n - 1 PROVE f[k] \in Clusters
  <2>. SUFFICES ASSUME f[k] \notin Clusters PROVE FALSE
    OBVIOUS
  <2>1. k \in 0 .. MaxLen /\ n - 1 \in k .. MaxLen
    BY <1>0
  <2>2. f[n - 1] = f[k]
    BY <2>1, ChainStops
  <2>. QED  BY <1>0, <2>2
<1>2. ASSUME NEW k \in n .. MaxLen PROVE f[k] = EOC
  <2>1. n \in 1 .. MaxLen /\ n \in 0 .. MaxLen
    BY <1>0
  <2>2. f[n] = EOC
    BY <1>0, <2>1 DEF Follow
  <2>. QED  BY <1>0, <2>1, <2>2, ChainStops
<1>3. ASSUME NEW k \in 1 .. n - 1 PROVE f[k] = table[f[k - 1]]
  <2>1. k \in 1 .. MaxLen /\ k - 1 \in 0 .. n - 1
    BY <1>0
  <2>. QED  BY <1>0, <1>1, <2>1 DEF Follow
<1>4. {f[k] : k \in 0 .. MaxLen} \cap Clusters = {f[k] : k \in 0 .. n - 1}
  <2>1. ASSUME NEW k \in 0 .. MaxLen, f[k] \in Clusters PROVE k \in 0 .. n - 1
    BY <1>0, <1>2, <2>1
  <2>2. \A k \in 0 .. n - 1 : k \in 0 .. MaxLen
    BY <1>0
  <2>. QED  BY <1>1, <2>1, <2>2
<1>. QED  BY <1>1, <1>2, <1>3, <1>4 DEF OwnedIn

LEMMA EndsKept ==
  ASSUME NEW table, NEW new, NEW c, NEW n, Ends(table, c, n),
         \A x \in OwnedIn(table, c) : new[x] = table[x]
  PROVE  /\ Ends(new, c, n) /\ ChainIn(new, c) = ChainIn(table, c)
         /\ OwnedIn(new, c) = OwnedIn(table, c)
<1>1. ChainIn(new, c) = ChainIn(table, c) /\ OwnedIn(new, c) = OwnedIn(table, c)
  BY ChainUntouched
<1>2. n - 1 \in 0 .. MaxLen /\ ChainIn(table, c)[n - 1] \in Clusters
  BY ConstantFacts DEF Ends
<1>3. ChainIn(table, c)[n - 1] \in OwnedIn(table, c)
  BY <1>2 DEF OwnedIn
<1>. QED  BY <1>1, <1>3 DEF Ends

(* A table in which every used cluster is in the chain of one of some      *)
(* roots, and these chains end.                                            *)
Forest(table, roots) ==
  /\ Sound(table)
  /\ \A r \in roots : Heads(table, r) /\ \E n \in 1 .. MaxLen : Ends(table, r, n)
  /\ \A c \in Clusters : table[c] # FREE => \E r \in roots : c \in OwnedIn(table, r)

LEMMA FirstOwned ==
  ASSUME NEW table, NEW c \in Clusters
  PROVE  c \in OwnedIn(table, c)
<1>1. 0 \in 0 .. MaxLen /\ ChainIn(table, c)[0] = c
  BY ConstantFacts, ChainFacts
<1>. QED  BY <1>1 DEF OwnedIn

LEMMA RootsApart ==
  ASSUME NEW table, NEW roots, Forest(table, roots), NEW r \in roots, NEW s \in roots, r # s
  PROVE  OwnedIn(table, r) \cap OwnedIn(table, s) = {}
<1>. SUFFICES ASSUME NEW x, x \in OwnedIn(table, r), x \in OwnedIn(table, s) PROVE FALSE
  OBVIOUS
<1>1. PICK a \in 0 .. MaxLen : ChainIn(table, r)[a] = x
  BY DEF OwnedIn
<1>2. PICK b \in 0 .. MaxLen : ChainIn(table, s)[b] = x
  BY DEF OwnedIn
<1>3. x \in Clusters
  BY DEF OwnedIn
<1>. QED  BY <1>1, <1>2, <1>3, ChainsMeet DEF Forest
-----------------------------------------------------------------------------
\* The entry of cluster c is set to v.
Sets(table, new, c, v) == new = [table EXCEPT ![c] = v]

(* A cluster is allocated: one more root.                                  *)
LEMMA ForestAllocates ==
  ASSUME NEW table, NEW roots, Forest(table, roots), NEW c \in Clusters, table[c] = FREE,
         NEW new, Sets(table, new, c, EOC)
  PROVE  /\ Forest(new, roots \cup {c}) /\ c \notin roots /\ Ends(new, c, 1)
         /\ \A r \in roots : ChainIn(new, r) = ChainIn(table, r)
         /\ \A r \in roots, n \in 1 .. MaxLen : Ends(table, r, n) => Ends(new, r, n)
<1>0. /\ FREE # EOC /\ EOC \notin Clusters /\ FREE \notin Clusters /\ 1 \in 1 .. MaxLen
      /\ table \in [Clusters -> Clusters \cup {FREE, EOC}]
  BY ConstantFacts DEF Forest, Sound
<1>1. new[c] = EOC /\ \A x \in Clusters : x # c => new[x] = table[x]
  BY <1>0 DEF Sets
<1>2. \A x \in Clusters : table[x] # c
  <2>. SUFFICES ASSUME NEW x \in Clusters, table[x] = c PROVE FALSE
    OBVIOUS
  <2>. QED  BY DEF Forest, Sound
<1>3. Sound(new)
  <2>1. new \in [Clusters -> Clusters \cup {FREE, EOC}]
    BY <1>0 DEF Sets
  <2>2. \A x, y \in Clusters : new[x] = new[y] /\ new[x] \in Clusters => x = y
    BY <1>0, <1>1 DEF Forest, Sound
  <2>3. \A x \in Clusters : new[x] \in Clusters => new[new[x]] # FREE
    BY <1>0, <1>1, <1>2 DEF Forest, Sound
  <2>. QED  BY <2>1, <2>2, <2>3 DEF Sound
<1>4. c \notin roots
  BY DEF Forest, Heads
<1>5. ASSUME NEW r \in roots
      PROVE  \A x \in OwnedIn(table, r) : new[x] = table[x]
  <2>1. Heads(table, r)
    BY DEF Forest
  <2>2. c \notin OwnedIn(table, r)
    BY <2>1, ChainUsed DEF Forest
  <2>. QED  BY <1>1, <2>2 DEF OwnedIn
<1>6. \A r \in roots : Heads(new, r)
  BY <1>0, <1>1, <1>4 DEF Forest, Heads, Unpointed
<1>7. Heads(new, c)
  BY <1>0, <1>1, <1>2 DEF Heads, Unpointed
<1>8. Ends(new, c, 1)
  <2>1. ChainIn(new, c)[0] = c /\ 1 - 1 = 0
    BY ChainFacts
  <2>. QED  BY <1>0, <1>1, <2>1 DEF Ends
<1>9. \A r \in roots, n \in 1 .. MaxLen : Ends(table, r, n) => Ends(new, r, n)
  BY <1>5, EndsKept
<1>10. \A r \in roots : ChainIn(new, r) = ChainIn(table, r)
       /\ OwnedIn(new, r) = OwnedIn(table, r)
  BY <1>5, ChainUntouched
<1>11. \A r \in roots \cup {c} : Heads(new, r) /\ \E n \in 1 .. MaxLen : Ends(new, r, n)
  BY <1>0, <1>6, <1>7, <1>8, <1>9 DEF Forest
<1>12. ASSUME NEW x \in Clusters, new[x] # FREE
       PROVE  \E r \in roots \cup {c} : x \in OwnedIn(new, r)
  <2>1. CASE x = c
    BY <2>1, FirstOwned
  <2>2. CASE x # c
    BY <1>1, <1>10, <1>12, <2>2 DEF Forest
  <2>. QED  BY <2>1, <2>2
<1>. QED  BY <1>3, <1>4, <1>8, <1>9, <1>10, <1>11, <1>12 DEF Forest

EndsAt(table, c, n, last) == Ends(table, c, n) /\ last = ChainIn(table, c)[n - 1]

(* A root without successor is linked behind the end of another chain.     *)
LEMMA ForestLinks ==
  ASSUME NEW table, NEW roots, Forest(table, roots), NEW a \in roots, NEW c \in roots,
         a # c,
         table[c] = EOC, NEW n \in 1 .. MaxLen, n # MaxLen, NEW last,
         EndsAt(table, a, n, last), NEW new, Sets(table, new, last, c)
  PROVE  /\ Forest(new, roots \ {c}) /\ EndsAt(new, a, n + 1, c)
         /\ \A k \in 0 .. n - 1 : ChainIn(new, a)[k] = ChainIn(table, a)[k]
         /\ \A r \in roots \ {a, c} : ChainIn(new, r) = ChainIn(table, r)
         /\ \A r \in roots \ {a, c}, m \in 1 .. MaxLen : Ends(table, r, m) => Ends(new, r, m)
<1>. PICK l \in Clusters : /\ l = last /\ l = ChainIn(table, a)[n - 1] /\ table[l] = EOC
                           /\ Ends(table, a, n)
  BY DEF EndsAt, Ends
<1>0. /\ FREE # EOC /\ EOC \notin Clusters /\ FREE \notin Clusters
      /\ MaxLen \in Nat /\ n \in 1 .. MaxLen /\ n + 1 \in 1 .. MaxLen /\ n - 1 \in 0 .. MaxLen
      /\ table \in [Clusters -> Clusters \cup {FREE, EOC}]
  BY ConstantFacts DEF Forest, Sound, Ends
<1>2. l \in OwnedIn(table, a)
  BY <1>0 DEF OwnedIn
<1>3. Heads(table, a) /\ Heads(table, c) /\ c \in Clusters
  BY DEF Forest, Heads
<1>4. l # c
  BY <1>2, <1>3, OnlyHead DEF Heads
<1>5. new[l] = c /\ \A x \in Clusters : x # l => new[x] = table[x]
  BY <1>0 DEF Sets
<1>6. Sound(new)
  <2>1. new \in [Clusters -> Clusters \cup {FREE, EOC}]
    BY <1>0, <1>3 DEF Sets
  <2>2. \A x, y \in Clusters : new[x] = new[y] /\ new[x] \in Clusters => x = y
    BY <1>3, <1>5 DEF Forest, Sound, Heads, Unpointed
  <2>3. \A x \in Clusters : new[x] \in Clusters => new[new[x]] # FREE
    <3>1. \A x \in Clusters : table[x] # FREE => new[x] # FREE
      BY <1>0, <1>3, <1>5
    <3>2. new[new[l]] # FREE
      BY <1>3, <1>4, <1>5, <3>1 DEF Heads
    <3>. QED  BY <1>5, <3>1, <3>2 DEF Forest, Sound
  <2>. QED  BY <2>1, <2>2, <2>3 DEF Sound
<1>7. ASSUME NEW r \in roots, r # a
      PROVE  \A x \in OwnedIn(table, r) : new[x] = table[x]
  <2>1. l \notin OwnedIn(table, r)
    BY <1>2, <1>7, RootsApart
  <2>. QED  BY <1>5, <2>1 DEF OwnedIn
<1>8. \A r \in roots \ {c} : Heads(new, r)
  <2>. SUFFICES ASSUME NEW r \in roots, r # c PROVE Heads(new, r)
    OBVIOUS
  <2>1. Heads(table, r)
    BY DEF Forest
  <2>2. new[r] # FREE
    BY <1>0, <1>3, <1>5, <2>1 DEF Heads
  <2>. QED  BY <1>5, <2>1, <2>2 DEF Heads, Unpointed
<1>9. \A k \in 0 .. n - 1 : ChainIn(new, a)[k] = ChainIn(table, a)[k]
  <2>1. ASSUME NEW k \in 0 .. n - 1 - 1
        PROVE  new[ChainIn(table, a)[k]] = table[ChainIn(table, a)[k]]
    <3>1. k \in 0 .. n - 1 /\ k \in 0 .. MaxLen /\ k # n - 1
      BY <1>0
    <3>2. ChainIn(table, a)[k] \in Clusters
      BY <3>1, EndsFacts
    <3>3. ChainIn(table, a)[k] # l
      <4>. SUFFICES ASSUME ChainIn(table, a)[k] = l PROVE FALSE
        OBVIOUS
      <4>1. k = n - 1
        BY <1>0, <1>3, <3>1, ChainsMeet DEF Forest
      <4>. QED  BY <3>1, <4>1
    <3>. QED  BY <1>5, <3>2, <3>3
  <2>2. \A k \in 0 .. (n - 1) - 1 : ChainIn(table, a)[k] \in Clusters =>
          new[ChainIn(table, a)[k]] = table[ChainIn(table, a)[k]]
    BY <2>1
  <2>3. PICK m \in 0 .. MaxLen : m = n - 1
    BY <1>0
  <2>4. \A k \in 0 .. m - 1 : ChainIn(table, a)[k] \in Clusters =>
          new[ChainIn(table, a)[k]] = table[ChainIn(table, a)[k]]
    BY <2>2, <2>3
  <2>5. \A k \in 0 .. m : ChainIn(new, a)[k] = ChainIn(table, a)[k]
    <3>1. (\A k \in 0 .. m - 1 : ChainIn(table, a)[k] \in Clusters =>
             new[ChainIn(table, a)[k]] = table[ChainIn(table, a)[k]])
          => \A k \in 0 .. m : ChainIn(new, a)[k] = ChainIn(table, a)[k]
      <4>. QED  BY ChainKept
    <3>. QED  BY <2>4, <3>1
  <2>. QED  BY <2>3, <2>5
<1>10. ChainIn(new, a)[n] = c
  <2>0. n - 1 \in 0 .. n - 1
    BY <1>0
  <2>1. ChainIn(new, a)[n - 1] = l
    BY <1>9, <2>0
  <2>2. ChainIn(new, a)[n] = Follow(new, ChainIn(new, a)[n - 1])
    BY <1>0, ChainFacts
  <2>. QED  BY <1>5, <2>1, <2>2 DEF Follow
<1>11. Ends(new, a, n + 1) /\ EndsAt(new, a, n + 1, c)
  <2>1. (n + 1) - 1 = n /\ new[c] = EOC
    BY <1>0, <1>3, <1>4, <1>5
  <2>. QED  BY <1>0, <1>3, <1>10, <2>1 DEF Ends, EndsAt
<1>12. \A r \in roots \ {a, c} :
         ChainIn(new, r) = ChainIn(table, r) /\ OwnedIn(new, r) = OwnedIn(table, r)
  <2>. SUFFICES ASSUME NEW r \in roots, r # a
                PROVE  ChainIn(new, r) = ChainIn(table, r) /\ OwnedIn(new, r) = OwnedIn(table, r)
    OBVIOUS
  <2>1. \A x \in OwnedIn(table, r) : new[x] = table[x]
    BY <1>7
  <2>. QED  BY <2>1, ChainUntouched
<1>13. \A r \in roots \ {a, c}, m \in 1 .. MaxLen : Ends(table, r, m) => Ends(new, r, m)
  BY <1>7, EndsKept
<1>14. \A r \in roots \ {c} : \E m \in 1 .. MaxLen : Ends(new, r, m)
  BY <1>0, <1>11, <1>13 DEF Forest
<1>15. ASSUME NEW x \in Clusters, new[x] # FREE
       PROVE  \E r \in roots \ {c} : x \in OwnedIn(new, r)
  <2>1. CASE x = c
    <3>1. n \in 0 .. MaxLen
      BY <1>0
    <3>. QED  BY <1>10, <2>1, <3>1 DEF OwnedIn
  <2>2. CASE x # c
    <3>1. table[x] # FREE
      BY <1>0, <1>5, <1>15
    <3>2. PICK r \in roots : x \in OwnedIn(table, r)
      BY <3>1 DEF Forest
    <3>3. CASE r = a
      <4>1. PICK k \in 0 .. n - 1 : x = ChainIn(table, a)[k]
        BY <3>2, <3>3, EndsFacts
      <4>2. k \in 0 .. MaxLen
        BY <1>0
      <4>. QED  BY <1>9, <4>1, <4>2 DEF OwnedIn
    <3>4. CASE r = c
      <4>1. Ends(table, c, 1)
        <5>1. ChainIn(table, c)[0] = c /\ 1 - 1 = 0 /\ 1 \in 1 .. MaxLen
          BY <1>0, ChainFacts
        <5>. QED  BY <1>3, <5>1 DEF Ends
      <4>2. OwnedIn(table, c) = {ChainIn(table, c)[k] : k \in 0 .. 0}
        <5>1. 1 - 1 = 0
          OBVIOUS
        <5>. QED  BY <4>1, <5>1, EndsFacts
      <4>3. OwnedIn(table, c) = {c}
        <5>1. ChainIn(table, c)[0] = c /\ 0 .. 0 = {0}
          BY ChainFacts
        <5>. QED  BY <4>2, <5>1
      <4>. QED  BY <2>2, <3>2, <3>4, <4>3
    <3>5. CASE r # a /\ r # c
      BY <1>12, <3>2, <3>5
    <3>. QED  BY <3>3, <3>4, <3>5
  <2>. QED  BY <2>1, <2>2
<1>. QED  BY <1>6, <1>8, <1>9, <1>10, <1>11, <1>12, <1>13, <1>14, <1>15 DEF Forest

(* The rest of a chain is the chain that starts at the second cluster.     *)
LEMMA ChainRest ==
  ASSUME NEW table, NEW c \in Clusters
  PROVE  \A k \in 0 .. MaxLen - 1 : ChainIn(table, table[c])[k] = ChainIn(table, c)[k + 1]
<1>. PICK d : d = table[c]
  OBVIOUS
<1>. PICK f : f = ChainIn(table, c)
  OBVIOUS
<1>. PICK g : g = ChainIn(table, d)
  OBVIOUS
<1>0. /\ MaxLen \in Nat /\ MaxLen > 0 /\ f[0] = c /\ g[0] = d
      /\ \A i \in 1 .. MaxLen : f[i] = Follow(table, f[i - 1])
      /\ \A i \in 1 .. MaxLen : g[i] = Follow(table, g[i - 1])
  BY ConstantFacts, ChainFacts
<1>. DEFINE S == {k \in Nat : k < MaxLen => g[k] = f[k + 1]}
<1>1. 0 \in S
  <2>1. 1 \in 1 .. MaxLen /\ 1 - 1 = 0
    BY <1>0
  <2>2. f[1] = Follow(table, c)
    BY <1>0, <2>1
  <2>. QED  BY <1>0, <2>2 DEF Follow
<1>2. ASSUME NEW k \in Nat, k \in S PROVE k + 1 \in S
  <2>. SUFFICES ASSUME k + 1 < MaxLen PROVE g[k + 1] = f[(k + 1) + 1]
    OBVIOUS
  <2>1. /\ k + 1 \in 1 .. MaxLen /\ (k + 1) - 1 = k
        /\ (k + 1) + 1 \in 1 .. MaxLen /\ ((k + 1) + 1) - 1 = k + 1
    BY <1>0
  <2>2. g[k] = f[k + 1]
    BY <1>0, <1>2
  <2>3. g[k + 1] = Follow(table, g[k]) /\ f[(k + 1) + 1] = Follow(table, f[k + 1])
    BY <1>0, <2>1
  <2>. QED  BY <2>2, <2>3
<1>. HIDE DEF S
<1>3. Nat \subseteq S
  BY <1>1, <1>2, SetInduction
<1>. QED  BY <1>0, <1>3 DEF S

(* The first cluster of a chain is freed: the rest of the chain is left.   *)
LEMMA ForestFrees ==
  ASSUME NEW table, NEW roots, Forest(table, roots), NEW c \in roots,
         NEW new, Sets(table, new, c, FREE)
  PROVE  /\ Forest(new, (roots \ {c}) \cup ({table[c]} \cap Clusters))
         /\ table[c] \in Clusters \cup {EOC} /\ table[c] \notin roots
         /\ \A r \in roots \ {c} : ChainIn(new, r) = ChainIn(table, r)
         /\ \A r \in roots \ {c}, m \in 1 .. MaxLen : Ends(table, r, m) => Ends(new, r, m)
<1>0. /\ FREE # EOC /\ EOC \notin Clusters /\ FREE \notin Clusters
      /\ MaxLen \in Nat /\ table \in [Clusters -> Clusters \cup {FREE, EOC}]
  BY ConstantFacts DEF Forest, Sound
<1>1. Sound(table) /\ Heads(table, c) /\ c \in Clusters /\ table[c] # FREE
  BY DEF Forest, Heads
<1>. PICK d \in Clusters \cup {EOC} : d = table[c]
  BY <1>0, <1>1
<1>2. new[c] = FREE /\ \A x \in Clusters : x # c => new[x] = table[x]
  BY <1>0, <1>1 DEF Sets
<1>3. \A x \in Clusters : table[x] # c
  BY <1>1 DEF Heads, Unpointed
<1>4. Sound(new)
  <2>1. new \in [Clusters -> Clusters \cup {FREE, EOC}]
    BY <1>0 DEF Sets
  <2>2. \A x, y \in Clusters : new[x] = new[y] /\ new[x] \in Clusters => x = y
    BY <1>0, <1>1, <1>2 DEF Sound
  <2>3. \A x \in Clusters : new[x] \in Clusters => new[new[x]] # FREE
    BY <1>0, <1>1, <1>2, <1>3 DEF Sound
  <2>. QED  BY <2>1, <2>2, <2>3 DEF Sound
<1>5. d \notin roots
  <2>. SUFFICES ASSUME d \in roots PROVE FALSE
    OBVIOUS
  <2>1. Unpointed(table, d)
    BY DEF Forest, Heads
  <2>. QED  BY <1>1, <2>1 DEF Unpointed
<1>6. ASSUME NEW r \in roots, r # c
      PROVE  \A x \in OwnedIn(table, r) : new[x] = table[x]
  <2>1. c \in OwnedIn(table, c) /\ OwnedIn(table, r) \cap OwnedIn(table, c) = {}
    BY <1>1, <1>6, FirstOwned, RootsApart
  <2>. QED  BY <1>2, <2>1 DEF OwnedIn
<1>7. ASSUME NEW r \in roots, r # c
      PROVE  ChainIn(new, r) = ChainIn(table, r) /\ OwnedIn(new, r) = OwnedIn(table, r)
  <2>1. \A x \in OwnedIn(table, r) : new[x] = table[x]
    BY <1>6, <1>7
  <2>. QED  BY <2>1, ChainUntouched
<1>8. \A r \in roots \ {c}, m \in 1 .. MaxLen : Ends(table, r, m) => Ends(new, r, m)
  BY <1>6, EndsKept
<1>9. \A r \in roots \ {c} : Heads(new, r) /\ \E m \in 1 .. MaxLen : Ends(new, r, m)
  <2>. SUFFICES ASSUME NEW r \in roots, r # c
                PROVE  Heads(new, r) /\ \E m \in 1 .. MaxLen : Ends(new, r, m)
    OBVIOUS
  <2>1. Heads(table, r) /\ \E m \in 1 .. MaxLen : Ends(table, r, m)
    BY DEF Forest
  <2>2. Heads(new, r)
    BY <1>0, <1>2, <2>1 DEF Heads, Unpointed
  <2>. QED  BY <1>8, <2>1, <2>2
<1>10. ASSUME d \in Clusters
       PROVE  /\ Heads(new, d) /\ \E m \in 1 .. MaxLen : Ends(new, d, m)
              /\ \A x \in OwnedIn(table, c) : x # c => x \in OwnedIn(new, d)
  <2>1. d # c
    BY <1>1, <1>3
  <2>2. Heads(new, d)
    <3>1. new[d] # FREE
      BY <1>1, <1>2, <1>10, <2>1 DEF Sound
    <3>2. \A x \in Clusters : new[x] # d
      BY <1>0, <1>1, <1>2, <1>10 DEF Sound
    <3>. QED  BY <1>10, <3>1, <3>2 DEF Heads, Unpointed
  <2>3. c \notin OwnedIn(table, d)
    BY <1>1, <2>1, OnlyHead DEF Heads
  <2>4. \A x \in OwnedIn(table, d) : new[x] = table[x]
    BY <1>2, <2>3 DEF OwnedIn
  <2>5. PICK n \in 1 .. MaxLen : Ends(table, c, n)
    BY DEF Forest
  <2>6. \A k \in 0 .. MaxLen - 1 : ChainIn(table, d)[k] = ChainIn(table, c)[k + 1]
    BY <1>1, ChainRest
  <2>7. n # 1
    <3>. SUFFICES ASSUME n = 1 PROVE FALSE
      OBVIOUS
    <3>1. ChainIn(table, c)[0] = c /\ 1 - 1 = 0
      BY ChainFacts
    <3>. QED  BY <1>0, <1>10, <2>5, <3>1 DEF Ends
  <2>8. PICK m \in 1 .. MaxLen : m = n - 1
    BY <1>0, <2>7
  <2>9. Ends(table, d, m)
    <3>1. m - 1 \in 0 .. MaxLen - 1 /\ (m - 1) + 1 = n - 1
      BY <1>0, <2>8
    <3>2. ChainIn(table, d)[m - 1] = ChainIn(table, c)[n - 1]
      BY <2>6, <3>1
    <3>. QED  BY <2>5, <3>2 DEF Ends
  <2>10. Ends(new, d, m) /\ OwnedIn(new, d) = OwnedIn(table, d)
    <3>1. (\A x \in OwnedIn(table, d) : new[x] = table[x]) /\ Ends(table, d, m)
            => Ends(new, d, m) /\ OwnedIn(new, d) = OwnedIn(table, d)
      BY EndsKept
    <3>. QED  BY <2>4, <2>9, <3>1
  <2>11. ASSUME NEW x \in OwnedIn(table, c), x # c PROVE x \in OwnedIn(table, d)
    <3>1. PICK k \in 0 .. MaxLen : x = ChainIn(table, c)[k]
      BY DEF OwnedIn
    <3>2. k # 0
      BY <2>11, <3>1, ChainFacts
    <3>3. PICK j \in 0 .. MaxLen - 1 : k = j + 1 /\ j \in 0 .. MaxLen
      <4>1. k - 1 \in 0 .. MaxLen - 1 /\ k = (k - 1) + 1 /\ k - 1 \in 0 .. MaxLen
        BY <1>0, <3>2
      <4>. QED  BY <4>1
    <3>4. x = ChainIn(table, d)[j]
      BY <2>6, <3>1, <3>3
    <3>. QED  BY <3>3, <3>4 DEF OwnedIn
  <2>. QED  BY <2>2, <2>10, <2>11
<1>11. ASSUME NEW x \in Clusters, new[x] # FREE
       PROVE  \E r \in (roots \ {c}) \cup ({d} \cap Clusters) : x \in OwnedIn(new, r)
  <2>1. x # c /\ table[x] # FREE
    BY <1>2, <1>11
  <2>2. PICK r \in roots : x \in OwnedIn(table, r)
    BY <2>1 DEF Forest
  <2>3. CASE r # c
    BY <1>7, <2>2, <2>3
  <2>4. CASE r = c
    <3>1. d \in Clusters
      <4>. SUFFICES ASSUME d \notin Clusters PROVE FALSE
        OBVIOUS
      <4>1. PICK k \in 0 .. MaxLen : x = ChainIn(table, c)[k]
        BY <2>2, <2>4 DEF OwnedIn
      <4>2. ChainIn(table, c)[0] = c
        BY ChainFacts
      <4>3. k # 0
        BY <2>1, <4>1, <4>2
      <4>4. 1 \in 1 .. MaxLen /\ 1 \in 0 .. MaxLen /\ k \in 1 .. MaxLen /\ 1 - 1 = 0
        BY <1>0, <4>3
      <4>5. ChainIn(table, c)[1] = Follow(table, ChainIn(table, c)[0])
        BY <4>4, ChainFacts
      <4>6. ChainIn(table, c)[1] = d
        BY <1>1, <4>2, <4>5 DEF Follow
      <4>7. ChainIn(table, c)[k] = ChainIn(table, c)[1]
        BY <4>4, <4>6, ChainStops
      <4>. QED  BY <4>1, <4>6, <4>7
    <3>. QED  BY <1>10, <2>1, <2>2, <2>4, <3>1
  <2>. QED  BY <2>3, <2>4
<1>12. Forest(new, (roots \ {c}) \cup ({d} \cap Clusters))
  <2>1. \A r \in (roots \ {c}) \cup ({d} \cap Clusters) :
          Heads(new, r) /\ \E m \in 1 .. MaxLen : Ends(new, r, m)
    BY <1>9, <1>10
  <2>. QED  BY <1>4, <1>11, <2>1 DEF Forest
<1>. QED  BY <1>5, <1>7, <1>8, <1>12
-----------------------------------------------------------------------------
(***************************************************************************)
(* Types, for calls of every kind and whatever fails.                      *)
(***************************************************************************)
Tables == [Clusters -> Clusters \cup {FREE, EOC}]

(* What a call's local variables are at each of its steps.                 *)
CallTyped ==
  /\ Shaped(op)
  /\ pc = "idle" => op = NoOp
  /\ pc # "idle" =>
       /\ op.kind \in {"create", "append", "write", "delete"}
       /\ op.name \in Names /\ op.dir \in BOOLEAN /\ op.size \in 0 .. MaxLen
       /\ op.slot \in 1 .. MaxSlots /\ op.slot <= Len(dir) + 1
       /\ op.slot \in Live <=> op.kind # "create"
       /\ op.then = None \/ (op.then \in Names /\ op.kind = "create")
       /\ op.kind = "delete" => pc \in {"free", "freeMirror", "entry"}
  /\ op.first \in Clusters \cup {0} /\ op.last \in Clusters \cup {0} /\ op.need \in Nat
  /\ pc \in {"allocMirror", "link", "linkMirror", "data"} => op.cl \in Clusters /\ op.need > 0
  /\ pc = "fill" => op.kind = "append" /\ Len(op.rest) \in Nat

TypeInv ==
  /\ fat \in Tables /\ fat2 \in Tables
  /\ dir \in Seq(Entries) /\ Len(dir) <= MaxSlots
  /\ CallTyped

LEMMA TypeInit == Init => TypeInv
<1>. SUFFICES ASSUME Init PROVE TypeInv
  OBVIOUS
<1>1. fat \in Tables /\ fat2 \in Tables
  BY DEF Init, Tables
<1>2. dir \in Seq(Entries) /\ Len(dir) <= MaxSlots
  BY ConstantFacts DEF Init
<1>3. NoOp.need = 0 /\ pc = "idle" /\ op = NoOp
  BY DEF Init, NoOp
<1>4. CallTyped
  BY <1>3, NoOpFacts DEF CallTyped
<1>. QED  BY <1>1, <1>2, <1>4 DEF TypeInv

(* A call ends.                                                            *)
LEMMA TypedAnswer ==
  ASSUME TypeInv, fat' \in Tables, fat2' \in Tables,
         dir' \in Seq(Entries), Len(dir') <= MaxSlots, NEW b, Answer(b)
  PROVE  TypeInv'
<1>1. pc' = "idle" /\ op' = NoOp /\ NoOp.need = 0
  BY DEF Answer, NoOp
<1>2. CallTyped'
  BY <1>1, NoOpFacts DEF CallTyped
<1>. QED  BY <1>2 DEF TypeInv, Tables

LEMMA TypedRefuse == ASSUME TypeInv, Refuse PROVE TypeInv'
BY TypedAnswer DEF Refuse, disk, TypeInv

(* A call starts.                                                          *)
LEMMA TypedBegin ==
  ASSUME TypeInv, NEW r, NEW o, NEW at \in {"alloc", "fill", "free", "entry"},
         Begin(r, o, at),
         Shaped(o), o.kind \in {"create", "append", "write", "delete"},
         o.name \in Names, o.dir \in BOOLEAN, o.size \in 0 .. MaxLen,
         o.slot \in 1 .. MaxSlots, o.slot <= Len(dir) + 1,
         o.slot \in Live <=> o.kind # "create",
         o.then = None \/ (o.then \in Names /\ o.kind = "create"),
         o.kind = "delete" => at = "free",
         o.first \in Clusters \cup {0}, o.last \in Clusters \cup {0}, o.need \in Nat,
         at = "fill" => o.kind = "append" /\ Len(o.rest) \in Nat
  PROVE  TypeInv'
<1>1. op' = o /\ pc' = at /\ UNCHANGED <<fat, fat2, dir>>
  BY DEF Begin, disk
<1>2. Live' = Live
  BY <1>1, SameEntries
<1>3. CallTyped'
  BY <1>1, <1>2 DEF CallTyped
<1>. QED  BY <1>1, <1>3 DEF TypeInv, Tables

(* A call goes on.                                                         *)
LEMMA TypedOn ==
  ASSUME TypeInv, pc # "idle", fat' \in Tables, fat2' \in Tables, UNCHANGED dir, Same(op'),
         pc' \notin {"idle", "fill"},
         op.kind = "delete" => pc' \in {"free", "freeMirror", "entry"},
         op'.first \in Clusters \cup {0}, op'.last \in Clusters \cup {0}, op'.need \in Nat,
         pc' \in {"allocMirror", "link", "linkMirror", "data"} =>
           op'.cl \in Clusters /\ op'.need > 0
  PROVE  TypeInv'
<1>1. Live' = Live
  BY SameEntries
<1>2. CallTyped'
  BY <1>1 DEF TypeInv, CallTyped, Same
<1>. QED  BY <1>2 DEF TypeInv, Tables

\* Fields that a step may change.
LEMMA CallSteps ==
  ASSUME CallTyped
  PROVE  /\ op' = op => Same(op')
         /\ \A x : op' = [op EXCEPT !.cl = x] =>
              /\ Same(op') /\ op'.cl = x
              /\ op'.first = op.first /\ op'.last = op.last /\ op'.need = op.need
         /\ Linked => /\ Same(op') /\ op'.last = op.cl /\ op'.cl = op.cl /\ op'.need = op.need
                      /\ op'.first = IF op.last = 0 THEN op.cl ELSE op.first
         /\ Written => /\ Same(op') /\ op'.first = op.first /\ op'.last = op.last
                       /\ op'.cl = op.cl /\ op'.need = op.need - 1
         /\ \A x, y : op' = [op EXCEPT !.rest = x, !.need = y] =>
              /\ Same(op') /\ op'.first = op.first /\ op'.last = op.last /\ op'.need = y
         /\ op' = [op EXCEPT !.need = 0, !.first = 0] =>
              /\ Same(op') /\ op'.first = 0 /\ op'.last = op.last /\ op'.need = 0
<1>1. Shaped(op)
  BY DEF CallTyped
<1>2. Linked => /\ Same(op') /\ op'.last = op.cl /\ op'.cl = op.cl /\ op'.need = op.need
                /\ op'.first = IF op.last = 0 THEN op.cl ELSE op.first
  BY <1>1 DEF Shaped, Same, Linked
<1>3. Written => /\ Same(op') /\ op'.first = op.first /\ op'.last = op.last
                 /\ op'.cl = op.cl /\ op'.need = op.need - 1
  BY <1>1 DEF Shaped, Same, Written
<1>4. \A x, y : op' = [op EXCEPT !.rest = x, !.need = y] =>
              /\ Same(op') /\ op'.first = op.first /\ op'.last = op.last /\ op'.need = y
  BY <1>1 DEF Shaped, Same
<1>5. \A x : op' = [op EXCEPT !.cl = x] =>
              /\ Same(op') /\ op'.cl = x
              /\ op'.first = op.first /\ op'.last = op.last /\ op'.need = op.need
  BY <1>1 DEF Shaped, Same
<1>6. op' = [op EXCEPT !.need = 0, !.first = 0] =>
              /\ Same(op') /\ op'.first = 0 /\ op'.last = op.last /\ op'.need = 0
  BY <1>1 DEF Shaped, Same
<1>. QED  BY <1>1, <1>2, <1>3, <1>4, <1>5, <1>6 DEF Same

(* The entry that a call writes in the end.                                *)
LEMMA EntryWritten ==
  ASSUME TypeInv, WriteEntry
  PROVE  /\ UNCHANGED <<fat, fat2, data>>
         /\ dir' \in Seq(Entries) /\ Len(dir') <= MaxSlots /\ Len(dir') >= Len(dir)
         /\ dir'[op.slot] = NewEntry
         /\ \A i \in Live \ {op.slot} : dir'[i] = dir[i]
         /\ Live' = IF op.kind = "delete" THEN Live \ {op.slot} ELSE Live \cup {op.slot}
<1>0. pc = "entry" /\ UNCHANGED <<fat, fat2, data>>
  BY DEF WriteEntry
<1>1. /\ dir \in Seq(Entries) /\ Len(dir) \in Nat /\ Len(dir) <= MaxSlots
      /\ op.slot \in 1 .. MaxSlots /\ op.slot <= Len(dir) + 1 /\ MaxSlots \in Nat
      /\ op.kind = "delete" => op.slot <= Len(dir)
  BY <1>0, ConstantFacts DEF TypeInv, CallTyped, Live
<1>. PICK e : e = NewEntry
  OBVIOUS
<1>2. e \in Entries /\ (e = FreeEntry <=> op.kind = "delete")
  <2>1. /\ op.name \in Names /\ op.dir \in BOOLEAN /\ op.size \in 0 .. MaxLen
        /\ op.first \in Clusters \cup {0}
    BY <1>0 DEF TypeInv, CallTyped
  <2>2. Entry(op.name, op.dir, op.first, op.size) \in Entries
    BY <2>1 DEF Entry, Entries
  <2>3. Entry(op.name, op.dir, op.first, op.size) # FreeEntry
    <3>1. Entry(op.name, op.dir, op.first, op.size).name = op.name /\ FreeEntry.name = None
      BY DEF Entry, FreeEntry
    <3>. QED  BY <2>1, <3>1, FatAssumption
  <2>4. FreeEntry \in Entries
    BY ConstantFacts DEF FreeEntry, Entry, Entries, FREE
  <2>. QED  BY <2>2, <2>3, <2>4 DEF NewEntry
<1>3. CASE op.slot <= Len(dir)
  <2>1. dir' = [dir EXCEPT ![op.slot] = e]
    BY <1>3 DEF WriteEntry
  <2>2. /\ dir' \in Seq(Entries) /\ Len(dir') = Len(dir) /\ dir'[op.slot] = e
        /\ \A i \in (1 .. Len(dir)) \ {op.slot} : dir'[i] = dir[i]
    BY <1>1, <1>2, <1>3, <2>1
  <2>3. Live' = {i \in 1 .. Len(dir) : dir'[i] # FreeEntry}
    BY <2>2 DEF Live
  <2>4. Live' = IF e = FreeEntry THEN Live \ {op.slot} ELSE Live \cup {op.slot}
    BY <1>1, <1>3, <2>2, <2>3 DEF Live
  <2>. QED  BY <1>0, <1>1, <1>2, <2>2, <2>4 DEF Live
<1>4. CASE op.slot = Len(dir) + 1
  <2>1. dir' = Append(dir, e)
    BY <1>1, <1>4 DEF WriteEntry
  <2>2. /\ dir' \in Seq(Entries) /\ Len(dir') = Len(dir) + 1 /\ dir'[op.slot] = e
        /\ \A i \in 1 .. Len(dir) : dir'[i] = dir[i]
    BY <1>1, <1>2, <1>4, <2>1, AppendProperties
  <2>3. op.kind # "delete" /\ e # FreeEntry
    BY <1>1, <1>2, <1>4
  <2>4. Live' = Live \cup {op.slot}
    BY <1>1, <1>4, <2>2, <2>3 DEF Live
  <2>. QED  BY <1>0, <1>1, <1>4, <2>2, <2>3, <2>4 DEF Live
<1>. QED  BY <1>1, <1>3, <1>4

(* The local variables that calls start with.                              *)
NeedFor(t) == IF t = <<>> THEN 1 ELSE ClustersFor(Len(t))

LEMMA DeletingFacts ==
  ASSUME NEW n, NEW i, i = Min(Matches(n)), NEW o, o = Deleting(n)
  PROVE  /\ Shaped(o) /\ o.kind = "delete" /\ o.name = dir[i].name /\ o.then = None
         /\ o.dir = dir[i].dir /\ o.slot = i /\ o.first = 0 /\ o.last = 0
         /\ o.cl = dir[i].first /\ o.need = 0 /\ o.size = 0
BY DEF Deleting, Changing, NoOp, Shaped

LEMMA NeedFacts ==
  ASSUME NEW t, Len(t) \in 0 .. MaxLen
  PROVE  NeedFor(t) \in Nat /\ ClustersFor(Len(t)) \in Nat
<1>1. Len(t) \in Nat
  BY ConstantFacts
<1>. QED  BY <1>1, ClusterCount DEF NeedFor

LEMMA FileFacts ==
  ASSUME TypeInv, NEW n \in Names, Matches(n) # {}
  PROVE  \E i \in Live : /\ i = Min(Matches(n)) /\ i \in Matches(n)
                         /\ i \in 1 .. MaxSlots /\ i <= Len(dir) + 1
                         /\ dir[i] \in Entries /\ dir[i].name = n
<1>. PICK i \in Live : i = Min(Matches(n)) /\ i \in Matches(n) /\ dir[i] \in Entries
          /\ dir[i].name = n
  BY FirstMatch DEF TypeInv
<1>1. i \in 1 .. Len(dir) /\ Len(dir) \in Nat /\ Len(dir) <= MaxSlots /\ MaxSlots \in Nat
  BY ConstantFacts DEF Live, TypeInv
<1>2. i \in 1 .. MaxSlots /\ i <= Len(dir) + 1
  BY <1>1
<1>. QED  BY <1>2

\* The last cluster is found or there is none.
LEMMA LastClusterTyped ==
  ASSUME NEW e \in Entries, ~(e.first # 0 /\ LastCluster(e) \notin Clusters)
  PROVE  LastCluster(e) \in Clusters \cup {0}
<1>1. CASE e.first # 0
  BY <1>1
<1>2. CASE e.first = 0
  <2>1. PICK m : m = (IF e.size = 0 THEN 0 ELSE ClustersFor(e.size) - 1)
    OBVIOUS
  <2>2. m \in 0 .. MaxLen
    <3>1. e.size \in 0 .. MaxLen /\ MaxLen \in Nat
      BY ConstantFacts DEF Entries
    <3>2. CASE e.size = 0
      BY <2>1, <3>1, <3>2
    <3>3. CASE e.size # 0
      <4>1. e.size \in Nat /\ e.size > 0
        BY <3>1, <3>3
      <4>2. PICK q \in 0 .. MaxLen : q = ClustersFor(e.size)
        BY <3>1, SizeCount
      <4>3. PICK a \in Nat : a = e.size - 1
        BY <4>1
      <4>4. PICK z \in Nat : z = a \div ClusterSize
        BY <4>3, DivFacts, ConstantFacts
      <4>5. q = z + 1
        BY <4>1, <4>2, <4>3, <4>4, ClusterCount
      <4>. QED  BY <2>1, <3>1, <3>3, <4>2, <4>5
    <3>. QED  BY <3>2, <3>3
  <2>3. 0 \in 0 .. MaxLen /\ 0 \notin Clusters
    BY ConstantFacts DEF FREE
  <2>4. ChainIn(fat, 0)[0] = 0
    BY ChainFacts
  <2>5. ChainIn(fat, 0)[m] = 0
    BY <2>2, <2>3, <2>4, ChainStops
  <2>. QED  BY <1>2, <2>1, <2>5 DEF LastCluster, Chain
<1>. QED  BY <1>1, <1>2

LEMMA TypedCreate ==
  ASSUME TypeInv, NEW r, NEW n \in Names, NEW t, Len(t) \in 0 .. MaxLen,
         NEW then \in Names \cup {None}, EnterCreate(r, n, t, then)
  PROVE  TypeInv'
<1>1. CASE Refuse
  BY <1>1, TypedRefuse
<1>2. CASE FreeSlots # {} /\ Begin(r, Creating(n, t, then), "alloc")
  <2>. PICK o : o = Creating(n, t, then)
    OBVIOUS
  <2>1. /\ Shaped(o) /\ o.kind = "create" /\ o.name = n /\ o.then = then /\ o.dir = FALSE
        /\ o.slot = Min(FreeSlots) /\ o.first = 0 /\ o.last = 0
        /\ o.need = NeedFor(t) /\ o.size = Len(t)
    BY DEF Creating, NoOp, Shaped, NeedFor
  <2>2. o.slot \in 1 .. MaxSlots /\ o.slot <= Len(dir) + 1 /\ o.slot \notin Live
    BY <1>2, <2>1, SlotFacts DEF TypeInv
  <2>. QED  BY <1>2, <2>1, <2>2, NeedFacts, TypedBegin
<1>. QED  BY <1>1, <1>2 DEF EnterCreate

LEMMA TypedWrite ==
  ASSUME TypeInv, NEW r, NEW n \in Names, NEW t, Len(t) \in 0 .. MaxLen, Matches(n) # {},
         EnterWrite(r, n, t)
  PROVE  TypeInv'
<1>. PICK i \in Live : /\ i = Min(Matches(n)) /\ i \in 1 .. MaxSlots /\ i <= Len(dir) + 1
                       /\ dir[i] \in Entries /\ dir[i].name = n
  BY FileFacts
<1>. PICK o : o = [Changing("write", i, t, Len(t))
                     EXCEPT !.cl = dir[i].first, !.need = NeedFor(t)]
  OBVIOUS
<1>1. /\ Shaped(o) /\ o.kind = "write" /\ o.name = dir[i].name /\ o.then = None
      /\ o.dir = dir[i].dir /\ o.slot = i /\ o.first = 0 /\ o.last = 0
      /\ o.need = NeedFor(t) /\ o.size = Len(t)
  BY DEF Changing, NoOp, Shaped, NeedFor
<1>2. Begin(r, o, "free")
  BY DEF EnterWrite, NeedFor
<1>3. dir[i].dir \in BOOLEAN
  BY DEF Entries
<1>. QED  BY <1>1, <1>2, <1>3, NeedFacts, TypedBegin

LEMMA TypedDelete ==
  ASSUME TypeInv, NEW r, NEW n \in Names, Matches(n) # {}, Begin(r, Deleting(n), "free")
  PROVE  TypeInv'
<1>. PICK i \in Live : /\ i = Min(Matches(n)) /\ i \in 1 .. MaxSlots /\ i <= Len(dir) + 1
                       /\ dir[i] \in Entries /\ dir[i].name = n
  BY FileFacts
<1>. PICK o : o = Deleting(n)
  OBVIOUS
<1>1. /\ Shaped(o) /\ o.kind = "delete" /\ o.name = dir[i].name /\ o.then = None
      /\ o.dir = dir[i].dir /\ o.slot = i /\ o.first = 0 /\ o.last = 0
      /\ o.need = 0 /\ o.size = 0
  BY DeletingFacts
<1>2. dir[i].dir \in BOOLEAN /\ 0 \in 0 .. MaxLen
  BY ConstantFacts DEF Entries
<1>. QED  BY <1>1, <1>2, TypedBegin

LEMMA TypedAppend ==
  ASSUME TypeInv, NEW r, NEW n \in Names, NEW t, Len(t) \in 0 .. MaxLen, Matches(n) # {},
         dir[Min(Matches(n))].size + Len(t) <= MaxLen, EnterAppend(r, n, t)
  PROVE  TypeInv'
<1>1. CASE Refuse
  BY <1>1, TypedRefuse
<1>2. CASE ~Refuse
  <2>. PICK i \in Live : /\ i = Min(Matches(n)) /\ i \in 1 .. MaxSlots /\ i <= Len(dir) + 1
                         /\ dir[i] \in Entries /\ dir[i].name = n
    BY FileFacts
  <2>. PICK e \in Entries : e = dir[i]
    OBVIOUS
  <2>. PICK o : o = [Changing("append", i, t, e.size + Len(t))
                EXCEPT !.first = e.first, !.last = LastCluster(e), !.need = ClustersFor(Len(t))]
    OBVIOUS
  <2>1. /\ ~(e.first # 0 /\ LastCluster(e) \notin Clusters)
        /\ Begin(r, o, IF HasTail(e) THEN "fill" ELSE "alloc")
    BY <1>2 DEF EnterAppend
  <2>2. /\ Shaped(o) /\ o.kind = "append" /\ o.name = e.name /\ o.then = None
        /\ o.dir = e.dir /\ o.slot = i /\ o.first = e.first /\ o.last = LastCluster(e)
        /\ o.need = ClustersFor(Len(t)) /\ o.rest = t /\ o.size = e.size + Len(t)
    <3>. PICK last : last = LastCluster(e)
      OBVIOUS
    <3>. PICK need : need = ClustersFor(Len(t))
      OBVIOUS
    <3>. PICK size : size = e.size + Len(t)
      OBVIOUS
    <3>1. o = [Changing("append", i, t, size)
                 EXCEPT !.first = e.first, !.last = last, !.need = need]
      OBVIOUS
    <3>. QED  BY <3>1 DEF Changing, NoOp, Shaped
  <2>3. o.size \in 0 .. MaxLen
    <3>1. e.size \in Nat /\ Len(t) \in Nat /\ MaxLen \in Nat
      BY ConstantFacts DEF Entries
    <3>. QED  BY <2>2, <3>1
  <2>4. e.first \in Clusters \cup {0} /\ e.dir \in BOOLEAN /\ Len(t) \in Nat
    BY ConstantFacts DEF Entries
  <2>5. LastCluster(e) \in Clusters \cup {0}
    BY <2>1, LastClusterTyped
  <2>. PICK at \in {"fill", "alloc"} : at = IF HasTail(e) THEN "fill" ELSE "alloc"
    OBVIOUS
  <2>6. Begin(r, o, at)
    BY <2>1
  <2>7. o.need \in Nat
    BY <2>2, NeedFacts
  <2>8. /\ o.name \in Names /\ o.dir \in BOOLEAN /\ o.slot \in 1 .. MaxSlots
        /\ o.slot <= Len(dir) + 1 /\ o.slot \in Live
        /\ o.first \in Clusters \cup {0} /\ o.last \in Clusters \cup {0}
        /\ o.kind = "append" /\ Len(o.rest) \in Nat
    BY <2>2, <2>4, <2>5
  <2>. QED  BY <2>2, <2>3, <2>6, <2>7, <2>8, TypedBegin
<1>. QED  BY <1>1, <1>2

LEMMA TypedEntry ==
  ASSUME TypeInv, WriteEntry
  PROVE  TypeInv'
<1>1. /\ UNCHANGED <<fat, fat2>> /\ dir' \in Seq(Entries) /\ Len(dir') <= MaxSlots
      /\ Len(dir') >= Len(dir) /\ dir'[op.slot] = NewEntry
      /\ \A i \in Live \ {op.slot} : dir'[i] = dir[i]
      /\ Live' = IF op.kind = "delete" THEN Live \ {op.slot} ELSE Live \cup {op.slot}
  BY EntryWritten
<1>2. ASSUME NEW b, Answer(b) PROVE TypeInv'
  BY <1>1, <1>2, TypedAnswer DEF TypeInv
<1>3. CASE op.then # None /\ Matches(op.then) # {} /\ op' = Deleting(op.then)
      /\ pc' = "free"
  <2>1. op.then \in Names /\ op.kind = "create" /\ op.slot \notin Live
    BY <1>3 DEF TypeInv, CallTyped, WriteEntry
  <2>. PICK n \in Names : n = op.then
    BY <2>1
  <2>. PICK i \in Live : /\ i = Min(Matches(n)) /\ i \in 1 .. MaxSlots /\ i <= Len(dir) + 1
                         /\ dir[i] \in Entries /\ dir[i].name = n
    BY <1>3, FileFacts
  <2>2. /\ Shaped(op') /\ op'.kind = "delete" /\ op'.name = dir[i].name /\ op'.then = None
        /\ op'.dir = dir[i].dir /\ op'.slot = i /\ op'.first = 0 /\ op'.last = 0
        /\ op'.cl = dir[i].first /\ op'.need = 0 /\ op'.size = 0
    BY <1>3, DeletingFacts
  <2>3. dir[i].dir \in BOOLEAN /\ 0 \in 0 .. MaxLen
    BY ConstantFacts DEF Entries
  <2>4. i <= Len(dir') + 1
    <3>1. Len(dir) \in Nat /\ Len(dir') \in Nat /\ MaxSlots \in Nat
      BY <1>1, ConstantFacts DEF TypeInv
    <3>. QED  BY <1>1, <3>1
  <2>5. CallTyped'
    <3>1. op'.slot \in Live'
      BY <1>1, <2>1, <2>2
    <3>. QED  BY <1>3, <2>2, <2>3, <2>4, <3>1 DEF CallTyped
  <2>. QED  BY <1>1, <2>5 DEF TypeInv, Tables
<1>. QED  BY <1>2, <1>3 DEF WriteEntry, Return

(* Every step of a call keeps the types, whatever fails.                   *)
LEMMA TypedProgress ==
  ASSUME TypeInv, Progress
  PROVE  TypeInv'
<1>0. /\ CallTyped /\ fat \in Tables /\ fat2 \in Tables
      /\ dir \in Seq(Entries) /\ Len(dir) <= MaxSlots
      /\ op.first \in Clusters \cup {0} /\ op.last \in Clusters \cup {0} /\ op.need \in Nat
      /\ op' = op => Same(op')
  BY CallSteps DEF TypeInv, CallTyped
<1>1. ASSUME NEW b, Return(b), UNCHANGED disk PROVE TypeInv'
  <2>1. \E a : Answer(a)
    BY <1>1 DEF Return
  <2>. QED  BY <1>0, <1>1, <2>1, TypedAnswer DEF disk
<1>2. ASSUME NEW x \in Clusters, NEW y \in Clusters \cup {FREE, EOC}
      PROVE  [fat EXCEPT ![x] = y] \in Tables
  BY <1>0, <1>2 DEF Tables
<1>3. CASE FreeDone
  <2>1. /\ pc = "free" /\ pc' = AfterFree /\ op' = [op EXCEPT !.cl = 0]
        /\ UNCHANGED <<fat, fat2, dir>>
    BY <1>3 DEF FreeDone, disk
  <2>2. /\ Same(op') /\ op'.first = op.first /\ op'.last = op.last /\ op'.need = op.need
    BY <1>0, <2>1, CallSteps
  <2>. QED  BY <1>0, <2>1, <2>2, TypedOn DEF AfterFree
<1>4. CASE FreeCluster
  <2>1. pc = "free" /\ op.cl \in Clusters /\ pc' \in {"free", "freeMirror"}
    BY <1>4 DEF FreeCluster
  <2>2. UNCHANGED <<fat2, dir>> /\ fat' \in Tables
    <3>1. CASE SetFat(op.cl, FREE)
      BY <1>2, <2>1, <3>1 DEF SetFat
    <3>2. CASE UNCHANGED disk
      BY <1>0, <3>2 DEF disk
    <3>. QED  BY <1>4, <3>1, <3>2 DEF FreeCluster
  <2>3. PICK x : op' = [op EXCEPT !.cl = x]
    BY <1>4 DEF FreeCluster
  <2>4. /\ Same(op') /\ op'.first = op.first /\ op'.last = op.last /\ op'.need = op.need
    BY <1>0, <2>3, CallSteps
  <2>. QED  BY <1>0, <2>1, <2>2, <2>4, TypedOn
<1>5. CASE FreeMirror \/ AllocMirror
  <2>0. Mirror \/ UNCHANGED disk
    BY <1>5 DEF FreeMirror, AllocMirror
  <2>1. /\ (pc = "freeMirror" /\ pc' = "free") \/ (pc = "allocMirror" /\ pc' = "link")
        /\ op' = op
    BY <1>5 DEF FreeMirror, AllocMirror
  <2>3. UNCHANGED <<fat, dir>> /\ fat2' \in Tables
    BY <1>0, <2>0 DEF Mirror, disk
  <2>2. pc' = "link" => op.kind # "delete" /\ op.cl \in Clusters /\ op.need > 0
    BY <1>0, <2>1 DEF CallTyped
  <2>. QED  BY <1>0, <2>1, <2>2, <2>3, TypedOn
<1>6. CASE Alloc
  <2>1. PICK c \in Clusters : SetFat(c, EOC) /\ op' = [op EXCEPT !.cl = c]
    BY <1>6 DEF Alloc, EndMark
  <2>2. pc = "alloc" /\ op.need > 0 /\ pc' = "allocMirror" /\ op.kind # "delete"
    BY <1>0, <1>6 DEF Alloc, CallTyped
  <2>3. /\ Same(op') /\ op'.first = op.first /\ op'.last = op.last /\ op'.need = op.need
        /\ op'.cl = c
    BY <1>0, <2>1, CallSteps
  <2>4. fat' \in Tables /\ UNCHANGED <<fat2, dir>>
    BY <1>2, <2>1 DEF SetFat
  <2>. QED  BY <1>0, <2>2, <2>3, <2>4, TypedOn
<1>7. CASE AllocFails
  <2>1. CASE op' = [op EXCEPT !.need = 0, !.first = 0] /\ pc' = "alloc"
    <3>1. pc = "alloc" /\ op.kind # "delete" /\ UNCHANGED <<fat, fat2, dir>>
      BY <1>0, <1>7 DEF AllocFails, CallTyped, disk
    <3>2. Same(op') /\ op'.first = 0 /\ op'.last = op.last /\ op'.need = 0
      BY <1>0, <2>1, CallSteps
    <3>. QED  BY <1>0, <2>1, <3>1, <3>2, TypedOn
  <2>. QED  BY <1>1, <1>7, <2>1 DEF AllocFails
<1>8. CASE Link
  <2>0. pc = "link" /\ op.kind # "delete" /\ op.cl \in Clusters /\ op.need > 0
    BY <1>0, <1>8 DEF Link, CallTyped
  <2>1. CASE Linked /\ pc' \in {"linkMirror", "data"}
    <3>1. fat' \in Tables /\ UNCHANGED <<fat2, dir>>
      <4>1. CASE op.last # 0 /\ SetFat(op.last, op.cl)
        BY <1>0, <1>2, <2>0, <4>1 DEF SetFat
      <4>2. CASE UNCHANGED disk
        BY <1>0, <4>2 DEF disk
      <4>. QED  BY <1>8, <4>1, <4>2 DEF Link
    <3>2. /\ Same(op') /\ op'.last = op.cl /\ op'.cl = op.cl /\ op'.need = op.need
          /\ op'.first = IF op.last = 0 THEN op.cl ELSE op.first
      BY <1>0, <2>1, CallSteps
    <3>. QED  BY <1>0, <2>0, <2>1, <3>1, <3>2, TypedOn
  <2>. QED  BY <1>1, <1>8, <2>1 DEF Link, IgnoreOrFail
<1>9. CASE LinkMirror
  <2>0. pc = "linkMirror" /\ op.kind # "delete" /\ op.cl \in Clusters /\ op.need > 0
    BY <1>0, <1>9 DEF LinkMirror, CallTyped
  <2>1. CASE Linked /\ pc' = "data" /\ UNCHANGED disk
    <3>1. /\ Same(op') /\ op'.last = op.cl /\ op'.cl = op.cl /\ op'.need = op.need
          /\ op'.first = IF op.last = 0 THEN op.cl ELSE op.first
      BY <1>0, <2>1, CallSteps
    <3>. QED  BY <1>0, <2>0, <2>1, <3>1, TypedOn DEF disk
  <2>2. CASE Mirror /\ pc' = "data" /\ op' = op
    BY <1>0, <2>0, <2>2, TypedOn DEF Mirror
  <2>. QED  BY <1>1, <1>9, <2>1, <2>2 DEF LinkMirror, IgnoreOrFail
<1>10. CASE Data
  <2>0. pc = "data" /\ op.kind # "delete" /\ op.need > 0
    BY <1>0, <1>10 DEF Data, CallTyped
  <2>1. CASE Written /\ pc' = "alloc"
    <3>1. /\ Same(op') /\ op'.first = op.first /\ op'.last = op.last /\ op'.need = op.need - 1
      BY <1>0, <2>1, CallSteps
    <3>2. UNCHANGED <<fat, fat2, dir>>
      BY <1>10, <2>1 DEF Data, disk
    <3>. QED  BY <1>0, <2>0, <2>1, <3>1, <3>2, TypedOn
  <2>. QED  BY <1>1, <1>10, <2>1 DEF Data
<1>11. CASE Fill
  <2>1. CASE Return(FALSE) /\ UNCHANGED disk
    BY <1>1, <2>1
  <2>2. CASE ~(Return(FALSE) /\ UNCHANGED disk)
    <3>0. pc = "fill" /\ op.kind = "append" /\ Len(op.rest) \in Nat /\ op.slot \in Live
      BY <1>0, <1>11 DEF Fill, CallTyped
    <3>. PICK n : n = Least(ClusterSize - TailStart, Len(op.rest))
      OBVIOUS
    <3>1. /\ op' = [op EXCEPT !.rest = Drop(@, n), !.need = ClustersFor(Len(op.rest) - n)]
          /\ pc' = "alloc" /\ UNCHANGED <<fat, fat2, dir>>
      BY <1>11, <2>2 DEF Fill
    <3>2. ClustersFor(Len(op.rest) - n) \in Nat
      <4>1. PICK l \in Nat : l = Len(op.rest)
        BY <3>0
      <4>2. l - n \in Nat
        <5>1. PICK z \in Nat \ {0} : z = ClusterSize
          BY ConstantFacts
        <5>2. dir[op.slot] \in Entries
          BY <1>0, <3>0 DEF Live
        <5>3. PICK s \in Nat : s = dir[op.slot].size
          BY <5>2, ConstantFacts DEF Entries
        <5>4. PICK off \in Nat : off = TailStart
          BY <5>1, <5>3 DEF TailStart
        <5>. QED  BY <4>1, <5>1, <5>4 DEF Least
      <4>3. PICK m \in Nat : m = l - n
        BY <4>2
      <4>. QED  BY <4>1, <4>3, ClusterCount
    <3>3. PICK m \in Nat : m = ClustersFor(Len(op.rest) - n)
      BY <3>2
    <3>4. PICK x : op' = [op EXCEPT !.rest = x, !.need = m]
      BY <3>1, <3>3
    <3>5. /\ Same(op') /\ op'.first = op.first /\ op'.last = op.last /\ op'.need = m
      BY <1>0, <3>4, CallSteps
    <3>. QED  BY <1>0, <3>0, <3>1, <3>5, TypedOn
  <2>. QED  BY <2>1, <2>2
<1>12. CASE AllDone
  BY <1>0, <1>12, TypedOn DEF AllDone, disk
<1>13. CASE WriteEntry
  BY <1>13, TypedEntry
<1>14. CASE EntryFails
  BY <1>1, <1>14 DEF EntryFails
<1>. QED  BY <1>3, <1>4, <1>5, <1>6, <1>7, <1>8, <1>9, <1>10, <1>11, <1>12, <1>13, <1>14
             DEF Progress

LEMMA TypedNext ==
  ASSUME TypeInv, [Next]_vars
  PROVE  TypeInv'
<1>0. dir \in Seq(Entries) /\ \A t \in Texts : Len(t) \in 0 .. MaxLen
  BY FatAssumption DEF TypeInv
<1>1. CASE UNCHANGED vars
  <2>1. UNCHANGED <<fat, fat2, dir, op, pc>>
    BY <1>1 DEF vars, disk
  <2>. QED  BY <2>1, SameEntries DEF TypeInv, CallTyped, Tables
<1>2. CASE Progress
  BY <1>2, TypedProgress
<1>3. CASE PowerFails
  BY <1>3, TypedAnswer DEF PowerFails, disk, TypeInv
<1>4. ASSUME NEW n \in Names, NEW t \in Texts, Create(n, t) PROVE TypeInv'
  BY <1>0, <1>4, TypedCreate DEF Create
<1>5. ASSUME NEW n \in Names, NEW t \in Texts, Write(n, t) PROVE TypeInv'
  <2>. PICK r : r = Request("write", n, t, None)
    OBVIOUS
  <2>1. (Matches(n) # {} /\ EnterWrite(r, n, t)) \/ EnterCreate(r, n, t, None)
    BY <1>5 DEF Write, Lookup
  <2>. QED  BY <1>0, <2>1, TypedCreate, TypedWrite
<1>6. ASSUME NEW n \in Names, NEW t \in Texts, AppendTo(n, t) PROVE TypeInv'
  <2>. PICK r : r = Request("append", n, t, None)
    OBVIOUS
  <2>1. (Matches(n) # {} /\ EnterAppend(r, n, t)) \/ EnterCreate(r, n, t, None)
    BY <1>6 DEF AppendTo, Lookup
  <2>2. Matches(n) # {} => dir[Min(Matches(n))].size + Len(t) <= MaxLen
    BY <1>0, <1>6, FirstMatch DEF AppendTo
  <2>. QED  BY <1>0, <2>1, <2>2, TypedCreate, TypedAppend
<1>7. ASSUME NEW n \in Names, Delete(n) PROVE TypeInv'
  BY <1>7, TypedDelete, TypedRefuse DEF Delete, Lookup
<1>8. ASSUME NEW n \in Names, Mkdir(n) PROVE TypeInv'
  <2>1. CASE Refuse
    BY <2>1, TypedRefuse
  <2>. PICK o : o = [NoOp EXCEPT !.kind = "create", !.name = n, !.dir = TRUE,
                                 !.slot = Min(FreeSlots)]
    OBVIOUS
  <2>. PICK r : r = Request("mkdir", n, <<>>, None)
    OBVIOUS
  <2>2. CASE FreeSlots # {} /\ Begin(r, o, "entry")
    <3>1. /\ Shaped(o) /\ o.kind = "create" /\ o.name = n /\ o.then = None /\ o.dir = TRUE
          /\ o.slot = Min(FreeSlots) /\ o.first = 0 /\ o.last = 0 /\ o.need = 0 /\ o.size = 0
      BY DEF NoOp, Shaped
    <3>2. o.slot \in 1 .. MaxSlots /\ o.slot <= Len(dir) + 1 /\ o.slot \notin Live
      BY <1>0, <2>2, <3>1, SlotFacts
    <3>3. /\ o.size \in 0 .. MaxLen /\ o.need \in Nat /\ o.dir \in BOOLEAN /\ o.name \in Names
          /\ o.slot \in Live <=> o.kind # "create"
          /\ o.first \in Clusters \cup {0} /\ o.last \in Clusters \cup {0}
      BY <3>1, <3>2, ConstantFacts
    <3>4. Begin(r, o, "entry")
      BY <2>2
    <3>. QED  BY <3>1, <3>2, <3>3, <3>4, TypedBegin
  <2>. QED  BY <1>8, <2>1, <2>2 DEF Mkdir
<1>9. ASSUME NEW kind, NEW n \in Names, NEW m \in Names, Copy(kind, n, m) PROVE TypeInv'
  <2>1. PICK i \in Matches(n) :
          EnterCreate(Request(kind, n, <<>>, m), m,
            SubSeq(Text(dir[i]), 1, Least(CopyLimit, Len(Text(dir[i])))),
            IF kind = "mv" THEN n ELSE None)
    BY <1>9 DEF Copy
  <2>2. dir[i] \in Entries
    BY <1>0 DEF Matches, Live
  <2>. PICK s : s = SubSeq(Text(dir[i]), 1, Least(CopyLimit, Len(Text(dir[i]))))
    OBVIOUS
  <2>. PICK then \in Names \cup {None} : then = IF kind = "mv" THEN n ELSE None
    OBVIOUS
  <2>. PICK r : r = Request(kind, n, <<>>, m)
    OBVIOUS
  <2>3. EnterCreate(r, m, s, then) /\ Len(s) \in 0 .. MaxLen
    BY <2>1, <2>2, CopyLength
  <2>. QED  BY <2>3, TypedCreate
<1>. QED  BY <1>1, <1>2, <1>3, <1>4, <1>5, <1>6, <1>7, <1>8, <1>9 DEF Next

LEMMA TypesOK == TypeInv => TypeOK
<1>. SUFFICES ASSUME TypeInv PROVE TypeOK
  OBVIOUS
<1>1. \A i \in Live : dir[i] \in Entries
  BY DEF TypeInv, Live
<1>2. {fat[c] : c \in Clusters} \cup {fat2[c] : c \in Clusters} \subseteq Clusters \cup {FREE, EOC}
  BY DEF TypeInv, Tables
<1>. QED  BY <1>1, <1>2 DEF TypeOK, TypeInv, CallTyped, Entries

(* Whatever fails and wherever calls are cut off, the FAT's entries are    *)
(* clusters or marks and the directory's are files that fit.               *)
THEOREM Fat32TypeOK == Spec => []TypeOK
<1>1. TypeInv /\ [Next]_vars => TypeInv'
  BY TypedNext
<1>. QED  BY <1>1, TypesOK, TypeInit, PTL DEF Spec
-----------------------------------------------------------------------------
(***************************************************************************)
(* Space.  The roots of the forest are the files' first clusters, that of  *)
(* the chain that the call builds, and the cluster that it is about to     *)
(* free or to link; every file has as many clusters as its size asks for.  *)
(* A call that fails leaves its clusters behind, a sector that cannot be   *)
(* written may leave a freed chain's marks: both are out of SpaceInv.      *)
(***************************************************************************)

\* The clusters of a file of that size: an empty one keeps a cluster.
Count(size) == IF size = 0 THEN 1 ELSE ClustersFor(size)

Stored(table, e) == (e.first = 0 /\ e.size = 0) \/ Ends(table, e.first, Count(e.size))

\* A cluster that the call is about to free or to link.
Loose == IF pc \in {"free", "freeMirror", "allocMirror", "link"} THEN {op.cl} ELSE {}

Roots == ({dir[i].first : i \in Others} \cup {op.first} \cup Loose) \cap Clusters

Apart ==
  /\ \A i, j \in Others : i # j /\ dir[i].first = dir[j].first => dir[i].first = 0
  /\ \A i \in Others : dir[i].first = op.first => op.first = 0
  /\ \A c \in Loose \cap Clusters : c # op.first /\ \A i \in Others : dir[i].first # c

Owners == Forest(fat, Roots) /\ Apart /\ \A i \in Others : Stored(fat, dir[i])

Enough(n) == n = Count(op.size) \/ (n = 0 /\ op.size = 0)

(* The call has n clusters of the chain that it builds.                    *)
Built(n) ==
  /\ IF n = 0 THEN op.first = 0 /\ op.last = 0
     ELSE Ends(fat, op.first, n) /\ op.last = Chain(op.first)[n - 1]
  /\ op.kind = "append" => dir[op.slot].first \in {0, op.first}
  /\ pc # "fill" => Enough(n + op.need - IF pc \in {"linkMirror", "data"} THEN 1 ELSE 0)
  /\ pc \in {"free", "freeMirror"} => n = 0
  /\ op.kind = "delete" => n = 0 /\ op.need = 0
  /\ pc \in {"allocMirror", "link"} => fat[op.cl] = EOC
  /\ pc \in {"linkMirror", "data"} => n > 0 /\ op.cl = op.last
  /\ pc = "fill" => /\ n = Count(dir[op.slot].size) /\ HasTail(dir[op.slot])
                    /\ op.size = dir[op.slot].size + Len(op.rest)
  /\ pc = "entry" => op.need = 0

BuiltSome == \E n \in 0 .. MaxLen : Built(n)

SpaceInv == ~failed => Owners /\ BuiltSome
-----------------------------------------------------------------------------
LEMMA CeilFacts ==
  ASSUME NEW x \in Nat
  PROVE  \E q \in Nat : /\ q = ClustersFor(x)
                        /\ ClusterSize * q >= x /\ ClusterSize * q < x + ClusterSize
<1>1. PICK z \in Nat \ {0} : z = ClusterSize
  BY ConstantFacts
<1>2. PICK a \in Nat : a = x + z - 1
  BY <1>1
<1>3. PICK q \in Nat : q = a \div z /\ z * q <= a /\ a < z * q + z
  BY DivFacts
<1>4. q = ClustersFor(x)
  BY <1>1, <1>2, <1>3 DEF ClustersFor
<1>5. z * q \in Nat
  OBVIOUS
<1>. QED  BY <1>1, <1>2, <1>3, <1>4, <1>5

LEMMA CeilUnique ==
  ASSUME NEW x \in Nat, NEW q \in Nat,
         ClusterSize * q >= x, ClusterSize * q < x + ClusterSize
  PROVE  ClustersFor(x) = q
<1>1. PICK z \in Nat \ {0} : z = ClusterSize
  BY ConstantFacts
<1>2. PICK a \in Nat : a = x + z - 1
  BY <1>1
<1>3. PICK m \in Nat : m = z * q
  OBVIOUS
<1>4. m <= a /\ a < m + z
  BY <1>1, <1>2, <1>3
<1>5. a \div z = q
  BY <1>3, <1>4, DivUnique
<1>. QED  BY <1>1, <1>2, <1>5 DEF ClustersFor

LEMMA CountFacts ==
  ASSUME NEW s \in 0 .. MaxLen
  PROVE  Count(s) \in 1 .. MaxLen
<1>0. s \in Nat /\ MaxLen \in Nat /\ MaxLen > 0
  BY ConstantFacts
<1>1. CASE s = 0
  BY <1>0, <1>1 DEF Count
<1>2. CASE s # 0
  <2>1. PICK q \in 0 .. MaxLen : q = ClustersFor(s)
    BY SizeCount
  <2>2. q # 0
    <3>. SUFFICES ASSUME q = 0 PROVE FALSE
      OBVIOUS
    <3>1. PICK p \in Nat : p = ClustersFor(s) /\ ClusterSize * p >= s
      BY <1>0, CeilFacts
    <3>2. p = 0 /\ ClusterSize * 0 = 0
      BY <2>1, <3>1, ConstantFacts
    <3>. QED  BY <1>0, <1>2, <3>1, <3>2
  <2>. QED  BY <1>0, <1>2, <2>1, <2>2 DEF Count
<1>. QED  BY <1>1, <1>2

\* A file whose last cluster is full grows by the clusters of the new text,
LEMMA FullCount ==
  ASSUME NEW s \in Nat, NEW l \in Nat, s # 0, s % ClusterSize = 0
  PROVE  ClustersFor(s) + ClustersFor(l) = ClustersFor(s + l)
<1>1. PICK z \in Nat \ {0} : z = ClusterSize
  BY ConstantFacts
<1>2. PICK a \in Nat : a = s \div z /\ z * a <= s /\ s % z = s - z * a
  BY DivFacts
<1>3. z * a = s
  <2>1. z * a \in Nat /\ s % z = 0
    BY <1>1
  <2>. QED  BY <1>2, <2>1
<1>4. ClustersFor(s) = a
  BY <1>1, <1>3, CeilUnique
<1>5. PICK b \in Nat : b = ClustersFor(l) /\ z * b >= l /\ z * b < l + z
  BY <1>1, CeilFacts
<1>6. z * (a + b) = z * a + z * b /\ z * b \in Nat
  OBVIOUS
<1>7. z * (a + b) >= s + l /\ z * (a + b) < s + l + z
  BY <1>3, <1>5, <1>6
<1>8. a + b \in Nat /\ s + l \in Nat
  OBVIOUS
<1>9. ClustersFor(s + l) = a + b
  BY <1>1, <1>7, <1>8, CeilUnique
<1>. QED  BY <1>4, <1>5, <1>9

\* any other one by those of what the tail does not take.
TailOf(s) == s % ClusterSize
Taken(off, l) == Least(ClusterSize - off, l)

LEMMA TailCount ==
  ASSUME NEW s \in Nat, NEW l \in Nat, s = 0 \/ s % ClusterSize # 0
  PROVE  /\ l - Taken(TailOf(s), l) \in Nat
         /\ Count(s) + ClustersFor(l - Taken(TailOf(s), l)) = Count(s + l)
<1>. PICK n : n = Taken(TailOf(s), l)
  OBVIOUS
<1>1. PICK z \in Nat \ {0} : z = ClusterSize
  BY ConstantFacts
<1>2. PICK a \in Nat : a = s \div z /\ z * a <= s /\ s < z * a + z /\ s % z = s - z * a
  BY DivFacts
<1>3. PICK m \in Nat : m = z * a
  OBVIOUS
<1>4. n = Least(z - (s - m), l)
  <2>. PICK off : off = TailOf(s)
    OBVIOUS
  <2>1. off = s - m
    BY <1>1, <1>2, <1>3 DEF TailOf
  <2>2. ClusterSize - off = z - (s - m)
    BY <1>1, <2>1
  <2>3. n = Least(ClusterSize - off, l)
    BY DEF Taken
  <2>. QED  BY <2>2, <2>3
<1>5. z * (a + 1) = m + z
  BY <1>3
<1>6. Count(s) = a + 1
  <2>1. CASE s = 0
    <3>1. m = 0
      BY <1>2, <1>3, <2>1
    <3>2. a = 0
      BY <1>3, <3>1
    <3>. QED  BY <2>1, <3>2 DEF Count
  <2>2. CASE s # 0
    <3>1. s % z # 0
      BY <1>1, <2>2
    <3>2. s > m
      BY <1>2, <1>3, <3>1
    <3>3. ClusterSize * (a + 1) >= s /\ ClusterSize * (a + 1) < s + ClusterSize
      BY <1>1, <1>2, <1>3, <1>5, <3>2
    <3>4. ClustersFor(s) = a + 1
      BY <3>3, CeilUnique
    <3>. QED  BY <2>2, <3>4 DEF Count
  <2>. QED  BY <2>1, <2>2
<1>7. CASE l <= z - (s - m)
  <2>1. n = l /\ l - n = 0
    BY <1>1, <1>4, <1>7, <1>2, <1>3 DEF Least
  <2>2. ClustersFor(0) = 0
    BY ClusterCount
  <2>3. Count(s + l) = a + 1
    <3>1. CASE s + l = 0
      <4>1. s = 0 /\ l = 0
        BY <3>1
      <4>. QED  BY <1>6, <3>1, <4>1
    <3>2. CASE s + l # 0
      <4>1. s + l > m
        <5>1. CASE s = 0
          <6>1. m = 0
            BY <1>2, <1>3, <5>1
          <6>. QED  BY <3>2, <6>1
        <5>2. CASE s # 0
          <6>1. s % z # 0
            BY <1>1, <5>2
          <6>. QED  BY <1>2, <1>3, <6>1
        <5>. QED  BY <5>1, <5>2
      <4>2. ClusterSize * (a + 1) >= s + l /\ ClusterSize * (a + 1) < s + l + ClusterSize
        BY <1>1, <1>5, <1>7, <4>1
      <4>3. PICK x \in Nat : x = s + l
        OBVIOUS
      <4>4. ClustersFor(x) = a + 1
        BY <4>2, <4>3, CeilUnique
      <4>. QED  BY <3>2, <4>3, <4>4 DEF Count
    <3>. QED  BY <3>1, <3>2
  <2>4. ClustersFor(l - n) = 0 /\ l - n \in Nat
    BY <2>1, <2>2
  <2>. QED  BY <1>6, <2>3, <2>4
<1>8. CASE l > z - (s - m)
  <2>1. n = z - (s - m)
    BY <1>1, <1>4, <1>8, <1>2, <1>3 DEF Least
  <2>2. PICK y \in Nat : y = l - n
    <3>1. PICK d \in Nat : d = z - (s - m) /\ l - d \in Nat
      BY <1>1, <1>2, <1>3, <1>8
    <3>2. n = d
      BY <2>1, <3>1
    <3>. QED  BY <3>1, <3>2
  <2>3. PICK b \in Nat : b = ClustersFor(y) /\ z * b >= y /\ z * b < y + z
    BY <1>1, CeilFacts
  <2>4. PICK x \in Nat : x = s + l /\ x # 0
    BY <1>2, <1>3, <1>8
  <2>5. PICK p \in Nat : p = z * b
    OBVIOUS
  <2>6. z * (a + 1 + b) = m + z + p
    BY <1>3, <2>5
  <2>7. z * (a + 1 + b) >= x /\ z * (a + 1 + b) < x + z
    BY <1>2, <1>3, <2>1, <2>2, <2>3, <2>4, <2>5, <2>6
  <2>8. ClustersFor(x) = a + 1 + b
    BY <1>1, <2>7, CeilUnique
  <2>. QED  BY <1>6, <2>2, <2>3, <2>4, <2>8 DEF Count
<1>. QED  BY <1>2, <1>3, <1>7, <1>8

LEMMA RefuseFails == ASSUME Refuse PROVE failed'
BY DEF Refuse, Answer

LEMMA NoChain == ASSUME NEW table, NEW n PROVE ~Ends(table, 0, n)
<1>. SUFFICES ASSUME Ends(table, 0, n) PROVE FALSE
  OBVIOUS
<1>1. 0 \in 0 .. MaxLen /\ 0 \notin Clusters /\ ChainIn(table, 0)[0] = 0
  BY ChainFacts, ConstantFacts DEF FREE
<1>2. PICK k \in 0 .. MaxLen : k = n - 1
  BY ConstantFacts DEF Ends
<1>3. ChainIn(table, 0)[k] = 0
  BY <1>1, ChainStops
<1>. QED  BY <1>1, <1>2, <1>3 DEF Ends

(* Starting a call moves the entry it is about out of the others.          *)
LEMMA OwnersBegin ==
  ASSUME TypeInv, Owners, pc = "idle", NEW r, NEW o, NEW at, Begin(r, o, at),
         \/ o.slot \notin Live /\ o.first = 0 /\ at \in {"alloc", "entry"}
         \/ o.slot \in Live /\ o.first = 0 /\ at = "free" /\ o.cl = dir[o.slot].first
         \/ o.slot \in Live /\ o.first = dir[o.slot].first /\ at \in {"fill", "alloc"}
  PROVE  Owners'
<1>1. op = NoOp /\ op' = o /\ pc' = at /\ UNCHANGED <<fat, dir>>
  BY DEF TypeInv, CallTyped, Begin, disk
<1>2. Live' = Live /\ Others' = Live \ {o.slot} /\ Others = Live /\ 0 \notin Clusters
  BY <1>1, SameEntries, NoOpFacts, ConstantFacts DEF Others, Live, FREE
<1>3. Loose = {} /\ Loose' = IF at = "free" THEN {o.cl} ELSE {}
  BY <1>1 DEF Loose
<1>4. Roots = {dir[i].first : i \in Live} \cap Clusters
  BY <1>1, <1>2, <1>3, NoOpFacts DEF Roots
<1>5. Roots' = ({dir[i].first : i \in Live \ {o.slot}} \cup {o.first} \cup Loose') \cap Clusters
  BY <1>1, <1>2 DEF Roots
<1>6. Roots' = Roots
  BY <1>2, <1>3, <1>4, <1>5
<1>7. \A i, j \in Live : i # j /\ dir[i].first = dir[j].first => dir[i].first = 0
  BY <1>2 DEF Owners, Apart
<1>8. Apart'
  <2>1. \A i, j \in Others' : i # j /\ dir'[i].first = dir'[j].first => dir'[i].first = 0
    BY <1>1, <1>2, <1>7
  <2>2. \A i \in Others' : dir'[i].first = op'.first => op'.first = 0
    BY <1>1, <1>2, <1>7
  <2>3. \A c \in Loose' \cap Clusters : c # op'.first
        /\ \A i \in Others' : dir'[i].first # c
    BY <1>1, <1>2, <1>3, <1>7
  <2>. QED  BY <2>1, <2>2, <2>3 DEF Apart
<1>9. \A i \in Others' : Stored(fat', dir'[i])
  BY <1>1, <1>2 DEF Owners
<1>. QED  BY <1>1, <1>6, <1>8, <1>9 DEF Owners

LEMMA NeedIsEnough ==
  ASSUME NEW t, Len(t) \in 0 .. MaxLen, NEW l, l = Len(t), NEW need, need = NeedFor(t)
  PROVE  need = Count(l) \/ (need = 0 /\ l = 0)
<1>1. CASE t = <<>>
  <2>1. l = 0 /\ need = 1
    BY <1>1 DEF NeedFor
  <2>. QED  BY <2>1 DEF Count
<1>2. CASE t # <<>>
  <2>1. need = ClustersFor(l)
    BY <1>2 DEF NeedFor
  <2>2. l = 0 => need = 0
    BY <2>1, ClusterCount
  <2>. QED  BY <2>1, <2>2 DEF Count
<1>. QED  BY <1>1, <1>2

\* A call that has no cluster yet.
LEMMA BuiltNone ==
  ASSUME op'.first = 0, op'.last = 0, op'.kind = "append" => dir'[op'.slot].first = 0,
         NEW need, op'.need = need, need \in Nat,
         need = Count(op'.size) \/ (need = 0 /\ op'.size = 0),
         pc' \in {"idle", "alloc", "free", "freeMirror", "entry"},
         pc' = "entry" \/ op'.kind = "delete" => need = 0
  PROVE  BuiltSome'
<1>1. 0 \in 0 .. MaxLen /\ 0 + need - 0 = need
  BY ConstantFacts
<1>2. Built(0)'
  BY <1>1 DEF Built, Enough
<1>. QED  BY <1>1, <1>2 DEF BuiltSome

LEMMA SpaceCreate ==
  ASSUME TypeInv, Owners, pc = "idle", NEW r, NEW n \in Names, NEW t,
         Len(t) \in 0 .. MaxLen,
         NEW then \in Names \cup {None}, EnterCreate(r, n, t, then)
  PROVE  failed' \/ (Owners' /\ BuiltSome')
<1>1. CASE Refuse
  BY <1>1, RefuseFails
<1>2. CASE FreeSlots # {} /\ Begin(r, Creating(n, t, then), "alloc")
  <2>. PICK o : o = Creating(n, t, then)
    OBVIOUS
  <2>1. /\ o.kind = "create" /\ o.slot = Min(FreeSlots) /\ o.first = 0 /\ o.last = 0
        /\ o.need = NeedFor(t) /\ o.size = Len(t)
    BY DEF Creating, NoOp, NeedFor
  <2>2. o.slot \notin Live
    BY <1>2, <2>1, SlotFacts DEF TypeInv
  <2>3. op' = o /\ pc' = "alloc"
    BY <1>2 DEF Begin
  <2>4. PICK need \in Nat : need = o.need /\ (need = Count(o.size) \/ (need = 0
             /\ o.size = 0))
    BY <2>1, NeedFacts, NeedIsEnough
  <2>. QED  BY <1>2, <2>1, <2>2, <2>3, <2>4, OwnersBegin, BuiltNone
<1>. QED  BY <1>1, <1>2 DEF EnterCreate

LEMMA SpaceMkdir ==
  ASSUME TypeInv, Owners, pc = "idle", NEW n \in Names, Mkdir(n)
  PROVE  failed' \/ (Owners' /\ BuiltSome')
<1>1. CASE Refuse
  BY <1>1, RefuseFails
<1>. PICK o : o = [NoOp EXCEPT !.kind = "create", !.name = n, !.dir = TRUE,
                               !.slot = Min(FreeSlots)]
  OBVIOUS
<1>. PICK r : r = Request("mkdir", n, <<>>, None)
  OBVIOUS
<1>2. CASE FreeSlots # {} /\ Begin(r, o, "entry")
  <2>1. /\ o.kind = "create" /\ o.slot = Min(FreeSlots) /\ o.first = 0 /\ o.last = 0
        /\ o.need = 0 /\ o.size = 0
    BY DEF NoOp
  <2>2. o.slot \notin Live
    BY <1>2, <2>1, SlotFacts DEF TypeInv
  <2>3. op' = o /\ pc' = "entry"
    BY <1>2 DEF Begin
  <2>4. Owners'
    BY <1>2, <2>1, <2>2, OwnersBegin
  <2>5. PICK need \in Nat : need = 0
    OBVIOUS
  <2>. QED  BY <2>1, <2>3, <2>4, <2>5, BuiltNone
<1>. QED  BY <1>1, <1>2 DEF Mkdir

LEMMA SpaceWrite ==
  ASSUME TypeInv, Owners, pc = "idle", NEW r, NEW n \in Names, NEW t,
         Len(t) \in 0 .. MaxLen,
         Matches(n) # {}, EnterWrite(r, n, t)
  PROVE  Owners' /\ BuiltSome'
<1>. PICK i \in Live : i = Min(Matches(n))
  BY FileFacts
<1>. PICK o : o = [Changing("write", i, t, Len(t))
                     EXCEPT !.cl = dir[i].first, !.need = NeedFor(t)]
  OBVIOUS
<1>1. /\ o.kind = "write" /\ o.slot = i /\ o.first = 0 /\ o.last = 0
      /\ o.need = NeedFor(t) /\ o.size = Len(t) /\ o.cl = dir[i].first
  BY DEF Changing, NoOp, NeedFor
<1>2. Begin(r, o, "free") /\ op' = o /\ pc' = "free"
  BY DEF EnterWrite, NeedFor, Begin
<1>3. PICK need \in Nat : need = o.need /\ (need = Count(o.size) \/ (need = 0
           /\ o.size = 0))
  BY <1>1, NeedFacts, NeedIsEnough
<1>. QED  BY <1>1, <1>2, <1>3, OwnersBegin, BuiltNone

LEMMA SpaceDelete ==
  ASSUME TypeInv, Owners, pc = "idle", NEW r, NEW n \in Names, Matches(n) # {},
         Begin(r, Deleting(n), "free")
  PROVE  Owners' /\ BuiltSome'
<1>. PICK i \in Live : i = Min(Matches(n))
  BY FileFacts
<1>. PICK o : o = Deleting(n)
  OBVIOUS
<1>1. /\ o.kind = "delete" /\ o.slot = i /\ o.first = 0 /\ o.last = 0
      /\ o.need = 0 /\ o.size = 0 /\ o.cl = dir[i].first
  BY DeletingFacts
<1>2. op' = o /\ pc' = "free"
  BY DEF Begin
<1>3. PICK need \in Nat : need = 0
  OBVIOUS
<1>. QED  BY <1>1, <1>2, <1>3, OwnersBegin, BuiltNone

(* An append finds the chain of its file complete, and its last cluster.   *)
LEMMA SpaceAppend ==
  ASSUME TypeInv, Owners, pc = "idle", NEW r, NEW n \in Names, NEW t,
         Len(t) \in 0 .. MaxLen,
         Matches(n) # {}, EnterAppend(r, n, t)
  PROVE  failed' \/ (Owners' /\ BuiltSome')
<1>1. CASE Refuse
  BY <1>1, RefuseFails
<1>2. CASE ~Refuse
  <2>. PICK i \in Live : i = Min(Matches(n)) /\ dir[i] \in Entries
    BY FileFacts
  <2>. PICK e \in Entries : e = dir[i]
    OBVIOUS
  <2>. PICK last : last = LastCluster(e)
    OBVIOUS
  <2>. PICK l \in Nat : l = Len(t)
    BY ConstantFacts
  <2>. PICK s \in 0 .. MaxLen : s = e.size
    BY DEF Entries
  <2>0. s \in Nat /\ MaxLen \in Nat /\ ClusterSize \in Nat \ {0}
    BY ConstantFacts
  <2>. PICK need \in Nat : need = ClustersFor(l)
    BY ClusterCount
  <2>. PICK o : o = [Changing("append", i, t, s + l)
                EXCEPT !.first = e.first, !.last = last, !.need = need]
    OBVIOUS
  <2>. PICK at \in {"fill", "alloc"} : at = IF HasTail(e) THEN "fill" ELSE "alloc"
    OBVIOUS
  <2>1. Begin(r, o, at) /\ op' = o /\ pc' = at
    BY <1>2 DEF EnterAppend, Begin
  <2>2. /\ o.kind = "append" /\ o.slot = i /\ o.first = e.first /\ o.last = last
        /\ o.need = need /\ o.rest = t /\ o.size = s + l
    BY DEF Changing, NoOp
  <2>3. Owners'
    BY <2>1, <2>2, OwnersBegin
  <2>4. UNCHANGED <<fat, dir>>
    BY <2>1 DEF Begin, disk
  <2>5. Stored(fat, e)
    <3>1. Others = Live
      BY NoOpFacts DEF TypeInv, CallTyped, Others, Live
    <3>. QED  BY <3>1 DEF Owners
  <2>6. CASE e.first = 0
    <3>1. s = 0 /\ at = "alloc"
      <4>1. e.size = 0
        BY <2>5, <2>6, NoChain DEF Stored
      <4>. QED  BY <2>6, <4>1 DEF HasTail
    <3>2. last = 0
      <4>1. 0 \in 0 .. MaxLen /\ ChainIn(fat, 0)[0] = 0
        BY ChainFacts, ConstantFacts
      <4>2. last = Chain(e.first)[0]
        BY <3>1 DEF LastCluster
      <4>. QED  BY <2>6, <4>1, <4>2 DEF Chain
    <3>3. need = Count(l) \/ (need = 0 /\ l = 0)
      BY ClusterCount DEF Count
    <3>4. 0 \in 0 .. MaxLen /\ 0 + need - 0 = need /\ s + l = l
      BY <3>1, ConstantFacts
    <3>5. Enough(need)'
      BY <2>1, <2>2, <3>3, <3>4 DEF Enough
    <3>6. Built(0)'
      BY <2>1, <2>2, <2>4, <2>6, <3>1, <3>2, <3>4, <3>5 DEF Built
    <3>. QED  BY <2>3, <3>4, <3>6 DEF BuiltSome
  <2>7. CASE e.first # 0
    <3>. PICK n0 \in 1 .. MaxLen : n0 = Count(s)
      BY CountFacts
    <3>1. Ends(fat, e.first, n0)
      BY <2>5, <2>7 DEF Stored
    <3>2. last = Chain(e.first)[n0 - 1]
      <4>1. CASE s = 0
        <5>1. n0 = 1 /\ 1 - 1 = 0
          BY <4>1 DEF Count
        <5>. QED  BY <4>1, <5>1 DEF LastCluster
      <4>2. CASE s # 0
        BY <4>2 DEF LastCluster, Count
      <4>. QED  BY <4>1, <4>2
    <3>3. at = "alloc" => n0 + need = Count(s + l)
      <4>. SUFFICES ASSUME at = "alloc" PROVE n0 + need = Count(s + l)
        OBVIOUS
      <4>1. s # 0 /\ s % ClusterSize = 0
        BY <2>7 DEF HasTail
      <4>2. ClustersFor(s) + ClustersFor(l) = ClustersFor(s + l)
        BY <2>0, <4>1, FullCount
      <4>3. s + l # 0
        BY <2>0, <4>1
      <4>. QED  BY <4>1, <4>2, <4>3 DEF Count
    <3>4. at = "fill" => HasTail(e)
      OBVIOUS
    <3>5. at = "alloc" => Enough(n0 + need - 0)'
      <4>1. n0 + need - 0 = n0 + need
        BY <2>0
      <4>. QED  BY <2>1, <2>2, <3>3, <4>1 DEF Enough
    <3>6. n0 # 0 /\ n0 \in 0 .. MaxLen
      BY <2>0
    <3>7. dir'[op'.slot] = e /\ op'.kind = "append" /\ pc' \in {"fill", "alloc"}
      BY <2>1, <2>2, <2>4
    <3>8. Built(n0)'
      BY <2>1, <2>2, <2>4, <3>1, <3>2, <3>4, <3>5, <3>6, <3>7 DEF Built, Chain
    <3>. QED  BY <2>3, <3>6, <3>8 DEF BuiltSome
  <2>. QED  BY <2>6, <2>7
<1>. QED  BY <1>1, <1>2

LEMMA ReturnFails == ASSUME Return(FALSE), op.kind # "delete" PROVE failed'
BY DEF Return, Answer

LEMMA StoredKept ==
  ASSUME NEW table, NEW new, NEW e \in Entries, Stored(table, e),
         e.first \in Clusters =>
           \A m \in 1 .. MaxLen : Ends(table, e.first, m) => Ends(new, e.first, m)
  PROVE  Stored(new, e)
<1>1. CASE e.first = 0 /\ e.size = 0
  BY <1>1 DEF Stored
<1>2. CASE Ends(table, e.first, Count(e.size))
  <2>1. e.first # 0
    BY <1>2, NoChain
  <2>2. e.first \in Clusters /\ Count(e.size) \in 1 .. MaxLen
    BY <2>1, CountFacts DEF Entries
  <2>. QED  BY <1>2, <2>2 DEF Stored
<1>. QED  BY <1>1, <1>2 DEF Stored

(* The clusters that files start at are roots.                             *)
LEMMA RootFacts ==
  /\ \A i \in Others : dir[i].first \in Clusters => dir[i].first \in Roots
  /\ op.first \in Clusters => op.first \in Roots
  /\ \A c \in Loose \cap Clusters : c \in Roots
BY DEF Roots

LEMMA OwnersKept ==
  ASSUME Owners, UNCHANGED <<fat, dir>>, op'.slot = op.slot, op'.first = op.first,
         Loose' \cap Clusters = Loose \cap Clusters
  PROVE  Owners'
<1>1. Others' = Others
  BY SameEntries DEF Others
<1>2. Roots' = Roots
  BY <1>1 DEF Roots
<1>3. Apart'
  BY <1>1 DEF Owners, Apart
<1>. QED  BY <1>1, <1>2, <1>3 DEF Owners

\* A new FAT in which the files' chains are what they were.
LEMMA OwnersMoved ==
  ASSUME TypeInv, Owners, UNCHANGED dir, op'.slot = op.slot,
         Forest(fat', Roots'), Apart',
         \A i \in Others : dir[i].first \in Clusters =>
           \A m \in 1 .. MaxLen : Ends(fat, dir[i].first, m) => Ends(fat', dir[i].first, m)
  PROVE  Owners'
<1>1. Others' = Others
  BY SameEntries DEF Others
<1>2. ASSUME NEW i \in Others PROVE Stored(fat', dir[i])
  <2>1. dir[i] \in Entries
    BY DEF TypeInv, Others, Live
  <2>. PICK e \in Entries : e = dir[i]
    BY <2>1
  <2>2. Stored(fat, e) /\ (e.first \in Clusters =>
           \A m \in 1 .. MaxLen : Ends(fat, e.first, m) => Ends(fat', e.first, m))
    BY DEF Owners
  <2>3. Stored(fat', e)
    BY <2>2, StoredKept
  <2>. QED  BY <2>3
<1>. QED  BY <1>1, <1>2 DEF Owners

(* The next cluster of an old chain is freed.                              *)
LEMMA SpaceFree ==
  ASSUME ~Faults, TypeInv, Owners, BuiltSome, FreeCluster
  PROVE  Owners' /\ BuiltSome'
<1>. PICK c \in Clusters : c = op.cl
  BY DEF FreeCluster
<1>. PICK d : d = fat[c]
  OBVIOUS
<1>1. /\ pc = "free" /\ pc' = "freeMirror" /\ op' = [op EXCEPT !.cl = d]
      /\ Sets(fat, fat', c, FREE) /\ UNCHANGED <<dir, failed>>
  BY DEF FreeCluster, SetFat, Sets, history
<1>2. CallTyped
  BY DEF TypeInv
<1>3. /\ Same(op') /\ op'.cl = d /\ op'.first = op.first /\ op'.last = op.last
      /\ op'.need = op.need
  BY <1>1, <1>2, CallSteps
<1>4. Others' = Others /\ op'.slot = op.slot /\ op'.kind = op.kind
  BY <1>1, <1>3, OthersSame DEF Same
<1>5. op.first = 0 /\ op.last = 0 /\ Built(0)
  <2>. PICK n \in 0 .. MaxLen : Built(n)
    BY DEF BuiltSome
  <2>1. n = 0
    BY <1>1 DEF Built
  <2>. QED  BY <2>1 DEF Built
<1>6. Loose = {c} /\ Loose' = {d} /\ 0 \notin Clusters
  BY <1>1, <1>3, ConstantFacts DEF Loose, FREE
<1>7. c \in Roots
  BY <1>6, RootFacts
<1>8. /\ Forest(fat', (Roots \ {c}) \cup ({d} \cap Clusters)) /\ d \notin Roots
      /\ \A r \in Roots \ {c}, m \in 1 .. MaxLen : Ends(fat, r, m) => Ends(fat', r, m)
  <2>1. Forest(fat, Roots)
    BY DEF Owners
  <2>. QED  BY <1>1, <1>7, <2>1, ForestFrees
<1>9. \A i \in Others : dir[i].first # c
  BY <1>6 DEF Owners, Apart
<1>10. Roots' = (Roots \ {c}) \cup ({d} \cap Clusters)
  <2>1. Roots' = ({dir[i].first : i \in Others} \cup {0} \cup {d}) \cap Clusters
    BY <1>1, <1>3, <1>4, <1>5, <1>6 DEF Roots
  <2>2. Roots = ({dir[i].first : i \in Others} \cup {0} \cup {c}) \cap Clusters
    BY <1>5, <1>6 DEF Roots
  <2>. QED  BY <1>6, <1>9, <2>1, <2>2
<1>11. Apart'
  <2>1. \A i \in Others : d \in Clusters => dir[i].first # d
    BY <1>8, RootFacts
  <2>. QED  BY <1>1, <1>3, <1>4, <1>5, <1>6, <2>1 DEF Owners, Apart
<1>12. Owners'
  <2>1. \A i \in Others : dir[i].first \in Clusters =>
           \A m \in 1 .. MaxLen : Ends(fat, dir[i].first, m) => Ends(fat', dir[i].first, m)
    BY <1>8, <1>9, RootFacts
  <2>. QED  BY <1>1, <1>4, <1>8, <1>10, <1>11, <2>1, OwnersMoved
<1>13. op'.kind = "append" => dir'[op'.slot].first = 0
  BY <1>1, <1>4, <1>5 DEF Built
<1>14. BuiltSome'
  <2>1. PICK need \in Nat : need = op.need
    BY DEF TypeInv, CallTyped
  <2>2. need = Count(op.size) \/ (need = 0 /\ op.size = 0)
    <3>1. 0 + need - 0 = need
      OBVIOUS
    <3>. QED  BY <1>1, <1>5, <2>1, <3>1 DEF Built, Enough
  <2>3. op.kind = "delete" => need = 0
    BY <1>5, <2>1 DEF Built
  <2>. QED  BY <1>1, <1>3, <1>5, <1>13, <2>1, <2>2, <2>3, BuiltNone DEF Same
<1>. QED  BY <1>12, <1>14

(* A free cluster is taken.                                                *)
LEMMA SpaceAlloc ==
  ASSUME TypeInv, Owners, BuiltSome, Alloc
  PROVE  Owners' /\ BuiltSome'
<1>. PICK c \in Clusters : fat[c] = FREE /\ SetFat(c, EOC) /\ op' = [op EXCEPT !.cl = c]
  BY DEF Alloc, Allocatable, EndMark
<1>1. /\ pc = "alloc" /\ pc' = "allocMirror" /\ op.need > 0
      /\ Sets(fat, fat', c, EOC) /\ UNCHANGED dir
  BY DEF Alloc, SetFat, Sets
<1>2. CallTyped /\ fat \in Tables
  BY DEF TypeInv
<1>3. /\ Same(op') /\ op'.cl = c /\ op'.first = op.first /\ op'.last = op.last
      /\ op'.need = op.need
  BY <1>2, CallSteps
<1>4. Others' = Others /\ op'.slot = op.slot /\ op'.kind = op.kind /\ op'.size = op.size
  BY <1>1, <1>3, OthersSame DEF Same
<1>5. Loose = {} /\ Loose' = {c}
  BY <1>1, <1>3 DEF Loose
<1>6. /\ Forest(fat', Roots \cup {c}) /\ c \notin Roots
      /\ \A r \in Roots : ChainIn(fat', r) = ChainIn(fat, r)
      /\ \A r \in Roots, m \in 1 .. MaxLen : Ends(fat, r, m) => Ends(fat', r, m)
  <2>1. Forest(fat, Roots)
    BY DEF Owners
  <2>. QED  BY <1>1, <2>1, ForestAllocates
<1>7. Roots' = Roots \cup {c}
  BY <1>1, <1>3, <1>4, <1>5 DEF Roots
<1>8. c # op.first /\ \A i \in Others : dir[i].first # c
  BY <1>6, RootFacts
<1>9. Apart'
  BY <1>1, <1>3, <1>4, <1>5, <1>8 DEF Owners, Apart
<1>10. Owners'
  <2>1. \A i \in Others : dir[i].first \in Clusters =>
           \A m \in 1 .. MaxLen : Ends(fat, dir[i].first, m) => Ends(fat', dir[i].first, m)
    BY <1>6, RootFacts
  <2>. QED  BY <1>1, <1>4, <1>6, <1>7, <1>9, <2>1, OwnersMoved
<1>11. BuiltSome'
  <2>. PICK n \in 0 .. MaxLen : Built(n)
    BY DEF BuiltSome
  <2>1. n # 0 => Ends(fat', op.first, n) /\ ChainIn(fat', op.first) = ChainIn(fat, op.first)
    <3>. SUFFICES ASSUME n # 0
                  PROVE  Ends(fat', op.first, n) /\ ChainIn(fat', op.first) = ChainIn(fat, op.first)
      OBVIOUS
    <3>1. Ends(fat, op.first, n) /\ n \in 1 .. MaxLen
      BY DEF Built, Ends
    <3>2. op.first # 0
      BY <3>1, NoChain
    <3>3. op.first \in Roots
      BY <1>2, <3>2, RootFacts DEF CallTyped
    <3>. QED  BY <1>6, <3>1, <3>3
  <2>2. fat'[c] = EOC
    BY <1>1, <1>2 DEF Sets, Tables
  <2>3. Enough(n + op.need - 0)'
    BY <1>1, <1>3, <1>4 DEF Built, Enough
  <2>4. op.kind # "delete"
    BY <1>1, <1>2 DEF CallTyped
  <2>5. Built(n)'
    BY <1>1, <1>3, <1>4, <2>1, <2>2, <2>3, <2>4 DEF Built, Chain
  <2>. QED  BY <2>5 DEF BuiltSome
<1>. QED  BY <1>10, <1>11

\* The first cluster of a new chain.
LEMMA SpaceFirst ==
  ASSUME TypeInv, Owners, BuiltSome, pc = "link", op.last = 0, Linked, pc' = "data",
         UNCHANGED <<fat, dir>>
  PROVE  Owners' /\ BuiltSome'
<1>. PICK n \in 0 .. MaxLen : Built(n)
  BY DEF BuiltSome
<1>1. CallTyped /\ 0 \notin Clusters /\ 0 # EOC /\ 1 \in 1 .. MaxLen /\ 1 \in 0 .. MaxLen
  BY ConstantFacts DEF TypeInv, FREE
<1>2. n = 0 /\ op.first = 0 /\ op.kind # "delete" /\ op.cl \in Clusters /\ fat[op.cl] = EOC
  <2>1. n = 0
    <3>. SUFFICES ASSUME n # 0 PROVE FALSE
      OBVIOUS
    <3>1. Ends(fat, op.first, n) /\ op.last = ChainIn(fat, op.first)[n - 1]
      BY DEF Built, Chain
    <3>. QED  BY <1>1, <3>1 DEF Ends
  <2>. QED  BY <1>1, <2>1 DEF Built, CallTyped
<1>. PICK c \in Clusters : c = op.cl
  BY <1>2
<1>3. /\ Same(op') /\ op'.last = c /\ op'.cl = c /\ op'.need = op.need /\ op'.first = c
  BY <1>1, CallSteps
<1>4. Others' = Others /\ op'.slot = op.slot /\ op'.kind = op.kind /\ op'.size = op.size
  BY <1>3, OthersSame DEF Same
<1>5. Loose = {c} /\ Loose' = {}
  BY DEF Loose
<1>6. Roots' = Roots
  BY <1>1, <1>2, <1>3, <1>4, <1>5 DEF Roots
<1>7. Apart'
  BY <1>2, <1>3, <1>4, <1>5 DEF Owners, Apart
<1>8. Owners'
  BY <1>4, <1>6, <1>7 DEF Owners
<1>. PICK k \in 0 .. MaxLen : k = 1 /\ k - 1 = 0 /\ k > 0
  BY <1>1
<1>9. ChainIn(fat, c)[0] = c
  BY ChainFacts
<1>10. Ends(fat, c, k) /\ ChainIn(fat, c)[k - 1] = c
  BY <1>1, <1>2, <1>9 DEF Ends
<1>11. op.need \in Nat
  BY <1>1 DEF CallTyped
<1>12. Enough(k + op.need - 1)'
  <2>1. k + op.need - 1 = n + op.need - 0
    BY <1>2, <1>11
  <2>. QED  BY <1>3, <1>4, <2>1 DEF Built, Enough
<1>13. op.kind = "append" => dir'[op'.slot].first \in {0, op'.first}
  BY <1>2, <1>4 DEF Built
<1>14. Built(k)'
  BY <1>2, <1>3, <1>4, <1>10, <1>12, <1>13 DEF Built, Chain
<1>. QED  BY <1>8, <1>14 DEF BuiltSome

\* One more cluster behind the last.
LEMMA SpaceLink ==
  ASSUME TypeInv, Owners, BuiltSome, pc = "link", op.last # 0, SetFat(op.last, op.cl),
         Linked,
         pc' = "linkMirror"
  PROVE  Owners' /\ BuiltSome'
<1>. PICK n \in 0 .. MaxLen : Built(n)
  BY DEF BuiltSome
<1>1. CallTyped /\ MaxLen \in Nat /\ UNCHANGED dir
  BY ConstantFacts DEF TypeInv, SetFat
<1>. PICK a : a = op.first
  OBVIOUS
<1>. PICK last : last = op.last
  OBVIOUS
<1>2. /\ op.kind # "delete" /\ op.cl \in Clusters /\ fat[op.cl] = EOC /\ op.need > 0
      /\ op.need \in Nat /\ n # 0 /\ Ends(fat, a, n) /\ last = ChainIn(fat, a)[n - 1]
  BY <1>1 DEF Built, CallTyped, Chain
<1>. PICK c \in Clusters : c = op.cl
  BY <1>2
<1>3. /\ Same(op') /\ op'.last = c /\ op'.cl = c /\ op'.need = op.need /\ op'.first = a
  BY <1>1, CallSteps
<1>4. Others' = Others /\ op'.slot = op.slot /\ op'.kind = op.kind /\ op'.size = op.size
  BY <1>1, <1>3, OthersSame DEF Same
<1>5. Loose = {c} /\ Loose' = {}
  BY DEF Loose
<1>6. a # 0 /\ a \in Clusters
  <2>1. a # 0
    BY <1>2, NoChain
  <2>. QED  BY <1>1, <2>1 DEF CallTyped
<1>7. a \in Roots /\ c \in Roots /\ a # c
  BY <1>5, <1>6, RootFacts DEF Owners, Apart
<1>8. n < MaxLen
  <2>1. op.size \in 0 .. MaxLen
    BY <1>1 DEF CallTyped
  <2>2. n + op.need = Count(op.size)
    <3>1. n + op.need - 0 = n + op.need /\ n + op.need # 0
      BY <1>2
    <3>. QED  BY <3>1 DEF Built, Enough
  <2>3. n + op.need <= MaxLen
    BY <2>1, <2>2, CountFacts
  <2>. QED  BY <1>1, <1>2, <2>3
<1>9. Sets(fat, fat', last, c)
  BY DEF SetFat, Sets
<1>10. /\ Forest(fat', Roots \ {c}) /\ EndsAt(fat', a, n + 1, c)
       /\ \A r \in Roots \ {a, c}, m \in 1 .. MaxLen : Ends(fat, r, m) => Ends(fat', r, m)
  <2>1. Forest(fat, Roots)
    BY DEF Owners
  <2>2. fat[c] = EOC /\ n # MaxLen /\ n \in 1 .. MaxLen /\ EndsAt(fat, a, n, last)
    BY <1>1, <1>2, <1>8 DEF EndsAt
  <2>. QED  BY <1>7, <1>9, <2>1, <2>2, ForestLinks
<1>11. \A i \in Others : dir[i].first # a /\ dir[i].first # c
  BY <1>5, <1>6 DEF Owners, Apart
<1>12. Roots' = Roots \ {c}
  <2>1. Roots' = ({dir[i].first : i \in Others} \cup {a}) \cap Clusters
    BY <1>1, <1>3, <1>4, <1>5 DEF Roots
  <2>2. Roots = ({dir[i].first : i \in Others} \cup {a} \cup {c}) \cap Clusters
    BY <1>5 DEF Roots
  <2>. QED  BY <1>7, <1>11, <2>1, <2>2
<1>13. Apart'
  BY <1>1, <1>3, <1>4, <1>5, <1>11 DEF Owners, Apart
<1>14. Owners'
  <2>1. \A i \in Others : dir[i].first \in Clusters =>
           \A m \in 1 .. MaxLen : Ends(fat, dir[i].first, m) => Ends(fat', dir[i].first, m)
    BY <1>10, <1>11, RootFacts
  <2>. QED  BY <1>1, <1>4, <1>10, <1>12, <1>13, <2>1, OwnersMoved
<1>. PICK k \in 0 .. MaxLen : k = n + 1 /\ k - 1 = n /\ k > 0
  BY <1>1, <1>8
<1>15. Enough(k + op.need - 1)'
  <2>1. k + op.need - 1 = n + op.need - 0
    BY <1>2
  <2>. QED  BY <1>3, <1>4, <2>1 DEF Built, Enough
<1>16. Ends(fat', a, k) /\ ChainIn(fat', a)[k - 1] = c
  BY <1>10 DEF EndsAt
<1>17. op.kind = "append" => dir'[op'.slot].first \in {0, op'.first}
  BY <1>1, <1>3, <1>4 DEF Built
<1>18. Built(k)'
  BY <1>2, <1>3, <1>4, <1>15, <1>16, <1>17 DEF Built, Chain
<1>. QED  BY <1>14, <1>18 DEF BuiltSome

(* A step that only moves on, or counts a cluster as written.              *)
LEMMA SpaceOn ==
  ASSUME TypeInv, Owners, BuiltSome, UNCHANGED <<fat, dir>>, Same(op'),
         op'.first = op.first,
         op'.last = op.last,
         \/ /\ op'.need = op.need /\ op'.cl = op.cl
            /\ \/ pc = "freeMirror" /\ pc' = "free"
               \/ pc = "allocMirror" /\ pc' = "link"
               \/ pc = "linkMirror" /\ pc' = "data"
               \/ pc = "alloc" /\ pc' = "entry" /\ op.need = 0
         \/ op'.need = op.need - 1 /\ pc = "data" /\ pc' = "alloc" /\ op.kind # "delete"
  PROVE  Owners' /\ BuiltSome'
<1>. PICK n \in 0 .. MaxLen : Built(n)
  BY DEF BuiltSome
<1>1. op.need \in Nat /\ MaxLen \in Nat
  BY ConstantFacts DEF TypeInv, CallTyped
<1>2. op'.slot = op.slot /\ op'.kind = op.kind /\ op'.size = op.size
  BY DEF Same
<1>3. Loose' = Loose
  BY DEF Loose
<1>4. Owners'
  BY <1>2, <1>3, OwnersKept
<1>. PICK x : x = n + op.need - IF pc \in {"linkMirror", "data"} THEN 1 ELSE 0
  OBVIOUS
<1>5. x = n + op'.need - IF pc' \in {"linkMirror", "data"} THEN 1 ELSE 0
  BY <1>1
<1>6. pc # "fill" /\ pc' # "fill" /\ Enough(x)
  BY DEF Built
<1>7. Enough(x)'
  BY <1>2, <1>6 DEF Enough
<1>8. IF n = 0 THEN op'.first = 0 /\ op'.last = 0
      ELSE Ends(fat', op'.first, n) /\ op'.last = ChainIn(fat', op'.first)[n - 1]
  BY DEF Built, Chain
<1>9. op'.kind = "append" => dir'[op'.slot].first \in {0, op'.first}
  BY <1>2 DEF Built
<1>10. Built(n)'
  <2>1. pc' \in {"free", "freeMirror"} => n = 0
    BY DEF Built
  <2>2. op'.kind = "delete" => n = 0 /\ op'.need = 0
    BY <1>2 DEF Built
  <2>3. pc' \in {"allocMirror", "link"} => fat'[op'.cl] = EOC
    BY DEF Built
  <2>4. pc' \in {"linkMirror", "data"} => n > 0 /\ op'.cl = op'.last
    BY DEF Built
  <2>5. pc' = "entry" => op'.need = 0
    OBVIOUS
  <2>. QED  BY <1>5, <1>6, <1>7, <1>8, <1>9, <2>1, <2>2, <2>3, <2>4, <2>5 DEF Built, Chain
<1>. QED  BY <1>4, <1>10 DEF BuiltSome

(* The old chain is freed.                                                 *)
LEMMA SpaceFreed ==
  ASSUME TypeInv, Owners, BuiltSome, FreeDone
  PROVE  Owners' /\ BuiltSome'
<1>. PICK n \in 0 .. MaxLen : Built(n)
  BY DEF BuiltSome
<1>1. /\ pc = "free" /\ pc' = AfterFree /\ op' = [op EXCEPT !.cl = 0] /\ UNCHANGED <<fat, dir>>
      /\ op.cl \notin Clusters
  BY DEF FreeDone, disk
<1>2. CallTyped
  BY DEF TypeInv
<1>3. /\ Same(op') /\ op'.first = op.first /\ op'.last = op.last /\ op'.need = op.need
  BY <1>1, <1>2, CallSteps
<1>4. op'.slot = op.slot /\ op'.kind = op.kind /\ op'.size = op.size
  BY <1>3 DEF Same
<1>5. Owners'
  <2>1. Loose' \cap Clusters = Loose \cap Clusters
    BY <1>1 DEF Loose, AfterFree
  <2>. QED  BY <1>1, <1>3, <1>4, <2>1, OwnersKept
<1>6. n = 0 /\ op.first = 0 /\ op.last = 0
  <2>1. n = 0
    BY <1>1 DEF Built
  <2>. QED  BY <2>1 DEF Built
<1>. PICK need \in Nat : need = op.need
  BY <1>2 DEF CallTyped
<1>7. need = Count(op.size) \/ (need = 0 /\ op.size = 0)
  <2>1. 0 + need - 0 = need
    OBVIOUS
  <2>. QED  BY <1>1, <1>6, <2>1 DEF Built, Enough
<1>8. op.kind = "append" => dir[op.slot].first = 0
  BY <1>6 DEF Built
<1>9. op.kind = "delete" => need = 0
  BY DEF Built
<1>10. pc' = "entry" => op.kind = "delete"
  BY <1>1 DEF AfterFree
<1>11. pc' \in {"alloc", "entry"}
  BY <1>1 DEF AfterFree
<1>12. BuiltSome'
  BY <1>1, <1>3, <1>4, <1>6, <1>7, <1>8, <1>9, <1>10, <1>11, BuiltNone
<1>. QED  BY <1>5, <1>12

\* An empty file does without a cluster; any other call fails.
LEMMA SpaceFull ==
  ASSUME TypeInv, Owners, BuiltSome, AllocFails
  PROVE  failed' \/ (Owners' /\ BuiltSome')
<1>. PICK n \in 0 .. MaxLen : Built(n)
  BY DEF BuiltSome
<1>1. pc = "alloc" /\ op.need > 0 /\ UNCHANGED <<fat, dir>>
  BY DEF AllocFails, disk
<1>2. CallTyped
  BY DEF TypeInv
<1>3. op.kind # "delete" /\ op.size \in Nat /\ op.need \in Nat
  BY <1>1, <1>2, ConstantFacts DEF CallTyped
<1>4. CASE Return(FALSE)
  BY <1>3, <1>4, ReturnFails
<1>5. CASE op.size = 0 /\ op' = [op EXCEPT !.need = 0, !.first = 0] /\ pc' = "alloc"
      /\ op.kind # "append"
  <2>1. Same(op') /\ op'.first = 0 /\ op'.last = op.last /\ op'.need = 0
    BY <1>2, <1>5, CallSteps
  <2>2. op'.slot = op.slot /\ op'.kind = op.kind /\ op'.size = op.size
    BY <2>1 DEF Same
  <2>3. n = 0
    <3>1. n + op.need - 0 = 1 \/ n + op.need - 0 = 0
      BY <1>1, <1>5 DEF Built, Enough, Count
    <3>. QED  BY <1>1, <1>3, <3>1
  <2>4. op.first = 0 /\ op.last = 0
    BY <2>3 DEF Built
  <2>5. Loose' = Loose
    BY <1>1, <1>5 DEF Loose
  <2>6. Owners'
    BY <1>1, <2>1, <2>2, <2>4, <2>5, OwnersKept
  <2>. PICK need \in Nat : need = 0
    OBVIOUS
  <2>7. BuiltSome'
    BY <1>5, <2>1, <2>2, <2>4, BuiltNone
  <2>. QED  BY <2>6, <2>7
<1>6. op.size > 0 \/ op.size = 0
  BY <1>3
<1>. QED  BY <1>4, <1>5, <1>6 DEF AllocFails

(* The rest of the last cluster takes the beginning of the text.           *)
LEMMA SpaceFill ==
  ASSUME TypeInv, Owners, BuiltSome, Fill
  PROVE  failed' \/ (Owners' /\ BuiltSome')
<1>. PICK n \in 0 .. MaxLen : Built(n)
  BY DEF BuiltSome
<1>1. pc = "fill" /\ CallTyped
  BY DEF Fill, TypeInv
<1>2. op.kind = "append" /\ Len(op.rest) \in Nat /\ op.slot \in Live
      /\ op.slot \in 1 .. MaxSlots
  BY <1>1 DEF CallTyped
<1>3. CASE Return(FALSE)
  BY <1>2, <1>3, ReturnFails
<1>4. CASE ~Return(FALSE)
  <2>. PICK e \in Entries : e = dir[op.slot]
    BY <1>2 DEF TypeInv, Live
  <2>. PICK s \in Nat : s = e.size
    BY ConstantFacts DEF Entries
  <2>. PICK l \in Nat : l = Len(op.rest)
    BY <1>2
  <2>. PICK m : m = Taken(TailOf(s), l)
    OBVIOUS
  <2>0. m = Least(ClusterSize - TailStart, l)
    <3>1. TailStart = TailOf(s)
      BY DEF TailStart, TailOf
    <3>. QED  BY <3>1 DEF Taken
  <2>1. n = Count(s) /\ HasTail(e) /\ op.size = s + l
    BY <1>1 DEF Built
  <2>2. s = 0 \/ s % ClusterSize # 0
    BY <2>1 DEF HasTail
  <2>3. l - m \in Nat /\ Count(s) + ClustersFor(l - m) = Count(s + l)
    BY <2>2, TailCount
  <2>. PICK need : need = ClustersFor(l - m)
    OBVIOUS
  <2>4. pc' = "alloc" /\ UNCHANGED <<fat, dir>>
    BY <1>4 DEF Fill
  <2>. PICK x : op' = [op EXCEPT !.rest = x, !.need = need]
    BY <1>4, <2>0 DEF Fill
  <2>5. Same(op') /\ op'.first = op.first /\ op'.last = op.last /\ op'.need = need
    BY <1>1, CallSteps
  <2>6. need \in Nat
    <3>1. PICK y \in Nat : y = l - m
      BY <2>3
    <3>. QED  BY <3>1, ClusterCount
  <2>7. n + need - 0 = Count(op.size)
    BY <2>1, <2>3, <2>6
  <2>8. op'.slot = op.slot /\ op'.kind = op.kind /\ op'.size = op.size
    BY <2>5 DEF Same
  <2>9. Owners'
    <3>1. Loose' = Loose
      BY <1>1, <2>4 DEF Loose
    <3>. QED  BY <2>4, <2>5, <2>8, <3>1, OwnersKept
  <2>10. Enough(n + need - 0)'
    BY <2>7, <2>8 DEF Enough
  <2>11. IF n = 0 THEN op'.first = 0 /\ op'.last = 0
         ELSE Ends(fat', op'.first, n) /\ op'.last = ChainIn(fat', op'.first)[n - 1]
    BY <2>4, <2>5 DEF Built, Chain
  <2>12. op'.kind = "append" => dir'[op'.slot].first \in {0, op'.first}
    BY <1>2, <2>4, <2>5, <2>8 DEF Built
  <2>13. Built(n)'
    BY <1>2, <2>4, <2>5, <2>8, <2>10, <2>11, <2>12 DEF Built, Chain
  <2>. QED  BY <2>9, <2>13 DEF BuiltSome
<1>. QED  BY <1>3, <1>4

(* What all entries are once a call has written its own.                   *)
LEMMA Settled ==
  ASSUME TypeInv, Owners, BuiltSome, WriteEntry
  PROVE  /\ fat' = fat /\ {dir'[i].first : i \in Live'} \cap Clusters = Roots
         /\ \A i, j \in Live' :
              i # j /\ dir'[i].first = dir'[j].first => dir'[i].first = 0
         /\ \A i \in Live' : Stored(fat', dir'[i])
<1>. PICK n \in 0 .. MaxLen : Built(n)
  BY DEF BuiltSome
<1>1. /\ fat' = fat /\ dir'[op.slot] = NewEntry
      /\ \A i \in Live \ {op.slot} : dir'[i] = dir[i]
      /\ Live' = IF op.kind = "delete" THEN Live \ {op.slot} ELSE Live \cup {op.slot}
  BY EntryWritten
<1>2. pc = "entry" /\ Loose = {} /\ Others = Live \ {op.slot} /\ 0 \notin Clusters
      /\ op.need = 0
  BY ConstantFacts DEF WriteEntry, Loose, Others, FREE, Built
<1>3. \A i \in Others : dir'[i] = dir[i]
  BY <1>1, <1>2
<1>4. \A i \in Others : Stored(fat', dir'[i])
  BY <1>1, <1>3 DEF Owners
<1>5. CASE op.kind = "delete"
  <2>1. Live' = Others
    BY <1>1, <1>2, <1>5
  <2>2. op.first = 0
    BY <1>5 DEF Built
  <2>3. {dir'[i].first : i \in Live'} = {dir[i].first : i \in Others}
    BY <1>3, <2>1
  <2>4. {dir'[i].first : i \in Live'} \cap Clusters = Roots
    BY <1>2, <2>2, <2>3 DEF Roots
  <2>5. \A i, j \in Live' : i # j /\ dir'[i].first = dir'[j].first => dir'[i].first = 0
    BY <1>3, <2>1 DEF Owners, Apart
  <2>. QED  BY <1>1, <1>4, <2>1, <2>4, <2>5
<1>6. CASE op.kind # "delete"
  <2>1. Live' = Others \cup {op.slot} /\ op.slot \notin Others
    BY <1>1, <1>2, <1>6
  <2>. PICK e : e = dir'[op.slot]
    OBVIOUS
  <2>2. e.first = op.first /\ e.size = op.size
    BY <1>1, <1>6 DEF NewEntry, Entry
  <2>3. {dir'[i].first : i \in Live'} = {dir[i].first : i \in Others} \cup {op.first}
    BY <1>3, <2>1, <2>2
  <2>4. {dir'[i].first : i \in Live'} \cap Clusters = Roots
    BY <1>2, <2>3 DEF Roots
  <2>5. \A i, j \in Live' : i # j /\ dir'[i].first = dir'[j].first => dir'[i].first = 0
    <3>. SUFFICES ASSUME NEW i \in Live', NEW j \in Live', i # j, dir'[i].first = dir'[j].first
                  PROVE  dir'[i].first = 0
      OBVIOUS
    <3>1. CASE i \in Others /\ j \in Others
      BY <1>3, <3>1 DEF Owners, Apart
    <3>2. CASE i \in Others /\ j = op.slot
      BY <1>3, <2>2, <3>2 DEF Owners, Apart
    <3>3. CASE i = op.slot /\ j \in Others
      BY <1>3, <2>2, <3>3 DEF Owners, Apart
    <3>. QED  BY <2>1, <3>1, <3>2, <3>3
  <2>6. Stored(fat', e)
    <3>1. n + op.need - 0 = n
      BY <1>2, ConstantFacts
    <3>2. Enough(n)
      BY <1>2, <3>1 DEF Built
    <3>3. CASE n = 0
      <4>1. op.size \in 0 .. MaxLen
        BY <1>2 DEF TypeInv, CallTyped
      <4>2. Count(op.size) # 0
        BY <4>1, CountFacts
      <4>3. op.size = 0
        BY <3>2, <3>3, <4>2 DEF Enough
      <4>4. op.first = 0
        BY <3>3 DEF Built
      <4>. QED  BY <2>2, <4>3, <4>4 DEF Stored
    <3>4. CASE n # 0
      <4>1. n = Count(op.size) /\ Ends(fat, op.first, n)
        BY <3>2, <3>4 DEF Enough, Built
      <4>. QED  BY <1>1, <2>2, <4>1 DEF Stored
    <3>. QED  BY <3>3, <3>4
  <2>. QED  BY <1>1, <1>4, <2>1, <2>4, <2>5, <2>6
<1>. QED  BY <1>5, <1>6

LEMMA SpaceEntry ==
  ASSUME TypeInv, Owners, BuiltSome, WriteEntry
  PROVE  Owners' /\ BuiltSome'
<1>1. /\ fat' = fat /\ {dir'[i].first : i \in Live'} \cap Clusters = Roots
      /\ \A i, j \in Live' :
           i # j /\ dir'[i].first = dir'[j].first => dir'[i].first = 0
      /\ \A i \in Live' : Stored(fat', dir'[i])
  BY Settled
<1>2. Forest(fat', Roots) /\ 0 \notin Clusters
  BY <1>1, ConstantFacts DEF Owners, FREE
<1>. PICK need \in Nat : need = 0
  OBVIOUS
<1>3. ASSUME NEW b, Answer(b) PROVE Owners' /\ BuiltSome'
  <2>1. op' = NoOp /\ pc' = "idle"
    BY <1>3 DEF Answer
  <2>2. NoOp.slot = 0 /\ NoOp.first = 0 /\ NoOp.last = 0 /\ NoOp.need = 0 /\ NoOp.size = 0
        /\ NoOp.kind \notin {"append", "delete"}
    BY DEF NoOp, None
  <2>3. Others' = Live' /\ Loose' = {}
    BY <2>1, <2>2 DEF Others, Live, Loose
  <2>4. Roots' = Roots
    <3>1. Roots' = ({dir'[i].first : i \in Live'} \cup {0}) \cap Clusters
      BY <2>1, <2>2, <2>3 DEF Roots
    <3>. QED  BY <1>1, <1>2, <3>1
  <2>5. Apart'
    BY <1>1, <2>1, <2>2, <2>3 DEF Apart
  <2>6. Owners'
    BY <1>1, <1>2, <2>3, <2>4, <2>5 DEF Owners
  <2>. QED  BY <2>1, <2>2, <2>6, BuiltNone
<1>4. CASE op.then # None /\ Matches(op.then) # {} /\ op' = Deleting(op.then)
      /\ pc' = "free"
  <2>1. op.then \in Names /\ op.kind = "create" /\ op.slot \notin Live
    BY <1>4 DEF TypeInv, CallTyped, WriteEntry
  <2>. PICK m \in Names : m = op.then
    BY <2>1
  <2>. PICK i \in Live : i = Min(Matches(m))
    BY <1>4, FileFacts
  <2>2. /\ op'.kind = "delete" /\ op'.slot = i /\ op'.first = 0 /\ op'.last = 0
        /\ op'.cl = dir[i].first /\ op'.need = 0 /\ op'.size = 0
    BY <1>4, DeletingFacts
  <2>3. i \in Live' /\ dir'[i] = dir[i]
    BY <2>1, EntryWritten
  <2>4. Others' = Live' \ {i} /\ Loose' = {dir'[i].first}
    BY <1>4, <2>2, <2>3 DEF Others, Live, Loose
  <2>5. Roots' = Roots
    <3>1. Roots' = ({dir'[j].first : j \in Live' \ {i}} \cup {0} \cup {dir'[i].first}) \cap Clusters
      BY <2>2, <2>4 DEF Roots
    <3>. QED  BY <1>1, <1>2, <2>3, <3>1
  <2>6. Apart'
    BY <1>1, <1>2, <2>2, <2>3, <2>4 DEF Apart
  <2>7. Owners'
    BY <1>1, <1>2, <2>4, <2>5, <2>6 DEF Owners
  <2>. QED  BY <1>4, <2>2, <2>7, BuiltNone
<1>. QED  BY <1>3, <1>4 DEF WriteEntry, Return

(* As long as nothing fails every used cluster is some file's, or that of  *)
(* the call in progress.                                                   *)
LEMMA SpaceProgress ==
  ASSUME ~Faults, TypeInv, Owners, BuiltSome, Progress
  PROVE  failed' \/ (Owners' /\ BuiltSome')
<1>1. CASE FreeDone
  BY <1>1, SpaceFreed
<1>2. CASE FreeCluster
  BY <1>2, SpaceFree
<1>3. CASE FreeMirror \/ AllocMirror \/ AllDone \/ (LinkMirror /\ op' = op)
  <2>1. Same(op') /\ op' = op
    BY <1>3, CallSteps DEF TypeInv, FreeMirror, AllocMirror, AllDone
  <2>2. UNCHANGED <<fat, dir>>
    BY <1>3 DEF FreeMirror, AllocMirror, AllDone, LinkMirror, Mirror, disk
  <2>3. \/ pc = "freeMirror" /\ pc' = "free"
        \/ pc = "allocMirror" /\ pc' = "link"
        \/ pc = "linkMirror" /\ pc' = "data"
        \/ pc = "alloc" /\ pc' = "entry" /\ op.need = 0
    BY <1>3 DEF FreeMirror, AllocMirror, AllDone, LinkMirror
  <2>. QED  BY <2>1, <2>2, <2>3, SpaceOn
<1>4. CASE Alloc
  BY <1>4, SpaceAlloc
<1>5. CASE AllocFails
  BY <1>5, SpaceFull
<1>6. CASE Link
  <2>1. CASE op.last = 0 /\ pc' = "data" /\ Linked /\ UNCHANGED disk
    BY <1>6, <2>1, SpaceFirst DEF Link, disk
  <2>2. CASE op.last # 0 /\ SetFat(op.last, op.cl) /\ Linked /\ pc' = "linkMirror"
    BY <1>6, <2>2, SpaceLink DEF Link
  <2>. QED  BY <1>6, <2>1, <2>2 DEF Link
<1>7. CASE LinkMirror
  BY <1>3, <1>7 DEF LinkMirror
<1>8. CASE Data
  <2>0. pc = "data" /\ op.kind # "delete"
    BY <1>8 DEF Data, TypeInv, CallTyped
  <2>1. CASE Return(FALSE)
    BY <2>0, <2>1, ReturnFails
  <2>2. CASE Written /\ pc' = "alloc"
    <3>1. /\ Same(op') /\ op'.first = op.first /\ op'.last = op.last /\ op'.need = op.need - 1
      BY <2>2, CallSteps DEF TypeInv
    <3>2. UNCHANGED <<fat, dir>>
      BY <1>8 DEF Data, disk
    <3>. QED  BY <2>0, <2>2, <3>1, <3>2, SpaceOn
  <2>. QED  BY <1>8, <2>1, <2>2 DEF Data
<1>9. CASE Fill
  BY <1>9, SpaceFill
<1>10. CASE WriteEntry
  BY <1>10, SpaceEntry
<1>11. CASE EntryFails
  BY <1>11 DEF EntryFails
<1>. QED  BY <1>1, <1>2, <1>3, <1>4, <1>5, <1>6, <1>7, <1>8, <1>9, <1>10, <1>11 DEF Progress

LEMMA SpaceBegins ==
  ASSUME TypeInv, Owners, pc = "idle",
         \/ \E n \in Names, t \in Texts : Create(n, t) \/ Write(n, t) \/ AppendTo(n, t)
         \/ \E n \in Names : Delete(n) \/ Mkdir(n)
         \/ \E n, m \in Names : Copy("cp", n, m) \/ Copy("mv", n, m)
  PROVE  failed' \/ (Owners' /\ BuiltSome')
<1>0. dir \in Seq(Entries) /\ \A t \in Texts : Len(t) \in 0 .. MaxLen
  BY FatAssumption DEF TypeInv
<1>1. ASSUME NEW n \in Names, NEW t \in Texts, Create(n, t)
      PROVE  failed' \/ (Owners' /\ BuiltSome')
  <2>. PICK then \in Names \cup {None} : then = None
    OBVIOUS
  <2>. PICK r : r = Request("create", n, t, None)
    OBVIOUS
  <2>1. EnterCreate(r, n, t, then)
    BY <1>1 DEF Create
  <2>. QED  BY <1>0, <2>1, SpaceCreate
<1>2. ASSUME NEW n \in Names, NEW t \in Texts, Write(n, t)
      PROVE  failed' \/ (Owners' /\ BuiltSome')
  <2>. PICK then \in Names \cup {None} : then = None
    OBVIOUS
  <2>. PICK r : r = Request("write", n, t, None)
    OBVIOUS
  <2>1. (Matches(n) # {} /\ EnterWrite(r, n, t)) \/ EnterCreate(r, n, t, then)
    BY <1>2 DEF Write, Lookup
  <2>. QED  BY <1>0, <2>1, SpaceCreate, SpaceWrite
<1>3. ASSUME NEW n \in Names, NEW t \in Texts, AppendTo(n, t)
      PROVE  failed' \/ (Owners' /\ BuiltSome')
  <2>. PICK then \in Names \cup {None} : then = None
    OBVIOUS
  <2>. PICK r : r = Request("append", n, t, None)
    OBVIOUS
  <2>1. (Matches(n) # {} /\ EnterAppend(r, n, t)) \/ EnterCreate(r, n, t, then)
    BY <1>3 DEF AppendTo, Lookup
  <2>. QED  BY <1>0, <2>1, SpaceCreate, SpaceAppend
<1>4. ASSUME NEW n \in Names, Delete(n)
      PROVE  failed' \/ (Owners' /\ BuiltSome')
  BY <1>4, SpaceDelete, RefuseFails DEF Delete, Lookup
<1>5. ASSUME NEW n \in Names, Mkdir(n)
      PROVE  failed' \/ (Owners' /\ BuiltSome')
  BY <1>5, SpaceMkdir
<1>6. ASSUME NEW kind, NEW n \in Names, NEW m \in Names, Copy(kind, n, m)
      PROVE  failed' \/ (Owners' /\ BuiltSome')
  <2>1. PICK i \in Matches(n) :
          EnterCreate(Request(kind, n, <<>>, m), m,
            SubSeq(Text(dir[i]), 1, Least(CopyLimit, Len(Text(dir[i])))),
            IF kind = "mv" THEN n ELSE None)
    BY <1>6 DEF Copy
  <2>2. dir[i] \in Entries
    BY <1>0 DEF Matches, Live
  <2>. PICK s : s = SubSeq(Text(dir[i]), 1, Least(CopyLimit, Len(Text(dir[i]))))
    OBVIOUS
  <2>. PICK then \in Names \cup {None} : then = IF kind = "mv" THEN n ELSE None
    OBVIOUS
  <2>. PICK r : r = Request(kind, n, <<>>, m)
    OBVIOUS
  <2>3. EnterCreate(r, m, s, then) /\ Len(s) \in 0 .. MaxLen
    BY <2>1, <2>2, CopyLength
  <2>. QED  BY <2>3, SpaceCreate
<1>. QED  BY <1>1, <1>2, <1>3, <1>4, <1>5, <1>6

(* A failure is remembered.                                                *)
LEMMA FailedStays ==
  ASSUME failed, [Next]_vars
  PROVE  failed'
<1>1. CASE UNCHANGED history
  BY <1>1 DEF history
<1>2. ASSUME NEW b, Answer(b) PROVE failed'
  BY <1>2 DEF Answer
<1>3. ASSUME NEW b, Return(b) PROVE failed'
  BY <1>3, <1>2 DEF Return
<1>4. ASSUME NEW r, NEW o, NEW at, Begin(r, o, at) PROVE failed'
  BY <1>4 DEF Begin
<1>5. CASE Refuse
  BY <1>2, <1>5 DEF Refuse
<1>6. ASSUME NEW r, NEW n, NEW t, NEW then, EnterCreate(r, n, t, then) PROVE failed'
  BY <1>4, <1>5, <1>6 DEF EnterCreate
<1>7. ASSUME NEW r, NEW n, NEW t, EnterWrite(r, n, t) PROVE failed'
  BY <1>4, <1>7 DEF EnterWrite
<1>8. ASSUME NEW r, NEW n, NEW t, EnterAppend(r, n, t) PROVE failed'
  BY <1>4, <1>5, <1>8 DEF EnterAppend
<1>9. ASSUME NEW n, NEW t, Create(n, t) \/ Write(n, t) \/ AppendTo(n, t) PROVE failed'
  BY <1>6, <1>7, <1>8, <1>9 DEF Create, Write, AppendTo, Lookup
<1>10. ASSUME NEW n, Delete(n) \/ Mkdir(n) PROVE failed'
  BY <1>4, <1>5, <1>10 DEF Delete, Mkdir, Lookup
<1>11. ASSUME NEW kind, NEW n, NEW m, Copy(kind, n, m) PROVE failed'
  BY <1>6, <1>11 DEF Copy
<1>12. CASE Progress
  <2>1. UNCHANGED history \/ \E b : Return(b)
    BY <1>12 DEF Progress, FreeDone, FreeCluster, FreeMirror, Alloc, AllocFails,
       AllocMirror,
                 Link, LinkMirror, IgnoreOrFail, Data, Fill, AllDone, WriteEntry, EntryFails
  <2>. QED  BY <1>1, <1>3, <2>1
<1>13. CASE PowerFails
  BY <1>2, <1>13 DEF PowerFails
<1>. QED  BY <1>1, <1>9, <1>10, <1>11, <1>12, <1>13 DEF Next, vars, history

LEMMA SpaceInit == Init => SpaceInv
<1>. SUFFICES ASSUME Init PROVE Owners /\ BuiltSome
  BY DEF SpaceInv
<1>1. /\ fat = [c \in Clusters |-> FREE] /\ dir = <<>> /\ pc = "idle" /\ op = NoOp
      /\ NoOp.slot = 0 /\ NoOp.first = 0 /\ NoOp.last = 0 /\ NoOp.need = 0 /\ NoOp.size = 0
      /\ NoOp.kind = None /\ 0 \notin Clusters /\ FREE \notin Clusters
  BY ConstantFacts DEF Init, NoOp, FREE
<1>2. Live = {} /\ Others = {} /\ Loose = {} /\ Roots = {}
  <2>1. Live = {} /\ Loose = {}
    BY <1>1 DEF Live, Loose
  <2>. QED  BY <1>1, <2>1 DEF Others, Live, Roots
<1>3. Forest(fat, Roots)
  BY <1>1, <1>2 DEF Forest, Sound
<1>4. Owners
  BY <1>2, <1>3 DEF Owners, Apart
<1>5. 0 \in 0 .. MaxLen /\ 0 + 0 - 0 = 0
  BY ConstantFacts
<1>6. Enough(0 + op.need - 0)
  BY <1>1, <1>5 DEF Enough
<1>7. Built(0)
  BY <1>1, <1>6 DEF Built, None
<1>. QED  BY <1>4, <1>5, <1>7 DEF BuiltSome

LEMMA SpaceStep ==
  ASSUME ~Faults, TypeInv, SpaceInv, [Next]_vars
  PROVE  SpaceInv'
<1>1. CASE failed
  BY <1>1, FailedStays DEF SpaceInv
<1>2. CASE ~failed
  <2>0. Owners /\ BuiltSome
    BY <1>2 DEF SpaceInv
  <2>1. CASE UNCHANGED vars
    <3>1. UNCHANGED <<fat, dir, op, pc>>
      BY <2>1 DEF vars, disk
    <3>2. Others' = Others /\ Loose' = Loose
      BY <3>1, SameEntries DEF Others, Loose
    <3>3. Owners'
      BY <2>0, <3>1, <3>2, OwnersKept
    <3>4. PICK n \in 0 .. MaxLen : Built(n)
      BY <2>0 DEF BuiltSome
    <3>5. Built(n)'
      BY <3>1, <3>4 DEF Built, Chain, Enough, HasTail
    <3>. QED  BY <3>3, <3>5 DEF SpaceInv, BuiltSome
  <2>2. CASE Progress
    BY <2>0, <2>2, SpaceProgress DEF SpaceInv
  <2>3. CASE PowerFails
    BY <2>3 DEF PowerFails, Answer, SpaceInv
  <2>4. CASE \/ \E n \in Names, t \in Texts : Create(n, t) \/ Write(n, t) \/ AppendTo(n, t)
             \/ \E n \in Names : Delete(n) \/ Mkdir(n)
             \/ \E n, m \in Names : Copy("cp", n, m) \/ Copy("mv", n, m)
    <3>1. pc = "idle"
      BY <2>4 DEF Create, Write, AppendTo, Delete, Mkdir, Copy, Make
    <3>. QED  BY <2>0, <2>4, <3>1, SpaceBegins DEF SpaceInv
  <2>. QED  BY <2>1, <2>2, <2>3, <2>4 DEF Next
<1>. QED  BY <1>1, <1>2

LEMMA SpaceAlways == ASSUME ~Faults PROVE Spec => [](TypeInv /\ SpaceInv)
<1>1. TypeInv /\ SpaceInv /\ [Next]_vars => TypeInv' /\ SpaceInv'
  BY TypedNext, SpaceStep
<1>. QED  BY <1>1, TypeInit, SpaceInit, PTL DEF Spec

(* As long as every call succeeds no cluster is lost: what is marked used  *)
(* is in some file's chain.  Calls of every kind may be cut off.           *)
THEOREM Fat32NoLeak == ASSUME ~Faults PROVE Spec => []NoLeak
<1>1. TypeInv => TypeOK
  BY TypesOK
<1>2. ASSUME TypeInv, Owners, pc = "idle", NEW c \in Clusters, fat[c] # FREE
      PROVE  \E i \in Live : c \in Owned(dir[i])
  <2>1. op = NoOp /\ NoOp.first = 0 /\ 0 \notin Clusters /\ Others = Live /\ Loose = {}
    BY <1>2, NoOpFacts, ConstantFacts DEF TypeInv, CallTyped, Others, Live, Loose, FREE
  <2>2. PICK r \in Roots : c \in OwnedIn(fat, r)
    BY <1>2 DEF Owners, Forest
  <2>3. PICK i \in Live : r = dir[i].first
    BY <2>1 DEF Roots
  <2>. QED  BY <2>2, <2>3, OwnedFacts
<1>3. TypeInv /\ SpaceInv => NoLeak
  BY <1>1, <1>2 DEF NoLeak, SpaceInv
<1>. QED  BY <1>3, SpaceAlways, PTL

(* The same of files that are also deleted, replaced and moved, as long as *)
(* no call has failed.                                                     *)
THEOREM Fat32FilesApart == ASSUME ~Faults PROVE Spec => [](~failed => NoCrossLinks)
<1>1. ASSUME TypeInv, Owners, BuiltSome PROVE NoCrossLinks
  <2>. PICK settled \in SUBSET Live :
         settled = Live \ (IF op.kind \in {"delete", "write"} THEN {op.slot} ELSE {})
    OBVIOUS
  <2>1. /\ op.kind = "append" => dir[op.slot].first \in {0, op.first}
        /\ op.slot \in Live => op.kind \in {"append", "write", "delete"}
    <3>1. op.slot \in Live => pc # "idle"
      BY <1>1, NoOpFacts DEF TypeInv, CallTyped, Live
    <3>. QED  BY <1>1, <3>1 DEF BuiltSome, Built, TypeInv, CallTyped
  <2>2. \A i \in settled \ Others : i = op.slot /\ dir[i].first \in {0, op.first}
    BY <2>1 DEF Others
  <2>3. ASSUME NEW i \in settled PROVE dir[i].first \in Clusters \cup {0}
    <3>1. dir[i] \in Entries
      BY <1>1 DEF TypeInv, Live
    <3>. QED  BY <3>1 DEF Entries
  <2>4. \A i \in settled : dir[i].first = 0 \/ dir[i].first \in Roots
    <3>1. op.first \in Clusters => op.first \in Roots
      BY RootFacts
    <3>2. \A i \in Others : dir[i].first \in Clusters => dir[i].first \in Roots
      BY RootFacts
    <3>. QED  BY <2>2, <2>3, <3>1, <3>2
  <2>5. Sound(fat) /\ \A i \in settled : dir[i].first = 0 \/ Heads(fat, dir[i].first)
    BY <1>1, <2>4 DEF Owners, Forest
  <2>6. \A i, j \in settled : i # j /\ dir[i].first = dir[j].first => dir[i].first = 0
    BY <1>1, <2>2 DEF Owners, Apart
  <2>. QED  BY <2>5, <2>6, FilesApart DEF NoCrossLinks
<1>2. TypeInv /\ SpaceInv => (~failed => NoCrossLinks)
  BY <1>1 DEF SpaceInv
<1>. QED  BY <1>2, SpaceAlways, PTL

-----------------------------------------------------------------------------
(***************************************************************************)
(* How FAT entries change, for chains of any length (see Fat32RefinesFileStore).*)
(***************************************************************************)
\* The three ways in which calls change the FAT, for chains of any length.
LEMMA SoundTakes ==
  ASSUME NEW table, Sound(table), NEW c \in Clusters, table[c] = FREE,
         NEW new, Sets(table, new, c, EOC)
  PROVE  /\ Sound(new) /\ Heads(new, c) /\ ~Heads(table, c)
         /\ \A r : Heads(table, r) => Heads(new, r)
         /\ \A r : r = 0 \/ Heads(table, r) => ChainIn(new, r) = ChainIn(table, r)
<1>0. /\ FREE # EOC /\ EOC \notin Clusters /\ FREE \notin Clusters
      /\ table \in [Clusters -> Clusters \cup {FREE, EOC}]
  BY ConstantFacts DEF Sound
<1>1. new[c] = EOC /\ \A x \in Clusters : x # c => new[x] = table[x]
  BY <1>0 DEF Sets
<1>2. \A x \in Clusters : table[x] # c
  BY DEF Sound
<1>3. Sound(new)
  <2>1. new \in [Clusters -> Clusters \cup {FREE, EOC}]
    BY <1>0 DEF Sets
  <2>2. \A x, y \in Clusters : new[x] = new[y] /\ new[x] \in Clusters => x = y
    BY <1>0, <1>1 DEF Sound
  <2>3. \A x \in Clusters : new[x] \in Clusters => new[new[x]] # FREE
    BY <1>0, <1>1, <1>2 DEF Sound
  <2>. QED  BY <2>1, <2>2, <2>3 DEF Sound
<1>4. Heads(new, c) /\ ~Heads(table, c)
  BY <1>0, <1>1, <1>2 DEF Heads, Unpointed
<1>5. ASSUME NEW r, Heads(table, r) PROVE Heads(new, r)
  BY <1>0, <1>1, <1>5 DEF Heads, Unpointed
<1>6. ASSUME NEW r, r = 0 \/ Heads(table, r) PROVE ChainIn(new, r) = ChainIn(table, r)
  <2>1. c \notin OwnedIn(table, r)
    BY <1>6, ChainUsed
  <2>2. \A x \in OwnedIn(table, r) : new[x] = table[x]
    BY <1>1, <2>1 DEF OwnedIn
  <2>. QED  BY <2>2, ChainUntouched
<1>. QED  BY <1>3, <1>4, <1>5, <1>6

LEMMA SoundLinks ==
  ASSUME NEW table, Sound(table), NEW c, Heads(table, c), NEW last \in Clusters, last # c,
         NEW new, Sets(table, new, last, c)
  PROVE  /\ Sound(new)
         /\ \A r : r # c /\ Heads(table, r) => Heads(new, r)
         /\ \A r : last \notin OwnedIn(table, r) => ChainIn(new, r) = ChainIn(table, r)
<1>0. /\ FREE # EOC /\ EOC \notin Clusters /\ FREE \notin Clusters
      /\ table \in [Clusters -> Clusters \cup {FREE, EOC}]
      /\ c \in Clusters /\ table[c] # FREE /\ \A x \in Clusters : table[x] # c
  BY ConstantFacts DEF Sound, Heads, Unpointed
<1>1. new[last] = c /\ \A x \in Clusters : x # last => new[x] = table[x]
  BY <1>0 DEF Sets
<1>2. Sound(new)
  <2>1. new \in [Clusters -> Clusters \cup {FREE, EOC}]
    BY <1>0 DEF Sets
  <2>2. \A x, y \in Clusters : new[x] = new[y] /\ new[x] \in Clusters => x = y
    BY <1>0, <1>1 DEF Sound
  <2>3. \A x \in Clusters : new[x] \in Clusters => new[new[x]] # FREE
    BY <1>0, <1>1 DEF Sound
  <2>. QED  BY <2>1, <2>2, <2>3 DEF Sound
<1>3. ASSUME NEW r, r # c, Heads(table, r) PROVE Heads(new, r)
  BY <1>0, <1>1, <1>3 DEF Heads, Unpointed
<1>4. ASSUME NEW r, last \notin OwnedIn(table, r) PROVE ChainIn(new, r) = ChainIn(table, r)
  <2>1. \A x \in OwnedIn(table, r) : new[x] = table[x]
    BY <1>1, <1>4 DEF OwnedIn
  <2>. QED  BY <2>1, ChainUntouched
<1>. QED  BY <1>2, <1>3, <1>4

LEMMA SoundFrees ==
  ASSUME NEW table, Sound(table), NEW c, Heads(table, c), NEW new, Sets(table, new, c, FREE)
  PROVE  /\ Sound(new) /\ new[c] = FREE /\ \A x \in Clusters : x # c => new[x] = table[x]
         /\ table[c] \in Clusters =>
              /\ Heads(new, table[c]) /\ ~Heads(table, table[c])
              /\ ChainIn(new, table[c]) = ChainIn(table, table[c])
         /\ \A r : r # c /\ (r = 0 \/ Heads(table, r)) =>
              /\ ChainIn(new, r) = ChainIn(table, r) /\ (r # 0 => Heads(new, r))
<1>0. /\ FREE # EOC /\ EOC \notin Clusters /\ FREE \notin Clusters /\ 0 \notin Clusters
      /\ table \in [Clusters -> Clusters \cup {FREE, EOC}]
      /\ c \in Clusters /\ table[c] # FREE /\ \A x \in Clusters : table[x] # c
  BY ConstantFacts DEF Sound, Heads, Unpointed
<1>1. new[c] = FREE /\ \A x \in Clusters : x # c => new[x] = table[x]
  BY <1>0 DEF Sets
<1>2. Sound(new)
  <2>1. new \in [Clusters -> Clusters \cup {FREE, EOC}]
    BY <1>0 DEF Sets
  <2>2. \A x, y \in Clusters : new[x] = new[y] /\ new[x] \in Clusters => x = y
    BY <1>0, <1>1 DEF Sound
  <2>3. \A x \in Clusters : new[x] \in Clusters => new[new[x]] # FREE
    BY <1>0, <1>1 DEF Sound
  <2>. QED  BY <2>1, <2>2, <2>3 DEF Sound
<1>3. ASSUME NEW r, r # c PROVE ChainIn(new, r) = ChainIn(table, r)
  <2>1. Unpointed(table, c)
    BY <1>0 DEF Unpointed
  <2>2. c \notin OwnedIn(table, r)
    BY <1>3, <2>1, OnlyHead
  <2>3. \A x \in OwnedIn(table, r) : new[x] = table[x]
    BY <1>1, <2>2 DEF OwnedIn
  <2>. QED  BY <2>3, ChainUntouched
<1>4. ASSUME NEW r, r # c, Heads(table, r) PROVE Heads(new, r)
  BY <1>0, <1>1, <1>4 DEF Heads, Unpointed
<1>5. ASSUME table[c] \in Clusters
      PROVE  Heads(new, table[c]) /\ ~Heads(table, table[c]) /\ table[c] # c
  <2>1. table[c] # c
    BY <1>0
  <2>2. new[table[c]] # FREE
    BY <1>0, <1>1, <1>5, <2>1 DEF Sound
  <2>3. \A x \in Clusters : new[x] # table[c]
    BY <1>0, <1>1, <1>5 DEF Sound
  <2>. QED  BY <1>0, <1>5, <2>1, <2>2, <2>3 DEF Heads, Unpointed
<1>. QED  BY <1>1, <1>2, <1>3, <1>4, <1>5

\* What is freed is free.
LEMMA FreedCovered ==
  ASSUME NEW table, NEW c \in Clusters, NEW new, new[c] = FREE,
         ChainIn(new, table[c]) = ChainIn(table, table[c]),
         \A x \in Clusters : x # c => new[x] = table[x]
  PROVE  \A x : x \in {y \in Clusters : table[y] = FREE} \cup OwnedIn(table, c) =>
                x \in {y \in Clusters : new[y] = FREE} \cup OwnedIn(new, table[c])
<1>. PICK d : d = table[c]
  OBVIOUS
<1>0. MaxLen \in Nat
  BY ConstantFacts
<1>1. \A k \in 0 .. MaxLen - 1 : ChainIn(table, d)[k] = ChainIn(table, c)[k + 1]
  BY ChainRest
<1>2. ASSUME NEW x \in OwnedIn(table, c), x # c PROVE x \in OwnedIn(table, d)
  <2>1. PICK k \in 0 .. MaxLen : x = ChainIn(table, c)[k] /\ x \in Clusters
    BY DEF OwnedIn
  <2>2. k # 0
    BY <1>2, <2>1, ChainFacts
  <2>3. PICK j \in 0 .. MaxLen - 1 : k = j + 1 /\ j \in 0 .. MaxLen
    <3>1. k - 1 \in 0 .. MaxLen - 1 /\ k = (k - 1) + 1 /\ k - 1 \in 0 .. MaxLen
      BY <1>0, <2>2
    <3>. QED  BY <3>1
  <2>4. x = ChainIn(table, d)[j]
    BY <1>1, <2>1, <2>3
  <2>. QED  BY <2>1, <2>3, <2>4 DEF OwnedIn
<1>3. OwnedIn(new, d) = OwnedIn(table, d)
  BY DEF OwnedIn
<1>4. ASSUME NEW x \in OwnedIn(table, c)
      PROVE  x \in {y \in Clusters : new[y] = FREE} \cup OwnedIn(new, d)
  BY <1>2, <1>3, <1>4
<1>5. \A y \in Clusters : table[y] = FREE => new[y] = FREE
  OBVIOUS
<1>. QED  BY <1>4, <1>5

-----------------------------------------------------------------------------
(***************************************************************************)
(* What the files hold.                                                    *)
(***************************************************************************)
\* A sequence of that length.
IsText(w, n) == w = [i \in 1 .. n |-> w[i]]

\* The unit of the file at c that is its i-th.
UnitAt(table, content, c, i) ==
  content[ChainIn(table, c)[(i - 1) \div ClusterSize]][((i - 1) % ClusterSize) + 1]

\* The chain from c is long enough for n units.
Reaches(table, c, n) ==
  \A i \in 1 .. n : ChainIn(table, c)[(i - 1) \div ClusterSize] \in Clusters

\* The first n units of the chain from c are those of w.
Holds(table, content, c, w, n) ==
  Reaches(table, c, n) /\ \A i \in 1 .. n : UnitAt(table, content, c, i) = w[i]

LEMMA SeqFacts ==
  ASSUME NEW s, NEW l \in Nat, IsText(s, l)
  PROVE  /\ Len(s) = l /\ s \in Seq({s[i] : i \in 1 .. l}) /\ DOMAIN s = 1 .. l
         /\ s = <<>> <=> l = 0
<1>1. s = [i \in 1 .. l |-> s[i]]
  BY DEF IsText
<1>2. \A i \in 1 .. l : s[i] \in {s[j] : j \in 1 .. l}
  OBVIOUS
<1>3. s \in Seq({s[i] : i \in 1 .. l}) /\ Len(s) = l
  BY <1>1, <1>2
<1>. QED  BY <1>1, <1>3

LEMMA DropFacts ==
  ASSUME NEW s, NEW l \in Nat, IsText(s, l), NEW k \in 0 .. l
  PROVE  Drop(s, k) = [j \in 1 .. l - k |-> s[k + j]]
<1>. PICK T : T = {s[i] : i \in 1 .. l}
  OBVIOUS
<1>. PICK n \in Nat : n = l - k
  OBVIOUS
<1>1. s \in Seq(T) /\ Len(s) = l
  BY SeqFacts
<1>. PICK d : d = Drop(s, k)
  OBVIOUS
<1>2. \A i \in k + 1 .. l : s[i] \in T
  BY <1>1
<1>3. d = SubSeq(s, k + 1, l)
  BY <1>1 DEF Drop
<1>4. d = [j \in 1 .. n |-> s[k + j]]
  <2>1. l - (k + 1) + 1 = n
    OBVIOUS
  <2>2. SubSeq(s, k + 1, l) = [j \in 1 .. (1 + l - (k + 1)) |-> s[j + (k + 1) - 1]]
    BY <1>1
  <2>3. \A j \in 1 .. n : j + (k + 1) - 1 = k + j
    OBVIOUS
  <2>4. 1 + l - (k + 1) = n
    OBVIOUS
  <2>. QED  BY <1>3, <2>2, <2>3, <2>4
<1>. QED  BY <1>4

\* The l units of t are those of w from s + 1 on.
GoesOn(w, s, t, l) == \A j \in 1 .. l : w[s + j] = t[j]

LEMMA JoinFacts ==
  ASSUME NEW a, NEW m \in Nat, IsText(a, m), NEW t, NEW l \in Nat, IsText(t, l)
  PROVE  IsText(a \o t, m + l) /\ GoesOn(a \o t, 0, a, m) /\ GoesOn(a \o t, m, t, l)
<1>. PICK T : T = {a[i] : i \in 1 .. m} \cup {t[i] : i \in 1 .. l}
  OBVIOUS
<1>1. Len(a) = m /\ Len(t) = l /\ a \in Seq(T) /\ t \in Seq(T)
  <2>1. Len(a) = m /\ Len(t) = l
    BY SeqFacts
  <2>2. a = [i \in 1 .. m |-> a[i]] /\ \A i \in 1 .. m : a[i] \in T
    BY DEF IsText
  <2>3. t = [i \in 1 .. l |-> t[i]] /\ \A i \in 1 .. l : t[i] \in T
    BY DEF IsText
  <2>4. a \in Seq(T)
    BY <2>2
  <2>5. t \in Seq(T)
    BY <2>3
  <2>. QED  BY <2>1, <2>4, <2>5
<1>. PICK s : s = a \o t
  OBVIOUS
<1>2. /\ s \in Seq(T) /\ Len(s) = m + l
      /\ \A i \in 1 .. m + l : s[i] = IF i <= m THEN a[i] ELSE t[i - m]
  <2>1. s \in Seq(T)
    BY <1>1
  <2>2. Len(s) = m + l
    <3>1. Len(a \o t) = Len(a) + Len(t)
      BY <1>1, ConcatProperties, Zenon
    <3>. QED  BY <1>1, <3>1
  <2>3. ASSUME NEW i \in 1 .. m + l PROVE s[i] = IF i <= m THEN a[i] ELSE t[i - m]
    BY <1>1
  <2>. QED  BY <2>1, <2>2, <2>3
<1>3. \A j \in 1 .. l : m + j \in 1 .. m + l /\ ~(m + j <= m) /\ (m + j) - m = j
  OBVIOUS
<1>4. \A i \in 1 .. m : s[i] = a[i]
  BY <1>2
<1>5. \A j \in 1 .. l : s[m + j] = t[j]
  BY <1>2, <1>3
<1>6. s = [i \in 1 .. m + l |-> s[i]]
  <2>. PICK n \in Nat : n = m + l
    OBVIOUS
  <2>1. s \in [1 .. Len(s) -> T]
    BY <1>2, LenProperties, Zenon
  <2>2. s \in [1 .. n -> T]
    BY <1>2, <2>1
  <2>. QED  BY <2>2
<1>7. \A i \in 1 .. m : 0 + i = i
  OBVIOUS
<1>. QED  BY <1>4, <1>5, <1>6, <1>7 DEF IsText, GoesOn

\* The number of units in q clusters.
Units(p, q) == p = q * ClusterSize

LEMMA Place ==
  ASSUME NEW i \in Nat, NEW q \in Nat, NEW p \in Nat, Units(p, q),
         p < i, i <= p + ClusterSize
  PROVE  (i - 1) \div ClusterSize = q /\ ((i - 1) % ClusterSize) + 1 = i - p
<1>1. PICK z \in Nat \ {0} : z = ClusterSize
  BY ConstantFacts
<1>2. PICK a \in Nat : a = i - 1
  OBVIOUS
<1>3. z * q = p
  BY <1>1 DEF Units
<1>4. z * q <= a /\ a < z * q + z
  BY <1>1, <1>2, <1>3
<1>5. a \div z = q
  BY <1>4, DivUnique
<1>6. a % z = a - z * q
  BY <1>5, DivFacts
<1>. QED  BY <1>1, <1>2, <1>3, <1>5, <1>6

LEMMA Early ==
  ASSUME NEW i \in Nat \ {0}, NEW q \in Nat, NEW p \in Nat, Units(p, q), i <= p
  PROVE  (i - 1) \div ClusterSize \in Nat /\ (i - 1) \div ClusterSize < q
<1>1. PICK z \in Nat \ {0} : z = ClusterSize
  BY ConstantFacts
<1>2. PICK a \in Nat : a = i - 1
  OBVIOUS
<1>3. PICK d \in Nat : d = a \div z /\ z * d <= a
  BY DivFacts
<1>4. z * q = p
  BY <1>1 DEF Units
<1>5. d < q
  <2>. SUFFICES ASSUME q <= d PROVE FALSE
    OBVIOUS
  <2>1. PICK x \in Nat : d = q + x
    <3>1. d - q \in Nat /\ d = q + (d - q)
      OBVIOUS
    <3>. QED  BY <3>1
  <2>2. z * d = z * q + z * x /\ z * x \in Nat
    BY <2>1
  <2>. QED  BY <1>2, <1>3, <1>4, <2>2
<1>. QED  BY <1>1, <1>2, <1>3, <1>5

LEMMA TextHeld ==
  ASSUME Volume = Clusters, NEW table, NEW content, NEW e, e.size \in 0 .. MaxLen,
         Reaches(table, e.first, e.size)
  PROVE  TextIn(table, content, e)
           = [i \in 1 .. e.size |-> UnitAt(table, content, e.first, i)]
<1>. PICK s \in 0 .. MaxLen : s = e.size
  OBVIOUS
<1>. PICK f : f = ChainIn(table, e.first)
  OBVIOUS
<1>. DEFINE at(i) == (i - 1) \div ClusterSize
            R == {i \in 1 .. s : \A k \in 0 .. at(i) : f[k] \in Volume}
<1>0. s \in Nat /\ MaxLen \in Nat
  BY ConstantFacts
<1>1. \A i \in 1 .. s : at(i) \in 0 .. MaxLen /\ f[at(i)] \in Clusters
  BY UnitFacts DEF Reaches
<1>2. TextIn(table, content, e) =
        [i \in 1 .. Cardinality(R) |-> content[f[at(i)]][((i - 1) % ClusterSize) + 1]]
  BY DEF TextIn
<1>3. \A i \in 1 .. s : UnitAt(table, content, e.first, i)
                          = content[f[at(i)]][((i - 1) % ClusterSize) + 1]
  BY DEF UnitAt
<1>. HIDE DEF at
<1>4. ASSUME NEW i \in 1 .. s, NEW k \in 0 .. at(i) PROVE f[k] \in Volume
  <2>. SUFFICES ASSUME f[k] \notin Clusters PROVE FALSE
    OBVIOUS
  <2>1. k \in 0 .. MaxLen /\ at(i) \in k .. MaxLen
    BY <1>0, <1>1
  <2>2. f[at(i)] = f[k]
    BY <2>1, ChainStops
  <2>. QED  BY <1>1, <2>2
<1>5. R = 1 .. s
  BY <1>4
<1>6. Cardinality(1 .. s) = s
  <2>1. PICK z \in Nat : z = s
    BY <1>0
  <2>2. Cardinality(1 .. z) = z
    BY FS_Interval
  <2>. QED  BY <2>1, <2>2
<1>7. Cardinality(R) = s
  BY <1>5, <1>6
<1>. HIDE DEF R
<1>. QED  BY <1>2, <1>3, <1>7

\* The chain from c still starts with the clusters that n units take.
SameStart(table, new, c, n) ==
  \A k \in 0 .. MaxLen : k < ClustersFor(n) => ChainIn(new, c)[k] = ChainIn(table, c)[k]

LEMMA HoldsKept ==
  ASSUME NEW table, NEW new, NEW content, NEW c, NEW w, NEW n \in 0 .. MaxLen,
         SameStart(table, new, c, n), Holds(table, content, c, w, n)
  PROVE  Holds(new, content, c, w, n)
<1>1. ASSUME NEW i \in 1 .. n
      PROVE  LET k == (i - 1) \div ClusterSize
             IN  ChainIn(new, c)[k] = ChainIn(table, c)[k]
  <2>1. PICK k : k = (i - 1) \div ClusterSize
    OBVIOUS
  <2>2. k \in 0 .. MaxLen /\ k < ClustersFor(n)
    BY <2>1, UnitFacts
  <2>. QED  BY <2>1, <2>2 DEF SameStart
<1>2. Reaches(new, c, n)
  BY <1>1 DEF Reaches, Holds
<1>3. ASSUME NEW i \in 1 .. n
      PROVE  UnitAt(new, content, c, i) = UnitAt(table, content, c, i)
  BY <1>1 DEF UnitAt
<1>. QED  BY <1>2, <1>3 DEF Holds

\* last is the q-th cluster of the chain from c.
Nth(table, c, q, last) == last = ChainIn(table, c)[q]

Sum(s, a, b) == s = a + b

\* The units of the cluster that starts at p go on, from done, with n units of w.
Goes(old, new, w, p, done, n) ==
  /\ \A j \in 1 .. done - p : new[j] = old[j]
  /\ \A j \in 1 .. n : new[(done - p) + j] = w[done + j]

(* Units are written behind those that are there, in one cluster.          *)
LEMMA Appends ==
  ASSUME NEW table, Sound(table), NEW c, Heads(table, c), NEW q \in 0 .. MaxLen,
         NEW last \in Clusters, Nth(table, c, q, last),
         NEW content, NEW written, NEW w, NEW done \in 0 .. MaxLen, NEW n \in 0 .. MaxLen,
         NEW p \in 0 .. MaxLen, Units(p, q), p <= done, done + n <= p + ClusterSize,
         NEW sum \in 0 .. MaxLen, Sum(sum, done, n),
         Holds(table, content, c, w, done),
         \A x \in Clusters : x # last => written[x] = content[x],
         Goes(content[last], written[last], w, p, done, n)
  PROVE  Holds(table, written, c, w, sum)
<1>. PICK f : f = ChainIn(table, c)
  OBVIOUS
<1>0. MaxLen \in Nat /\ ClusterSize \in Nat \ {0} /\ q \in Nat
      /\ p \in Nat /\ n \in Nat /\ done \in Nat /\ sum = done + n
  BY ConstantFacts DEF Sum
<1>1. ASSUME NEW i \in 1 .. done + n, i > p
      PROVE  /\ f[(i - 1) \div ClusterSize] = last
             /\ UnitAt(table, written, c, i) = written[last][i - p]
             /\ UnitAt(table, content, c, i) = content[last][i - p]
  <2>. PICK a : a = (i - 1) \div ClusterSize
    OBVIOUS
  <2>. PICK b : b = ((i - 1) % ClusterSize) + 1
    OBVIOUS
  <2>1. a = q /\ b = i - p
    <3>1. i \in Nat /\ p < i /\ i <= p + ClusterSize
      BY <1>0, <1>1
    <3>. QED  BY <1>0, <3>1, Place
  <2>2. \A d : UnitAt(table, d, c, i) = d[f[a]][b]
    BY DEF UnitAt
  <2>. QED  BY <2>1, <2>2 DEF Nth
<1>2. ASSUME NEW i \in 1 .. done + n, i <= p
      PROVE  /\ f[(i - 1) \div ClusterSize] \in Clusters
             /\ UnitAt(table, written, c, i) = UnitAt(table, content, c, i)
  <2>1. PICK k \in Nat : k = (i - 1) \div ClusterSize /\ k < q
    <3>1. i \in Nat \ {0} /\ i <= p
      BY <1>0, <1>2
    <3>. QED  BY <1>0, <3>1, Early
  <2>2. f[k] \in Clusters
    BY <1>2, <2>1 DEF Holds, Reaches
  <2>3. k \in 0 .. MaxLen /\ k # q
    BY <1>0, <2>1
  <2>4. f[k] # last
    BY <2>2, <2>3, ChainsMeet DEF Nth
  <2>5. \A d : UnitAt(table, d, c, i) = d[f[k]][((i - 1) % ClusterSize) + 1]
    BY <2>1 DEF UnitAt
  <2>. QED  BY <2>1, <2>2, <2>4, <2>5
<1>3. ASSUME NEW i \in 1 .. done + n
      PROVE  /\ f[(i - 1) \div ClusterSize] \in Clusters
             /\ UnitAt(table, written, c, i) = w[i]
  <2>1. CASE i <= p
    <3>1. i \in 1 .. done
      BY <1>0, <2>1
    <3>. QED  BY <1>2, <2>1, <3>1 DEF Holds
  <2>2. CASE i > p /\ i <= done
    <3>1. i \in 1 .. done /\ i - p \in 1 .. done - p
      BY <1>0, <2>2
    <3>. QED  BY <1>0, <1>1, <2>2, <3>1 DEF Holds, Goes
  <2>3. CASE i > done
    <3>1. PICK j \in 1 .. n : i = done + j
      <4>1. i - done \in 1 .. n /\ i = done + (i - done)
        BY <1>0, <2>3
      <4>. QED  BY <4>1
    <3>2. i - p = (done - p) + j /\ i > p
      BY <1>0, <3>1
    <3>. QED  BY <1>0, <1>1, <3>1, <3>2 DEF Goes
  <2>. QED  BY <1>0, <2>1, <2>2, <2>3
<1>. QED  BY <1>0, <1>3 DEF Holds, Reaches

-----------------------------------------------------------------------------
(***************************************************************************)
(* The invariant behind the refinement.                                    *)
(***************************************************************************)
\* What the names read as after request r, if they read as b before it.
Outcome(b, r) ==
  CASE r.kind = "create" -> [b EXCEPT ![r.name] = Store!File(r.text)]
    [] r.kind = "write"  ->
         [b EXCEPT ![r.name] = [b[r.name] EXCEPT !.there = TRUE, !.text = r.text]]
    [] r.kind = "append" ->
         [b EXCEPT ![r.name] =
            [b[r.name] EXCEPT !.there = TRUE, !.text = b[r.name].text \o r.text]]
    [] r.kind = "mkdir"  -> [b EXCEPT ![r.name] = Store!Directory]
    [] r.kind = "delete" -> [b EXCEPT ![r.name] = Store!Absent]
    [] r.kind = "cp"     -> [b EXCEPT ![r.to] = b[r.name]]
    [] r.kind = "mv"     -> [b EXCEPT ![r.name] = Store!Absent, ![r.to] = b[r.name]]

\* The text that the call's file will have.
Want == Outcome(before, req)[op.name].text

Unique == \A i, j \in Live : dir[i].name = dir[j].name => i = j

(* The chains on the disk: every file's is long enough, and no two meet.   *)
Files ==
  /\ Sound(fat) /\ Apart
  /\ \A r \in Roots : Heads(fat, r)
  /\ \A i \in Others : Reaches(fat, dir[i].first, dir[i].size)
  /\ DOMAIN data = Clusters

Linking == pc \in {"linkMirror", "data"}

\* The file that an append extends.
Own(done) ==
  op.kind = "append" =>
    /\ dir[op.slot].size <= done
    /\ \/ dir[op.slot].first = op.first
       \/ dir[op.slot].first = 0 /\ dir[op.slot].size = 0

(* The call has built m clusters, which hold done units of the text w.     *)
Doing(m, done, w) ==
  /\ IF m = 0 THEN op.first = 0 /\ op.last = 0
     ELSE op.last \in Clusters /\ op.last = ChainIn(fat, op.first)[m - 1]
  /\ IsText(w, op.size) /\ done <= op.size
  /\ op.rest = [j \in 1 .. op.size - done |-> w[done + j]]
  /\ Holds(fat, data, op.first, w, done)
  /\ Own(done)
  /\ pc # "fill" => Enough(m + op.need - IF Linking THEN 1 ELSE 0)
  /\ pc # "fill" /\ ~Linking => IF op.need = 0 THEN done = op.size ELSE Units(done, m)
  /\ Linking => m > 0 /\ op.cl = op.last /\ Units(done, m - 1)
  /\ pc \in {"free", "freeMirror"} => m = 0
  /\ pc = "fill" => /\ done = dir[op.slot].size /\ m = Count(done)
                    /\ HasTail(dir[op.slot])
  /\ pc = "entry" => op.need = 0

FreeSet(table) == {c \in Clusters : table[c] = FREE}

\* The clusters that a replacing call can still take.
Takeable ==
  FreeSet(fat) \cup (IF pc \in {"free", "freeMirror"} THEN OwnedIn(fat, op.cl) ELSE {})

Room ==
  Cardinality(Takeable)
    >= op.need - IF pc \in {"allocMirror", "link", "linkMirror", "data"} THEN 1 ELSE 0

Told ==
  /\ req # <<>> /\ before = [n \in Names |-> before[n]]
  /\ req.kind \in {"delete", "cp", "mv"} => before[req.name].there

Named ==
  /\ IF op.kind = "create" THEN Matches(op.name) = {} ELSE Matches(op.name) = {op.slot}
  /\ op.then # None => op.then # op.name /\ Matches(op.then) # {}

\* What a call will have done when it writes its entry.
Promise ==
  IF op.kind = "delete"
  THEN Outcome(before, req) = [n \in Names |-> IF n = op.name THEN Store!Absent ELSE Reads(n)]
  ELSE Outcome(before, req) =
         [n \in Names |-> IF n = op.name THEN [there |-> TRUE, dir |-> op.dir, text |-> Want]
                          ELSE IF n = op.then THEN Store!Absent ELSE before[n]]

Untouched == \A n \in Names : (n = op.name /\ op.kind = "write") \/ Reads(n) = before[n]

Underway ==
  IF op.kind = "delete" THEN op.first = 0 /\ op.last = 0
  ELSE Untouched /\ \E m, done \in 0 .. MaxLen : Doing(m, done, Want)

Serving == Told /\ Named /\ Promise /\ Underway /\ (op.kind = "write" => Room)

(* The invariant behind the refinement: between calls the volume is in     *)
(* order, and during one everything but the called names reads as before.  *)
StoreInv == TypeInv /\ Files /\ Unique /\ IF pc = "idle" THEN req = <<>> ELSE Serving

-----------------------------------------------------------------------------
LEMMA MinOne == ASSUME NEW i \in Nat PROVE Min({i}) = i
<1>1. Min({i}) \in {i}
  BY LeastNatural
<1>. QED  BY <1>1

LEMMA ReadsNone == ASSUME NEW n, Matches(n) = {} PROVE Reads(n) = Store!Absent
BY DEF Reads, Store!Absent

\* The entry's chain starts at c, unless the entry is empty.
StartsAt(e, c) == e.first = c \/ (e.first = 0 /\ e.size = 0)

\* The first n units of w.
Prefixes(t, w, n) == t = [j \in 1 .. n |-> w[j]]

LEMMA TextOf ==
  ASSUME Volume = Clusters, NEW table, NEW content, NEW e, e.size \in 0 .. MaxLen,
         NEW w, NEW done \in 0 .. MaxLen, e.size <= done, NEW c, StartsAt(e, c),
         Holds(table, content, c, w, done)
  PROVE  Prefixes(TextIn(table, content, e), w, e.size)
<1>. PICK s \in 0 .. MaxLen : s = e.size /\ s \in Nat
  BY ConstantFacts
<1>1. Reaches(table, e.first, s)
  BY DEF Holds, Reaches, StartsAt
<1>2. TextIn(table, content, e) = [i \in 1 .. s |-> UnitAt(table, content, e.first, i)]
  BY <1>1, TextHeld
<1>3. \A i \in 1 .. s : UnitAt(table, content, e.first, i) = w[i]
  BY DEF Holds, StartsAt
<1>. QED  BY <1>2, <1>3 DEF Prefixes

\* The entries of the other names.
LEMMA OthersNamed ==
  ASSUME TypeInv, Named, pc # "idle", NEW n \in Names, n # op.name
  PROVE  Matches(n) \subseteq Others
<1>1. op.slot \in Live => dir[op.slot].name = op.name
  <2>1. op.slot \in Live <=> op.kind # "create"
    BY DEF TypeInv, CallTyped
  <2>. QED  BY <2>1 DEF Named, Matches
<1>. QED  BY <1>1 DEF Matches, Others

LEMMA LastApart ==
  ASSUME Files, op.first \in Clusters, NEW x \in OwnedIn(fat, op.first)
  PROVE  \A i \in Others : dir[i].first \in Clusters \cup {0} => x \notin OwnedIn(fat, dir[i].first)
<1>. SUFFICES ASSUME NEW i \in Others, dir[i].first \in Clusters \cup {0},
                     x \in OwnedIn(fat, dir[i].first)
              PROVE  FALSE
  OBVIOUS
<1>1. PICK a \in 0 .. MaxLen : x = ChainIn(fat, dir[i].first)[a] /\ x \in Clusters
  BY DEF OwnedIn
<1>6. PICK k \in 0 .. MaxLen : x = ChainIn(fat, op.first)[k]
  BY DEF OwnedIn
<1>2. dir[i].first = 0 \/ Heads(fat, dir[i].first)
  BY RootFacts DEF Files
<1>3. Heads(fat, op.first)
  BY RootFacts DEF Files
<1>. PICK c : c = dir[i].first
  OBVIOUS
<1>. PICK d : d = op.first
  OBVIOUS
<1>4. \A p, q \in 0 .. MaxLen :
        ChainIn(fat, c)[p] = ChainIn(fat, d)[q] /\ ChainIn(fat, c)[p] \in Clusters => c = d
  BY <1>2, <1>3, ChainsMeet DEF Files
<1>5. c = d
  BY <1>1, <1>4, <1>6
<1>. QED  BY <1>5, ConstantFacts DEF Files, Apart

(* What a step may do to the disk without touching any other name.         *)
LEMMA OthersRead ==
  ASSUME StoreInv, pc # "idle", UNCHANGED dir,
         \A i \in Others : ChainIn(fat', dir[i].first) = ChainIn(fat, dir[i].first),
         \A x \in Clusters : data'[x] = data[x] \/
              \A i \in Others : x \notin OwnedIn(fat, dir[i].first),
         Volume = Clusters
  PROVE  /\ \A n \in Names : n # op.name => Reads(n)' = Reads(n)
         /\ \A i \in Others : Reaches(fat', dir[i].first, dir[i].size)
<1>1. ASSUME NEW n \in Names, n # op.name PROVE Reads(n)' = Reads(n)
  <2>. SUFFICES ASSUME Matches(n) # {}
                PROVE  TextIn(fat', data', dir[Min(Matches(n))])
                         = TextIn(fat, data, dir[Min(Matches(n))])
    BY ReadsKept
  <2>. PICK i \in Others : i = Min(Matches(n)) /\ dir[i] \in Entries
    <3>1. Min(Matches(n)) \in Matches(n) /\ dir[Min(Matches(n))] \in Entries
      BY FileFacts DEF StoreInv
    <3>. QED  BY <1>1, <3>1, OthersNamed DEF StoreInv, Serving
  <2>. PICK e \in Entries : e = dir[i]
    OBVIOUS
  <2>1. e.size \in 0 .. MaxLen
    BY DEF Entries
  <2>2. ChainIn(fat', e.first) = ChainIn(fat, e.first)
    OBVIOUS
  <2>3. ASSUME NEW u \in 1 .. e.size, NEW c,
               c = ChainIn(fat, e.first)[(u - 1) \div ClusterSize],
               c \in Volume
        PROVE  data'[c] = data[c]
    <3>1. (u - 1) \div ClusterSize \in 0 .. MaxLen
      BY <2>1, UnitFacts
    <3>2. c \in OwnedIn(fat, e.first)
      BY <2>3, <3>1 DEF OwnedIn
    <3>. QED  BY <2>3, <3>2
  <2>4. TextIn(fat', data', e) = TextIn(fat, data, e)
    BY <2>1, <2>2, <2>3, TextKept
  <2>. QED  BY <2>4
<1>2. ASSUME NEW i \in Others PROVE Reaches(fat', dir[i].first, dir[i].size)
  BY DEF StoreInv, Files, Reaches
<1>. QED  BY <1>1, <1>2

(* A call goes on.                                                         *)
LEMMA StoreOn ==
  ASSUME Volume = Clusters, StoreInv, TypeInv', pc # "idle", pc' # "idle",
         op.kind # "delete", UNCHANGED <<dir, req, before>>, Same(op'), Files',
         \A n \in Names : n # op.name => Reads(n)' = Reads(n),
         NEW m \in 0 .. MaxLen, NEW done \in 0 .. MaxLen, Doing(m, done, Want)',
         op.kind = "write" => Room'
  PROVE  StoreInv'
<1>1. /\ op'.kind = op.kind /\ op'.name = op.name /\ op'.dir = op.dir
      /\ op'.then = op.then /\ op'.slot = op.slot
  BY DEF Same
<1>2. Live' = Live /\ \A n : Matches(n)' = Matches(n)
  BY SameEntries
<1>3. Want' = Want
  BY <1>1 DEF Want
<1>4. Told' /\ Named' /\ Unique'
  BY <1>1, <1>2 DEF StoreInv, Serving, Told, Named, Unique
<1>5. Promise'
  BY <1>1, <1>3 DEF StoreInv, Serving, Promise
<1>6. CASE op.kind = "append"
  <2>. PICK i \in Nat : i = op.slot /\ Matches(op.name) = {i} /\ dir[i] \in Entries
    <3>1. op.slot \in Live /\ Matches(op.name) = {op.slot} /\ dir \in Seq(Entries)
      BY <1>6 DEF StoreInv, Serving, Named, TypeInv, CallTyped
    <3>. QED  BY <3>1 DEF Live
  <2>. PICK e \in Entries : e = dir[i] /\ e.size \in 0 .. MaxLen
    BY DEF Entries
  <2>. PICK w : w = Want
    OBVIOUS
  <2>. PICK c : c = op.first
    OBVIOUS
  <2>. PICK d : d = op'.first
    OBVIOUS
  <2>. PICK n \in Names : n = op.name
    BY DEF StoreInv, TypeInv, CallTyped
  <2>1. PICK a, b \in 0 .. MaxLen : Doing(a, b, w)
    BY <1>6 DEF StoreInv, Serving, Underway
  <2>2. Prefixes(TextIn(fat, data, e), w, e.size)
    <3>1. b \in Nat /\ Holds(fat, data, c, w, b) /\ e.size <= b
          /\ StartsAt(e, c)
      BY <1>6, <2>1, ConstantFacts DEF Doing, Own, StartsAt
    <3>2. e.size \in 0 .. MaxLen
      OBVIOUS
    <3>. QED  BY <3>1, <3>2, TextOf
  <2>3. Prefixes(TextIn(fat', data', e), w, e.size)
    <3>1. done \in Nat /\ Holds(fat', data', d, w, done) /\ e.size <= done
          /\ StartsAt(e, d)
      BY <1>1, <1>3, <1>6, ConstantFacts DEF Doing, Own, StartsAt
    <3>2. e.size \in 0 .. MaxLen
      OBVIOUS
    <3>. QED  BY <3>1, <3>2, TextOf
  <2>4. Reads(n)' = Reads(n)
    <3>1. Min(Matches(n)) = i
      BY MinOne
    <3>. QED  BY <2>2, <2>3, <3>1, ReadsKept DEF Prefixes
  <2>5. Untouched'
    BY <1>1, <1>6, <2>4 DEF StoreInv, Serving, Underway, Untouched
  <2>. QED  BY <1>1, <1>2, <1>4, <1>5, <1>6, <2>5 DEF StoreInv, Serving, Underway
<1>7. CASE op.kind = "create"
  <2>. PICK n \in Names : n = op.name
    BY DEF StoreInv, TypeInv, CallTyped
  <2>1. Reads(n)' = Reads(n)
    BY <1>2, <1>7 DEF StoreInv, Serving, Named, Reads
  <2>2. Untouched'
    BY <1>1, <1>7, <2>1 DEF StoreInv, Serving, Underway, Untouched
  <2>. QED  BY <1>1, <1>2, <1>4, <1>5, <1>7, <2>2 DEF StoreInv, Serving, Underway
<1>8. CASE op.kind = "write"
  <2>1. Untouched'
    BY <1>1, <1>8 DEF StoreInv, Serving, Underway, Untouched
  <2>. QED  BY <1>1, <1>2, <1>4, <1>5, <1>8, <2>1 DEF StoreInv, Serving, Underway
<1>. QED  BY <1>6, <1>7, <1>8 DEF StoreInv, TypeInv, CallTyped

\* A call goes on to free the clusters of the file that it deletes.
LEMMA StoreDeletes ==
  ASSUME StoreInv, TypeInv', pc # "idle", pc' # "idle",
         op.kind = "delete", UNCHANGED <<dir, req, before>>, Same(op'), Files',
         op'.first = op.first, op'.last = op.last,
         \A n \in Names : n # op.name => Reads(n)' = Reads(n)
  PROVE  StoreInv'
<1>1. op'.kind = op.kind /\ op'.name = op.name /\ op'.then = op.then /\ op'.slot = op.slot
  BY DEF Same
<1>2. Live' = Live /\ \A n : Matches(n)' = Matches(n)
  BY SameEntries
<1>4. Told' /\ Named' /\ Unique'
  BY <1>1, <1>2 DEF StoreInv, Serving, Told, Named, Unique
<1>5. Promise'
  BY <1>1 DEF StoreInv, Serving, Promise
<1>6. Underway'
  BY <1>1 DEF StoreInv, Serving, Underway
<1>. QED  BY <1>1, <1>4, <1>5, <1>6 DEF StoreInv, Serving

LEMMA NoOwned == ASSUME NEW table, NEW c, c \notin Clusters PROVE OwnedIn(table, c) = {}
<1>1. ChainIn(table, c)[0] = c /\ 0 \in 0 .. MaxLen
  BY ChainFacts, ConstantFacts
<1>2. \A k \in 0 .. MaxLen : ChainIn(table, c)[k] = c
  BY <1>1, ChainStops
<1>. QED  BY <1>2 DEF OwnedIn

\* The disk is in order when the FAT and the entries stay and no cluster comes loose.
LEMMA FilesKept ==
  ASSUME Files, UNCHANGED <<fat, dir>>, DOMAIN data' = Clusters,
         op'.slot = op.slot, op'.first = op.first,
         Loose' \cap Clusters \subseteq Loose \cap Clusters
  PROVE  Files'
<1>1. Others' = Others /\ Live' = Live
  BY DEF Others, Live
<1>2. Roots' \subseteq Roots
  BY <1>1 DEF Roots
<1>3. Apart'
  BY <1>1 DEF Files, Apart
<1>4. \A r \in Roots' : Heads(fat, r)
  BY <1>2 DEF Files
<1>. QED  BY <1>1, <1>3, <1>4 DEF Files

LEMMA SameDisk ==
  ASSUME UNCHANGED <<fat, data, dir>>
  PROVE  \A n : Reads(n)' = Reads(n)
<1>1. Live' = Live /\ \A n : Matches(n)' = Matches(n)
  BY SameEntries
<1>2. ASSUME NEW n PROVE Reads(n)' = Reads(n)
  BY ReadsKept
<1>. QED  BY <1>2

LEMMA DoingKept ==
  ASSUME NEW m, NEW done, NEW w, Doing(m, done, w), UNCHANGED <<fat, data, dir>>, Same(op'),
         op'.first = op.first, op'.last = op.last, op'.rest = op.rest,
         pc # "fill", pc' # "fill", Linking' = Linking,
         Linking => op'.cl = op.cl,
         pc' \in {"free", "freeMirror"} => m = 0,
         \/ op'.need = op.need /\ (pc' = "entry" => op.need = 0)
         \/ op'.need = 0 /\ m = 0 /\ op.size = 0 /\ done = 0 /\ ~Linking
  PROVE  Doing(m, done, w)'
<1>1. Own(done)'
  BY DEF Doing, Own, Same
<1>2. IsText(w, op'.size) /\ done <= op'.size
      /\ op'.rest = [j \in 1 .. op'.size - done |-> w[done + j]]
      /\ Holds(fat', data', op'.first, w, done)
  BY DEF Doing, Same
<1>3. Enough(m + op.need - IF Linking THEN 1 ELSE 0)
  BY DEF Doing
<1>4. Enough(m + op.need - IF Linking THEN 1 ELSE 0)'
  <2>1. CASE op'.need = op.need
    BY <1>3, <2>1 DEF Enough, Same
  <2>2. CASE op'.need = 0 /\ m = 0 /\ op.size = 0 /\ done = 0 /\ ~Linking
    <3>1. ~Linking'
      BY <2>2
    <3>2. (m + op.need - IF Linking THEN 1 ELSE 0)' = m + op'.need - 0
      BY <3>1
    <3>4. m + op'.need - 0 = 0
      BY <2>2
    <3>3. op'.size = 0
      BY <2>2 DEF Same
    <3>. QED  BY <3>2, <3>3, <3>4 DEF Enough
  <2>. QED  BY <2>1, <2>2
<1>5. ~Linking' => IF op'.need = 0 THEN done = op'.size ELSE Units(done, m)
  BY DEF Doing, Same
<1>6. Linking' => m > 0 /\ op'.cl = op'.last /\ Units(done, m - 1)
  BY DEF Doing
<1>7. IF m = 0 THEN op'.first = 0 /\ op'.last = 0
      ELSE op'.last \in Clusters /\ op'.last = ChainIn(fat', op'.first)[m - 1]
  BY DEF Doing
<1>8. pc' = "entry" => op'.need = 0
  OBVIOUS
<1>. QED  BY <1>1, <1>2, <1>4, <1>5, <1>6, <1>7, <1>8 DEF Doing

-----------------------------------------------------------------------------
(***************************************************************************)
(* Steps of a call, one after the other.                                   *)
(***************************************************************************)
\* A step that leaves the disk, the other copy of the FAT aside, as it is.
LEMMA Quiet ==
  ASSUME Volume = Clusters, StoreInv, TypeInv', pc # "idle", pc' # "idle",
         UNCHANGED <<fat, data, dir, req, before>>, Same(op'),
         op'.first = op.first, op'.last = op.last, op'.rest = op.rest, op'.need = op.need,
         Loose' \cap Clusters \subseteq Loose \cap Clusters,
         pc # "fill", pc' # "fill", Linking' = Linking, Linking => op'.cl = op.cl,
         pc' \in {"free", "freeMirror"} => pc \in {"free", "freeMirror"},
         pc' = "entry" => op.need = 0 \/ op.kind = "delete",
         op.kind = "write" => Room'
  PROVE  StoreInv'
<1>1. Files'
  <2>1. DOMAIN data' = Clusters
    BY DEF StoreInv, Files
  <2>. QED  BY <2>1, FilesKept DEF StoreInv, Same
<1>2. \A n \in Names : n # op.name => Reads(n)' = Reads(n)
  BY SameDisk
<1>3. CASE op.kind = "delete"
  BY <1>1, <1>2, <1>3, StoreDeletes
<1>4. CASE op.kind # "delete"
  <2>. PICK w : w = Want
    OBVIOUS
  <2>1. PICK m, done \in 0 .. MaxLen : Doing(m, done, w)
    BY <1>4 DEF StoreInv, Serving, Underway
  <2>2. pc' \in {"free", "freeMirror"} => m = 0
    BY <2>1 DEF Doing
  <2>3. Doing(m, done, w)'
    BY <1>4, <2>1, <2>2, DoingKept
  <2>4. Want' = Want
    BY DEF Same, Want
  <2>. QED  BY <1>1, <1>2, <1>4, <2>3, <2>4, StoreOn
<1>. QED  BY <1>3, <1>4

LEMMA StoreFreed ==
  ASSUME Volume = Clusters, StoreInv, TypeInv', FreeDone
  PROVE  StoreInv'
<1>. PICK kind : kind = op.kind
  OBVIOUS
<1>1. /\ pc = "free" /\ op.cl \notin Clusters /\ op' = [op EXCEPT !.cl = 0]
      /\ pc' = (IF kind = "delete" THEN "entry" ELSE "alloc")
      /\ UNCHANGED <<fat, fat2, data, dir, req, before>>
  BY DEF FreeDone, AfterFree, disk, history
<1>2. /\ Same(op') /\ op'.cl = 0
      /\ op'.first = op.first /\ op'.last = op.last /\ op'.need = op.need
  BY <1>1, CallSteps DEF StoreInv, TypeInv
<1>3. op'.rest = op.rest
  BY <1>1 DEF StoreInv, TypeInv, CallTyped, Shaped
<1>4. Loose' = {}
  BY <1>1 DEF Loose
<1>5. op.kind = "write" => Room'
  <2>. SUFFICES ASSUME op.kind = "write" PROVE Room'
    OBVIOUS
  <2>1. Room /\ pc' = "alloc"
    BY <1>1 DEF StoreInv, Serving
  <2>2. Takeable = FreeSet(fat)
    BY <1>1, NoOwned DEF Takeable
  <2>3. Takeable' = FreeSet(fat)
    BY <1>1, <2>1 DEF Takeable, FreeSet
  <2>. QED  BY <1>1, <1>2, <2>1, <2>2, <2>3 DEF Room
<1>6. Linking' = Linking
  BY <1>1 DEF Linking
<1>7. ~Linking /\ pc # "fill" /\ pc' # "fill" /\ pc # "idle" /\ pc' # "idle"
      /\ pc' \notin {"free", "freeMirror"} /\ (pc' = "entry" => op.kind = "delete")
  BY <1>1 DEF Linking
<1>. QED  BY <1>1, <1>2, <1>3, <1>4, <1>5, <1>6, <1>7, Quiet

\* The second copy of the FAT is written.
LEMMA StoreMirrors ==
  ASSUME Volume = Clusters, StoreInv, TypeInv', UNCHANGED <<fat, data, dir, op, history>>,
         \/ pc = "freeMirror" /\ pc' = "free"
         \/ pc = "allocMirror" /\ pc' = "link"
         \/ pc = "linkMirror" /\ pc' = "data"
         \/ pc = "alloc" /\ op.need = 0 /\ pc' = "entry"
  PROVE  StoreInv'
<1>1. Same(op') /\ UNCHANGED <<req, before>>
  BY CallSteps DEF StoreInv, TypeInv, history
<1>2. Loose' \subseteq Loose
  BY DEF Loose
<1>3. Linking' = Linking
  BY DEF Linking
<1>4. op.kind = "write" => Room'
  <2>1. Takeable' = Takeable
    BY DEF Takeable, FreeSet
  <2>2. op.kind = "write" => Room
    BY DEF StoreInv, Serving
  <2>. QED  BY <2>1, <2>2 DEF Room
<1>5. pc # "fill" /\ pc' # "fill" /\ pc # "idle" /\ pc' # "idle"
      /\ (pc' \in {"free", "freeMirror"} => pc \in {"free", "freeMirror"})
      /\ (pc' = "entry" => op.need = 0)
  OBVIOUS
<1>. QED  BY <1>1, <1>2, <1>3, <1>4, <1>5, Quiet

LEMMA OtherHeads ==
  ASSUME TypeInv, Files, NEW i \in Others
  PROVE  /\ dir[i] \in Entries /\ dir[i].first \in Clusters \cup {0}
         /\ dir[i].first = 0 \/ Heads(fat, dir[i].first)
<1>1. i \in 1 .. Len(dir) /\ dir \in Seq(Entries)
  BY DEF Others, Live, TypeInv
<1>. PICK e : e = dir[i]
  OBVIOUS
<1>2. e \in Entries
  BY <1>1
<1>3. e.first \in Clusters \cup {0}
  BY <1>2 DEF Entries
<1>. QED  BY <1>2, <1>3, RootFacts DEF Files

\* A cluster that was in use is freed.
LEMMA StoreFrees ==
  ASSUME Volume = Clusters, IsFiniteSet(Clusters), ~Faults, StoreInv, TypeInv', FreeCluster
  PROVE  StoreInv'
<1>. PICK c : c = op.cl
  OBVIOUS
<1>1. /\ pc = "free" /\ c \in Clusters /\ Sets(fat, fat', c, FREE) /\ op' = [op EXCEPT !.cl = fat[c]]
      /\ pc' = "freeMirror" /\ UNCHANGED <<data, dir, req, before>>
  BY DEF FreeCluster, SetFat, Sets, history
<1>2. /\ Same(op') /\ op'.cl = fat[c]
      /\ op'.first = op.first /\ op'.last = op.last /\ op'.need = op.need
  BY <1>1, CallSteps DEF StoreInv, TypeInv
<1>3. op'.rest = op.rest
  BY <1>1 DEF StoreInv, TypeInv, CallTyped, Shaped
<1>4. Loose = {c} /\ Loose' = {fat[c]}
  BY <1>1, <1>2 DEF Loose
<1>5. Sound(fat) /\ Heads(fat, c) /\ Apart
  BY <1>1, <1>4, RootFacts DEF StoreInv, Files
<1>6. /\ Sound(fat') /\ fat'[c] = FREE /\ \A x \in Clusters : x # c => fat'[x] = fat[x]
      /\ fat[c] \in Clusters =>
           /\ Heads(fat', fat[c]) /\ ~Heads(fat, fat[c])
           /\ ChainIn(fat', fat[c]) = ChainIn(fat, fat[c])
      /\ \A r : r # c /\ (r = 0 \/ Heads(fat, r)) =>
           /\ ChainIn(fat', r) = ChainIn(fat, r) /\ (r # 0 => Heads(fat', r))
  BY <1>1, <1>5, SoundFrees
<1>7. Live' = Live /\ Others' = Others
  BY <1>1, <1>2, OthersSame
<1>8. op.first = 0 /\ op.last = 0
  <2>1. CASE op.kind = "delete"
    BY <1>1, <2>1 DEF StoreInv, Serving, Underway
  <2>2. CASE op.kind # "delete"
    <3>1. PICK m, done \in 0 .. MaxLen : Doing(m, done, Want)
      BY <1>1, <2>2 DEF StoreInv, Serving, Underway
    <3>. QED  BY <1>1, <3>1 DEF Doing
  <2>. QED  BY <2>1, <2>2
<1>9. \A i \in Others : dir[i].first # c /\ (dir[i].first = 0 \/ Heads(fat, dir[i].first))
  <2>1. \A i \in Others : dir[i].first = 0 \/ Heads(fat, dir[i].first)
    BY OtherHeads DEF StoreInv
  <2>. QED  BY <1>1, <1>4, <1>5, <2>1 DEF Apart
<1>10. \A i \in Others : ChainIn(fat', dir[i].first) = ChainIn(fat, dir[i].first)
  BY <1>6, <1>9
<1>11. (\A n \in Names : n # op.name => Reads(n)' = Reads(n))
       /\ \A i \in Others : Reaches(fat', dir[i].first, dir[i].size)
  BY <1>1, <1>10, OthersRead
<1>12. Files'
  <2>1. Apart'
    BY <1>1, <1>2, <1>4, <1>5, <1>6, <1>7, <1>8, <1>9, ConstantFacts DEF Apart
  <2>2. ASSUME NEW r \in Roots' PROVE Heads(fat', r)
    <3>1. r \in Clusters /\ (r = fat[c] \/ \E i \in Others : r = dir[i].first)
      BY <1>1, <1>2, <1>4, <1>7, <1>8, ConstantFacts DEF Roots
    <3>. QED  BY <1>6, <1>9, <3>1, ConstantFacts
  <2>. QED  BY <1>1, <1>6, <1>7, <1>11, <2>1, <2>2 DEF StoreInv, Files
<1>13. CASE op.kind = "delete"
  BY <1>1, <1>2, <1>11, <1>12, <1>13, StoreDeletes
<1>14. CASE op.kind # "delete"
  <2>. PICK w : w = Want
    OBVIOUS
  <2>1. PICK m, done \in 0 .. MaxLen : Doing(m, done, w)
    BY <1>1, <1>14 DEF StoreInv, Serving, Underway
  <2>2. m = 0
    BY <1>1, <2>1 DEF Doing
  <2>3. ChainIn(fat', op.first) = ChainIn(fat, op.first)
    BY <1>1, <1>6, <1>8, ConstantFacts
  <2>4. Holds(fat', data', op'.first, w, done)
    BY <1>1, <1>2, <2>1, <2>3 DEF Doing, Holds, Reaches, UnitAt
  <2>5. /\ IsText(w, op'.size) /\ done <= op'.size
        /\ op'.rest = [j \in 1 .. op'.size - done |-> w[done + j]]
    BY <1>2, <1>3, <2>1 DEF Doing, Same
  <2>6. Own(done)'
    BY <1>1, <1>2, <2>1 DEF Doing, Own, Same
  <2>7. ~Linking /\ ~Linking'
    BY <1>1 DEF Linking
  <2>8. Enough(m + op.need - IF Linking THEN 1 ELSE 0)'
    BY <1>1, <1>2, <2>1, <2>7 DEF Doing, Enough, Same
  <2>9. IF op'.need = 0 THEN done = op'.size ELSE Units(done, m)
    BY <1>1, <1>2, <2>1, <2>7 DEF Doing, Same
  <2>10. Doing(m, done, w)'
    BY <1>1, <1>2, <1>8, <2>2, <2>4, <2>5, <2>6, <2>7, <2>8, <2>9 DEF Doing
  <2>11. Want' = Want
    BY <1>1, <1>2 DEF Same, Want
  <2>12. op.kind = "write" => Room'
    <3>1. Takeable \subseteq Takeable' /\ Takeable' \subseteq Clusters
      <4>1. \A x : x \in FreeSet(fat) \cup OwnedIn(fat, c) =>
                   x \in FreeSet(fat') \cup OwnedIn(fat', fat[c])
        <5>1. ChainIn(fat', fat[c]) = ChainIn(fat, fat[c])
          <6>1. CASE fat[c] \in Clusters
            BY <1>6, <6>1
          <6>2. CASE fat[c] \notin Clusters
            BY <6>2, ChainUntouched, NoOwned
          <6>. QED  BY <6>1, <6>2
        <5>. QED  BY <1>1, <1>6, <5>1, FreedCovered DEF FreeSet
      <4>2. Takeable = FreeSet(fat) \cup OwnedIn(fat, c)
        BY <1>1 DEF Takeable
      <4>3. Takeable' = FreeSet(fat') \cup OwnedIn(fat', fat[c])
        BY <1>1, <1>2 DEF Takeable, FreeSet
      <4>. QED  BY <4>1, <4>2, <4>3 DEF FreeSet, OwnedIn
    <3>2. Cardinality(Takeable) <= Cardinality(Takeable')
          /\ Cardinality(Takeable) \in Nat /\ Cardinality(Takeable') \in Nat
      <4>1. IsFiniteSet(Takeable')
        BY <3>1, FS_Subset
      <4>. QED  BY <3>1, <4>1, FS_Subset, FS_CardinalityType
    <3>3. op.need \in Nat
      BY DEF StoreInv, TypeInv, CallTyped
    <3>. QED  BY <1>1, <1>2, <3>2, <3>3 DEF StoreInv, Serving, Room
  <2>. QED  BY <1>1, <1>2, <1>11, <1>12, <1>14, <2>10, <2>11, <2>12, StoreOn
<1>. QED  BY <1>13, <1>14

\* The number of clusters that the call has built and is still to take.
LEMMA StillNeeded ==
  ASSUME NEW m \in 0 .. MaxLen, NEW need \in Nat, Enough(m + need), op.size \in 0 .. MaxLen
  PROVE  /\ need > 0 => m + 1 \in 0 .. MaxLen /\ m + need = Count(op.size)
         /\ need = 0 => m = Count(op.size) \/ (m = 0 /\ op.size = 0)
<1>1. Count(op.size) \in 1 .. MaxLen
  BY CountFacts
<1>. QED  BY <1>1, ConstantFacts DEF Enough

\* A free cluster is taken.
LEMMA StoreAllocs ==
  ASSUME Volume = Clusters, IsFiniteSet(Clusters), StoreInv, TypeInv', Alloc
  PROVE  StoreInv'
<1>. PICK c \in Clusters :
       /\ fat[c] = FREE /\ Sets(fat, fat', c, EOC) /\ op' = [op EXCEPT !.cl = c]
       /\ UNCHANGED <<fat2, data, dir>>
  BY DEF Alloc, Allocatable, SetFat, EndMark, Sets
<1>1. pc = "alloc" /\ op.need > 0 /\ pc' = "allocMirror" /\ UNCHANGED <<req, before>>
  BY DEF Alloc, history
<1>2. /\ Same(op') /\ op'.cl = c
      /\ op'.first = op.first /\ op'.last = op.last /\ op'.need = op.need
  BY CallSteps DEF StoreInv, TypeInv
<1>3. op'.rest = op.rest
  BY DEF StoreInv, TypeInv, CallTyped, Shaped
<1>4. Loose = {} /\ Loose' = {c}
  BY <1>1, <1>2 DEF Loose
<1>5. Sound(fat)
  BY DEF StoreInv, Files
<1>6. /\ Sound(fat') /\ Heads(fat', c) /\ ~Heads(fat, c)
      /\ \A r : Heads(fat, r) => Heads(fat', r)
      /\ \A r : r = 0 \/ Heads(fat, r) => ChainIn(fat', r) = ChainIn(fat, r)
  BY <1>5, SoundTakes
<1>7. Live' = Live /\ Others' = Others
  BY <1>2, OthersSame
<1>8. op.first = 0 \/ Heads(fat, op.first)
  <2>1. op.first \in Clusters \cup {0}
    BY DEF StoreInv, TypeInv, CallTyped
  <2>. QED  BY <2>1, RootFacts DEF StoreInv, Files
<1>9. \A i \in Others : dir[i].first # c /\ (dir[i].first = 0 \/ Heads(fat, dir[i].first))
  BY <1>6, OtherHeads, ConstantFacts DEF StoreInv
<1>10. \A i \in Others : ChainIn(fat', dir[i].first) = ChainIn(fat, dir[i].first)
  BY <1>6, <1>9
<1>11. (\A n \in Names : n # op.name => Reads(n)' = Reads(n))
       /\ \A i \in Others : Reaches(fat', dir[i].first, dir[i].size)
  BY <1>1, <1>10, OthersRead
<1>12. Files'
  <2>0. Apart
    BY DEF StoreInv, Files
  <2>1. Apart'
    <3>1. c # op.first
      BY <1>6, <1>8, ConstantFacts
    <3>. QED  BY <1>2, <1>4, <1>7, <1>9, <2>0, <3>1 DEF Apart
  <2>2. ASSUME NEW r \in Roots' PROVE Heads(fat', r)
    <3>1. r \in Clusters /\ (r = c \/ r = op.first \/ \E i \in Others : r = dir[i].first)
      BY <1>2, <1>4, <1>7 DEF Roots
    <3>. QED  BY <1>6, <1>8, <1>9, <3>1, ConstantFacts
  <2>. QED  BY <1>6, <1>7, <1>11, <2>1, <2>2 DEF StoreInv, Files
<1>13. op.kind # "delete"
  BY <1>1 DEF StoreInv, TypeInv, CallTyped
<1>. PICK w : w = Want
  OBVIOUS
<1>14. PICK m, done \in 0 .. MaxLen : Doing(m, done, w)
  BY <1>1, <1>13 DEF StoreInv, Serving, Underway
<1>15. Doing(m, done, w)'
  <2>1. ChainIn(fat', op.first) = ChainIn(fat, op.first)
    BY <1>6, <1>8
  <2>2. Holds(fat', data', op'.first, w, done)
    BY <1>2, <1>14, <2>1 DEF Doing, Holds, Reaches, UnitAt
  <2>3. /\ IsText(w, op'.size) /\ done <= op'.size
        /\ op'.rest = [j \in 1 .. op'.size - done |-> w[done + j]]
    BY <1>2, <1>3, <1>14 DEF Doing, Same
  <2>4. Own(done)'
    BY <1>2, <1>14 DEF Doing, Own, Same
  <2>5. ~Linking /\ ~Linking'
    BY <1>1 DEF Linking
  <2>6. Enough(m + op.need - IF Linking THEN 1 ELSE 0)'
    BY <1>1, <1>2, <1>14, <2>5 DEF Doing, Enough, Same
  <2>7. IF op'.need = 0 THEN done = op'.size ELSE Units(done, m)
    BY <1>1, <1>2, <1>14, <2>5 DEF Doing, Same
  <2>8. IF m = 0 THEN op'.first = 0 /\ op'.last = 0
        ELSE op'.last \in Clusters /\ op'.last = ChainIn(fat', op'.first)[m - 1]
    BY <1>2, <1>14, <2>1 DEF Doing
  <2>. QED  BY <1>1, <2>2, <2>3, <2>4, <2>5, <2>6, <2>7, <2>8 DEF Doing
<1>16. Want' = Want
  BY <1>1, <1>2 DEF Same, Want
<1>17. op.kind = "write" => Room'
  <2>1. Takeable = FreeSet(fat) /\ Takeable' = FreeSet(fat')
    BY <1>1 DEF Takeable, FreeSet
  <2>2. FreeSet(fat') = FreeSet(fat) \ {c} /\ c \in FreeSet(fat)
    BY ConstantFacts, <1>5 DEF FreeSet, Sets, Sound
  <2>3. IsFiniteSet(FreeSet(fat))
    BY FS_Subset DEF FreeSet
  <2>4. Cardinality(FreeSet(fat) \ {c}) = Cardinality(FreeSet(fat)) - 1
        /\ Cardinality(FreeSet(fat)) \in Nat
    BY <2>2, <2>3, FS_RemoveElement, FS_CardinalityType
  <2>5. op.need \in Nat
    BY DEF StoreInv, TypeInv, CallTyped
  <2>. QED  BY <1>1, <1>2, <2>1, <2>2, <2>4, <2>5 DEF StoreInv, Serving, Room
<1>18. Doing(m, done, Want)'
  BY <1>15, <1>16
<1>. QED  BY <1>1, <1>2, <1>11, <1>12, <1>13, <1>17, <1>18, StoreOn

\* The cluster that was taken becomes the first of the file.
LEMMA StoreFirst ==
  ASSUME Volume = Clusters, StoreInv, TypeInv', pc = "link", op.last = 0, Linked,
         pc' = "data",
         UNCHANGED <<fat, data, dir, req, before>>
  PROVE  StoreInv'
<1>. PICK c : c = op.cl
  OBVIOUS
<1>1. Same(op') /\ op'.last = c /\ op'.cl = c /\ op'.need = op.need /\ op'.first = c
  BY CallSteps DEF StoreInv, TypeInv
<1>2. op'.rest = op.rest
  BY DEF Linked, StoreInv, TypeInv, CallTyped, Shaped
<1>3. c \in Clusters /\ op.need > 0 /\ op.need \in Nat /\ op.kind # "delete"
      /\ op.size \in 0 .. MaxLen
  BY DEF StoreInv, TypeInv, CallTyped
<1>4. Loose = {c} /\ Loose' = {}
  BY DEF Loose
<1>5. Live' = Live /\ Others' = Others
  BY <1>1, OthersSame
<1>. PICK w : w = Want
  OBVIOUS
<1>6. PICK m, done \in 0 .. MaxLen : Doing(m, done, w)
  BY <1>3 DEF StoreInv, Serving, Underway
<1>7. m = 0 /\ op.first = 0 /\ ~Linking
  BY <1>6, ConstantFacts DEF Doing, Linking
<1>8. Units(done, 0) /\ done = 0
  BY <1>3, <1>6, <1>7, ConstantFacts DEF Doing, Units
<1>9. Files'
  <2>1. Apart'
    BY <1>1, <1>3, <1>4, <1>5 DEF StoreInv, Files, Apart
  <2>2. Roots' \subseteq Roots
    BY <1>1, <1>3, <1>4, <1>5 DEF Roots
  <2>. QED  BY <1>5, <2>1, <2>2 DEF StoreInv, Files
<1>10. Doing(1, 0, w)'
  <2>1. op'.last = ChainIn(fat', op'.first)[1 - 1]
    BY <1>1, ChainFacts
  <2>2. Holds(fat', data', op'.first, w, 0)
    BY DEF Holds, Reaches
  <2>3. /\ IsText(w, op'.size) /\ 0 <= op'.size
        /\ op'.rest = [j \in 1 .. op'.size - 0 |-> w[0 + j]]
    BY <1>1, <1>2, <1>6, <1>8 DEF Doing, Same
  <2>4. Own(0)'
    <3>1. Own(0)
      BY <1>6, <1>8 DEF Doing
    <3>2. op.kind = "append" => op.slot \in Live
      BY DEF StoreInv, TypeInv, CallTyped
    <3>3. op.kind = "append" => dir[op.slot].size \in 0 .. MaxLen
      <4>. SUFFICES ASSUME op.kind = "append" PROVE dir[op.slot].size \in 0 .. MaxLen
        OBVIOUS
      <4>. PICK e : e = dir[op.slot]
        OBVIOUS
      <4>1. e \in Entries
        BY <3>2 DEF Live, StoreInv, TypeInv
      <4>2. e.size \in 0 .. MaxLen
        BY <4>1 DEF Entries
      <4>. QED  BY <4>2
    <3>. QED  BY <1>1, <1>7, <3>1, <3>3, ConstantFacts DEF Own, Same
  <2>5. Linking'
    BY DEF Linking
  <2>6. Enough(1 + op.need - IF Linking THEN 1 ELSE 0)'
    <3>1. Enough(0 + op.need)
      BY <1>3, <1>6, <1>7 DEF Doing
    <3>2. 0 + op.need = 1 + op'.need - 1
      BY <1>1, <1>3
    <3>. QED  BY <1>1, <2>5, <3>1, <3>2 DEF Enough, Same
  <2>. QED  BY <1>1, <1>3, <1>8, <2>1, <2>2, <2>3, <2>4, <2>5, <2>6, ConstantFacts DEF Doing
<1>11. \A n \in Names : n # op.name => Reads(n)' = Reads(n)
  BY SameDisk
<1>12. op.kind = "write" => Room'
  <2>1. Takeable' = Takeable
    BY DEF Takeable, FreeSet
  <2>. QED  BY <1>1, <2>1 DEF StoreInv, Serving, Room
<1>13. Doing(1, 0, Want)'
  BY <1>1, <1>10 DEF Same, Want
<1>14. 0 \in 0 .. MaxLen /\ 1 \in 0 .. MaxLen
  BY ConstantFacts
<1>. QED  BY <1>1, <1>3, <1>9, <1>11, <1>12, <1>13, <1>14, StoreOn

(* A chain of m clusters is lengthened by one.                             *)
LEMMA ChainGrows ==
  ASSUME NEW table, Sound(table), NEW r, Heads(table, r), NEW m \in 1 .. MaxLen,
         NEW last \in Clusters, last = ChainIn(table, r)[m - 1],
         NEW c \in Clusters, NEW new, Sets(table, new, last, c)
  PROVE  /\ \A k \in 0 .. m - 1 : ChainIn(new, r)[k] = ChainIn(table, r)[k]
         /\ ChainIn(new, r)[m] = c
<1>. PICK l \in 0 .. MaxLen : l = m - 1
  BY ConstantFacts
<1>1. /\ new[last] = c /\ \A x \in Clusters : x # last => new[x] = table[x]
  BY DEF Sets, Sound
<1>2. \A k \in 0 .. l - 1 : ChainIn(table, r)[k] \in Clusters =>
        new[ChainIn(table, r)[k]] = table[ChainIn(table, r)[k]]
  <2>. SUFFICES ASSUME NEW k \in 0 .. l - 1, ChainIn(table, r)[k] \in Clusters,
                       ChainIn(table, r)[k] = last
                PROVE  FALSE
    BY <1>1
  <2>1. k \in 0 .. MaxLen /\ k # l
    BY ConstantFacts
  <2>. QED  BY <2>1, ChainsMeet
<1>3. \A k \in 0 .. l : ChainIn(new, r)[k] = ChainIn(table, r)[k]
  BY <1>2, ChainKept
<1>4. ChainIn(new, r)[m] = Follow(new, ChainIn(new, r)[m - 1])
  BY ChainFacts
<1>5. ChainIn(new, r)[m - 1] = last
  BY <1>3, ConstantFacts
<1>. QED  BY <1>1, <1>3, <1>4, <1>5 DEF Follow

\* m clusters hold exactly done units.
LEMMA UnitsCount ==
  ASSUME NEW m \in 0 .. MaxLen, NEW done \in 0 .. MaxLen, Units(done, m)
  PROVE  ClustersFor(done) = m
<1>1. ClusterSize \in Nat \ {0} /\ m \in Nat /\ done \in Nat /\ done = m * ClusterSize
  BY ConstantFacts DEF Units
<1>2. ClusterSize * m >= done /\ ClusterSize * m < done + ClusterSize
  BY <1>1
<1>. QED  BY <1>1, <1>2, CeilUnique

\* The last cluster of the file is linked to the one that was taken.
LEMMA StoreLinks ==
  ASSUME Volume = Clusters, StoreInv, TypeInv', pc = "link", op.last # 0,
         SetFat(op.last, op.cl), Linked, pc' = "linkMirror", UNCHANGED <<req, before>>
  PROVE  StoreInv'
<1>. PICK c : c = op.cl
  OBVIOUS
<1>. PICK last : last = op.last
  OBVIOUS
<1>. PICK r : r = op.first
  OBVIOUS
<1>1. /\ Same(op') /\ op'.last = c /\ op'.cl = c /\ op'.need = op.need /\ op'.first = r
      /\ Sets(fat, fat', last, c) /\ UNCHANGED <<data, dir>>
  BY CallSteps DEF StoreInv, TypeInv, SetFat, Sets
<1>2. op'.rest = op.rest
  BY DEF Linked, StoreInv, TypeInv, CallTyped, Shaped
<1>3. c \in Clusters /\ op.need > 0 /\ op.need \in Nat /\ op.kind # "delete"
      /\ op.size \in 0 .. MaxLen /\ last \in Clusters /\ r \in Clusters \cup {0}
  BY DEF StoreInv, TypeInv, CallTyped
<1>4. Loose = {c} /\ Loose' = {}
  BY DEF Loose
<1>5. Live' = Live /\ Others' = Others
  BY <1>1, OthersSame
<1>. PICK w : w = Want
  OBVIOUS
<1>6. PICK m, done \in 0 .. MaxLen : Doing(m, done, w)
  BY <1>3 DEF StoreInv, Serving, Underway
<1>7. ~Linking /\ m # 0 /\ m \in 1 .. MaxLen /\ last = ChainIn(fat, r)[m - 1]
      /\ m - 1 \in 0 .. MaxLen
  BY <1>6, ConstantFacts DEF Doing, Linking
<1>8. r \in Clusters
  BY <1>3, <1>7, ChainStops, ChainFacts, ConstantFacts
<1>9. Sound(fat) /\ Heads(fat, c) /\ Heads(fat, r) /\ c # r
  BY <1>3, <1>4, <1>8, RootFacts DEF StoreInv, Files, Apart
<1>10. last # c /\ last \in OwnedIn(fat, r)
  <2>1. last \in OwnedIn(fat, r)
    BY <1>3, <1>7 DEF OwnedIn
  <2>2. c \notin OwnedIn(fat, r)
    BY <1>9, OnlyHead DEF Heads
  <2>. QED  BY <2>1, <2>2
<1>11. /\ Sound(fat') /\ \A x : x # c /\ Heads(fat, x) => Heads(fat', x)
       /\ \A x : last \notin OwnedIn(fat, x) => ChainIn(fat', x) = ChainIn(fat, x)
  BY <1>1, <1>3, <1>9, <1>10, SoundLinks
<1>12. \A i \in Others : dir[i].first # c /\ (dir[i].first = 0 \/ Heads(fat, dir[i].first))
  BY <1>3, <1>4, OtherHeads DEF StoreInv, Files, Apart
<1>13. \A i \in Others : last \notin OwnedIn(fat, dir[i].first)
  BY <1>8, <1>10, OtherHeads, LastApart DEF StoreInv
<1>14. (\A n \in Names : n # op.name => Reads(n)' = Reads(n))
       /\ \A i \in Others : Reaches(fat', dir[i].first, dir[i].size)
  BY <1>1, <1>11, <1>13, OthersRead
<1>15. Files'
  <2>1. Apart'
    BY <1>1, <1>4, <1>5 DEF StoreInv, Files, Apart
  <2>2. ASSUME NEW x \in Roots' PROVE Heads(fat', x)
    <3>1. x \in Clusters /\ (x = r \/ \E i \in Others : x = dir[i].first)
      BY <1>1, <1>4, <1>5 DEF Roots
    <3>. QED  BY <1>9, <1>11, <1>12, <3>1, ConstantFacts
  <2>. QED  BY <1>1, <1>5, <1>11, <1>14, <2>1, <2>2 DEF StoreInv, Files
<1>16. m + 1 \in 0 .. MaxLen /\ Units(done, m) /\ Enough(m + op.need)
  <2>1. Units(done, m) /\ Enough(m + op.need - 0)
    BY <1>3, <1>6, <1>7 DEF Doing
  <2>2. Enough(m + op.need)
    BY <1>3, <1>7, <2>1
  <2>. QED  BY <1>3, <2>1, <2>2, StillNeeded
<1>17. /\ \A k \in 0 .. m - 1 : ChainIn(fat', r)[k] = ChainIn(fat, r)[k]
       /\ ChainIn(fat', r)[m] = c
  BY <1>1, <1>3, <1>7, <1>9, ChainGrows
<1>18. Doing(m + 1, done, w)'
  <2>1. Holds(fat', data', op'.first, w, done)
    <3>1. SameStart(fat, fat', r, done)
      BY <1>16, <1>17, UnitsCount DEF SameStart
    <3>2. Holds(fat, data, r, w, done)
      BY <1>6 DEF Doing
    <3>. QED  BY <1>1, <3>1, <3>2, HoldsKept
  <2>2. /\ IsText(w, op'.size) /\ done <= op'.size
        /\ op'.rest = [j \in 1 .. op'.size - done |-> w[done + j]]
    BY <1>1, <1>2, <1>6 DEF Doing, Same
  <2>3. Own(done)'
    BY <1>1, <1>6 DEF Doing, Own, Same
  <2>4. Linking'
    BY DEF Linking
  <2>5. Enough((m + 1) + op.need - IF Linking THEN 1 ELSE 0)'
    <3>1. m + op.need = (m + 1) + op'.need - 1
      BY <1>1, <1>3
    <3>. QED  BY <1>1, <1>16, <2>4, <3>1 DEF Enough, Same
  <2>6. op'.last \in Clusters /\ op'.last = ChainIn(fat', op'.first)[(m + 1) - 1]
    BY <1>1, <1>3, <1>17
  <2>7. m + 1 # 0 /\ m + 1 > 0 /\ Units(done, (m + 1) - 1)
    BY <1>16
  <2>. QED  BY <1>1, <2>1, <2>2, <2>3, <2>4, <2>5, <2>6, <2>7 DEF Doing
<1>19. op.kind = "write" => Room'
  <2>. SUFFICES ASSUME op.kind = "write" PROVE Room'
    OBVIOUS
  <2>1. FreeSet(fat') = FreeSet(fat)
    BY <1>1, <1>3, <1>9, <1>10, ChainUsed, ConstantFacts DEF FreeSet, Sets, Sound
  <2>2. Takeable = FreeSet(fat) /\ Takeable' = FreeSet(fat')
    BY DEF Takeable, FreeSet
  <2>. QED  BY <1>1, <2>1, <2>2 DEF StoreInv, Serving, Room
<1>20. Doing(m + 1, done, Want)'
  BY <1>1, <1>18 DEF Same, Want
<1>. QED  BY <1>1, <1>3, <1>14, <1>15, <1>16, <1>19, <1>20, StoreOn

LEMMA DropRest ==
  ASSUME NEW s, NEW l \in Nat, IsText(s, l), NEW k \in 0 .. l
  PROVE  IsText(Drop(s, k), l - k) /\ \A j \in 1 .. l - k : Drop(s, k)[j] = s[k + j]
<1>1. Drop(s, k) = [j \in 1 .. l - k |-> s[k + j]]
  BY DropFacts
<1>. QED  BY <1>1 DEF IsText

\* rest is what follows the first done of the size units of w.
Left(rest, w, size, done) == rest = [j \in 1 .. size - done |-> w[done + j]]

LEMMA LeftLength ==
  ASSUME NEW rest, NEW w, NEW size \in 0 .. MaxLen, NEW done \in 0 .. MaxLen, done <= size,
         Left(rest, w, size, done)
  PROVE  Len(rest) = size - done
<1>. PICK l \in Nat : l = size - done
  BY ConstantFacts
<1>1. rest = [j \in 1 .. l |-> w[done + j]]
  BY DEF Left
<1>2. IsText(rest, l)
  BY <1>1 DEF IsText
<1>. QED  BY <1>2, SeqFacts

LEMMA LeftUnits ==
  ASSUME NEW rest, NEW w, NEW size \in 0 .. MaxLen, NEW done \in 0 .. MaxLen,
         Left(rest, w, size, done), NEW n \in 0 .. MaxLen, done + n <= size
  PROVE  \A j \in 1 .. n : rest[j] = w[done + j]
<1>. PICK l \in Nat : l = size - done /\ n <= l
  BY ConstantFacts
<1>1. rest = [j \in 1 .. l |-> w[done + j]]
  BY DEF Left
<1>. QED  BY <1>1

LEMMA LeftDrops ==
  ASSUME NEW rest, NEW w, NEW size \in 0 .. MaxLen, NEW done \in 0 .. MaxLen,
         NEW n \in 0 .. MaxLen, NEW sum \in 0 .. MaxLen, Sum(sum, done, n), sum <= size,
         Left(rest, w, size, done)
  PROVE  Left(Drop(rest, n), w, size, sum)
<1>. PICK l \in Nat : l = size - done
  BY ConstantFacts DEF Sum
<1>1. rest = [j \in 1 .. l |-> w[done + j]] /\ n \in 0 .. l
  BY ConstantFacts DEF Left, Sum
<1>2. (\A j \in 1 .. l : rest[j] = w[done + j]) /\ IsText(rest, l)
  BY <1>1 DEF IsText
<1>3. IsText(Drop(rest, n), l - n) /\ \A j \in 1 .. l - n : Drop(rest, n)[j] = rest[n + j]
  BY <1>1, <1>2, DropRest
<1>4. ASSUME NEW j \in 1 .. l - n PROVE rest[n + j] = w[sum + j]
  <2>. PICK k \in 1 .. l : k = n + j
    BY <1>1
  <2>1. rest[k] = w[done + k]
    BY <1>2
  <2>2. done + k = sum + j
    BY ConstantFacts DEF Sum
  <2>. QED  BY <2>1, <2>2
<1>5. size - sum = l - n
  BY ConstantFacts DEF Sum
<1>6. Left(Drop(rest, n), w, size, sum)
  BY <1>3, <1>4, <1>5 DEF Left, IsText
<1>. QED  BY <1>6

(* The m-th cluster is filled, and need - 1 are still to follow.           *)
LEMMA ChunkFacts ==
  ASSUME NEW m \in 1 .. MaxLen, NEW size \in 0 .. MaxLen, NEW p \in 0 .. MaxLen,
         Units(p, m - 1),
         p <= size, NEW need \in Nat \ {0}, m + need - 1 = Count(size)
  PROVE  \E n \in 0 .. MaxLen :
           /\ n = Taken(0, size - p) /\ p + n <= size /\ n <= ClusterSize
           /\ need = 1 => p + n = size
           /\ need # 1 => Units(p + n, m)
<1>. PICK cs \in Nat \ {0} : cs = ClusterSize
  BY ConstantFacts
<1>. PICK k \in Nat : k = m - 1
  BY ConstantFacts
<1>0. p = k * cs /\ m = k + 1 /\ MaxLen \in Nat
  BY ConstantFacts DEF Units
<1>. PICK n \in Nat : n = Taken(0, size - p) /\ n = IF cs < size - p THEN cs ELSE size - p
  <2>1. Taken(0, size - p) = IF cs < size - p THEN cs ELSE size - p
    BY ConstantFacts DEF Taken, Least
  <2>. QED  BY <1>0, <2>1
<1>1. n \in 0 .. MaxLen /\ p + n <= size /\ n <= cs
  BY <1>0
<1>2. CASE size = 0
  <2>1. Count(size) = 1
    BY <1>2 DEF Count
  <2>2. need = 1 /\ p = 0 /\ n = 0
    BY <1>0, <1>2, <2>1
  <2>. QED  BY <1>1, <1>2, <2>2
<1>3. CASE size # 0
  <2>1. PICK q \in Nat : q = Count(size) /\ cs * q >= size /\ cs * q < size + cs
    BY <1>0, <1>3, CeilFacts DEF Count
  <2>2. CASE need = 1
    <3>1. q = k + 1
      BY <1>0, <2>1, <2>2
    <3>2. cs * q = p + cs
      BY <1>0, <3>1
    <3>. QED  BY <1>0, <1>1, <2>1, <2>2, <3>2
  <2>3. CASE need # 1
    <3>1. PICK d \in Nat : q = (k + 1) + (d + 1)
      <4>1. q - (k + 2) \in Nat
        BY <1>0, <2>1, <2>3
      <4>. QED  BY <1>0, <4>1
    <3>2. cs * q = p + cs + (cs * d + cs) /\ cs * d \in Nat
      BY <1>0, <3>1
    <3>3. n = cs
      BY <1>0, <2>1, <3>2
    <3>4. p + n = (k + 1) * cs
      BY <1>0, <3>3
    <3>. QED  BY <1>0, <1>1, <2>3, <3>4 DEF Units
  <2>. QED  BY <2>2, <2>3
<1>. QED  BY <1>2, <1>3

(* A step that adds n units, in the last of the m clusters that there are. *)
LEMMA StoreWrites ==
  ASSUME Volume = Clusters, StoreInv, TypeInv', pc \in {"data", "fill"}, pc' = "alloc",
         op.kind # "delete", UNCHANGED <<fat, dir, req, before>>, Same(op'),
         op'.first = op.first, op'.last = op.last,
         NEW w, w = Want, NEW m \in 1 .. MaxLen, NEW done \in 0 .. MaxLen, Doing(m, done, w),
         NEW n \in 0 .. MaxLen, done + n <= op.size, op'.rest = Drop(op.rest, n),
         DOMAIN data' = Clusters, \A x \in Clusters : x # op.last => data'[x] = data[x],
         NEW p \in 0 .. MaxLen, Units(p, m - 1), p <= done, done + n <= p + ClusterSize,
         \A j \in 1 .. done - p : data'[op.last][j] = data[op.last][j],
         \A j \in 1 .. n : data'[op.last][(done - p) + j] = op.rest[j],
         op'.need \in Nat, m + op'.need = Count(op.size) \/ (m + op'.need = 0 /\ op.size = 0),
         op'.need = 0 => done + n = op.size,
         op'.need # 0 => Units(done + n, m),
         op.kind = "write" => Room'
  PROVE  StoreInv'
<1>. PICK last : last = op.last
  OBVIOUS
<1>. PICK r : r = op.first
  OBVIOUS
<1>. PICK size \in 0 .. MaxLen : size = op.size
  BY DEF StoreInv, TypeInv, CallTyped
<1>. PICK q \in 0 .. MaxLen : q = m - 1
  BY ConstantFacts
<1>. PICK sum \in 0 .. MaxLen : sum = done + n
  BY ConstantFacts
<1>1. last \in Clusters /\ last = ChainIn(fat, r)[q] /\ Holds(fat, data, r, w, done)
  BY DEF Doing
<1>2. r \in Clusters
  <2>1. r \in Clusters \cup {0} /\ ChainIn(fat, r)[0] = r /\ 0 \in 0 .. MaxLen
    BY ChainFacts, ConstantFacts DEF StoreInv, TypeInv, CallTyped
  <2>2. CASE r \notin Clusters
    <3>1. ChainIn(fat, r)[q] = r
      BY <2>1, <2>2, ChainStops
    <3>. QED  BY <1>1, <2>2, <3>1
  <2>. QED  BY <2>2
<1>3. Sound(fat) /\ Heads(fat, r)
  BY <1>2, RootFacts DEF StoreInv, Files
<1>4. \A i \in Others : last \notin OwnedIn(fat, dir[i].first)
  <2>1. last \in OwnedIn(fat, r)
    BY <1>1 DEF OwnedIn
  <2>. QED  BY <1>2, <2>1, OtherHeads, LastApart DEF StoreInv
<1>5. (\A x \in Names : x # op.name => Reads(x)' = Reads(x))
      /\ \A i \in Others : Reaches(fat', dir[i].first, dir[i].size)
  BY <1>4, OthersRead
<1>6. Files'
  <2>1. Loose' = Loose
    BY DEF Loose
  <2>. QED  BY <2>1, FilesKept DEF StoreInv, Same
<1>7. Left(op.rest, w, size, done)
  BY DEF Doing, Left
<1>8. Left(op'.rest, w, size, sum) /\ \A j \in 1 .. n : op.rest[j] = w[done + j]
  <2>1. Sum(sum, done, n) /\ sum <= size
    BY DEF Sum
  <2>2. Left(Drop(op.rest, n), w, size, sum)
    BY <1>7, <2>1, LeftDrops
  <2>3. \A j \in 1 .. n : op.rest[j] = w[done + j]
    BY <1>7, LeftUnits
  <2>. QED  BY <2>2, <2>3
<1>9. Holds(fat, data', r, w, sum)
  <2>1. Goes(data[last], data'[last], w, p, done, n)
    BY <1>8, ConstantFacts DEF Goes
  <2>2. Units(p, q) /\ Nth(fat, r, q, last) /\ Sum(sum, done, n)
    BY <1>1 DEF Nth, Sum
  <2>. QED  BY <1>1, <1>3, <2>1, <2>2, Appends
<1>10. Doing(m, sum, w)'
  <2>1. Own(sum)'
    <3>1. Own(done)
      BY DEF Doing
    <3>2. op.kind = "append" => dir[op.slot].size <= sum
      <4>. SUFFICES ASSUME op.kind = "append" PROVE dir[op.slot].size <= sum
        OBVIOUS
      <4>. PICK e : e = dir[op.slot]
        OBVIOUS
      <4>1. e \in Entries
        BY DEF Live, StoreInv, TypeInv, CallTyped
      <4>2. e.size \in 0 .. MaxLen /\ e.size <= done
        BY <3>1, <4>1 DEF Entries, Own
      <4>. QED  BY <4>2, ConstantFacts
    <3>. QED  BY <3>1, <3>2 DEF Own, Same
  <2>2. ~Linking'
    BY DEF Linking
  <2>3. Enough(m + op.need - IF Linking THEN 1 ELSE 0)'
    <3>1. (m + op.need - IF Linking THEN 1 ELSE 0)' = m + op'.need - 0
      BY <2>2
    <3>2. m + op'.need - 0 = m + op'.need
      BY ConstantFacts
    <3>. QED  BY <3>1, <3>2 DEF Enough, Same
  <2>4. IsText(w, op'.size) /\ sum <= op'.size
        /\ op'.rest = [j \in 1 .. op'.size - sum |-> w[sum + j]]
    BY <1>8 DEF Doing, Same, Left
  <2>5. IF op'.need = 0 THEN sum = op'.size ELSE Units(sum, m)
    BY DEF Same
  <2>6. m # 0 /\ op'.last \in Clusters /\ op'.last = ChainIn(fat', op'.first)[m - 1]
    BY <1>1, ConstantFacts
  <2>. QED  BY <1>9, <2>1, <2>2, <2>3, <2>4, <2>5, <2>6 DEF Doing
<1>11. Doing(m, sum, Want)'
  BY <1>10 DEF Same, Want
<1>12. m \in 0 .. MaxLen
  BY ConstantFacts
<1>. QED  BY <1>5, <1>6, <1>11, <1>12, StoreOn

\* The cluster that was linked is filled.
LEMMA StoreData ==
  ASSUME Volume = Clusters, ~Faults, StoreInv, TypeInv', Data
  PROVE  StoreInv'
<1>1. /\ pc = "data" /\ op.cl \in Clusters /\ op.need \in Nat \ {0} /\ op.kind # "delete"
      /\ op.size \in 0 .. MaxLen
  BY DEF Data, StoreInv, TypeInv, CallTyped
<1>. PICK size \in 0 .. MaxLen : size = op.size
  BY <1>1
<1>. PICK need \in Nat \ {0} : need = op.need
  BY <1>1
<1>2. /\ data' = [data EXCEPT ![op.cl] = Padded(op.rest)] /\ UNCHANGED <<fat, dir, req, before>>
      /\ Written /\ pc' = "alloc"
  BY <1>1 DEF Data, history
<1>3. /\ Same(op') /\ op'.first = op.first /\ op'.last = op.last /\ op'.cl = op.cl
      /\ op'.need = need - 1
  BY <1>2, CallSteps DEF StoreInv, TypeInv
<1>4. op'.rest = Drop(op.rest, Least(ClusterSize, Len(op.rest)))
  BY <1>2 DEF Written, StoreInv, TypeInv, CallTyped, Shaped
<1>. PICK w : w = Want
  OBVIOUS
<1>5. PICK m, done \in 0 .. MaxLen : Doing(m, done, w)
  BY <1>1 DEF StoreInv, Serving, Underway
<1>6. Linking
  BY <1>1 DEF Linking
<1>7. /\ m \in 1 .. MaxLen /\ op.cl = op.last /\ Units(done, m - 1) /\ done <= size
      /\ Left(op.rest, w, size, done)
  BY <1>5, <1>6, ConstantFacts DEF Doing, Left
<1>8. m + need - 1 = Count(size)
  <2>1. Enough(m + need - 1)
    BY <1>5, <1>6, <1>1 DEF Doing
  <2>2. m + need - 1 # 0
    BY <1>7, ConstantFacts
  <2>. QED  BY <2>1, <2>2 DEF Enough
<1>9. PICK n \in 0 .. MaxLen :
        /\ n = Taken(0, size - done) /\ done + n <= size /\ n <= ClusterSize
        /\ need = 1 => done + n = size
        /\ need # 1 => Units(done + n, m)
  BY <1>7, <1>8, ChunkFacts
<1>10. n = Least(ClusterSize, Len(op.rest)) /\ n <= Len(op.rest)
       /\ Len(op.rest) = size - done
  <2>1. Len(op.rest) = size - done
    BY <1>7, LeftLength
  <2>. QED  BY <1>7, <1>9, <2>1, ConstantFacts DEF Taken, Least
<1>11. DOMAIN data = Clusters
  BY DEF StoreInv, Files
<1>12. DOMAIN data' = Clusters /\ \A x \in Clusters : x # op.last => data'[x] = data[x]
  BY <1>2, <1>7, <1>11
<1>13. \A j \in 1 .. n : data'[op.last][(done - done) + j] = op.rest[j]
  <2>1. data'[op.last] = Padded(op.rest)
    BY <1>1, <1>2, <1>7, <1>11
  <2>2. \A j \in 1 .. n : Padded(op.rest)[j] = op.rest[j]
    BY <1>7, <1>9, <1>10, ConstantFacts DEF Padded
  <2>3. \A j \in 1 .. n : (done - done) + j = j
    BY ConstantFacts
  <2>. QED  BY <2>1, <2>2, <2>3
<1>14. \A j \in 1 .. done - done : data'[op.last][j] = data[op.last][j]
  BY ConstantFacts
<1>15. op'.need \in Nat /\ m + op'.need = Count(op.size)
  BY <1>3, <1>7, <1>8, ConstantFacts
<1>16. (op'.need = 0 => done + n = op.size) /\ (op'.need # 0 => Units(done + n, m))
  BY <1>3, <1>9
<1>17. op.kind = "write" => Room'
  <2>1. Takeable = FreeSet(fat) /\ Takeable' = FreeSet(fat)
    BY <1>1, <1>2 DEF Takeable, FreeSet
  <2>2. Takeable' = Takeable
    BY <2>1
  <2>. QED  BY <1>1, <1>2, <1>3, <2>2 DEF StoreInv, Serving, Room
<1>18. done + n <= op.size /\ op'.rest = Drop(op.rest, n) /\ done <= done
       /\ done + n <= done + ClusterSize
  BY <1>4, <1>9, <1>10, ConstantFacts
<1>. QED
  BY <1>1, <1>2, <1>3, <1>5, <1>7, <1>12, <1>13, <1>14, <1>15, <1>16, <1>17, <1>18,
     StoreWrites

(* Where the last cluster of a file that ends within it starts.            *)
LEMMA TailPlace ==
  ASSUME NEW s \in 0 .. MaxLen, s = 0 \/ s % ClusterSize # 0
  PROVE  \E p \in 0 .. MaxLen : /\ Units(p, Count(s) - 1) /\ p <= s /\ s - p = TailOf(s)
                                /\ TailOf(s) \in 0 .. ClusterSize - 1
<1>. PICK cs \in Nat \ {0} : cs = ClusterSize /\ MaxLen \in Nat
  BY ConstantFacts
<1>. PICK a \in Nat : a = s \div cs
  BY DivFacts
<1>1. cs * a <= s /\ s < cs * a + cs /\ s % cs = s - cs * a
  BY DivFacts
<1>. PICK p \in Nat : p = a * cs
  OBVIOUS
<1>2. p = cs * a
  OBVIOUS
<1>3. Count(s) = a + 1
  <2>1. CASE s = 0
    <3>1. a = 0
      BY <1>1, <2>1
    <3>. QED  BY <2>1, <3>1 DEF Count
  <2>2. CASE s # 0
    <3>1. cs * (a + 1) = p + cs
      BY <1>2
    <3>2. cs * (a + 1) >= s /\ cs * (a + 1) < s + cs
      BY <1>1, <1>2, <2>2, <3>1
    <3>3. ClustersFor(s) = a + 1
      BY <3>2, CeilUnique
    <3>. QED  BY <2>2, <3>3 DEF Count
  <2>. QED  BY <2>1, <2>2
<1>4. TailOf(s) = s - p
  BY <1>1, <1>2 DEF TailOf
<1>5. Units(p, Count(s) - 1)
  BY <1>3 DEF Units
<1>6. p \in 0 .. MaxLen /\ p <= s /\ s - p \in 0 .. cs - 1
  BY <1>1, <1>2
<1>. QED  BY <1>4, <1>5, <1>6

\* The tail of the last cluster takes n units, and the rest needs more clusters.
LEMMA TailChunk ==
  ASSUME NEW s \in 0 .. MaxLen, s = 0 \/ s % ClusterSize # 0,
         NEW size \in 0 .. MaxLen, s <= size
  PROVE  \E n \in 0 .. MaxLen :
           /\ n = Taken(TailOf(s), size - s) /\ s + n <= size
           /\ TailOf(s) + n <= ClusterSize
           /\ Count(s) + ClustersFor((size - s) - n) = Count(size)
           /\ ClustersFor((size - s) - n) \in Nat
           /\ ClustersFor((size - s) - n) = 0 => s + n = size
           /\ ClustersFor((size - s) - n) # 0 => Units(s + n, Count(s))
<1>. PICK cs \in Nat \ {0} : cs = ClusterSize /\ MaxLen \in Nat
  BY ConstantFacts
<1>. PICK l \in Nat : l = size - s
  OBVIOUS
<1>. PICK off \in 0 .. cs - 1 : off = TailOf(s)
  BY TailPlace
<1>1. PICK p \in 0 .. MaxLen : Units(p, Count(s) - 1) /\ p <= s /\ s - p = off
  BY TailPlace
<1>. PICK n \in Nat : n = Taken(off, l) /\ n = IF cs - off < l THEN cs - off ELSE l
  <2>1. Taken(off, l) = IF cs - off < l THEN cs - off ELSE l
    BY DEF Taken, Least
  <2>. QED  BY <2>1
<1>2. Count(s) + ClustersFor(l - n) = Count(s + l)
  BY TailCount
<1>3. s + l = size /\ n <= l /\ off + n <= cs
  OBVIOUS
<1>4. PICK x \in Nat : x = l - n
  BY <1>3
<1>5. ClustersFor(x) \in Nat /\ (x > 0 => ClustersFor(x) # 0)
  <2>1. PICK q \in Nat : q = ClustersFor(x) /\ cs * q >= x
    BY CeilFacts
  <2>2. q = 0 => x = 0
    BY <2>1
  <2>. QED  BY <2>1, <2>2
<1>6. x = 0 => s + n = size
  BY <1>3, <1>4
<1>7. ClustersFor(0) = 0
  BY ClusterCount
<1>8. x # 0 => Units(s + n, Count(s))
  <2>. SUFFICES ASSUME x # 0 PROVE Units(s + n, Count(s))
    OBVIOUS
  <2>1. n = cs - off
    BY <1>4
  <2>. PICK k \in 1 .. MaxLen : k = Count(s)
    BY CountFacts
  <2>2. p = (k - 1) * cs
    BY <1>1 DEF Units
  <2>3. s + n = p + cs
    BY <1>1, <2>1
  <2>4. p + cs = k * cs
    BY <2>2
  <2>. QED  BY <2>3, <2>4 DEF Units
<1>9. n \in 0 .. MaxLen /\ s + n <= size
  BY <1>3
<1>. QED  BY <1>2, <1>3, <1>4, <1>5, <1>6, <1>7, <1>8, <1>9

\* What the call of an append extends.
LEMMA SlotEntry ==
  ASSUME TypeInv, op.slot \in Live
  PROVE  dir[op.slot] \in Entries /\ dir[op.slot].size \in 0 .. MaxLen
         /\ dir[op.slot].first \in Clusters \cup {0}
<1>. PICK e : e = dir[op.slot]
  OBVIOUS
<1>1. e \in Entries
  BY DEF Live, TypeInv
<1>2. e.size \in 0 .. MaxLen /\ e.first \in Clusters \cup {0}
  BY <1>1 DEF Entries
<1>. QED  BY <1>1, <1>2

\* The tail of the last cluster is filled.
LEMMA StoreFills ==
  ASSUME Volume = Clusters, ~Faults, StoreInv, TypeInv', Fill
  PROVE  StoreInv'
<1>. DEFINE Is(a, b) == a = b
<1>1. pc = "fill" /\ op.kind = "append" /\ op.slot \in Live /\ op.size \in 0 .. MaxLen
  BY DEF Fill, StoreInv, TypeInv, CallTyped
<1>. PICK size \in 0 .. MaxLen : Is(size, op.size)
  BY <1>1
<1>. PICK done \in 0 .. MaxLen : Is(done, dir[op.slot].size)
  BY <1>1, SlotEntry DEF StoreInv
<1>. PICK w : w = Want
  OBVIOUS
<1>2. PICK m \in 0 .. MaxLen : Doing(m, done, w)
  <2>1. PICK m, d \in 0 .. MaxLen : Doing(m, d, w)
    BY <1>1 DEF StoreInv, Serving, Underway
  <2>2. d = done
    BY <1>1, <2>1 DEF Doing
  <2>. QED  BY <2>1, <2>2
<1>3. m = Count(done) /\ HasTail(dir[op.slot]) /\ done <= size
  BY <1>1, <1>2 DEF Doing
<1>4. m \in 1 .. MaxLen /\ (done = 0 \/ done % ClusterSize # 0)
  BY <1>3, CountFacts DEF HasTail
<1>. PICK off \in Nat : Is(off, TailOf(done)) /\ off < ClusterSize
  BY <1>3, <1>4, TailPlace, ConstantFacts
<1>5. PICK p \in 0 .. MaxLen : Units(p, m - 1) /\ p <= done /\ done - p = off
  BY <1>3, <1>4, TailPlace
<1>6. PICK n \in 0 .. MaxLen :
        /\ n = Taken(off, size - done) /\ done + n <= size /\ off + n <= ClusterSize
        /\ m + ClustersFor((size - done) - n) = Count(size)
        /\ ClustersFor((size - done) - n) \in Nat
        /\ ClustersFor((size - done) - n) = 0 => done + n = size
        /\ ClustersFor((size - done) - n) # 0 => Units(done + n, m)
  BY <1>3, <1>4, TailChunk
<1>7. Left(op.rest, w, size, done)
  BY <1>2 DEF Doing, Left
<1>8. Len(op.rest) = size - done
  BY <1>3, <1>7, LeftLength
<1>9. TailStart = off /\ n = Least(ClusterSize - off, Len(op.rest))
  BY <1>6, <1>8 DEF TailStart, TailOf, Taken
<1>10. op.last \in Clusters
  BY <1>2, <1>4, ConstantFacts DEF Doing
<1>. PICK need : Is(need, ClustersFor(Len(op.rest) - n))
  OBVIOUS
<1>11. /\ data' = IF n = 0 THEN data
                  ELSE [data EXCEPT ![op.last] =
                          [i \in 1 .. ClusterSize |->
                             IF i \in off + 1 .. off + n
                               THEN op.rest[i - off] ELSE data[op.last][i]]]
       /\ op' = [op EXCEPT !.rest = Drop(op.rest, n), !.need = need]
       /\ pc' = "alloc" /\ UNCHANGED <<fat, dir, req, before>>
  BY <1>9, <1>10 DEF Fill, history
<1>12. /\ Same(op') /\ op'.first = op.first /\ op'.last = op.last /\ op'.need = need
  BY <1>11, CallSteps DEF StoreInv, TypeInv
<1>13. op'.rest = Drop(op.rest, n)
  BY <1>11 DEF StoreInv, TypeInv, CallTyped, Shaped
<1>14. DOMAIN data = Clusters
  BY DEF StoreInv, Files
<1>15. DOMAIN data' = Clusters /\ \A x \in Clusters : x # op.last => data'[x] = data[x]
  BY <1>11, <1>14
<1>16. n # 0 => \A i \in 1 .. ClusterSize :
                  data'[op.last][i] = IF i \in off + 1 .. off + n
                                        THEN op.rest[i - off] ELSE data[op.last][i]
  BY <1>10, <1>11, <1>14
<1>17. /\ ClusterSize \in Nat /\ MaxLen \in Nat
       /\ done - p = off /\ p <= done /\ off + n <= ClusterSize /\ done + n <= size
  BY <1>5, <1>6, ConstantFacts
<1>. HIDE DEF Is
<1>18. \A j \in 1 .. done - p : data'[op.last][j] = data[op.last][j]
  BY <1>11, <1>16, <1>17
<1>19. \A j \in 1 .. n : data'[op.last][(done - p) + j] = op.rest[j]
  <2>. SUFFICES ASSUME NEW j \in 1 .. n PROVE data'[op.last][off + j] = op.rest[j]
    BY <1>17
  <2>. PICK i \in 1 .. ClusterSize : i = off + j
    BY <1>17
  <2>1. i \in off + 1 .. off + n /\ i - off = j /\ n # 0
    BY <1>17
  <2>. QED  BY <1>16, <2>1
<1>20. op'.need \in Nat /\ m + op'.need = Count(op.size)
       /\ (op'.need = 0 => done + n = op.size) /\ (op'.need # 0 => Units(done + n, m))
  BY <1>6, <1>8, <1>12 DEF Is
<1>21. done + n <= p + ClusterSize
  BY <1>17
<1>22. done + n <= op.size
  BY <1>17 DEF Is
<1>. QED
  BY <1>1, <1>2, <1>4, <1>5, <1>11, <1>12, <1>13, <1>15, <1>18, <1>19, <1>20, <1>21, <1>22,
     StoreWrites

-----------------------------------------------------------------------------
(***************************************************************************)
(* How a call ends.                                                        *)
(***************************************************************************)
\* What the chains of the files look like when no call is at work.
Tidy(files) ==
  /\ Sound(fat) /\ DOMAIN data = Clusters
  /\ \A i \in files : /\ dir[i].first = 0 \/ Heads(fat, dir[i].first)
                      /\ Reaches(fat, dir[i].first, dir[i].size)
  /\ \A i, j \in files : i # j /\ dir[i].first = dir[j].first => dir[i].first = 0

LEMMA TidyOthers == ASSUME TypeInv, Files PROVE Tidy(Others)
<1>1. \A i \in Others : dir[i].first = 0 \/ Heads(fat, dir[i].first)
  BY OtherHeads
<1>. QED  BY <1>1 DEF Tidy, Files, Apart

LEMMA TidyIdle == ASSUME StoreInv, pc = "idle" PROVE Tidy(Live)
<1>1. op.slot = 0
  BY NoOpFacts DEF StoreInv, TypeInv, CallTyped
<1>2. 0 \notin Live
  BY DEF Live
<1>. QED  BY <1>1, <1>2, TidyOthers DEF StoreInv, Others

\* Until its entry is written, a call that adds a file or extends one is not seen.
LEMMA TidyCall ==
  ASSUME StoreInv, pc # "idle", op.kind \in {"create", "append"}
  PROVE  Tidy(Live)
<1>1. Tidy(Others)
  BY TidyOthers DEF StoreInv
<1>2. CASE op.kind = "create"
  <2>1. op.slot \notin Live
    BY <1>2 DEF StoreInv, TypeInv, CallTyped
  <2>. QED  BY <1>1, <2>1 DEF Others
<1>3. CASE op.kind = "append"
  <2>1. op.slot \in Live
    BY <1>3 DEF StoreInv, TypeInv, CallTyped
  <2>. PICK i \in Live : i = op.slot
    BY <2>1
  <2>2. PICK m, done \in 0 .. MaxLen : Doing(m, done, Want)
    BY <1>3 DEF StoreInv, Serving, Underway
  <2>3. PICK s \in 0 .. MaxLen : s = dir[i].size
    BY <2>1, SlotEntry DEF StoreInv
  <2>4. s <= done /\ (dir[i].first = op.first \/ (dir[i].first = 0 /\ s = 0))
    BY <1>3, <2>2, <2>3 DEF Doing, Own
  <2>5. op.first \in Clusters \cup {0}
    BY DEF StoreInv, TypeInv, CallTyped
  <2>6. dir[i].first = 0 \/ Heads(fat, dir[i].first)
    BY <2>4, <2>5, RootFacts DEF StoreInv, Files
  <2>7. Reaches(fat, dir[i].first, s)
    <3>1. Reaches(fat, op.first, done)
      BY <2>2 DEF Doing, Holds
    <3>2. Reaches(fat, op.first, s)
      BY <2>4, <3>1, ConstantFacts DEF Reaches
    <3>3. s = 0 => Reaches(fat, dir[i].first, s)
      BY DEF Reaches
    <3>. QED  BY <2>4, <3>2, <3>3
  <2>8. \A j \in Others : dir[j].first = dir[i].first => dir[i].first = 0
    BY <2>4 DEF StoreInv, Files, Apart
  <2>9. Live = Others \cup {i}
    BY DEF Others
  <2>. QED  BY <1>1, <2>3, <2>6, <2>7, <2>8, <2>9 DEF Tidy
<1>. QED  BY <1>2, <1>3

\* The disk is in order between calls, and when a call begins.
LEMMA FilesBegin ==
  ASSUME Tidy(Live)', TypeInv',
         \/ op'.slot \notin Live' /\ op'.first = 0 /\ pc' \in {"idle", "alloc", "entry"}
         \/ op'.slot \in Live' /\ op'.first = 0 /\ pc' = "free" /\ op'.cl = dir'[op'.slot].first
         \/ op'.slot \in Live' /\ op'.first = dir'[op'.slot].first /\ pc' \in {"fill", "alloc"}
  PROVE  Files'
<1>1. Others' \subseteq Live' /\ op'.slot \notin Others'
  BY DEF Others
<1>2. Loose' = IF pc' = "free" THEN {op'.cl} ELSE {}
  BY DEF Loose
<1>3. Apart'
  <2>0. \A i, j \in Live' : i # j /\ dir'[i].first = dir'[j].first => dir'[i].first = 0
    BY DEF Tidy
  <2>1. \A i, j \in Others' : i # j /\ dir'[i].first = dir'[j].first => dir'[i].first = 0
    BY <1>1, <2>0
  <2>2. \A i \in Others' : dir'[i].first = op'.first => op'.first = 0
    BY <1>1, <2>0
  <2>3. \A c \in Loose' \cap Clusters : c # op'.first
        /\ \A i \in Others' : dir'[i].first # c
    BY <1>1, <1>2, <2>0, ConstantFacts
  <2>. QED  BY <2>1, <2>2, <2>3 DEF Apart
<1>4. ASSUME NEW r \in Roots' PROVE Heads(fat', r)
  <2>1. r \in Clusters
    BY DEF Roots
  <2>2. \E i \in Live' : r = dir'[i].first
    BY <1>1, <1>2, <2>1, ConstantFacts DEF Roots
  <2>. QED  BY <2>1, <2>2, ConstantFacts DEF Tidy
<1>. QED  BY <1>1, <1>3, <1>4 DEF Tidy, Files

\* The entry that the call leaves reads as the text that was wanted.
LEMMA EntryReads ==
  ASSUME Volume = Clusters, StoreInv, pc = "entry", op.kind # "delete"
  PROVE  /\ Reaches(fat, op.first, op.size)
         /\ TextIn(fat, data, Entry(op.name, op.dir, op.first, op.size)) = Want
<1>. PICK w : w = Want
  OBVIOUS
<1>1. PICK m, done \in 0 .. MaxLen : Doing(m, done, w)
  BY DEF StoreInv, Serving, Underway
<1>2. done = op.size /\ IsText(w, op.size)
  BY <1>1 DEF Doing, Linking
<1>. PICK s \in 0 .. MaxLen : s = op.size
  BY <1>2
<1>3. Holds(fat, data, op.first, w, s)
  BY <1>1, <1>2 DEF Doing
<1>4. Prefixes(TextIn(fat, data, Entry(op.name, op.dir, op.first, op.size)), w, s)
  <2>. PICK e : e.first = op.first /\ e.size = s
               /\ e = Entry(op.name, op.dir, op.first, op.size)
    BY DEF Entry
  <2>1. StartsAt(e, op.first) /\ e.size \in 0 .. MaxLen /\ e.size <= s
    BY ConstantFacts DEF StartsAt
  <2>2. Prefixes(TextIn(fat, data, e), w, e.size)
    BY <1>3, <2>1, TextOf
  <2>. QED  BY <2>2
<1>. QED  BY <1>2, <1>3, <1>4 DEF Holds, Prefixes, IsText

LEMMA EntrySettles ==
  ASSUME Volume = Clusters, StoreInv, WriteEntry
  PROVE  /\ Tidy(Live)' /\ Unique'
         /\ \A n \in Names : n # op.name => Matches(n)' = Matches(n) /\ Reads(n)' = Reads(n)
         /\ \A n \in Names : n = op.name =>
              Reads(n)' = IF op.kind = "delete" THEN Store!Absent
                          ELSE [there |-> TRUE, dir |-> op.dir, text |-> Want]
<1>1. /\ pc = "entry" /\ op.name \in Names /\ Named /\ op.slot \in Nat
      /\ op.kind \in {"create", "append", "write", "delete"}
  BY DEF WriteEntry, StoreInv, Serving, TypeInv, CallTyped
<1>. PICK i \in Nat : i = op.slot
  BY <1>1
<1>2. /\ UNCHANGED <<fat, data>> /\ dir'[i] = NewEntry
      /\ \A j \in Others : dir'[j] = dir[j]
      /\ Live' = IF op.kind = "delete" THEN Others ELSE Others \cup {i}
  BY EntryWritten DEF StoreInv, Others
<1>3. \A j \in Others : dir[j].name # op.name /\ j # i
  <2>1. \A j \in Live : dir[j].name = op.name => j = i
    BY <1>1 DEF Named, Matches
  <2>. QED  BY <2>1 DEF Others
<1>4. op.kind # "delete" => NewEntry = Entry(op.name, op.dir, op.first, op.size)
  BY DEF NewEntry
<1>5. Tidy(Live)'
  <2>1. Tidy(Others)
    BY TidyOthers DEF StoreInv
  <2>2. Sound(fat') /\ DOMAIN data' = Clusters
        /\ \A j \in Others : /\ dir'[j].first = 0 \/ Heads(fat', dir'[j].first)
                             /\ Reaches(fat', dir'[j].first, dir'[j].size)
    BY <1>2, <2>1 DEF Tidy
  <2>3. \A j, k \in Others : j # k /\ dir'[j].first = dir'[k].first => dir'[j].first = 0
    BY <1>2, <2>1 DEF Tidy
  <2>4. CASE op.kind = "delete"
    BY <1>2, <2>2, <2>3, <2>4 DEF Tidy
  <2>5. CASE op.kind # "delete"
    <3>1. dir'[i].first = op.first /\ dir'[i].size = op.size
      BY <1>2, <1>4, <2>5 DEF Entry
    <3>2. op.first = 0 \/ Heads(fat, op.first)
      <4>1. op.first \in Clusters \cup {0}
        BY DEF StoreInv, TypeInv, CallTyped
      <4>. QED  BY <4>1, RootFacts DEF StoreInv, Files
    <3>3. Reaches(fat, op.first, op.size)
      BY <1>1, <2>5, EntryReads
    <3>4. \A j \in Others : dir'[j].first = op.first => op.first = 0
      BY <1>2 DEF StoreInv, Files, Apart
    <3>. QED  BY <1>2, <2>2, <2>3, <2>5, <3>1, <3>2, <3>3, <3>4 DEF Tidy
  <2>. QED  BY <2>4, <2>5
<1>6. op.kind # "delete" => dir'[i].name = op.name
  BY <1>2, <1>4 DEF Entry
<1>7. Unique'
  <2>1. \A j, k \in Others : dir'[j].name = dir'[k].name => j = k
    BY <1>2 DEF StoreInv, Unique, Others
  <2>2. \A j \in Others : op.kind # "delete" => dir'[j].name # dir'[i].name
    BY <1>2, <1>3, <1>6
  <2>. QED  BY <1>2, <2>1, <2>2 DEF Unique
<1>8. ASSUME NEW n \in Names, n # op.name
      PROVE  Matches(n)' = Matches(n) /\ Reads(n)' = Reads(n)
  <2>1. Matches(n) \subseteq Others
    BY <1>1, <1>8, OthersNamed DEF StoreInv
  <2>2. Matches(n) = {j \in Others : dir[j].name = n}
    BY <2>1 DEF Matches, Others
  <2>3. Matches(n)' = {j \in Others : dir[j].name = n}
    <3>1. Matches(n)' = {j \in Live' : dir'[j].name = n}
      BY DEF Matches
    <3>2. \A j \in Live' : dir'[j].name = n => j \in Others
      BY <1>2, <1>6, <1>8
    <3>. QED  BY <1>2, <3>1, <3>2
  <2>4. CASE Matches(n) = {}
    BY <2>2, <2>3, <2>4 DEF Reads
  <2>5. CASE Matches(n) # {}
    <3>1. PICK j \in Others : j = Min(Matches(n))
      BY <2>1, <2>5, FileFacts DEF StoreInv
    <3>2. PICK e : e = dir[j] /\ e = dir'[j]
      BY <1>2
    <3>3. Reads(n) = [there |-> TRUE, dir |-> e.dir, text |-> TextIn(fat, data, e)]
      BY <2>5, <3>1, <3>2 DEF Reads, Text
    <3>4. Reads(n)' = [there |-> TRUE, dir |-> e.dir, text |-> TextIn(fat', data', e)]
      BY <2>2, <2>3, <2>5, <3>1, <3>2 DEF Reads, Text
    <3>. QED  BY <1>2, <2>2, <2>3, <3>3, <3>4
  <2>. QED  BY <2>4, <2>5
<1>9. ASSUME NEW n \in Names, n = op.name
      PROVE  Reads(n)' = IF op.kind = "delete" THEN Store!Absent
                         ELSE [there |-> TRUE, dir |-> op.dir, text |-> Want]
  <2>1. Matches(n)' = {j \in Live' : dir'[j].name = n}
    BY DEF Matches
  <2>2. CASE op.kind = "delete"
    <3>1. Matches(n)' = {}
      BY <1>2, <1>3, <1>9, <2>1, <2>2
    <3>. QED  BY <2>2, <3>1 DEF Reads, Store!Absent
  <2>3. CASE op.kind # "delete"
    <3>1. Matches(n)' = {i}
      BY <1>2, <1>3, <1>6, <1>9, <2>1, <2>3
    <3>2. Min({i}) = i
      BY MinOne
    <3>3. PICK e : e = dir'[i] /\ e = Entry(op.name, op.dir, op.first, op.size)
      BY <1>2, <1>4, <2>3
    <3>4. Reads(n)' = [there |-> TRUE, dir |-> e.dir, text |-> TextIn(fat', data', e)]
      BY <3>1, <3>2, <3>3 DEF Reads, Text
    <3>5. e.dir = op.dir
      BY <3>3 DEF Entry
    <3>6. TextIn(fat, data, e) = Want
      BY <1>1, <2>3, <3>3, EntryReads
    <3>. QED  BY <1>2, <2>3, <3>4, <3>5, <3>6
  <2>. QED  BY <2>2, <2>3
<1>. QED  BY <1>5, <1>7, <1>8, <1>9

LEMMA AfterOutcome == ASSUME pc # "idle" PROVE Store!After(req) = Outcome(before, req)
BY DEF Store!After, Outcome, Store!Rewritten

\* While a call is at work, the names read to everyone as before it.
LEMMA StoreStutters ==
  ASSUME pc # "idle", pc' # "idle", UNCHANGED history
  PROVE  UNCHANGED Store!vars
BY DEF Store!vars, history

LEMMA IdleAgain ==
  ASSUME TypeInv', Tidy(Live)', Unique', NEW b, Answer(b)
  PROVE  StoreInv'
<1>1. op' = NoOp /\ pc' = "idle" /\ req' = <<>>
  BY DEF Answer
<1>2. op'.slot \notin Live' /\ op'.first = 0
  BY <1>1, NoOpFacts DEF Live
<1>3. Files'
  BY <1>1, <1>2, FilesBegin
<1>. QED  BY <1>1, <1>3 DEF StoreInv

LEMMA DiskObserved ==
  ASSUME UNCHANGED disk
  PROVE  Observed' = Observed /\ (Tidy(Live) => Tidy(Live)') /\ (Unique => Unique')
<1>1. UNCHANGED <<fat, data, dir>>
  BY DEF disk
<1>2. \A n : Reads(n)' = Reads(n)
  BY <1>1, SameDisk
<1>3. Live' = Live
  BY <1>1, SameEntries
<1>. QED  BY <1>1, <1>2, <1>3 DEF Observed, Tidy, Unique

\* A call that fails leaves everything as it was before the request.
LEMMA StoreRefuses ==
  ASSUME StoreInv, TypeInv', Answer(FALSE), UNCHANGED disk,
         pc = "idle" \/ op.kind \in {"create", "append"}
  PROVE  StoreInv' /\ Store!Refuse
<1>1. Tidy(Live)
  BY TidyIdle, TidyCall
<1>2. StoreInv'
  BY <1>1, IdleAgain, DiskObserved DEF StoreInv
<1>3. Observed' = Observed
  BY DiskObserved
<1>4. pc # "idle" => Observed = before
  <2>. SUFFICES ASSUME pc # "idle" PROVE Observed = before
    OBVIOUS
  <2>1. before = [n \in Names |-> before[n]]
    BY DEF StoreInv, Serving, Told
  <2>2. \A n \in Names : Reads(n) = before[n]
    BY DEF StoreInv, Serving, Underway, Untouched
  <2>. QED  BY <2>1, <2>2 DEF Observed
<1>5. req' = <<>> /\ ok' = FALSE /\ pc' = "idle"
  BY DEF Answer
<1>6. Store!Refuse
  BY <1>3, <1>4, <1>5 DEF Store!Refuse
<1>. QED  BY <1>2, <1>6

\* The entry that is written last shows what the request has done.
LEMMA StorePerforms ==
  ASSUME Volume = Clusters, StoreInv, TypeInv', WriteEntry
  PROVE  StoreInv' /\ (Store!Perform \/ UNCHANGED Store!vars)
<1>1. /\ pc = "entry" /\ op.name \in Names /\ Told /\ Named /\ Promise /\ Underway
      /\ op.then = None \/ (op.then \in Names /\ op.kind = "create")
  BY DEF WriteEntry, StoreInv, Serving, TypeInv, CallTyped
<1>2. Tidy(Live)' /\ Unique'
  BY EntrySettles
<1>3. \A n \in Names : n # op.name => Matches(n)' = Matches(n) /\ Reads(n)' = Reads(n)
  BY EntrySettles
<1>4. \A n \in Names : n = op.name =>
        Reads(n)' = IF op.kind = "delete" THEN Store!Absent
                    ELSE [there |-> TRUE, dir |-> op.dir, text |-> Want]
  BY EntrySettles
<1>5. CASE op.then = None
  <2>1. Answer(TRUE)
    BY <1>5 DEF WriteEntry, Return
  <2>2. StoreInv'
    BY <1>2, <2>1, IdleAgain
  <2>3. Observed' = Outcome(before, req)
    <3>1. CASE op.kind = "delete"
      BY <1>1, <1>3, <1>4, <3>1 DEF Promise, Observed
    <3>2. CASE op.kind # "delete"
      <4>1. \A n \in Names : n # op.name => Reads(n)' = before[n]
        BY <1>1, <1>3, <3>2 DEF Underway, Untouched
      <4>2. \A n \in Names : n # op.then
        BY <1>5, FatAssumption
      <4>. QED  BY <1>1, <1>4, <3>2, <4>1, <4>2 DEF Promise, Observed
    <3>. QED  BY <3>1, <3>2
  <2>4. Store!After(req) = Outcome(before, req)
    BY <1>1, AfterOutcome
  <2>5. pc' = "idle" /\ req' = <<>> /\ ok' = TRUE
    BY <2>1 DEF Answer
  <2>6. Store!Perform
    BY <1>1, <2>3, <2>4, <2>5 DEF Store!Perform, Told
  <2>. QED  BY <2>2, <2>6
<1>6. CASE op.then # None
  <2>. PICK t \in Names : t = op.then
    BY <1>1, <1>6
  <2>1. t # op.name /\ Matches(t) # {} /\ op.kind = "create"
    BY <1>1, <1>6 DEF Named
  <2>2. PICK i \in Live : i = Min(Matches(t)) /\ i \in Matches(t) /\ dir[i] \in Entries
    BY <2>1, FileFacts DEF StoreInv
  <2>3. Matches(t) = {i}
    BY <2>2 DEF StoreInv, Unique, Matches
  <2>4. op' = Deleting(t) /\ pc' = "free" /\ UNCHANGED history
    BY <1>6, <2>1 DEF WriteEntry
  <2>5. /\ op'.kind = "delete" /\ op'.name = t /\ op'.then = None /\ op'.slot = i
        /\ op'.first = 0 /\ op'.last = 0 /\ op'.cl = dir[i].first
    BY <2>2, <2>4, DeletingFacts DEF Matches
  <2>6. i \in Others
    BY <1>1, <2>1, <2>2, OthersNamed DEF StoreInv
  <2>7. dir'[i] = dir[i] /\ i \in Live'
    BY <2>1, <2>6, EntryWritten DEF StoreInv, Others
  <2>8. Files'
    BY <1>2, <2>4, <2>5, <2>7, FilesBegin
  <2>9. Named'
    <3>1. Matches(t)' = {i}
      BY <1>3, <2>1, <2>3
    <3>. QED  BY <2>5, <3>1 DEF Named
  <2>10. UNCHANGED <<req, before, ok>>
    BY <2>4 DEF history
  <2>11. Promise'
    <3>1. Outcome(before, req) =
            [n \in Names |-> IF n = op.name THEN [there |-> TRUE, dir |-> op.dir, text |-> Want]
                             ELSE IF n = op.then THEN Store!Absent ELSE before[n]]
      BY <1>1, <2>1 DEF Promise
    <3>2. \A n \in Names : n # op.name => Reads(n)' = before[n]
      BY <1>1, <1>3, <2>1 DEF Underway, Untouched
    <3>3. Outcome(before, req)
            = [n \in Names |-> IF n = t THEN Store!Absent ELSE Reads(n)']
      BY <1>4, <2>1, <3>1, <3>2
    <3>. QED  BY <2>5, <2>10, <3>3 DEF Promise
  <2>12. Told' /\ Underway'
    BY <1>1, <2>5, <2>10 DEF Told, Underway
  <2>13. StoreInv'
    BY <1>2, <2>4, <2>5, <2>8, <2>9, <2>11, <2>12 DEF StoreInv, Serving
  <2>. QED  BY <1>1, <2>4, <2>13, StoreStutters
<1>. QED  BY <1>5, <1>6

\* The FAT has no free cluster: only an empty file goes on.
LEMMA StoreFull ==
  ASSUME Volume = Clusters, ~Faults, StoreInv, TypeInv', AllocFails
  PROVE  StoreInv' /\ (Store!Refuse \/ UNCHANGED Store!vars)
<1>1. /\ pc = "alloc" /\ op.need > 0 /\ op.need \in Nat /\ op.size \in 0 .. MaxLen
      /\ op.kind \in {"create", "append", "write"} /\ UNCHANGED disk
      /\ \A c \in Clusters : fat[c] # FREE
  BY DEF AllocFails, Allocatable, StoreInv, TypeInv, CallTyped
<1>2. op.kind # "write"
  <2>. SUFFICES ASSUME op.kind = "write" PROVE FALSE
    OBVIOUS
  <2>1. Takeable = {}
    BY <1>1 DEF Takeable, FreeSet
  <2>2. Cardinality({}) = 0
    BY FS_EmptySet
  <2>. QED  BY <1>1, <2>1, <2>2 DEF StoreInv, Serving, Room
<1>3. CASE op.kind = "append" \/ op.size > 0
  <2>1. Answer(FALSE)
    BY <1>1, <1>3 DEF AllocFails, Return
  <2>. QED  BY <1>1, <1>2, <2>1, StoreRefuses
<1>4. CASE ~(op.kind = "append" \/ op.size > 0)
  <2>. PICK w : w = Want
    OBVIOUS
  <2>1. op' = [op EXCEPT !.need = 0, !.first = 0] /\ pc' = "alloc" /\ UNCHANGED history
    BY <1>4 DEF AllocFails
  <2>2. Same(op') /\ op'.first = 0 /\ op'.last = op.last /\ op'.need = 0
    BY <2>1, CallSteps DEF StoreInv, TypeInv
  <2>3. op'.rest = op.rest
    BY <2>1 DEF StoreInv, TypeInv, CallTyped, Shaped
  <2>4. op.size = 0 /\ op.kind = "create" /\ ~Linking /\ ~Linking' /\ op.kind # "delete"
    BY <1>1, <1>2, <1>4, <2>1, ConstantFacts DEF Linking
  <2>5. PICK m, done \in 0 .. MaxLen : Doing(m, done, w)
    BY <1>1, <2>4 DEF StoreInv, Serving, Underway
  <2>6. m = 0 /\ done = 0 /\ op.first = 0
    <3>1. Enough(m + op.need)
      BY <1>1, <2>4, <2>5 DEF Doing
    <3>2. m + op.need = 1
      BY <1>1, <2>4, <3>1, ConstantFacts DEF Enough, Count
    <3>. QED  BY <1>1, <2>4, <2>5, <3>2, ConstantFacts DEF Doing
  <2>7. UNCHANGED <<fat, data, dir>>
    BY <1>1 DEF disk
  <2>8. Doing(m, done, w)'
    <3>1. Linking' = Linking
      BY <1>1, <2>1 DEF Linking
    <3>2. pc # "fill" /\ pc' # "fill" /\ pc' \notin {"free", "freeMirror"}
          /\ op'.first = op.first
      BY <1>1, <2>1, <2>2, <2>6
    <3>. QED  BY <2>2, <2>3, <2>4, <2>5, <2>6, <2>7, <3>1, <3>2, DoingKept
  <2>9. Doing(m, done, Want)'
    BY <2>1, <2>2, <2>8 DEF Same, Want, history
  <2>10. Files'
    <3>1. Loose' = Loose /\ DOMAIN data' = Clusters
      BY <1>1, <2>1, <2>7 DEF Loose, StoreInv, Files
    <3>. QED  BY <2>2, <2>6, <2>7, <3>1, FilesKept DEF StoreInv, Same
  <2>11. \A n \in Names : n # op.name => Reads(n)' = Reads(n)
    BY <2>7, SameDisk
  <2>12. UNCHANGED <<dir, req, before>>
    BY <2>1, <2>7 DEF history
  <2>13. pc # "idle" /\ pc' # "idle" /\ op.kind # "write"
    BY <1>1, <2>1, <2>4
  <2>14. StoreInv'
    BY <2>2, <2>4, <2>9, <2>10, <2>11, <2>12, <2>13, StoreOn
  <2>. QED  BY <2>1, <2>13, <2>14, StoreStutters
<1>. QED  BY <1>3, <1>4

LEMMA StoreProgress ==
  ASSUME Volume = Clusters, IsFiniteSet(Clusters), ~Faults, StoreInv, TypeInv', Progress
  PROVE  StoreInv' /\ (Store!Next \/ UNCHANGED Store!vars)
<1>1. CASE FreeDone
  <2>1. pc # "idle" /\ pc' # "idle" /\ UNCHANGED history
    BY <1>1 DEF FreeDone, AfterFree
  <2>. QED  BY <1>1, <2>1, StoreFreed, StoreStutters
<1>2. CASE FreeCluster
  <2>1. pc # "idle" /\ pc' # "idle" /\ UNCHANGED history
    BY <1>2 DEF FreeCluster
  <2>. QED  BY <1>2, <2>1, StoreFrees, StoreStutters
<1>3. CASE FreeMirror \/ AllocMirror \/ LinkMirror \/ AllDone
  <2>1. UNCHANGED <<fat, data, dir, op, history>>
    BY <1>3 DEF FreeMirror, AllocMirror, LinkMirror, AllDone, Mirror, disk
  <2>2. \/ pc = "freeMirror" /\ pc' = "free"
        \/ pc = "allocMirror" /\ pc' = "link"
        \/ pc = "linkMirror" /\ pc' = "data"
        \/ pc = "alloc" /\ op.need = 0 /\ pc' = "entry"
    BY <1>3 DEF FreeMirror, AllocMirror, LinkMirror, AllDone
  <2>3. pc # "idle" /\ pc' # "idle" /\ UNCHANGED history
    BY <2>1, <2>2
  <2>. QED  BY <2>1, <2>2, <2>3, StoreMirrors, StoreStutters
<1>4. CASE Alloc
  <2>1. pc # "idle" /\ pc' # "idle" /\ UNCHANGED history
    BY <1>4 DEF Alloc
  <2>. QED  BY <1>4, <2>1, StoreAllocs, StoreStutters
<1>5. CASE AllocFails
  BY <1>5, StoreFull DEF Store!Next
<1>6. CASE Link
  <2>1. pc # "idle" /\ pc' # "idle" /\ UNCHANGED history
    BY <1>6 DEF Link
  <2>2. CASE op.last = 0
    <3>1. pc = "link" /\ Linked /\ pc' = "data" /\ UNCHANGED <<fat, data, dir, req, before>>
      BY <1>6, <2>2 DEF Link, disk, history
    <3>. QED  BY <2>1, <2>2, <3>1, StoreFirst, StoreStutters
  <2>3. CASE op.last # 0
    <3>1. pc = "link" /\ SetFat(op.last, op.cl) /\ Linked /\ pc' = "linkMirror"
          /\ UNCHANGED <<req, before>>
      BY <1>6, <2>3 DEF Link, history
    <3>. QED  BY <2>1, <2>3, <3>1, StoreLinks, StoreStutters
  <2>. QED  BY <2>2, <2>3
<1>7. CASE Data
  <2>1. pc # "idle" /\ pc' # "idle" /\ UNCHANGED history
    <3>1. op.cl \in Clusters
      BY <1>7 DEF Data, StoreInv, TypeInv, CallTyped
    <3>. QED  BY <1>7, <3>1 DEF Data
  <2>. QED  BY <1>7, <2>1, StoreData, StoreStutters
<1>8. CASE Fill
  <2>1. op.last \in Clusters
    <3>1. pc = "fill" /\ op.kind = "append" /\ op.slot \in Live
      BY <1>8 DEF Fill, StoreInv, TypeInv, CallTyped
    <3>2. PICK m, done \in 0 .. MaxLen : Doing(m, done, Want)
      BY <3>1 DEF StoreInv, Serving, Underway
    <3>3. dir[op.slot].size \in 0 .. MaxLen
      BY <3>1, SlotEntry DEF StoreInv
    <3>4. m # 0
      BY <3>1, <3>2, <3>3, CountFacts, ConstantFacts DEF Doing
    <3>. QED  BY <3>2, <3>4 DEF Doing
  <2>2. pc # "idle" /\ pc' # "idle" /\ UNCHANGED history
    BY <1>8, <2>1 DEF Fill
  <2>. QED  BY <1>8, <2>2, StoreFills, StoreStutters
<1>9. CASE WriteEntry
  BY <1>9, StorePerforms DEF Store!Next
<1>10. CASE EntryFails
  BY <1>10 DEF EntryFails
<1>. QED
  BY <1>1, <1>2, <1>3, <1>4, <1>5, <1>6, <1>7, <1>8, <1>9, <1>10 DEF Progress

-----------------------------------------------------------------------------
(***************************************************************************)
(* How a call starts.                                                      *)
(***************************************************************************)
LEMMA BeginFacts ==
  ASSUME NEW r, NEW o, NEW at, Begin(r, o, at)
  PROVE  /\ op' = o /\ pc' = at /\ req' = r /\ before' = Observed
         /\ UNCHANGED <<fat, data, dir, ok>>
         /\ Live' = Live /\ \A n : Matches(n)' = Matches(n) /\ Reads(n)' = Reads(n)
<1>1. op' = o /\ pc' = at /\ req' = r /\ before' = Observed
      /\ UNCHANGED <<fat, data, dir, ok>>
  BY DEF Begin, disk
<1>. QED  BY <1>1, SameEntries, SameDisk

(* A request is accepted: the call that serves it starts.                  *)
LEMMA StoreCalls ==
  ASSUME StoreInv, TypeInv', pc = "idle", NEW r \in AllRequests, r # <<>>,
         r.kind \in {"delete", "cp", "mv"} => Observed[r.name].there,
         NEW o, NEW at \in {"alloc", "fill", "free", "entry"}, Begin(r, o, at),
         \/ o.slot \notin Live /\ o.first = 0 /\ at \in {"alloc", "entry"}
         \/ o.slot \in Live /\ o.first = 0 /\ at = "free" /\ o.cl = dir[o.slot].first
         \/ o.slot \in Live /\ o.first = dir[o.slot].first /\ at \in {"fill", "alloc"},
         Named', Promise', Underway', o.kind = "write" => Room'
  PROVE  StoreInv' /\ Store!Call
<1>1. /\ op' = o /\ pc' = at /\ req' = r /\ before' = Observed
      /\ UNCHANGED <<fat, data, dir, ok>> /\ Live' = Live
  BY BeginFacts
<1>2. Tidy(Live)' /\ Unique'
  BY <1>1, TidyIdle DEF Tidy, Unique, StoreInv
<1>3. Files'
  BY <1>1, <1>2, FilesBegin
<1>4. Told'
  <2>1. Observed = [n \in Names |-> Observed[n]]
    BY DEF Observed
  <2>. QED  BY <1>1, <2>1 DEF Told
<1>5. StoreInv'
  BY <1>1, <1>2, <1>3, <1>4 DEF StoreInv, Serving
<1>6. Store!Call
  BY <1>1 DEF Store!Call, StoreInv
<1>. QED  BY <1>5, <1>6

\* The request makes a file (or directory) n, and removes the file then.
Makes(b, r, n, d, t, then) ==
  Outcome(b, r) =
    [x \in Names |-> IF x = n THEN [there |-> TRUE, dir |-> d, text |-> t]
                     ELSE IF x = then THEN Store!Absent ELSE b[x]]

LEMMA BegunPromise ==
  ASSUME NEW r, NEW o, NEW at, Begin(r, o, at), NEW t, NEW d, NEW then, NEW n \in Names,
         o.kind # "delete", o.name = n, o.dir = d, o.then = then, Makes(Observed, r, n, d, t, then)
  PROVE  Promise' /\ Want' = t /\ Untouched'
<1>1. op' = o /\ req' = r /\ before' = Observed /\ \A x : Reads(x)' = Reads(x)
  BY BeginFacts
<1>2. Want' = t
  <2>1. Want' = Outcome(Observed, r)[n].text
    BY <1>1 DEF Want
  <2>. QED  BY <2>1 DEF Makes
<1>3. Promise'
  <2>1. Outcome(Observed, r) =
          [x \in Names |-> IF x = n THEN [there |-> TRUE, dir |-> d, text |-> Want']
                           ELSE IF x = then THEN Store!Absent ELSE Observed[x]]
    BY <1>2 DEF Makes
  <2>. QED  BY <1>1, <2>1 DEF Promise
<1>4. Untouched'
  BY <1>1 DEF Untouched, Observed
<1>. QED  BY <1>2, <1>3, <1>4

\* A call that starts from nothing.
LEMMA DoingNothing ==
  ASSUME TypeInv', NEW t, NEW l \in 0 .. MaxLen, IsText(t, l), op'.kind # "append",
         op'.first = 0, op'.last = 0, op'.size = l, op'.rest = t,
         op'.need = Count(l) \/ (op'.need = 0 /\ l = 0),
         pc' \in {"alloc", "free", "entry"}, pc' = "entry" => op'.need = 0
  PROVE  Doing(0, 0, t)'
<1>1. ~Linking' /\ pc' # "fill" /\ pc' # "idle"
  BY DEF Linking
<1>2. op'.rest = [j \in 1 .. op'.size - 0 |-> t[0 + j]]
  <2>1. l - 0 = l /\ \A j \in 1 .. l : 0 + j = j
    BY ConstantFacts
  <2>2. t = [j \in 1 .. l |-> t[j]]
    BY DEF IsText
  <2>. QED  BY <2>1, <2>2
<1>3. IsText(t, op'.size) /\ 0 <= op'.size
  BY ConstantFacts
<1>4. Holds(fat', data', op'.first, t, 0)
  BY DEF Holds, Reaches
<1>5. Own(0)'
  BY DEF Own
<1>6. Enough(0 + op.need - IF Linking THEN 1 ELSE 0)'
  <2>1. op'.need = Count(l) \/ (op'.need = 0 /\ l = 0)
    OBVIOUS
  <2>2. op'.need \in Nat
    BY DEF TypeInv, CallTyped
  <2>3. (0 + op.need - IF Linking THEN 1 ELSE 0)' = op'.need
    BY <1>1, <2>2
  <2>. QED  BY <2>1, <2>3 DEF Enough
<1>7. IF op'.need = 0 THEN 0 = op'.size ELSE Units(0, 0)
  <2>1. Count(l) # 0
    BY CountFacts, ConstantFacts
  <2>2. Units(0, 0)
    BY ConstantFacts DEF Units
  <2>. QED  BY <2>1, <2>2
<1>. QED  BY <1>1, <1>2, <1>3, <1>4, <1>5, <1>6, <1>7 DEF Doing

LEMMA StoreCreates ==
  ASSUME StoreInv, TypeInv', pc = "idle", NEW r \in AllRequests, r # <<>>,
         r.kind \in {"delete", "cp", "mv"} => Observed[r.name].there,
         NEW o, NEW at, Begin(r, o, at), NEW n \in Names, Matches(n) = {},
         NEW then, then # None => then # n /\ Matches(then) # {}, NEW d,
         NEW t, NEW l \in 0 .. MaxLen, IsText(t, l), Makes(Observed, r, n, d, t, then),
         o.kind = "create", o.name = n, o.then = then, o.dir = d, o.slot \notin Live,
         o.first = 0, o.last = 0, o.size = l, o.rest = t,
         \/ at = "alloc" /\ (o.need = Count(l) \/ (o.need = 0 /\ l = 0))
         \/ at = "entry" /\ o.need = 0 /\ l = 0
  PROVE  StoreInv' /\ Store!Call
<1>1. /\ op' = o /\ pc' = at /\ req' = r /\ before' = Observed
      /\ UNCHANGED <<fat, data, dir, ok>> /\ Live' = Live
      /\ \A x : Matches(x)' = Matches(x)
  BY BeginFacts
<1>2. Promise' /\ Want' = t /\ Untouched'
  BY BegunPromise
<1>3. Named'
  BY <1>1 DEF Named
<1>4. Doing(0, 0, t)'
  BY <1>1, DoingNothing
<1>5. Underway'
  <2>1. 0 \in 0 .. MaxLen
    BY ConstantFacts
  <2>2. Doing(0, 0, Want)'
    BY <1>2, <1>4
  <2>. QED  BY <1>1, <1>2, <2>1, <2>2 DEF Underway
<1>. QED  BY <1>2, <1>3, <1>5, StoreCalls

LEMMA RequestFacts ==
  ASSUME NEW kind \in Kinds, NEW n \in Names, NEW t, NEW to,
         IF kind \in {"cp", "mv"} THEN t = <<>> /\ to \in Names
         ELSE t \in Texts \cup {<<>>} /\ to = None
  PROVE  Request(kind, n, t, to) \in AllRequests /\ Request(kind, n, t, to) # <<>>
<1>1. Request(kind, n, t, to) # <<>>
  <2>1. DOMAIN Request(kind, n, t, to) = {"kind", "name", "text", "to"}
    BY DEF Request
  <2>2. "kind" \notin DOMAIN <<>>
    OBVIOUS
  <2>. QED  BY <2>1, <2>2
<1>2. CASE kind \in {"cp", "mv"}
  <2>1. kind \in Kinds \cap {"cp", "mv"} /\ n \in Names /\ to \in Names
        /\ Request(kind, n, t, to) = Request(kind, n, <<>>, to)
    BY <1>2
  <2>2. Request(kind, n, <<>>, to)
          \in {Request(k, x, <<>>, y) : k \in Kinds \cap {"cp", "mv"}, x \in Names, y \in Names}
    BY <2>1
  <2>. QED  BY <1>1, <2>1, <2>2 DEF AllRequests
<1>3. CASE kind \notin {"cp", "mv"}
  <2>1. kind \in Kinds \ {"cp", "mv"} /\ n \in Names /\ t \in Texts \cup {<<>>}
        /\ Request(kind, n, t, to) = Request(kind, n, t, None)
    BY <1>3
  <2>2. Request(kind, n, t, None)
          \in {Request(k, x, u, None) :
                 k \in Kinds \ {"cp", "mv"}, x \in Names, u \in Texts \cup {<<>>}}
    BY <2>1
  <2>. QED  BY <1>1, <2>1, <2>2 DEF AllRequests
<1>. QED  BY <1>2, <1>3

LEMMA ReadsShape == ASSUME NEW n
  PROVE Reads(n) = [there |-> Reads(n).there, dir |-> Reads(n).dir, text |-> Reads(n).text]
<1>1. CASE Matches(n) = {}
  BY <1>1 DEF Reads
<1>2. CASE Matches(n) # {}
  BY <1>2 DEF Reads
<1>. QED  BY <1>1, <1>2

\* A file whose text is replaced.
LEMMA Revised ==
  ASSUME NEW e, e = [there |-> e.there, dir |-> e.dir, text |-> e.text], NEW u
  PROVE  [e EXCEPT !.there = TRUE, !.text = u] = [there |-> TRUE, dir |-> e.dir, text |-> u]
<1>. PICK f : f = [e EXCEPT !.there = TRUE, !.text = u]
  OBVIOUS
<1>0. DOMAIN e = {"there", "dir", "text"}
  OBVIOUS
<1>1. f = [x \in {"there", "dir", "text"} |-> f[x]]
  BY <1>0
<1>2. f["there"] = TRUE /\ f["text"] = u /\ f["dir"] = e.dir
  BY <1>0
<1>3. f = [there |-> TRUE, dir |-> e.dir, text |-> u]
  BY <1>1, <1>2
<1>. QED  BY <1>3

\* What the requests make, one by one.
LEMMA MakesFacts ==
  ASSUME NEW b, b = [x \in Names |-> b[x]], NEW n \in Names, NEW t,
         b[n] = [there |-> b[n].there, dir |-> b[n].dir, text |-> b[n].text]
  PROVE  /\ Makes(b, Request("create", n, t, None), n, FALSE, t, None)
         /\ Makes(b, Request("write", n, t, None), n, b[n].dir, t, None)
         /\ Makes(b, Request("append", n, t, None), n, b[n].dir, b[n].text \o t, None)
         /\ Makes(b, Request("mkdir", n, <<>>, None), n, TRUE, <<>>, None)
<1>0. None \notin Names
  BY FatAssumption
<1>1. ASSUME NEW f PROVE [b EXCEPT ![n] = f] = [x \in Names |-> IF x = n THEN f
                               ELSE IF x = None THEN Store!Absent ELSE b[x]]
  <2>1. [b EXCEPT ![n] = f] = [x \in Names |-> IF x = n THEN f ELSE b[x]]
    OBVIOUS
  <2>. QED  BY <1>0, <2>1
<1>2. ASSUME NEW u
      PROVE  [b[n] EXCEPT !.there = TRUE, !.text = u] = [there |-> TRUE, dir |-> b[n].dir, text |-> u]
  BY Revised
<1>3. Makes(b, Request("create", n, t, None), n, FALSE, t, None)
  <2>1. Outcome(b, Request("create", n, t, None)) = [b EXCEPT ![n] = Store!File(t)]
    BY DEF Outcome, Request
  <2>2. Store!File(t) = [there |-> TRUE, dir |-> FALSE, text |-> t]
    BY DEF Store!File
  <2>. QED  BY <1>1, <2>1, <2>2 DEF Makes
<1>4. Makes(b, Request("write", n, t, None), n, b[n].dir, t, None)
  <2>1. Outcome(b, Request("write", n, t, None))
          = [b EXCEPT ![n] = [b[n] EXCEPT !.there = TRUE, !.text = t]]
    BY DEF Outcome, Request
  <2>. QED  BY <1>1, <1>2, <2>1 DEF Makes
<1>5. Makes(b, Request("append", n, t, None), n, b[n].dir, b[n].text \o t, None)
  <2>. PICK u : u = b[n].text \o t
    OBVIOUS
  <2>1. Outcome(b, Request("append", n, t, None))
          = [b EXCEPT ![n] = [b[n] EXCEPT !.there = TRUE, !.text = u]]
    BY DEF Outcome, Request
  <2>. QED  BY <1>1, <1>2, <2>1 DEF Makes
<1>6. Makes(b, Request("mkdir", n, <<>>, None), n, TRUE, <<>>, None)
  <2>1. Outcome(b, Request("mkdir", n, <<>>, None)) = [b EXCEPT ![n] = Store!Directory]
    BY DEF Outcome, Request
  <2>2. Store!Directory = [there |-> TRUE, dir |-> TRUE, text |-> <<>>]
    BY DEF Store!Directory
  <2>. QED  BY <1>1, <2>1, <2>2 DEF Makes
<1>. QED  BY <1>3, <1>4, <1>5, <1>6

LEMMA MakesCopy ==
  ASSUME NEW b, b = [x \in Names |-> b[x]], NEW n \in Names, NEW m \in Names, n # m,
         NEW t, b[n] = [there |-> TRUE, dir |-> FALSE, text |-> t]
  PROVE  /\ Makes(b, Request("cp", n, <<>>, m), m, FALSE, t, None)
         /\ Makes(b, Request("mv", n, <<>>, m), m, FALSE, t, n)
<1>0. None \notin Names
  BY FatAssumption
<1>1. Makes(b, Request("cp", n, <<>>, m), m, FALSE, t, None)
  <2>1. Outcome(b, Request("cp", n, <<>>, m)) = [b EXCEPT ![m] = b[n]]
    BY DEF Outcome, Request
  <2>2. [b EXCEPT ![m] = b[n]] = [x \in Names |-> IF x = m THEN b[n] ELSE b[x]]
    OBVIOUS
  <2>. QED  BY <1>0, <2>1, <2>2 DEF Makes
<1>2. Makes(b, Request("mv", n, <<>>, m), m, FALSE, t, n)
  <2>1. Outcome(b, Request("mv", n, <<>>, m))
          = [b EXCEPT ![n] = Store!Absent, ![m] = b[n]]
    BY DEF Outcome, Request
  <2>2. [b EXCEPT ![n] = Store!Absent, ![m] = b[n]]
          = [x \in Names |-> IF x = m THEN b[n] ELSE IF x = n THEN Store!Absent ELSE b[x]]
    OBVIOUS
  <2>. QED  BY <2>1, <2>2 DEF Makes
<1>. QED  BY <1>1, <1>2

LEMMA StoreEnters ==
  ASSUME ~Faults, StoreInv, TypeInv', pc = "idle", NEW r \in AllRequests, r # <<>>,
         r.kind \in {"delete", "cp", "mv"} => Observed[r.name].there,
         NEW n \in Names, Matches(n) = {},
         NEW then \in Names \cup {None}, then # None => then # n /\ Matches(then) # {},
         NEW t, NEW l \in 0 .. MaxLen, l = Len(t), IsText(t, l),
         Makes(Observed, r, n, FALSE, t, then), EnterCreate(r, n, t, then)
  PROVE  StoreInv' /\ (Store!Call \/ Store!Refuse)
<1>1. CASE Refuse
  <2>1. Answer(FALSE) /\ UNCHANGED disk
    BY <1>1 DEF Refuse
  <2>. QED  BY <2>1, StoreRefuses
<1>2. CASE FreeSlots # {} /\ Begin(r, Creating(n, t, then), "alloc")
  <2>. PICK o : o = Creating(n, t, then)
    OBVIOUS
  <2>1. /\ o.kind = "create" /\ o.name = n /\ o.then = then /\ o.dir = FALSE
        /\ o.slot = Min(FreeSlots) /\ o.first = 0 /\ o.last = 0 /\ o.rest = t
        /\ o.need = NeedFor(t) /\ o.size = l
    BY DEF Creating, NoOp, NeedFor
  <2>2. o.slot \notin Live
    BY <1>2, <2>1, SlotFacts DEF StoreInv, TypeInv
  <2>3. o.need = Count(l) \/ (o.need = 0 /\ l = 0)
    BY <2>1, NeedIsEnough
  <2>. PICK d : d = FALSE
    OBVIOUS
  <2>. PICK at : at = "alloc"
    OBVIOUS
  <2>4. Begin(r, o, at) /\ Makes(Observed, r, n, d, t, then) /\ o.dir = d
    BY <1>2, <2>1
  <2>. QED  BY <2>1, <2>2, <2>3, <2>4, StoreCreates
<1>. QED  BY <1>1, <1>2 DEF EnterCreate

LEMMA StoreMkdir ==
  ASSUME ~Faults, ~Shadowing, StoreInv, TypeInv', NEW n \in Names, Mkdir(n)
  PROVE  StoreInv' /\ (Store!Call \/ Store!Refuse)
<1>0. pc = "idle" /\ "mkdir" \in Kinds /\ Matches(n) = {}
  BY DEF Mkdir, Make, NewName
<1>1. CASE Refuse
  <2>1. Answer(FALSE) /\ UNCHANGED disk
    BY <1>1 DEF Refuse
  <2>. QED  BY <1>0, <2>1, StoreRefuses
<1>. PICK o : o = [NoOp EXCEPT !.kind = "create", !.name = n, !.dir = TRUE,
                               !.slot = Min(FreeSlots)]
  OBVIOUS
<1>. PICK r : r = Request("mkdir", n, <<>>, None)
  OBVIOUS
<1>2. CASE FreeSlots # {} /\ Begin(r, o, "entry")
  <2>1. /\ o.kind = "create" /\ o.name = n /\ o.then = None /\ o.dir = TRUE
        /\ o.slot = Min(FreeSlots) /\ o.first = 0 /\ o.last = 0 /\ o.rest = <<>>
        /\ o.need = 0 /\ o.size = 0
    BY DEF NoOp
  <2>2. o.slot \notin Live
    BY <1>2, <2>1, SlotFacts DEF StoreInv, TypeInv
  <2>. PICK d : d = TRUE
    OBVIOUS
  <2>. PICK at : at = "entry"
    OBVIOUS
  <2>. PICK t : t = <<>>
    OBVIOUS
  <2>. PICK then : then = None
    OBVIOUS
  <2>. PICK l \in 0 .. MaxLen : l = 0
    BY ConstantFacts
  <2>3. IsText(t, l)
    BY DEF IsText
  <2>4. Makes(Observed, r, n, d, t, then)
    <3>1. Observed = [x \in Names |-> Observed[x]] /\ Observed[n] = Reads(n)
      BY DEF Observed
    <3>2. Makes(Observed, Request("mkdir", n, <<>>, None), n, TRUE, <<>>, None)
      BY <3>1, ReadsShape, MakesFacts
    <3>. QED  BY <3>2
  <2>5. r \in AllRequests /\ r # <<>>
    BY <1>0, RequestFacts
  <2>6. r.kind = "mkdir"
    BY DEF Request
  <2>7. Begin(r, o, at) /\ o.rest = t /\ o.size = l /\ o.dir = d /\ o.then = then
    BY <1>2, <2>1
  <2>. QED  BY <1>0, <2>1, <2>2, <2>3, <2>4, <2>5, <2>6, <2>7, StoreCreates
<1>. QED  BY <1>1, <1>2 DEF Mkdir

LEMMA OneMatch ==
  ASSUME StoreInv, NEW n \in Names, Matches(n) # {}
  PROVE  \E i \in Live : /\ i = Min(Matches(n)) /\ Matches(n) = {i}
                         /\ dir[i] \in Entries /\ dir[i].name = n
<1>. PICK i \in Live : i = Min(Matches(n)) /\ i \in Matches(n) /\ dir[i] \in Entries
          /\ dir[i].name = n
  BY FileFacts DEF StoreInv
<1>1. \A j \in Matches(n) : j = i
  BY DEF Matches, StoreInv, Unique
<1>2. Matches(n) = {i}
  BY <1>1
<1>. QED  BY <1>2

LEMMA ObservedShape ==
  /\ Observed = [x \in Names |-> Observed[x]]
  /\ \A n \in Names : Observed[n] = [there |-> Observed[n].there, dir |-> Observed[n].dir,
                                      text |-> Observed[n].text]
<1>1. Observed = [x \in Names |-> Observed[x]] /\ \A n \in Names : Observed[n] = Reads(n)
  BY DEF Observed
<1>. QED  BY <1>1, ReadsShape

LEMMA ReadsFile ==
  ASSUME StoreInv, NEW n \in Names, NEW i \in Live, i = Min(Matches(n)), Matches(n) = {i}
  PROVE  /\ Observed[n].there /\ Observed[n].dir = dir[i].dir
         /\ Observed[n].text = Text(dir[i])
<1>1. Reads(n) = [there |-> TRUE, dir |-> dir[i].dir, text |-> Text(dir[i])]
  BY DEF Reads
<1>2. Observed[n] = Reads(n)
  BY DEF Observed
<1>. QED  BY <1>1, <1>2

LEMMA StoreDeletesFile ==
  ASSUME StoreInv, TypeInv', pc = "idle", "delete" \in Kinds, NEW n \in Names,
         Matches(n) # {}, NEW r, r = Request("delete", n, <<>>, None),
         Begin(r, Deleting(n), "free")
  PROVE  StoreInv' /\ Store!Call
<1>. PICK i \in Live : i = Min(Matches(n)) /\ Matches(n) = {i} /\ dir[i] \in Entries
          /\ dir[i].name = n
  BY OneMatch
<1>. PICK o : o = Deleting(n)
  OBVIOUS
<1>1. /\ o.kind = "delete" /\ o.name = n /\ o.then = None /\ o.slot = i
      /\ o.first = 0 /\ o.last = 0 /\ o.cl = dir[i].first
  BY DEF Deleting, Changing, NoOp
<1>2. r \in AllRequests /\ r # <<>> /\ r.kind = "delete" /\ r.name = n
  <2>1. <<>> \in Texts \cup {<<>>}
    OBVIOUS
  <2>2. r \in AllRequests /\ r # <<>>
    BY <2>1, RequestFacts
  <2>. QED  BY <2>2 DEF Request
<1>3. Observed[n].there
  BY ReadsFile
<1>. PICK at \in {"alloc", "fill", "free", "entry"} : at = "free"
  OBVIOUS
<1>4. /\ op' = o /\ pc' = at /\ req' = r /\ before' = Observed
      /\ \A x : Matches(x)' = Matches(x) /\ Reads(x)' = Reads(x)
  BY BeginFacts
<1>5. Named'
  BY <1>1, <1>4 DEF Named
<1>6. Promise'
  <2>1. Outcome(before', req') = [Observed EXCEPT ![n] = Store!Absent]
    BY <1>2, <1>4 DEF Outcome
  <2>2. [Observed EXCEPT ![n] = Store!Absent]
          = [x \in Names |-> IF x = n THEN Store!Absent ELSE Reads(x)]
    BY DEF Observed
  <2>. QED  BY <1>1, <1>4, <2>1, <2>2 DEF Promise
<1>7. Underway'
  BY <1>1, <1>4 DEF Underway
<1>8. o.slot \in Live /\ o.first = 0 /\ at = "free" /\ o.cl = dir[o.slot].first
  BY <1>1
<1>9. Begin(r, o, at) /\ (r.kind \in {"delete", "cp", "mv"} => Observed[r.name].there)
      /\ o.kind # "write"
  BY <1>1, <1>2, <1>3
<1>. QED  BY <1>2, <1>5, <1>6, <1>7, <1>8, <1>9, StoreCalls

LEMMA StoreReplaces ==
  ASSUME StoreInv, TypeInv', pc = "idle", NEW r \in AllRequests, r # <<>>, r.kind = "write",
         NEW o, NEW at, at = "free", Begin(r, o, at), NEW n \in Names, NEW i \in Live,
         Matches(n) = {i}, NEW then, then = None, NEW d,
         NEW t, NEW l \in 0 .. MaxLen, IsText(t, l), Makes(Observed, r, n, d, t, then),
         o.kind = "write", o.name = n, o.then = then, o.dir = d, o.slot = i,
         o.first = 0, o.last = 0, o.size = l, o.rest = t, o.cl = dir[i].first,
         o.need = Count(l) \/ (o.need = 0 /\ l = 0),
         Cardinality(FreeSet(fat) \cup OwnedIn(fat, o.cl)) >= o.need
  PROVE  StoreInv' /\ Store!Call
<1>1. /\ op' = o /\ pc' = at /\ req' = r /\ before' = Observed /\ fat' = fat
      /\ \A x : Matches(x)' = Matches(x)
  BY BeginFacts
<1>2. Promise' /\ Want' = t /\ Untouched'
  BY BegunPromise
<1>3. Named'
  BY <1>1 DEF Named
<1>4. Doing(0, 0, t)'
  BY <1>1, DoingNothing
<1>5. Underway'
  <2>1. 0 \in 0 .. MaxLen
    BY ConstantFacts
  <2>2. Doing(0, 0, Want)'
    BY <1>2, <1>4
  <2>. QED  BY <1>1, <1>2, <2>1, <2>2 DEF Underway
<1>6. Room'
  <2>1. Takeable' = FreeSet(fat) \cup OwnedIn(fat, o.cl)
    BY <1>1 DEF Takeable
  <2>2. op'.need \in Nat /\ op'.need = o.need
    BY <1>1 DEF TypeInv, CallTyped
  <2>3. (op.need - IF pc \in {"allocMirror", "link", "linkMirror", "data"} THEN 1 ELSE 0)'
          = op'.need
    BY <1>1, <2>2
  <2>. QED  BY <2>1, <2>2, <2>3 DEF Room
<1>. QED  BY <1>2, <1>3, <1>5, <1>6, StoreCalls

LEMMA StoreReplacesFile ==
  ASSUME StoreInv, TypeInv', pc = "idle", "write" \in Kinds, NEW n \in Names,
         Matches(n) # {}, NEW t \in Texts, IsText(t, Len(t)), FitsOnDisk(n, t),
         NEW r, r = Request("write", n, t, None), EnterWrite(r, n, t)
  PROVE  StoreInv' /\ Store!Call
<1>. PICK i \in Live : i = Min(Matches(n)) /\ Matches(n) = {i} /\ dir[i] \in Entries
          /\ dir[i].name = n
  BY OneMatch
<1>. PICK l \in 0 .. MaxLen : l = Len(t)
  BY FatAssumption
<1>. PICK d : d = dir[i].dir
  OBVIOUS
<1>. PICK then : then = None
  OBVIOUS
<1>. PICK at : at = "free"
  OBVIOUS
<1>1. PICK o : /\ o.kind = "write" /\ o.name = n /\ o.then = then /\ o.slot = i /\ o.dir = d
               /\ o.first = 0 /\ o.last = 0 /\ o.rest = t
               /\ o.need = NeedFor(t) /\ o.size = l /\ o.cl = dir[i].first
               /\ Begin(r, o, at)
  <2>. PICK o : o = [Changing("write", i, t, l) EXCEPT !.cl = dir[i].first, !.need = NeedFor(t)]
    OBVIOUS
  <2>1. /\ o.kind = "write" /\ o.name = n /\ o.then = then /\ o.slot = i /\ o.dir = d
        /\ o.first = 0 /\ o.last = 0 /\ o.rest = t
        /\ o.need = NeedFor(t) /\ o.size = l /\ o.cl = dir[i].first
    BY DEF Changing, NoOp
  <2>2. Begin(r, o, at)
    BY DEF EnterWrite, NeedFor
  <2>. QED  BY <2>1, <2>2
<1>3. r \in AllRequests /\ r # <<>> /\ r.kind = "write"
  <2>1. r \in AllRequests /\ r # <<>>
    BY RequestFacts
  <2>. QED  BY <2>1 DEF Request
<1>4. Makes(Observed, r, n, d, t, then)
  <2>1. Observed[n].dir = dir[i].dir
    BY ReadsFile
  <2>2. Makes(Observed, Request("write", n, t, None), n, Observed[n].dir, t, None)
    BY ObservedShape, MakesFacts
  <2>. QED  BY <2>1, <2>2
<1>5. o.need = Count(l) \/ (o.need = 0 /\ l = 0)
  BY <1>1, NeedIsEnough
<1>6. Cardinality(FreeSet(fat) \cup OwnedIn(fat, o.cl)) >= o.need
  <2>1. {Chain(dir[i].first)[k] : k \in DOMAIN Chain(dir[i].first)} \cap Clusters
          = OwnedIn(fat, dir[i].first)
    BY ChainFacts DEF OwnedIn, Chain
  <2>2. Cardinality({c \in Clusters : fat[c] = FREE}
          \cup ({Chain(dir[i].first)[k] : k \in DOMAIN Chain(dir[i].first)} \cap Clusters))
          >= NeedFor(t)
    BY Zenon DEF FitsOnDisk, NeedFor
  <2>. QED  BY <1>1, <2>1, <2>2 DEF FreeSet
<1>7. IsText(t, l)
  OBVIOUS
<1>. QED  BY <1>1, <1>3, <1>4, <1>5, <1>6, <1>7, StoreReplaces

LEMMA FullUnits ==
  ASSUME NEW s \in Nat, s # 0, s % ClusterSize = 0
  PROVE  Units(s, ClustersFor(s))
<1>1. PICK z \in Nat \ {0} : z = ClusterSize
  BY ConstantFacts
<1>2. PICK a \in Nat : a = s \div z /\ z * a <= s /\ s % z = s - z * a
  BY DivFacts
<1>3. z * a = s
  <2>1. z * a \in Nat /\ s % z = 0
    BY <1>1
  <2>. QED  BY <1>2, <2>1
<1>4. ClustersFor(s) = a
  BY <1>1, <1>3, CeilUnique
<1>. QED  BY <1>1, <1>3, <1>4 DEF Units

\* What the file holds comes first in the text that is to be.
LEMMA JoinedText ==
  ASSUME NEW c, NEW s \in Nat, Reaches(fat, c, s), NEW t, NEW l \in Nat, IsText(t, l),
         NEW a, IsText(a, s), \A i \in 1 .. s : a[i] = UnitAt(fat, data, c, i)
  PROVE  /\ IsText(a \o t, s + l) /\ Holds(fat, data, c, a \o t, s)
         /\ GoesOn(a \o t, s, t, l)
<1>. PICK w : w = a \o t
  OBVIOUS
<1>1. IsText(w, s + l) /\ GoesOn(w, 0, a, s) /\ GoesOn(w, s, t, l)
  BY JoinFacts
<1>2. \A i \in 1 .. s : w[i] = a[i]
  <2>1. \A i \in 1 .. s : 0 + i = i
    OBVIOUS
  <2>. QED  BY <1>1, <2>1 DEF GoesOn
<1>3. Holds(fat, data, c, w, s)
  BY <1>2 DEF Holds
<1>. QED  BY <1>1, <1>3

LEMMA ExtendedText ==
  ASSUME Volume = Clusters, NEW e, NEW s \in 0 .. MaxLen, s = e.size,
         Reaches(fat, e.first, s), NEW t, NEW l \in 0 .. MaxLen, IsText(t, l)
  PROVE  /\ IsText(Text(e) \o t, s + l) /\ Holds(fat, data, e.first, Text(e) \o t, s)
         /\ GoesOn(Text(e) \o t, s, t, l)
<1>0. s \in Nat /\ l \in Nat
  BY ConstantFacts
<1>1. Text(e) = [i \in 1 .. s |-> UnitAt(fat, data, e.first, i)]
  BY TextHeld DEF Text
<1>2. IsText(Text(e), s) /\ \A i \in 1 .. s : Text(e)[i] = UnitAt(fat, data, e.first, i)
  BY <1>1 DEF IsText
<1>. QED  BY <1>0, <1>2, JoinedText

\* The file that is extended, and where that starts.
Extension(i, s, at) ==
  s = dir[i].size /\ at = IF HasTail(dir[i]) THEN "fill" ELSE "alloc"

LEMMA StoreExtends ==
  ASSUME Volume = Clusters, StoreInv, TypeInv', pc = "idle", NEW r \in AllRequests,
         r # <<>>,
         r.kind = "append", NEW o, NEW at \in {"alloc", "fill"}, Begin(r, o, at),
         NEW n \in Names, NEW i \in Live,
         Matches(n) = {i}, NEW then, then = None, NEW d,
         NEW t, NEW l \in 0 .. MaxLen, IsText(t, l), NEW s \in 0 .. MaxLen, Extension(i, s, at),
         NEW sum \in 0 .. MaxLen, Sum(sum, s, l),
         NEW w, IsText(w, sum), GoesOn(w, s, t, l), Makes(Observed, r, n, d, w, then),
         o.kind = "append", o.name = n, o.then = then, o.dir = d, o.slot = i,
         Holds(fat, data, o.first, w, s),
         o.first = dir[i].first, o.last = LastCluster(dir[i]), o.size = sum, o.rest = t,
         o.need = ClustersFor(l), o.first # 0 => o.last \in Clusters
  PROVE  StoreInv' /\ Store!Call
<1>0. s \in Nat /\ l \in Nat /\ sum = s + l /\ MaxLen \in Nat
  BY ConstantFacts DEF Sum
<1>. s = dir[i].size /\ at = IF HasTail(dir[i]) THEN "fill" ELSE "alloc"
  BY DEF Extension
<1>1. /\ op' = o /\ pc' = at /\ req' = r /\ before' = Observed
      /\ UNCHANGED <<fat, data, dir>>
      /\ \A x : Matches(x)' = Matches(x)
  BY BeginFacts
<1>. PICK c : c = o.first
  OBVIOUS
<1>2. Promise' /\ Want' = w /\ Untouched'
  <2>1. o.kind # "delete" /\ o.name = n /\ o.dir = d /\ o.then = then
    OBVIOUS
  <2>. QED  BY <2>1, BegunPromise
<1>3. Named'
  BY <1>1 DEF Named
<1>4. Reaches(fat, c, s) /\ Holds(fat, data, c, w, s) /\ \A j \in 1 .. l : w[s + j] = t[j]
  BY DEF Holds, GoesOn
<1>5. op'.rest = [j \in 1 .. op'.size - s |-> w[s + j]]
  <2>1. sum - s = l
    BY <1>0
  <2>2. t = [j \in 1 .. l |-> t[j]]
    BY DEF IsText
  <2>. QED  BY <1>1, <1>4, <2>1, <2>2
<1>6. Own(s)'
  BY <1>0, <1>1 DEF Own
<1>7. ~Linking' /\ pc' \notin {"free", "freeMirror", "entry", "idle"}
  BY <1>1 DEF Linking
<1>8. Holds(fat', data', op'.first, w, s) /\ IsText(w, op'.size) /\ s <= op'.size
  BY <1>0, <1>1, <1>4
<1>. PICK need \in Nat : need = o.need /\ need = ClustersFor(l) /\ (need = 0 <=> l = 0)
  <2>1. ClustersFor(l) \in Nat /\ (l = 0 => ClustersFor(l) = 0)
    BY <1>0, ClusterCount
  <2>2. l # 0 => ClustersFor(l) # 0
    <3>1. Count(l) \in 1 .. MaxLen
      BY CountFacts
    <3>. QED  BY <1>0, <3>1 DEF Count
  <2>. QED  BY <2>1, <2>2
<1>. DEFINE Held(m) == IF m = 0 THEN c = 0 /\ o.last = 0
                       ELSE o.last \in Clusters /\ o.last = ChainIn(fat, c)[m - 1]
            Needs(m) == m + need = Count(sum) \/ (m + need = 0 /\ sum = 0)
            Started(m) == /\ Held(m) /\ (at = "fill" => m = Count(s))
                          /\ at = "alloc" => Needs(m) /\ (need = 0 \/ Units(s, m))
<1>9. ASSUME c = 0 PROVE \E m \in 0 .. MaxLen : Started(m)
  <2>1. s = 0
    <3>. SUFFICES ASSUME s # 0 PROVE FALSE
      OBVIOUS
    <3>1. 1 \in 1 .. s /\ (1 - 1) \div ClusterSize = 0
      BY <1>0, ConstantFacts
    <3>2. ChainIn(fat, c)[0] \in Clusters
      BY <1>4, <3>1 DEF Reaches
    <3>. QED  BY <1>9, <3>2, ChainFacts, ConstantFacts
  <2>2. at = "alloc"
    BY <1>9 DEF HasTail
  <2>3. o.last = 0
    <3>1. ChainIn(fat, 0)[0] = 0
      BY ChainFacts
    <3>. QED  BY <1>9, <2>1, <3>1 DEF LastCluster, Chain
  <2>4. Needs(0)
    <3>1. 0 + need = need /\ sum = l
      BY <1>0, <2>1
    <3>2. need = Count(l) \/ (need = 0 /\ l = 0)
      BY DEF Count
    <3>. QED  BY <3>1, <3>2
  <2>5. Units(s, 0) /\ 0 \in 0 .. MaxLen
    BY <1>0, <2>1, ConstantFacts DEF Units
  <2>. QED  BY <1>9, <2>2, <2>3, <2>4, <2>5
<1>10. ASSUME c # 0 PROVE \E m \in 0 .. MaxLen : Started(m)
  <2>. PICK m \in 1 .. MaxLen : m = Count(s)
    BY CountFacts
  <2>0. m \in 0 .. MaxLen /\ m # 0 /\ m \in Nat
    BY <1>0
  <2>1. o.last \in Clusters /\ o.last = ChainIn(fat, c)[m - 1]
    <3>1. CASE s = 0
      <4>1. m = 1 /\ m - 1 = 0
        BY <3>1 DEF Count
      <4>. QED  BY <1>10, <3>1, <4>1 DEF LastCluster, Chain
    <3>2. CASE s # 0
      BY <1>10, <3>2 DEF LastCluster, Count, Chain
    <3>. QED  BY <3>1, <3>2
  <2>2. at = "alloc" => s # 0 /\ s % ClusterSize = 0
    BY <1>10 DEF HasTail
  <2>3. at = "alloc" => Needs(m)
    <3>. SUFFICES ASSUME at = "alloc" PROVE Needs(m)
      OBVIOUS
    <3>1. ClustersFor(s) + ClustersFor(l) = ClustersFor(s + l)
      BY <1>0, <2>2, FullCount
    <3>2. m + need = ClustersFor(sum) /\ sum # 0
      BY <1>0, <2>2, <3>1 DEF Count
    <3>. QED  BY <3>2 DEF Count
  <2>4. at = "alloc" => Units(s, m)
    BY <1>0, <2>2, FullUnits DEF Count
  <2>. QED  BY <2>0, <2>1, <2>3, <2>4
<1>11. Underway'
  <2>. PICK m \in 0 .. MaxLen : Started(m)
    BY <1>9, <1>10
  <2>1. IF m = 0 THEN op'.first = 0 /\ op'.last = 0
        ELSE op'.last \in Clusters /\ op'.last = ChainIn(fat', op'.first)[m - 1]
    BY <1>1
  <2>2. pc' # "fill" => Enough(m + op.need - IF Linking THEN 1 ELSE 0)'
    <3>1. (m + op.need - IF Linking THEN 1 ELSE 0)' = m + need
      BY <1>0, <1>1, <1>7
    <3>. QED  BY <1>1, <3>1 DEF Enough
  <2>3. pc' # "fill" => IF op'.need = 0 THEN s = op'.size ELSE Units(s, m)
    BY <1>0, <1>1
  <2>4. pc' = "fill" => s = dir'[op'.slot].size /\ m = Count(s) /\ HasTail(dir'[op'.slot])
    BY <1>1
  <2>5. Doing(m, s, w)'
    BY <1>5, <1>6, <1>7, <1>8, <2>1, <2>2, <2>3, <2>4 DEF Doing
  <2>6. Doing(m, s, Want)'
    BY <1>2, <2>5
  <2>. QED  BY <1>1, <1>2, <2>6 DEF Underway
<1>12. /\ o.slot \in Live /\ o.first = dir[o.slot].first /\ o.kind # "write"
       /\ r.kind \in {"delete", "cp", "mv"} => Observed[r.name].there
       /\ at \in {"alloc", "fill", "free", "entry"}
  OBVIOUS
<1>. QED  BY <1>2, <1>3, <1>11, <1>12, StoreCalls
LEMMA StoreExtendsFile ==
  ASSUME Volume = Clusters, ~Faults, StoreInv, TypeInv', pc = "idle", "append" \in Kinds,
         NEW n \in Names, Matches(n) # {}, NEW t \in Texts, IsText(t, Len(t)),
         dir[Min(Matches(n))].size + Len(t) <= MaxLen,
         NEW r, r = Request("append", n, t, None), EnterAppend(r, n, t)
  PROVE  StoreInv' /\ (Store!Call \/ Store!Refuse)
<1>1. CASE Refuse
  <2>1. Answer(FALSE) /\ UNCHANGED disk
    BY <1>1 DEF Refuse
  <2>. QED  BY <2>1, StoreRefuses
<1>2. CASE ~Refuse
  <2>. DEFINE Is(a, b) == a = b
  <2>. PICK i \in Live : Is(i, Min(Matches(n))) /\ Matches(n) = {i} /\ dir[i] \in Entries
            /\ dir[i].name = n
    BY OneMatch
  <2>. PICK l \in 0 .. MaxLen : Is(l, Len(t)) /\ l \in Nat
    BY FatAssumption, ConstantFacts
  <2>. PICK s \in 0 .. MaxLen, at \in {"alloc", "fill"}, sum \in 0 .. MaxLen :
         Extension(i, s, at) /\ Sum(sum, s, l)
    <3>. PICK s \in 0 .. MaxLen : s = dir[i].size /\ s \in Nat
      BY ConstantFacts DEF Entries
    <3>. PICK at \in {"alloc", "fill"} : at = IF HasTail(dir[i]) THEN "fill" ELSE "alloc"
      OBVIOUS
    <3>1. s + l <= MaxLen
      BY Zenon
    <3>. PICK sum \in 0 .. MaxLen : sum = s + l
      BY <3>1, ConstantFacts
    <3>. QED  BY DEF Extension, Sum
  <2>. PICK d : Is(d, dir[i].dir)
    OBVIOUS
  <2>. PICK then : Is(then, None)
    OBVIOUS
  <2>1. PICK o : /\ o.kind = "append" /\ o.name = n /\ o.then = then /\ o.slot = i
                 /\ o.dir = d /\ o.first = dir[i].first /\ o.last = LastCluster(dir[i])
                 /\ o.rest = t /\ o.need = ClustersFor(l) /\ o.size = sum
                 /\ Begin(r, o, at) /\ (o.first # 0 => o.last \in Clusters)
    <3>. PICK o : o = [Changing("append", i, t, dir[i].size + Len(t))
                         EXCEPT !.first = dir[i].first, !.last = LastCluster(dir[i]),
                                !.need = ClustersFor(Len(t))]
      OBVIOUS
    <3>1. /\ o.kind = "append" /\ o.name = n /\ o.then = then /\ o.slot = i
          /\ o.dir = d /\ o.first = dir[i].first /\ o.last = LastCluster(dir[i])
          /\ o.rest = t /\ o.need = ClustersFor(l) /\ o.size = sum
      BY DEF Changing, NoOp, Sum, Extension
    <3>2. Begin(r, o, at) /\ ~(dir[i].first # 0 /\ LastCluster(dir[i]) \notin Clusters)
      BY <1>2 DEF EnterAppend, Extension
    <3>. QED  BY <3>1, <3>2
  <2>2. r \in AllRequests /\ r # <<>> /\ r.kind = "append"
    <3>1. r \in AllRequests /\ r # <<>>
      BY RequestFacts
    <3>. QED  BY <3>1 DEF Request
  <2>3. Reaches(fat, dir[i].first, s)
    <3>1. Reaches(fat, dir[i].first, dir[i].size)
      BY TidyIdle DEF Tidy
    <3>. QED  BY <3>1 DEF Extension
  <2>4. IsText(t, l)
    OBVIOUS
  <2>5. PICK w : /\ IsText(w, sum) /\ GoesOn(w, s, t, l)
             /\ Holds(fat, data, dir[i].first, w, s)
                 /\ Makes(Observed, r, n, d, w, then)
    <3>1. /\ IsText(Text(dir[i]) \o t, s + l)
          /\ Holds(fat, data, dir[i].first, Text(dir[i]) \o t, s)
          /\ GoesOn(Text(dir[i]) \o t, s, t, l)
      BY <2>3, <2>4, ExtendedText DEF Extension
    <3>2. Makes(Observed, r, n, d, Text(dir[i]) \o t, then)
      <4>1. Observed[n].dir = dir[i].dir /\ Observed[n].text = Text(dir[i])
        BY ReadsFile
      <4>2. Makes(Observed, Request("append", n, t, None), n, Observed[n].dir,
                  Observed[n].text \o t, None)
        BY ObservedShape, MakesFacts
      <4>. QED  BY <4>1, <4>2
    <3>. QED  BY <3>1, <3>2 DEF Sum
  <2>6. /\ Matches(n) = {i} /\ then = None
        /\ Holds(fat, data, o.first, w, s)
    BY <2>1, <2>5
  <2>. HIDE DEF Is
  <2>7. StoreInv' /\ Store!Call
    BY <2>1, <2>2, <2>4, <2>5, <2>6, StoreExtends
  <2>. QED  BY <2>7
<1>. QED  BY <1>1, <1>2

\* A file is copied whole if the buffer holds it.
LEMMA CopiedWhole ==
  ASSUME NEW s, NEW l \in 0 .. MaxLen, IsText(s, l), CopyLimit >= MaxLen
  PROVE  SubSeq(s, 1, Least(CopyLimit, Len(s))) = s
<1>0. l \in Nat /\ MaxLen \in Nat /\ CopyLimit \in Nat
  BY ConstantFacts, FatAssumption
<1>1. Len(s) = l
  BY <1>0, SeqFacts
<1>2. Least(CopyLimit, Len(s)) = l
  BY <1>0, <1>1 DEF Least
<1>3. Drop(s, 0) = [j \in 1 .. l - 0 |-> s[0 + j]]
  BY <1>0, DropFacts
<1>4. SubSeq(s, 1, l) = Drop(s, 0)
  <2>1. 0 + 1 = 1
    OBVIOUS
  <2>. QED  BY <1>1, <2>1 DEF Drop
<1>5. s = [j \in 1 .. l |-> s[j]]
  BY DEF IsText
<1>6. l - 0 = l /\ \A j \in 1 .. l : 0 + j = j
  BY <1>0
<1>. QED  BY <1>2, <1>3, <1>4, <1>5, <1>6

LEMMA StoreCopies ==
  ASSUME Volume = Clusters, ~Faults, ~Shadowing, CopyLimit >= MaxLen, StoreInv, TypeInv',
         NEW kind \in {"cp", "mv"}, NEW n \in Names, NEW m \in Names, Copy(kind, n, m)
  PROVE  StoreInv' /\ (Store!Call \/ Store!Refuse)
<1>. DEFINE Is(a, b) == a = b
<1>0. pc = "idle" /\ kind \in Kinds /\ Matches(m) = {} /\ n # m
  BY DEF Copy, Make, NewName
<1>1. PICK i \in Matches(n) : ~dir[i].dir /\
        EnterCreate(Request(kind, n, <<>>, m), m,
          SubSeq(Text(dir[i]), 1, Least(CopyLimit, Len(Text(dir[i])))),
          IF kind = "mv" THEN n ELSE None)
  BY DEF Copy
<1>2. i \in Live /\ i = Min(Matches(n)) /\ Matches(n) = {i} /\ dir[i] \in Entries
  BY OneMatch
<1>. PICK l \in 0 .. MaxLen : l = dir[i].size
  BY <1>2 DEF Entries
<1>3. IsText(Text(dir[i]), l)
  <2>1. Reaches(fat, dir[i].first, dir[i].size)
    BY <1>0, <1>2, TidyIdle DEF Tidy
  <2>2. Text(dir[i]) = [j \in 1 .. l |-> UnitAt(fat, data, dir[i].first, j)]
    BY <2>1, TextHeld DEF Text
  <2>. QED  BY <2>2 DEF IsText
<1>. PICK then \in Names \cup {None} : Is(then, IF kind = "mv" THEN n ELSE None)
  OBVIOUS
<1>. PICK r : Is(r, Request(kind, n, <<>>, m))
  OBVIOUS
<1>. PICK t : Is(t, Text(dir[i]))
  OBVIOUS
<1>4. EnterCreate(r, m, t, then)
  BY <1>1, <1>3, CopiedWhole
<1>5. IsText(t, l) /\ l = Len(t)
  <2>1. IsText(t, l) /\ l \in Nat
    BY <1>3, ConstantFacts
  <2>. QED  BY <2>1, SeqFacts
<1>6. r \in AllRequests /\ r # <<>> /\ r.name = n
  <2>1. r \in AllRequests /\ r # <<>>
    BY <1>0, RequestFacts
  <2>. QED  BY <2>1 DEF Request
<1>7. Observed[n].there /\ Observed[n].dir = FALSE /\ Observed[n].text = t
  <2>1. dir[i].dir = FALSE
    BY <1>1, <1>2 DEF Entries
  <2>. QED  BY <1>2, <2>1, ReadsFile
<1>8. Makes(Observed, r, m, FALSE, t, then)
  <2>1. Observed[n] = [there |-> TRUE, dir |-> FALSE, text |-> t]
    BY <1>7, ObservedShape
  <2>2. /\ Makes(Observed, Request("cp", n, <<>>, m), m, FALSE, t, None)
        /\ Makes(Observed, Request("mv", n, <<>>, m), m, FALSE, t, n)
    BY <1>0, <2>1, ObservedShape, MakesCopy
  <2>. QED  BY <2>2
<1>9. then # None => then # m /\ Matches(then) # {}
  BY <1>0, <1>2
<1>. HIDE DEF Is
<1>. QED  BY <1>0, <1>4, <1>5, <1>6, <1>7, <1>8, <1>9, StoreEnters

LEMMA StoreBegins ==
  ASSUME Volume = Clusters, ~Faults, ~Shadowing,
         CopyLimit >= MaxLen, "write" \in Kinds => RoomForWrites,
         StoreInv, TypeInv', \A t \in Texts : IsText(t, Len(t)),
         \/ \E n \in Names, t \in Texts : Create(n, t) \/ Write(n, t) \/ AppendTo(n, t)
         \/ \E n \in Names : Delete(n) \/ Mkdir(n)
         \/ \E n, m \in Names : Copy("cp", n, m) \/ Copy("mv", n, m)
  PROVE  StoreInv' /\ (Store!Call \/ Store!Refuse)
<1>. DEFINE Is(a, b) == a = b
            Goal == StoreInv' /\ (Store!Call \/ Store!Refuse)
<1>1. ASSUME NEW n \in Names, NEW t \in Texts, NEW kind \in {"create", "write", "append"},
             kind \in Kinds, pc = "idle", Matches(n) = {},
             EnterCreate(Request(kind, n, t, None), n, t, None)
      PROVE  Goal
  <2>. PICK then \in Names \cup {None} : then = None
    OBVIOUS
  <2>. PICK r : Is(r, Request(kind, n, t, None))
    OBVIOUS
  <2>. PICK l \in 0 .. MaxLen : l = Len(t)
    BY FatAssumption
  <2>1. IsText(t, l)
    OBVIOUS
  <2>2. r \in AllRequests /\ r # <<>> /\ r.kind = kind
    <3>1. r \in AllRequests /\ r # <<>>
      BY <1>1, RequestFacts
    <3>. QED  BY <3>1 DEF Request
  <2>3. Makes(Observed, r, n, FALSE, t, then)
    <3>1. Reads(n) = Store!Absent
      BY <1>1, ReadsNone
    <3>2. Observed[n] = Store!Absent
      BY <3>1 DEF Observed
    <3>3. Observed[n].dir = FALSE /\ Observed[n].text = <<>>
      BY <3>2 DEF Store!Absent
    <3>4. <<>> \o t = t
      BY <2>1
    <3>5. /\ Makes(Observed, Request("create", n, t, None), n, FALSE, t, None)
          /\ Makes(Observed, Request("write", n, t, None), n, Observed[n].dir, t, None)
          /\ Makes(Observed, Request("append", n, t, None), n, Observed[n].dir,
                   Observed[n].text \o t, None)
      BY ObservedShape, MakesFacts
    <3>. QED  BY <3>3, <3>4, <3>5
  <2>4. EnterCreate(r, n, t, then)
    BY <1>1
  <2>5. (then # None => then # n /\ Matches(then) # {})
        /\ (r.kind \in {"delete", "cp", "mv"} => Observed[r.name].there)
    BY <2>2
  <2>. HIDE DEF Is
  <2>. QED  BY <1>1, <2>1, <2>2, <2>3, <2>4, <2>5, StoreEnters
<1>2. ASSUME NEW n \in Names, NEW t \in Texts, Create(n, t) PROVE Goal
  BY <1>1, <1>2 DEF Create, Make, NewName
<1>3. ASSUME NEW n \in Names, NEW t \in Texts, Write(n, t) PROVE Goal
  <2>. PICK r : r = Request("write", n, t, None)
    OBVIOUS
  <2>1. /\ pc = "idle" /\ "write" \in Kinds /\ FitsOnDisk(n, t)
        /\ \/ Matches(n) # {} /\ EnterWrite(r, n, t)
           \/ Matches(n) = {} /\ EnterCreate(r, n, t, None)
    BY <1>3 DEF Write, Lookup, Make
  <2>. QED  BY <1>1, <2>1, StoreReplacesFile
<1>4. ASSUME NEW n \in Names, NEW t \in Texts, AppendTo(n, t) PROVE Goal
  <2>. PICK r : r = Request("append", n, t, None)
    OBVIOUS
  <2>1. /\ pc = "idle" /\ "append" \in Kinds
        /\ \/ Matches(n) # {} /\ EnterAppend(r, n, t)
           \/ Matches(n) = {} /\ EnterCreate(r, n, t, None)
    BY <1>4 DEF AppendTo, Lookup, Make
  <2>2. Matches(n) # {} => dir[Min(Matches(n))].size + Len(t) <= MaxLen
    BY <1>4, FirstMatch DEF AppendTo, StoreInv, TypeInv
  <2>. QED  BY <1>1, <2>1, <2>2, StoreExtendsFile
<1>5. ASSUME NEW n \in Names, Delete(n) PROVE Goal
  <2>1. pc = "idle" /\ "delete" \in Kinds
    BY <1>5 DEF Delete, Make
  <2>2. CASE Refuse
    BY <2>1, <2>2, StoreRefuses DEF Refuse
  <2>3. CASE Matches(n) # {} /\ Begin(Request("delete", n, <<>>, None), Deleting(n), "free")
    BY <2>1, <2>3, StoreDeletesFile
  <2>. QED  BY <1>5, <2>2, <2>3 DEF Delete, Lookup
<1>6. ASSUME NEW n \in Names, Mkdir(n) PROVE Goal
  BY <1>6, StoreMkdir
<1>7. ASSUME NEW kind \in {"cp", "mv"}, NEW n \in Names, NEW m \in Names, Copy(kind, n, m)
      PROVE  Goal
  BY <1>7, StoreCopies
<1>. QED  BY <1>2, <1>3, <1>4, <1>5, <1>6, <1>7

LEMMA StoreInit == ASSUME Volume = Clusters, Init PROVE StoreInv /\ Store!Init
<1>1. TypeInv
  BY TypeInit
<1>2. /\ Len(dir) = 0 /\ Live = {} /\ Others = {}
  BY DEF Init, Live, Others
<1>3. \A n : Matches(n) = {} /\ Reads(n) = Store!Absent
  <2>1. \A n : Matches(n) = {}
    BY <1>2 DEF Matches
  <2>. QED  BY <2>1, ReadsNone
<1>4. op.first = 0 /\ Loose = {} /\ Roots = {}
  <2>1. op.first = 0 /\ pc = "idle"
    BY DEF Init, NoOp
  <2>. QED  BY <1>2, <2>1, ConstantFacts DEF Loose, Roots
<1>5. Files
  <2>1. Sound(fat)
    BY ConstantFacts DEF Init, Sound, FREE
  <2>2. DOMAIN data = Clusters
    BY DEF Init
  <2>3. Apart
    BY <1>2, <1>4 DEF Apart
  <2>. QED  BY <1>2, <1>4, <2>1, <2>2, <2>3 DEF Files
<1>6. StoreInv
  BY <1>1, <1>2, <1>5 DEF StoreInv, Unique, Init
<1>7. Store!Init
  BY <1>3 DEF Store!Init, Init, Observed
<1>. QED  BY <1>6, <1>7
LEMMA StoreIdles ==
  ASSUME StoreInv, TypeInv', UNCHANGED <<fat, data, dir, pc, op, req, before, ok>>
  PROVE  StoreInv' /\ UNCHANGED Store!vars
<1>1. /\ Live' = Live /\ Others' = Others /\ Loose' = Loose
      /\ \A n : Matches(n)' = Matches(n) /\ Reads(n)' = Reads(n)
  BY SameEntries, SameDisk DEF Others, Loose
<1>2. Files' /\ Unique'
  BY <1>1, FilesKept DEF StoreInv, Files, Unique
<1>3. UNCHANGED Store!vars
  BY <1>1 DEF Store!vars, Observed
<1>4. ASSUME Serving PROVE Serving'
  <2>1. Told' /\ Named'
    BY <1>1, <1>4 DEF Serving, Told, Named
  <2>4. Promise'
    BY <1>1, <1>4 DEF Serving, Promise, Want
  <2>5. Untouched => Untouched'
    BY <1>1 DEF Untouched
  <2>2. Underway'
    BY <1>1, <1>4, <2>5 DEF Serving, Underway, Doing, Want, Own, Linking, Enough
  <2>3. op.kind = "write" => Room'
    BY <1>4 DEF Serving, Room, Takeable
  <2>. QED  BY <2>1, <2>2, <2>3, <2>4 DEF Serving
<1>. QED  BY <1>2, <1>3, <1>4 DEF StoreInv

LEMMA StoreNext ==
  ASSUME Volume = Clusters, IsFiniteSet(Clusters), ~Faults, ~Shadowing,
         CopyLimit >= MaxLen, "write" \in Kinds => RoomForWrites, \A t \in Texts : IsText(t, Len(t)),
         StoreInv, [Next]_vars, PowerFails => op.kind \in {"create", "append"}
  PROVE  StoreInv' /\ [Store!Next]_(Store!vars)
<1>1. TypeInv'
  BY TypedNext DEF StoreInv
<1>2. CASE UNCHANGED vars
  <2>1. UNCHANGED <<fat, data, dir, pc, op, req, before, ok>>
    BY <1>2 DEF vars, disk, history
  <2>. QED  BY <1>1, <2>1, StoreIdles
<1>3. CASE Progress
  BY <1>1, <1>3, StoreProgress
<1>4. CASE PowerFails
  BY <1>1, <1>4, StoreRefuses DEF PowerFails, Store!Next
<1>5. CASE \/ \E n \in Names, t \in Texts : Create(n, t) \/ Write(n, t) \/ AppendTo(n, t)
           \/ \E n \in Names : Delete(n) \/ Mkdir(n)
           \/ \E n, m \in Names : Copy("cp", n, m) \/ Copy("mv", n, m)
  BY <1>1, <1>5, StoreBegins DEF Store!Next
<1>. QED  BY <1>2, <1>3, <1>4, <1>5 DEF Next

(* The calls of the driver do what the commands promise: each is performed *)
(* as a whole, on its own names only, or refused.  So they do as long as   *)
(* no sector fails, the FAT names no cluster that the volume lacks, names  *)
(* are not created twice, what is saved fits and what is copied fits in    *)
(* the buffer.  The power may fail, but not in a call that frees a chain.  *)
THEOREM Fat32RefinesFileStore ==
  ASSUME Crashes => Kinds \subseteq Growing, ~Faults, ~Shadowing,
         "write" \in Kinds => RoomForWrites, Volume = Clusters, IsFiniteSet(Clusters),
         CopyLimit >= MaxLen, NEW S, Texts \subseteq Seq(S)
  PROVE  Spec => RefinesFileStore
<1>1. \A t \in Texts : IsText(t, Len(t))
  BY DEF IsText
<1>2. Init => StoreInv /\ Store!Init
  BY StoreInit
<1>3. CASE ~Crashes
  <2>1. ~PowerFails
    BY <1>3 DEF PowerFails
  <2>2. StoreInv /\ [Next]_vars => StoreInv' /\ [Store!Next]_(Store!vars)
    BY <1>1, <2>1, StoreNext
  <2>. QED  BY <1>2, <2>2, PTL DEF Spec, RefinesFileStore, Store!Spec
<1>4. CASE Kinds \subseteq Growing
  <2>1. GrowInv /\ PowerFails => op.kind \in {"create", "append"}
    BY DEF GrowInv, CallInv, PowerFails
  <2>2. GrowInv /\ StoreInv /\ [Next]_vars => StoreInv' /\ [Store!Next]_(Store!vars)
    BY <1>1, <2>1, StoreNext
  <2>3. Spec => []GrowInv
    BY <1>4, Fat32Always
  <2>. QED  BY <1>2, <2>2, <2>3, PTL DEF Spec, RefinesFileStore, Store!Spec
<1>. QED  BY <1>3, <1>4
=============================================================================

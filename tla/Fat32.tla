------------------------------- MODULE Fat32 --------------------------------
(***************************************************************************)
(* The FAT32 driver kernel/fs/fat32.c and the shell commands and editor    *)
(* that call it (touch, write, rm, cp, mv, mkdir, save).  The driver is    *)
(* single-threaded but writes the disk one sector at a time, so every call *)
(* is modelled write by write: the power may go, a sector may fail, and    *)
(* the volume may fill up, between any two writes.                         *)
(*                                                                         *)
(* One sector per cluster, which holds ClusterSize units of text; the      *)
(* whole FAT fits in one sector, so mirroring a sector to the second FAT   *)
(* copies the first one.  The root directory is one chain of fixed length  *)
(* with room for MaxSlots entries; 8.3 names are opaque.                   *)
(*                                                                         *)
(* A definition Fault... is the faulty variant of the one that follows it; *)
(* no specification uses it.                                               *)
(***************************************************************************)
EXTENDS Integers, Sequences, FiniteSets, FiniteSetsExt

CONSTANTS
  Names, Texts,
  ClusterSize,
  Clusters,        \* numbers (from 3) of the FAT entries besides the root's
  Volume,          \* those for which the volume has a data area
  MaxSlots,
  MaxLen,          \* bound: longest file
  CopyLimit,       \* the 4096 bytes of copybuf and mvbuf
  Kinds,           \* the requests that are made
  Crashes,         \* may the power fail during a call?
  Faults,          \* may a sector read or write fail?
  Shadowing,       \* do callers create names that exist already?
  RoomForWrites    \* is the editor's file saved only if it fits?

FREE == 0
EOC == 1000
BAD == 999
None == "none"

ASSUME FatAssumption ==
  /\ Clusters \subseteq Nat \ {FREE, BAD, EOC} /\ Volume \subseteq Clusters
  /\ {ClusterSize, MaxLen} \subseteq Nat \ {0} /\ {MaxSlots, CopyLimit} \subseteq Nat
  /\ None \notin Names
  /\ \A t \in Texts : Len(t) \in 0 .. MaxLen

VARIABLES
  fat, fat2,       \* the two copies of the FAT
  data,            \* the data area
  dir,             \* root directory up to its end mark
  pc, op,          \* the call in progress and its local variables
  req, before,     \* history: the request being served, what names read as
                   \* when it was made
  ok,              \* the answer to the last request
  failed           \* history: has any request failed?

disk == <<fat, fat2, data, dir>>
history == <<req, before, ok, failed>>
vars == <<disk, pc, op, history>>

Entry(n, d, c, s) == [name |-> n, dir |-> d, first |-> c, size |-> s]
FreeEntry == Entry(None, FALSE, FREE, 0)         \* name[0] = 0xE5

Least(a, b) == IF a < b THEN a ELSE b
ClustersFor(n) == (n + ClusterSize - 1) \div ClusterSize
Drop(s, n) == SubSeq(s, n + 1, Len(s))

NoOp == [kind |-> None, name |-> None, then |-> None, dir |-> FALSE, slot |-> 0,
         first |-> 0, last |-> 0, cl |-> 0, need |-> 0, rest |-> <<>>, size |-> 0]

-----------------------------------------------------------------------------
(***************************************************************************)
(* Looking things up: dir_search_cb, fat32_file_read.                      *)
(***************************************************************************)
Live == {i \in 1 .. Len(dir) : dir[i] # FreeEntry}
Matches(n) == {i \in Live : dir[i].name = n}
FreeSlots == {i \in 1 .. MaxSlots : i \notin Live}

\* The k-th cluster of the chain that starts at c; 0, BAD or EOC after its end.
ChainIn(table, c) ==
  LET nth[k \in 0 .. MaxLen] ==
        IF k = 0 THEN c
        ELSE IF nth[k - 1] \in Clusters THEN table[nth[k - 1]] ELSE nth[k - 1]
  IN  nth

Chain(c) == ChainIn(fat, c)

TextIn(table, content, e) ==
  LET nth == ChainIn(table, e.first)
      readable == {i \in 1 .. e.size :
                     \A k \in 0 .. (i - 1) \div ClusterSize : nth[k] \in Volume}
  IN  [i \in 1 .. Cardinality(readable) |->
         content[nth[(i - 1) \div ClusterSize]][((i - 1) % ClusterSize) + 1]]

Text(e) == TextIn(fat, data, e)

Reads(n) ==
  IF Matches(n) = {} THEN [there |-> FALSE, dir |-> FALSE, text |-> <<>>]
  ELSE LET e == dir[Min(Matches(n))]
       IN  [there |-> TRUE, dir |-> e.dir, text |-> Text(e)]

Observed == [n \in Names |-> Reads(n)]

Init ==                                  \* a freshly formatted volume
  /\ fat = [c \in Clusters |-> FREE] /\ fat2 = fat
  /\ data = [c \in Volume |-> [i \in 1 .. ClusterSize |-> 0]]
  /\ dir = <<>>
  /\ pc = "idle" /\ op = NoOp
  /\ req = <<>> /\ before = <<>> /\ ok = TRUE /\ failed = FALSE

-----------------------------------------------------------------------------
(***************************************************************************)
(* How a call ends.  cmd_mv ignores the result of its delete_file.         *)
(***************************************************************************)
Answer(success) ==
  /\ ok' = success
  /\ failed' = (failed \/ ~success)
  /\ pc' = "idle" /\ op' = NoOp
  /\ req' = <<>> /\ before' = <<>>

Return(success) ==
  Answer(success \/ (req.kind = "mv" /\ op.kind = "delete"))

(***************************************************************************)
(* How a call starts: the operation with its local variables.              *)
(***************************************************************************)
Creating(n, t, then) ==
  [NoOp EXCEPT !.kind = "create", !.name = n, !.then = then,
               !.slot = Min(FreeSlots), !.rest = t, !.size = Len(t),
               !.need = IF t = <<>> THEN 1 ELSE ClustersFor(Len(t))]

Changing(kind, i, t, size) ==
  [NoOp EXCEPT !.kind = kind, !.name = dir[i].name, !.dir = dir[i].dir,
               !.slot = i, !.rest = t, !.size = size]

Begin(r, o, at) ==
  /\ req' = r /\ before' = Observed
  /\ op' = o /\ pc' = at
  /\ UNCHANGED <<disk, ok, failed>>

Refuse == Answer(FALSE) /\ UNCHANGED disk

\* When Faults, the directory cannot be read: there seems to be no free slot.
EnterCreate(r, n, t, then) ==
  \/ FreeSlots # {} /\ Begin(r, Creating(n, t, then), "alloc")
  \/ (FreeSlots = {} \/ Faults) /\ Refuse

EnterWrite(r, n, t) ==
  LET i == Min(Matches(n)) IN
  Begin(r, [Changing("write", i, t, Len(t))
              EXCEPT !.cl = dir[i].first,
                     !.need = IF t = <<>> THEN 1 ELSE ClustersFor(Len(t))],
        "free")

Deleting(n) ==
  LET i == Min(Matches(n))
  IN  [Changing("delete", i, <<>>, 0) EXCEPT !.cl = dir[i].first]

(***************************************************************************)
(* fat32_append_file walks to the last cluster that the size accounts for. *)
(* A file of size 0 with a preallocated cluster is filled from its start,  *)
(* any other from the tail of its last cluster.                            *)
(***************************************************************************)
LastCluster(e) ==
  Chain(e.first)[IF e.size = 0 THEN 0 ELSE ClustersFor(e.size) - 1]

FaultIgnoresPreallocated(e) == e.first # 0 /\ e.size % ClusterSize # 0

HasTail(e) == e.first # 0 /\ (e.size = 0 \/ e.size % ClusterSize # 0)

EnterAppend(r, n, t) ==
  LET i == Min(Matches(n))
      e == dir[i]
      last == LastCluster(e)
      o == [Changing("append", i, t, e.size + Len(t))
              EXCEPT !.first = e.first, !.last = last,
                     !.need = ClustersFor(Len(t))]
      broken == e.first # 0 /\ last \notin Clusters
  IN  \/ ~broken /\ Begin(r, o, IF HasTail(e) THEN "fill" ELSE "alloc")
      \/ (broken \/ Faults) /\ Refuse

(***************************************************************************)
(* The requests.  When Faults, reading the directory may fail, and the     *)
(* search then reports that there is no such name.                         *)
(***************************************************************************)
Lookup(n, hit, miss) ==
  \/ Matches(n) # {} /\ hit
  \/ (Matches(n) = {} \/ Faults) /\ miss

Request(kind, n, t, to) == [kind |-> kind, name |-> n, text |-> t, to |-> to]

NewName(n) == Shadowing \/ Matches(n) = {}

FitsOnDisk(n, t) ==
  LET old == IF Matches(n) = {} THEN {}
             ELSE LET nth == Chain(dir[Min(Matches(n))].first)
                  IN  {nth[k] : k \in DOMAIN nth} \cap Clusters
  IN  Cardinality({c \in Clusters : fat[c] = FREE} \cup old)
        >= IF t = <<>> THEN 1 ELSE ClustersFor(Len(t))

Make(kind) == pc = "idle" /\ kind \in Kinds

Create(n, t) ==                                    \* cmd_touch
  /\ Make("create") /\ NewName(n)
  /\ EnterCreate(Request("create", n, t, None), n, t, None)

Write(n, t) ==                                     \* ed_save
  /\ Make("write") /\ (RoomForWrites => FitsOnDisk(n, t))
  /\ LET r == Request("write", n, t, None)
     IN  Lookup(n, EnterWrite(r, n, t), EnterCreate(r, n, t, None))

AppendTo(n, t) ==                                  \* cmd_write
  /\ Make("append")
  /\ \A i \in Matches(n) : dir[i].size + Len(t) <= MaxLen
  /\ LET r == Request("append", n, t, None)
     IN  Lookup(n, EnterAppend(r, n, t), EnterCreate(r, n, t, None))

Delete(n) ==                                       \* cmd_rm
  /\ Make("delete")
  /\ LET r == Request("delete", n, <<>>, None)
     IN  Lookup(n, Begin(r, Deleting(n), "free"), Refuse)

Mkdir(n) ==                                        \* cmd_mkdir
  /\ Make("mkdir") /\ NewName(n)
  /\ LET r == Request("mkdir", n, <<>>, None) IN
     \/ /\ FreeSlots # {}
        /\ Begin(r, [NoOp EXCEPT !.kind = "create", !.name = n, !.dir = TRUE,
                                 !.slot = Min(FreeSlots)], "entry")
     \/ (FreeSlots = {} \/ Faults) /\ Refuse

\* cmd_cp and cmd_mv look for a file, not for a directory, and read it
\* whole into a static buffer; cmd_mv then deletes the source.
Copy(kind, from, to) ==
  /\ Make(kind) /\ NewName(to) /\ from # to
  /\ \E i \in Matches(from) :
       /\ ~dir[i].dir /\ \A j \in Matches(from) : j < i => dir[j].dir
       /\ EnterCreate(Request(kind, from, <<>>, to), to,
            SubSeq(Text(dir[i]), 1, Least(CopyLimit, Len(Text(dir[i])))),
            IF kind = "mv" THEN from ELSE None)

-----------------------------------------------------------------------------
(***************************************************************************)
(* fat32_write_fat: read, modify and write the first FAT, then its mirror. *)
(***************************************************************************)
SetFat(c, v) == fat' = [fat EXCEPT ![c] = v] /\ UNCHANGED <<fat2, data, dir>>

FaultNoMirror == UNCHANGED disk

Mirror == fat2' = fat /\ UNCHANGED <<fat, data, dir>>

(***************************************************************************)
(* fat32_free_cluster_chain, which ignores what write_fat returns.         *)
(***************************************************************************)
AfterFree == IF op.kind = "delete" THEN "entry" ELSE "alloc"

FaultStopsBeforeEnd ==
  /\ pc = "free"
  /\ op.cl \in Clusters => fat[op.cl] = EOC
  /\ pc' = AfterFree /\ op' = [op EXCEPT !.cl = 0]
  /\ UNCHANGED <<disk, history>>

FreeDone ==
  /\ pc = "free"
  /\ op.cl \notin Clusters
  /\ pc' = AfterFree /\ op' = [op EXCEPT !.cl = 0]
  /\ UNCHANGED <<disk, history>>

FreeCluster ==
  /\ pc = "free" /\ op.cl \in Clusters
  /\ \E next \in {fat[op.cl]} \cup (IF Faults THEN {BAD} ELSE {}) :
       op' = [op EXCEPT !.cl = next]
  /\ \/ SetFat(op.cl, FREE) /\ pc' = "freeMirror"
     \/ Faults /\ UNCHANGED disk /\ pc' = "free"
  /\ UNCHANGED history

FreeMirror ==
  /\ pc = "freeMirror" /\ pc' = "free"
  /\ Mirror \/ (Faults /\ UNCHANGED disk)
  /\ UNCHANGED <<op, history>>

(***************************************************************************)
(* fat32_alloc_cluster takes the lowest free entry of the FAT, wherever    *)
(* the data area ends.  write_cluster_chain gives up without undoing       *)
(* anything; its callers then fail unless the text is empty.               *)
(***************************************************************************)
FaultTakesAny(c) == TRUE

Allocatable(c) == fat[c] = FREE

EndMark == EOC

Alloc ==
  /\ pc = "alloc" /\ op.need > 0
  /\ \E c \in Clusters :
       /\ Allocatable(c) /\ \A d \in Clusters : Allocatable(d) => c <= d
       /\ SetFat(c, EndMark)
       /\ op' = [op EXCEPT !.cl = c]
  /\ pc' = "allocMirror"
  /\ UNCHANGED history

AllocFails ==
  /\ pc = "alloc" /\ op.need > 0
  /\ Faults \/ \A c \in Clusters : ~Allocatable(c)
  /\ IF op.kind = "append" \/ op.size > 0
       THEN Return(FALSE)
       ELSE /\ op' = [op EXCEPT !.need = 0, !.first = 0] /\ pc' = "alloc"
            /\ UNCHANGED history
  /\ UNCHANGED disk

AllocMirror ==
  /\ pc = "allocMirror" /\ pc' = "link"
  /\ Mirror \/ (Faults /\ UNCHANGED disk)
  /\ UNCHANGED <<op, history>>

(***************************************************************************)
(* Linking the new cluster: only append_file heeds a failure.              *)
(***************************************************************************)
Linked == op' = [op EXCEPT !.last = op.cl,
                           !.first = IF op.last = 0 THEN op.cl ELSE op.first]

IgnoreOrFail(next) ==
  IF op.kind = "append" THEN Return(FALSE)
  ELSE /\ Linked /\ pc' = next /\ UNCHANGED history

Link ==
  /\ pc = "link"
  /\ \/ /\ op.last = 0 /\ pc' = "data"
        /\ Linked /\ UNCHANGED <<disk, history>>
     \/ /\ op.last # 0 /\ SetFat(op.last, op.cl)
        /\ Linked /\ pc' = "linkMirror" /\ UNCHANGED history
     \/ /\ op.last # 0 /\ Faults
        /\ IgnoreOrFail("data") /\ UNCHANGED disk

LinkMirror ==
  /\ pc = "linkMirror"
  /\ \/ Mirror /\ pc' = "data" /\ UNCHANGED <<op, history>>
     \/ Faults /\ IgnoreOrFail("data") /\ UNCHANGED disk

(***************************************************************************)
(* Writing a fresh cluster.  A cluster outside the volume cannot be        *)
(* written; write_cluster_chain does not notice.                           *)
(***************************************************************************)
Padded(t) == [i \in 1 .. ClusterSize |-> IF i <= Len(t) THEN t[i] ELSE 0]

Written == op' = [op EXCEPT !.rest = Drop(@, Least(ClusterSize, Len(@))),
                            !.need = @ - 1]

Data ==
  /\ pc = "data"
  /\ \/ /\ op.cl \in Volume
        /\ data' = [data EXCEPT ![op.cl] = Padded(op.rest)]
        /\ UNCHANGED <<fat, fat2, dir>>
        /\ Written /\ pc' = "alloc" /\ UNCHANGED history
     \/ /\ op.cl \notin Volume \/ Faults
        /\ UNCHANGED disk
        /\ IF op.kind = "append" THEN Return(FALSE)
           ELSE Written /\ pc' = "alloc" /\ UNCHANGED history

(***************************************************************************)
(* append_file: the free rest of the last cluster first.                   *)
(***************************************************************************)
FaultTailAtStart == 0

TailStart == dir[op.slot].size % ClusterSize

Fill ==
  /\ pc = "fill"
  /\ LET off == TailStart
         n == Least(ClusterSize - off, Len(op.rest))
     IN  \/ /\ op.last \in Volume \/ n = 0
            /\ data' = IF n = 0 THEN data
                       ELSE [data EXCEPT ![op.last] =
                              [i \in 1 .. ClusterSize |->
                                 IF i \in off + 1 .. off + n
                                   THEN op.rest[i - off] ELSE @[i]]]
            /\ op' = [op EXCEPT !.rest = Drop(@, n),
                                !.need = ClustersFor(Len(op.rest) - n)]
            /\ pc' = "alloc"
            /\ UNCHANGED <<fat, fat2, dir, history>>
         \/ /\ n > 0 /\ (op.last \notin Volume \/ Faults)
            /\ Return(FALSE) /\ UNCHANGED disk

AllDone ==
  /\ pc = "alloc" /\ op.need = 0
  /\ pc' = "entry"
  /\ UNCHANGED <<disk, op, history>>

(***************************************************************************)
(* fat32_write_dir_entry, the last write of every call.  cmd_mv goes on to *)
(* delete the source.                                                      *)
(***************************************************************************)
NewEntry ==
  IF op.kind = "delete" THEN FreeEntry
  ELSE Entry(op.name, op.dir, op.first, op.size)

WriteEntry ==
  /\ pc = "entry"
  /\ dir' = IF op.slot <= Len(dir) THEN [dir EXCEPT ![op.slot] = NewEntry]
            ELSE Append(dir, NewEntry)
  /\ UNCHANGED <<fat, fat2, data>>
  /\ IF op.then = None \/ Matches(op.then) = {} THEN Return(TRUE)
     ELSE op' = Deleting(op.then) /\ pc' = "free" /\ UNCHANGED history

EntryFails ==
  /\ pc = "entry" /\ Faults
  /\ Return(FALSE)
  /\ UNCHANGED disk

PowerFails ==
  /\ Crashes /\ pc # "idle"
  /\ Answer(FALSE)
  /\ UNCHANGED disk

Progress ==
  \/ FreeDone \/ FreeCluster \/ FreeMirror
  \/ Alloc \/ AllocFails \/ AllocMirror \/ Link \/ LinkMirror \/ Data \/ Fill
  \/ AllDone \/ WriteEntry \/ EntryFails

Next ==
  \/ \E n \in Names, t \in Texts : Create(n, t) \/ Write(n, t) \/ AppendTo(n, t)
  \/ \E n \in Names : Delete(n) \/ Mkdir(n)
  \/ \E n, m \in Names : Copy("cp", n, m) \/ Copy("mv", n, m)
  \/ Progress
  \/ PowerFails

Spec == Init /\ [][Next]_vars
-----------------------------------------------------------------------------
Owned(e) ==
  LET nth == Chain(e.first)
  IN  {nth[k] : k \in DOMAIN nth} \cap Clusters

TypeOK ==
  /\ {fat[c] : c \in Clusters} \cup {fat2[c] : c \in Clusters}
       \subseteq Clusters \cup {FREE, EOC}
  /\ Len(dir) <= MaxSlots
  /\ \A i \in Live : /\ dir[i].first \in Clusters \cup {0}
                     /\ dir[i].size \in 0 .. MaxLen
  /\ op.last \in Clusters \cup {0}

(* A file's clusters are its own: no two directory entries lead to the     *)
(* same cluster, none leads to a cluster that alloc_cluster would hand out *)
(* again, and no chain runs into itself.  While a call is deleting or      *)
(* replacing a file its old entry still points at what was freed.          *)
NoCrossLinks ==
  LET settled == Live \ (IF op.kind \in {"delete", "write"} THEN {op.slot} ELSE {})
  IN  \A i \in settled :
        /\ \A c \in Owned(dir[i]) : fat[c] # FREE
        /\ \A c, d \in Owned(dir[i]) : fat[c] = fat[d] => c = d
        /\ \A j \in settled \ {i} : Owned(dir[i]) \cap Owned(dir[j]) = {}

(* A cluster is marked used only if a file leads to it, as long as every   *)
(* call has succeeded: failed calls are the only way to lose space.  (But  *)
(* fat32_free_cluster_chain does not report a sector that fails.)          *)
NoLeak ==
  /\ TypeOK
  /\ pc = "idle" /\ ~failed =>
       \A c \in Clusters : fat[c] # FREE => \E i \in Live : c \in Owned(dir[i])

(* "Mirror to FAT2 if present" (fat32.c:136,162): the copies agree         *)
(* between calls.                                                          *)
MirrorAgrees == pc = "idle" => fat2 = fat

(* A call never changes what any other name reads as, whatever fails       *)
(* during it.                                                              *)
OthersKept ==
  \A n \in Names : n \notin {op.name, op.then, op'.name} => Reads(n)' = Reads(n)

OthersIntact == [][OthersKept]_vars

(* Nothing touches what the called name reads as until the very last write *)
(* of an append: a crash or a failed sector leaves the old text.           *)
OldTextKept ==
  \A n \in Names :
    op.kind = "append" /\ op.name = n /\ pc # "entry" => Reads(n)' = Reads(n)

AppendAtomic == [][OldTextKept]_vars

(* Every request is performed completely and on its own names only, or not *)
(* at all, and is answered accordingly.                                    *)
AllRequests ==
  {Request(kind, n, t, None) :
     kind \in Kinds \ {"cp", "mv"}, n \in Names, t \in Texts \cup {<<>>}}
  \cup {Request(kind, n, <<>>, m) :
          kind \in Kinds \cap {"cp", "mv"}, n \in Names, m \in Names}

Store == INSTANCE FileStore WITH
           Requests <- AllRequests,
           files <- IF pc = "idle" THEN Observed ELSE before

RefinesFileStore == Store!Spec
=============================================================================

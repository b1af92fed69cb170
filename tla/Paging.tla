------------------------------- MODULE Paging -------------------------------
(***************************************************************************)
(* kernel/mem/virtual_mem/paging.c: the page tables that vmm_init builds   *)
(* from frames of the allocator and mmio_map extends.  The tables are      *)
(* written through their physical addresses, before paging is switched on  *)
(* and afterwards, when those addresses go through the tables themselves.  *)
(*                                                                         *)
(* A page is its number; an address counts bytes.  vmm_unmap is exported   *)
(* and has no caller; it is called here for pages that mmio_map has given  *)
(* out.  Flags of an entry other than "present" are left out.              *)
(*                                                                         *)
(* A definition Fault... is the faulty variant of the one that follows it; *)
(* no specification uses it.                                               *)
(***************************************************************************)
EXTENDS PhysMem, Sequences

CONSTANTS
  BlockSize,          \* PAGE_SIZE
  Levels, Fanout,     \* 4 and PT_ENTRIES
  LowPages,           \* pages that are mapped at their own address
  FbAddr, FbSize,     \* g_fb_addr (0: none), g_fb_height * g_fb_pitch
  KernelPhys, KernelVirt, KernelPages,      \* the kernel's second place
  MmioBase,           \* MMIO_VIRT_BASE
  Devices             \* what mmio_map is asked for: [phys, size]

ASSUME PagingAssumption ==
  /\ {BlockSize, Levels, Fanout} \subseteq Nat \ {0}
  /\ {LowPages, FbAddr, FbSize, KernelPhys, KernelVirt, KernelPages, MmioBase} \subseteq Nat
  /\ \A d \in Devices : {d.phys, d.size} \subseteq Nat
  /\ 1 \in Sizes                    \* what alloc_table asks for

Absent == -1

VARIABLES
  table,              \* the page tables in memory, by frame
  root,               \* the pml4 that is worked on
  current_pml4,       \* the one in use, NULL before paging is on
  phase,              \* "boot", "init", "idle", "mmio" or "halted"
  pages,              \* pages that the loop of the caller has yet to map
  at, level,          \* get_pte: the table it has come to
  device,             \* mmio_map: its arguments
  mmio_virt_next,
  served              \* history: [phys, size, virt] of the devices mapped

walk == <<pages, at, level>>
mmio == <<device, mmio_virt_next, served>>
pagingVars == <<table, root, current_pml4, phase, walk, mmio>>

NoDevice == [phys |-> 0, size |-> 0]

\* How many pages a tree of k levels reaches.
Reach[k \in 0 .. Levels] == IF k = 0 THEN 1 ELSE Fanout * Reach[k - 1]

Virtual == 0 .. Reach[Levels] - 1

\* PML4_INDEX ... PT_INDEX, for levels 0 ... Levels - 1.
FaultIndex(v, l) == (v \div Reach[IF l = 1 THEN 0 ELSE Levels - 1 - l]) % Fanout

Index(v, l) == (v \div Reach[Levels - 1 - l]) % Fanout

Entry(t, v, l) == IF t \in DOMAIN table THEN table[t][Index(v, l)] ELSE Absent

\* What the walk for page v has come to after l levels.
Walk(v, l) ==
  LET after[k \in 0 .. Levels] == IF k = 0 THEN root ELSE Entry(after[k - 1], v, k - 1)
  IN after[l]

\* The code answers 0 for Absent, as it does for a page mapped to page 0.
vmm_get_phys(v) == Walk(v, Levels)

PageOf(address) == address \div BlockSize

FaultForgetsOffset(address, size) == (size + BlockSize - 1) \div BlockSize

PageCount(address, size) ==
  (size + (address % BlockSize) + BlockSize - 1) \div BlockSize

Run(virt, phys, n) == [i \in 1 .. n |-> [virt |-> virt + i - 1, phys |-> phys + i - 1]]

PagingInit ==
  /\ table = [f \in {} |-> <<>>]
  /\ root = NULL /\ current_pml4 = NULL
  /\ phase = "boot" /\ pages = <<>>
  /\ at = NULL /\ level = 0
  /\ device = NoDevice
  /\ mmio_virt_next = MmioBase /\ served = {}

(***************************************************************************)
(* alloc_table: a frame, cleared.  (Block 0, its NULL, is never granted.)  *)
(***************************************************************************)
Cleared == [i \in 0 .. Fanout - 1 |-> Absent]

WithTable(f) == [g \in DOMAIN table \cup {f} |-> IF g = f THEN Cleared ELSE table[g]]

Allocate == Grant(1)
NoFrame == Refuse(1) /\ UNCHANGED table

(***************************************************************************)
(* vmm_init: three runs of pages, and the switch to the new tables.  Its   *)
(* caller halts when it fails.                                             *)
(***************************************************************************)
FbPages == IF FbAddr = 0 THEN 0 ELSE (FbSize + BlockSize - 1) \div BlockSize + 1

InitPages ==
  Run(0, 0, LowPages)
  \o Run(PageOf(FbAddr), PageOf(FbAddr), FbPages)
  \o Run(KernelVirt, KernelPhys, KernelPages)

ASSUME InitPagesAssumption == \A i \in DOMAIN InitPages : InitPages[i].virt \in Virtual

vmm_init ==
  /\ phase = "boot"
  /\ Allocate /\ table' = WithTable(ret')
  /\ root' = ret' /\ at' = ret'
  /\ phase' = "init" /\ pages' = InitPages
  /\ UNCHANGED <<current_pml4, level, mmio>>

vmm_set_pml4 ==
  /\ phase = "init" /\ pages = <<>>
  /\ current_pml4' = root
  /\ phase' = "idle"
  /\ UNCHANGED <<vars, table, root, walk, mmio>>

(***************************************************************************)
(* vmm_map of the next page: get_pte level by level, then the entry.       *)
(***************************************************************************)
Page == Head(pages)
Here == table[at][Index(Page.virt, level)]
Walking == pages # <<>> /\ level < Levels - 1

Descend ==
  /\ Walking /\ Here # Absent
  /\ at' = Here /\ level' = level + 1
  /\ UNCHANGED <<vars, table, root, current_pml4, phase, pages, mmio>>

AddTable ==
  /\ Walking /\ Here = Absent
  /\ Allocate
  /\ table' = [WithTable(ret') EXCEPT ![at][Index(Page.virt, level)] = ret']
  /\ at' = ret' /\ level' = level + 1
  /\ UNCHANGED <<root, current_pml4, phase, pages, mmio>>

SetEntry ==
  /\ pages # <<>> /\ level = Levels - 1
  /\ table' = [table EXCEPT ![at][Index(Page.virt, level)] = Page.phys]
  /\ pages' = Tail(pages)
  /\ at' = root /\ level' = 0
  /\ UNCHANGED <<vars, root, current_pml4, phase, mmio>>

\* The caller gives up; what it has mapped so far stays.
OutOfFrames ==
  /\ Walking /\ Here = Absent
  /\ NoFrame
  /\ pages' = <<>> /\ at' = root /\ level' = 0
  /\ phase' = IF phase = "init" THEN "halted" ELSE "idle"
  /\ device' = NoDevice
  /\ UNCHANGED <<root, current_pml4, mmio_virt_next, served>>

(***************************************************************************)
(* mmio_map(d).  Bound: it is not called when the virtual addresses above  *)
(* MmioBase have been given out.                                           *)
(***************************************************************************)
mmio_map(d) ==
  LET n == PageCount(d.phys, d.size)
  IN /\ phase = "idle"
     /\ mmio_virt_next + n - 1 \in Virtual
     /\ pages' = Run(mmio_virt_next, PageOf(d.phys), n)
     /\ mmio_virt_next' = mmio_virt_next + n
     /\ phase' = "mmio" /\ device' = d
     /\ UNCHANGED <<vars, table, root, current_pml4, at, level, served>>

\* It returns virt_base + offset.
Returned ==
  (mmio_virt_next - PageCount(device.phys, device.size)) * BlockSize
  + (device.phys % BlockSize)

MmioMapped ==
  /\ phase = "mmio" /\ pages = <<>>
  /\ served' = served \cup {[phys |-> device.phys, size |-> device.size, virt |-> Returned]}
  /\ phase' = "idle" /\ device' = NoDevice
  /\ UNCHANGED <<vars, table, root, current_pml4, walk, mmio_virt_next>>

vmm_unmap(v) ==
  /\ phase = "idle" /\ vmm_get_phys(v) # Absent
  /\ table' = [table EXCEPT ![Walk(v, Levels - 1)][Index(v, Levels - 1)] = Absent]
  /\ served' = {s \in served : v \notin PageOf(s.virt) .. PageOf(s.virt + s.size - 1)}
  /\ UNCHANGED <<vars, root, current_pml4, phase, walk, device, mmio_virt_next>>

PagingStep ==
  \/ vmm_init \/ vmm_set_pml4
  \/ Descend \/ AddTable \/ SetEntry \/ OutOfFrames
  \/ \E d \in Devices : mmio_map(d)
  \/ MmioMapped
  \/ \E v \in MmioBase .. mmio_virt_next - 1 : vmm_unmap(v)
-----------------------------------------------------------------------------
(* Once paging is on, everything that is used by its address is mapped     *)
(* there: the image, the bitmap, every frame that has been granted (page   *)
(* tables among them: get_pte follows their physical addresses), and the   *)
(* framebuffer; the kernel's second place leads to the image; and what     *)
(* mmio_map returned leads to every byte of the device, however its range  *)
(* lies on the pages, and whatever was mapped, unmapped or not mapped for  *)
(* want of frames after it.                                                *)
KernelMapped ==
  current_pml4 # NULL =>
    /\ \A b \in (0 .. base - 1) \cup {b \in Bits : held[b] > 0} : vmm_get_phys(b) = b
    /\ FbAddr # 0 =>
         \A a \in FbAddr .. FbAddr + FbSize - 1 : vmm_get_phys(PageOf(a)) = PageOf(a)
    /\ \A i \in 0 .. KernelPages - 1 : vmm_get_phys(KernelVirt + i) = KernelPhys + i
    /\ \A s \in served : \A i \in 0 .. s.size - 1 :
         /\ vmm_get_phys(PageOf(s.virt + i)) = PageOf(s.phys + i)
         /\ (s.virt + i) % BlockSize = (s.phys + i) % BlockSize

Mappable ==
  {InitPages[i].phys : i \in DOMAIN InitPages}
  \cup UNION {PageOf(d.phys) .. PageOf(d.phys + d.size - 1) : d \in Devices}

Space == INSTANCE AddressSpace
  WITH Physical <- Mappable,
       space <- [v \in Virtual |-> IF root = NULL THEN Absent ELSE vmm_get_phys(v)]

(* Walking and growing four levels of tables in frames that hold something *)
(* else before is a map from pages to pages that changes one page at a     *)
(* time: no other page is ever remapped, not even when the frames run out  *)
(* in the middle.                                                          *)
RefinesAddressSpace == Space!Spec
=============================================================================

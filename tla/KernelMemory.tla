---------------------------- MODULE KernelMemory ----------------------------
(***************************************************************************)
(* The memory map that _entry (kernel/kernel.c) sets up: the kernel image  *)
(* and its BSS, the bitmap of the frame allocator on the first block after *)
(* _bss_end, the frames that are granted from the block after that, and    *)
(* the heap of kernel/mem.c, whose bounds are two literals.  The two       *)
(* allocators share the address space and nothing else: neither knows the  *)
(* other's range, and kalloc_init runs before _bss_end is looked at.       *)
(* Nor does anything keep the heap off the image: with the BSS above       *)
(* 0x200000 its range is memory of the kernel's own static objects.        *)
(*                                                                         *)
(* vmm_init runs before any other component takes frames; page tables and  *)
(* the others' frames (descriptor rings, packet buffers, stacks) share the *)
(* pool from then on.                                                      *)
(*                                                                         *)
(* Addresses are bytes; a block of the frame allocator is BlockSize bytes. *)
(* Bound: a behaviour uses the heap or the page tables, and has its region *)
(* from a base that suits it: one of Uses.                                 *)
(***************************************************************************)
EXTENDS Paging, Heap

CONSTANTS
  ImageStart,                      \* first block of the kernel image
  Uses                             \* [base, heap, paging]

VARIABLE uses

memoryVars == <<vars, heap, pagingVars, uses>>

(***************************************************************************)
(* The bitmap takes the block before the region that is made available:    *)
(* bitmap_start is _bss_end rounded up, free_start one block later.        *)
(***************************************************************************)
BitmapBlock == base - 1

MemoryInit ==
  /\ HeapInit /\ Init /\ PagingInit
  /\ uses \in Uses /\ uses.base = base

HeapStep ==
  /\ uses.heap
  /\ HeapNext
  /\ UNCHANGED <<vars, pagingVars>>

FrameStep ==
  /\ uses.paging => phase = "idle"
  /\ KernelNext
  /\ UNCHANGED <<heap, pagingVars>>

PageStep ==
  /\ uses.paging
  /\ PagingStep
  /\ UNCHANGED heap

MemoryNext == (HeapStep \/ FrameStep \/ PageStep) /\ UNCHANGED uses

MemorySpec == MemoryInit /\ [][MemoryNext]_memoryVars
-----------------------------------------------------------------------------
(* What each part of the kernel occupies, as half-open byte ranges.        *)
BytesOf(b) == [from |-> b * BlockSize, to |-> (b + 1) * BlockSize]
Image == [from |-> ImageStart * BlockSize, to |-> BitmapBlock * BlockSize]
HeapRanges == {[from |-> b, to |-> EndOf(b)] : b \in Blocks}
Granted == {b \in Bits : held[b] > 0}

Apart(r, s) == r.to <= s.from \/ s.to <= r.from

(* "Using _bss_end from the linker script means this is always safe no     *)
(* matter how large BSS grows" (kernel/kernel.c:40): nothing the heap      *)
(* hands out lies on the bitmap.                                           *)
BitmapSafe == \A r \in HeapRanges : Apart(r, BytesOf(BitmapBlock))

(* Granted frames (page tables, descriptor rings, packet buffers, user     *)
(* stacks) lie neither on the image, nor on the bitmap, nor on a block the *)
(* heap has cut off, and the bitmap is clear of the heap as well.  Of heap *)
(* and image nothing is said: they overlap.  Checked where _bss_end is at  *)
(* or above the end of the heap.                                           *)
FramesClear ==
  /\ BitmapSafe
  /\ \A b \in Granted :
       /\ Apart(BytesOf(b), Image)
       /\ b # BitmapBlock
       /\ \A r \in HeapRanges : Apart(BytesOf(b), r)
=============================================================================

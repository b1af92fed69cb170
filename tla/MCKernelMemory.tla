--------------------------- MODULE MCKernelMemory ---------------------------
(* The kernel's map with 1 MiB scaled to one block of 24 bytes: image from *)
(* 1 MiB, heap of 3 MiB.  With MCAnyUses the heap lies where it does in    *)
(* the kernel, from 2 MiB, and the bitmap anywhere from 3 MiB, which the   *)
(* static buffers of commands and console already reach.  With MCHighUses  *)
(* the bitmap begins where the heap ends, and there are two frames where   *)
(* the heap is used, else enough for vmm_init and a few devices, or too    *)
(* few.  Page tables have three entries on four levels.                    *)
EXTENDS KernelMemory

Use(b, h) == [base |-> b + 1, heap |-> h, paging |-> ~h]

MCAnyUses == {Use(b, TRUE) : b \in 3 .. 14}
MCAnyBss == {u.base : u \in MCAnyUses}

MCHighUses == {Use(20, TRUE), Use(3, FALSE), Use(6, FALSE)}
MCHighBss == {u.base : u \in MCHighUses}

MCSizes == {1, 3}
MCRequests == {5, 16, 32}
MCDevices == {[phys |-> 30 * 24, size |-> 30], [phys |-> 28 * 24 + 20, size |-> 30]}
=============================================================================

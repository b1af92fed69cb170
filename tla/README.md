# A verification model of GeckoOS

TLA+ modules, TLC configurations and TLAPS proofs about the GeckoOS kernel (`src/kernel`,
`src/include`) and its upload server (`src/server`). Source paths below are relative to `src/`.

## 1. Inventory

The kernel is one address space and, in practice, one thread: the shell's loop. Concurrency comes
from interrupt handlers (timer, keyboard, mouse, network card), from devices that share memory with
their driver, and from functions that wait by handling other events. There is no persistence other
than the FAT32 disk, whose writes are single sectors.

| Part | State | Operations | Hard behaviour | Correct when |
|---|---|---|---|---|
| Physical frames, `kernel/mem/physical_mem` | bitmap after `_bss_end`, `used_blocks` | boot, allocate, free, deinitialize | scan without an end, unsigned count, block 0 is NULL | no frame twice, none past the bitmap, count = bits |
| Heap, `kernel/mem.c` | headers from 0x200000, bump pointer, free list | kmalloc, kfree | taken blocks stay linked | blocks disjoint, owners keep their bytes, searches end |
| Memory map, `kernel/kernel.c` | the ranges of image, bitmap, frames, heap | `_entry` | literals against link-time sizes | what one part is given is no other's |
| Paging, `mem/virtual_mem` | page tables in frames, MMIO pointer | map, unmap, mmio_map, page fault | partial failure | a mapping hits only its page |
| Keyboard, `drivers/keyboard.c` | one-byte slot, modifiers | interrupt handler, `ps2_kb_wfi` | handler between any two instructions | last key not lost, modifiers follow |
| Mouse, `drivers/mouse.c` | packet phase, pointer | interrupt handler | lost byte, handler changes the viewport | packets stay aligned, the pointer follows |
| Timer, interrupts, `drivers/tables` | ticks, handler tables | tick, wait, install | wrap-around, missing handlers | waits end |
| Processes, `kernel/process` | ring queue, count | create, switch | full queue | no process lost |
| Terminal, `kernel/terminal` | scrollback, viewport, line, history | putchar, input, render | wheel interrupt while drawing | cursor and viewport inside the buffer |
| Editor, `kernel/editor` | buffer, cursor, dirty, ctrl | insert, delete, save, load, quit | stale modifier, failing load or save | a page not marked modified is the file |
| FAT32, `kernel/fs` | two FATs, root directory, data | create, write, append, delete, mkdir, read | several sector writes per call, full disk, power loss | chains disjoint, other files untouched |
| Disk drivers, `drivers/ata.c`, `drives.c` | drive table | detect, read, write, register | order of registration | a number names one drive |
| Network card, `drivers/e1000.c` | two descriptor rings, one tx buffer | send, receive | the device acts concurrently | receive ring is a FIFO, nothing forgotten |
| Ethernet, ARP, IP, ICMP, `kernel/net` | ARP cache, static packet buffers | send, handle | waiting for ARP handles packets that send | a packet carries what was handed over |
| UDP, DNS, downloads, `net/udp.c`, `net/dns.c`, `commands.c`, `server/app.py` | one capture slot, download state | request, reply, download | lost and late answers | a reply answers its request, a saved file is the host's |
| GK language, `kernel/gk` | tokens, nodes, scopes, flags | lex, parse, evaluate | control-flow flags across calls, fixed limits | result follows the syntax guide |
| PCI, USB, screen, fonts, serial, printf, layouts, ELF, boot | none beyond the hardware's | | | |

Who calls whom: the shell's commands call the file system, the network requests and GK; FAT32 calls
the disk driver and kmalloc; paging and the network card take frames; `ps2_kb_wfi` feeds the shell
and the editor; IP calls ARP, and both call the card. `PROJECT.json` lists every part with its
status, and under "hazards" the places where this code is hard to test.

## 2. Modules

| Module | Models | State and actions |
|---|---|---|
| `FramePool` | what a frame allocator promises | a set of free frames; take a run or deny |
| `PhysMem` | `physical_mem.c` | `memory_map` is the set of 1 bits, `Slack` of them beyond the bitmap; `Grant`/`Refuse` are `allocate_blocks`. `KernelSpec` makes the calls the kernel makes (it never frees), `ApiSpec` all of them |
| `HeapRange`, `Heap` | `kmalloc`, `kfree` | headers by address; the list search goes node by node (`FindNext`, `FindHit`, `CreateBlock`, `OutOfMemory`), `Kfree` pushes |
| `AddressSpace` | what page tables promise | a map from pages to pages, changed one page at a time |
| `Paging` | `paging.c` | `table` holds the page tables by frame; `Descend`, `AddTable`, `OutOfFrames` are the levels of `get_pte`, `SetEntry` the end of `vmm_map`; `vmm_init` and `mmio_map` leave their pages in `pages` |
| `KernelMemory` | `_entry` | composes `PhysMem`, `Paging` and `Heap` in one address space |
| `KernelMemoryProofs` | | theorems about `KernelSpec`, `ApiSpec` and `HeapSpec`, each by itself, and about the composition |
| `Keyboard`, `KeyboardProofs` | `keyboard.c` | `pc` is the line of `ps2_kb_wfi`; `keyboard_handler` and `Timer` interleave with it; the controller is external |
| `FileStore` | what the file commands promise | a map from names to files, changed as a whole or not at all |
| `Fat32`, `Fat32Proofs` | `fat32.c` and the commands that call it | a command is a request; every sector write is an action (`SetFat`, `Mirror`, `Data`, `Fill`, `WriteEntry`); `Crashes` and `Faults` switch on `PowerFails` and failing sectors |
| `RxFifo` | what a receive ring promises | a queue of bounded length |
| `E1000`, `E1000Proofs` | `e1000.c` | the device's steps (`Arrive`, `Mark`, `Transmit`) between the driver's accesses |
| `Checksum`, `Dns` | the checksums; names, requests and replies of the DNS client | operators on sequences of bytes, with the structure of a reply as reference |
| `NetStack`, `NetStackProofs` | `arp.c`, `ip.c`, `icmp.c`, `udp.c`, ping, udpsend, dns | `stack` holds the activations of `ip_send`, which handles frames while it waits for ARP; one static packet buffer; commands wait and drain the ring |
| `HostFiles`, `HostFilesProofs` | `udp_request_*`, the download commands, `udp_reply` | datagrams in three queues; `pc` is the place in `cmd_pullhostfile`; `TimeOut` is the 100-tick limit |
| `GkSyntax` | `gk_lexer.c`, `gk_parser.c` | lexer and recursive-descent parser as operators on lexemes, with every limit |
| `GkInterp` | `gk_interp.c` | `Eval` with the flags for break, continue and return and the one array of variables |
| `GkMeaning` | the syntax guide's meaning of a program | by the structure of the tree; no flags, a frame for each call; `departed` tells where `gk_interp.c` does otherwise |
| `Gk` | the command `gk` | runs of lexer, parser and interpreter in one static state |
| `Terminal` | `terminal.c` | scrollback, viewport, `putchar` cut at every access it shares with the wheel's callback, `input` with its history |
| `Mouse`, `MouseProofs` | `mouse.c` | `mouse_init` read by read and write by write, `mouse_handler`; controller and mice are external |
| `LineEditor` | what the text editor promises | a page of lines, a cursor, a file |
| `Editor` | `editor.c` | one array of characters, one action per key, the quit dialogue |
| `Console`, `ConsoleProofs` | `kmain`'s loop | composes `Terminal`, `Editor` and `Mouse` (EXTENDS); the theorems about terminal and editor |
| `MC...` | | constants for TLC |

`GkSyntax`, `GkInterp`, `GkMeaning` and `Gk` use RECURSIVE operators and have no theorems.

A definition `Fault...` is the wrong variant of the definition after it. It is used by no
specification; with it in place of the right one, TLC must find the property violated that
`PROJECT.json` names in "mutants".

## 3. Runs

| Run | Result | Shows | Bounds |
|---|---|---|---|
| `memory` | pass | the kernel's calls refine `FramePool`; heap blocks are disjoint, the list is sound, nothing owned is handed out; if `_bss_end` is at or above the heap's end, granted frames are clear of image, bitmap and heap blocks, and heap blocks of the bitmap; page tables change one page at a time and everything used by its address stays mapped | 1 MiB is one block of 24 bytes; up to three heap blocks with splits; four levels of three entries, frames for `vmm_init` and a few devices, or too few for it |
| `memory_bss` | violation | with `_bss_end` inside 0x200000..0x500000 the heap hands out the bitmap | as above |
| `keyboard` | pass | last key returned, modifiers follow, a pending key is consumed | one key of each kind, three presses or releases |
| `keyboard_arrows` | violation | an arrow key comes out as a plain scancode | one press |
| `fat_store` | pass | commands refine `FileStore`; no leak, FATs agree | two names (symmetric: no definition tells them apart), three clusters of two units, files of up to three units |
| `fat_power` | pass | with power loss and failing sectors at every write, growing commands share no cluster, leave other names alone, and an incomplete append leaves the old text | as above, volume one cluster smaller than its FAT |
| `e1000` | pass | receive ring refines `RxFifo`, descriptors are divided, nothing queued is forgotten | four and three descriptors, six frames each way: both rings go round |
| `network` | pass | a command's packet goes to the right neighbour or nowhere, the ARP cache is current, a reply is counted once, requests give their binding back, every command returns; the DNS parser and the checksums agree with their references | two neighbours, a cache of one entry, two nested `ip_send`, two frames in the ring and `MaxExtra` two that nobody asked for; replies cut off at each boundary |
| `host_files` | pass | saved text is a prefix of the host's file; success means complete and commands end, unless a number was read wrong | a file of three chunks, two datagrams under way each way, one in the ring; numbers of 50 values instead of 2^32 (`Word`), and two leftovers behind a reply (`Stale`), which make its number larger or, wrapped, smaller |
| `host_files_late` | violation | an answer that is late is taken for the answer to the next request | as above |
| `gk` | pass | parser, indentation and evaluator agree with references that have neither flags nor tokens; one run leaves nothing for the next | every pair of operators around a third, every pair of statements in a loop and in the function it calls, every indentation of four lines; limits small enough to be hit |
| `console` | pass | the mouse comes up when it is left alone, the pointer follows it as far as the screen goes or one place past it, echo and recall agree with what was typed, the viewport stays inside the scrollback, the editor refines `LineEditor`, a page that is not marked modified is the file or, after a failing load, a beginning of it | a screen of two rows of three over four lines of scrollback, a history of two; `Budgets` says how much input of each kind a behaviour sees |

Preconditions of the passing runs, each a constant or a guard with a comment:

* `memory`: `_bss_end` at or above 0x500000. The static objects add up to about 2.2 MB when each
  file's unused copy of `console_history` (`include/terminal/terminal.h:44`) is dropped, which puts
  `_bss_end` between 3 and 4 MB, the case of `memory_bss`; with the copies kept it is above 6 MB, the
  case of `memory`. A behaviour uses the heap or the page tables, not both (`Uses`): they share
  only the frames, which both leave to `PhysMem`. `FreeListSound` excepts blocks that are freed
  while still linked (see section 4).
* `fat_store`: new names for touch, cp, mv and mkdir (`Shadowing`), and saves that fit on the
  volume (`RoomForWrites`); text up to the 4096 bytes of cp and mv (`CopyLimit`). Without each the
  refinement fails, and the hazards say how. `fat_power` does without the first.
* `keyboard`: `LastKeyReturned` and `ReadyIsConsumed` are about one-byte keys, `ModifiersFollow`
  about typing no faster than keys are consumed.
* `host_files`: one file is downloaded, others are asked for; host files do not change. What
  `SavesWhole` says of success is about downloads that read the numbers that were sent (`exact`),
  and `CommandsEnd` counts a command as ended that has destroyed the kernel's memory (`wild`).
* `e1000`: `FramesTransmitted` excepts the state in which every transmit descriptor is taken and the
  device has sent none: the registers are then equal and the ring looks empty.
* `network`: replies state true lengths. One with a length near 65536 makes the 16-bit position
  wrap to an earlier record.
* `gk`: programs stay away from overflow of `int`, and from the bounds that the code does not
  check (64 open blocks and 64 levels of indentation). `EvalAgrees` excepts programs with a misplaced
  break or continue, and those during which the evaluator departs from the guide (`departed`), which
  a few of the programs do.
* `console`: the screen starts as after "clear". `EchoedAtKey` excepts an input during which the
  scrollback was full; `MouseReady` is about a boot in which nobody moves the mouse or types;
  `PageMatchesFile` excepts the time from a failed save to the next one. The uninitialised line
  that Down may recall (`Garbage`) is empty or printable in the run; with a control character in
  it `EchoedAtKey` fails (section 5, `PrintableGarbage`).

Five runs do not check for deadlock. `memory`: the kernel halts when `vmm_init` fails
(`OutOfFrames`). `gk` and `console`: a session ends when its runs or its budget are used up.
`host_files` and `host_files_late`: a download that has destroyed the kernel's memory does nothing
more.

Fairness is used in three runs. `keyboard`: `ps2_kb_wfi` is called in a loop, the processor runs
unless halted, the timer ticks, and a pending interrupt is taken because interrupts are enabled
throughout. `host_files`: the guest's command runs and its waits end, which `pull_req_wait`'s tick
limit guarantees; nothing is assumed of the network or the server. `network`: the kernel runs, and
its loops count ticks; the flood of unasked frames is bounded by `MaxExtra`, since a network that
never lets the ring run empty keeps a command's loop from its tick.

## 4. Findings

* `memory_bss`, `kernel/kernel.c:45`: the comment says placing the bitmap after `_bss_end` is always
  safe; the heap's literal range makes it unsafe.
* `keyboard_arrows`, `kernel/drivers/keyboard.c:70`: the poll for the second byte races the handler.
* `host_files_late`, `kernel/net/udp.c:172`: a reply is not matched with its request.

What the models also show, without a run of its own: most of it no document speaks of, some is
against a document's word, which is then quoted; the properties of the passing runs except it by
name or say what it is.

* Heap: kfree pushes blocks that kmalloc never unlinked (`kernel/mem.c:150`). Free, allocate and
  free of one block closes the list into a cycle, and the next search that does not fit never ends.
* Memory map: the heap's range 0x200000..0x500000 (`kernel/mem.c:68`) lies on the kernel's own static
  objects, as far as `_bss_end` is above 0x200000, which it is by more than 1 MB in either of the
  layouts of section 3. `FramesClear` does not compare the two: kmalloc hands out memory that holds
  static objects, whatever the layout.
* Downloads: after 12 chunks the stage is written past its end (`commands.c:1231`), and a reply
  without a header line makes the copy run over all memory (`commands.c:1223`). The server answers
  a SIZE without a terminator (`app.py:80`), the reply is copied to an uninitialised variable
  (`commands.c:1155`, `udp.c:216`) and the number read without regard to its length
  (`commands.c:1033`): digits of an earlier, longer reply are read on with it. A size too large makes
  the loop ask for what lies past the end of the file, and the answer to that has no header line.
  hostfilesize prints the same number.
* Network: an echo request answered while `ip_send` waits replaces the outer packet in the static
  buffer (`ip.c:71`); ping counts any echo reply (`commands.c:826`); for an invalid name
  `nameLen` is read uninitialised (`dns.c:63`).
* GK: a function without return yields the value of its last statement ("A function that reaches
  the end without a `return` returns `None`", `custom_language/syntax_guide.md:378`), and the callee
  sees the caller's variables ("Variables created inside a function are local to that function",
  `:404`). `GkMeaning` follows the guide in both, and `EvalAgrees` excepts programs in which the two
  differ. Of two definitions of a function the first wins; a line whose indentation
  matches no open block joins the outer one; break or continue outside a loop of a function leaves
  the loop that called it.
* Terminal: when the scrollback is full, input that wraps starts over on the last line; the down
  arrow before any up arrow recalls an uninitialised line; clearing does not make the screen follow
  the output again.
* Mouse: moving it or typing during `mouse_init` fails one of the last two tests, and the mouse
  stays without a handler; three-byte mice are read as four-byte ones; a wheel mouse without extra
  buttons (type 3) reports both directions in a form that the callback takes for scrolling down.
  The upper bounds of the pointer are compared with `>` (`mouse.c:137`): it can rest one column or
  row past the last (`terminal.h:16`), where `draw_cursor` reads a cell of the next row or past the
  viewport, and when the hand then moves on it jumps back by one.
* Editor: releases during the question about unsaved changes are dropped, so Ctrl may count as held
  afterwards: a plain q discards, and after a cancelled question a plain s saves and a plain q
  leaves. The editor's own message says otherwise ("^Q again to discard, any key to cancel",
  `editor.c:255`); `LineEditor` leaves open when a page is saved or left. A listing or a read that
  fails (`editor.c:179`, `:202`) leaves a page that is a beginning of the file or empty and counts as
  unmodified; a save then makes that the file. README.md:96 lists the command `edit`, but no command calls `editor_run`.

## 5. Proofs

All theorems hold for every value of the constants that satisfies the assumption of the module
(`PhysMemAssumption`, `HeapAssumption`, `PagingAssumption`, `InitPagesAssumption`, `KeyAssumption`,
`FatAssumption`, `RingAssumption`, `HostAssumption`, `NetAssumption`, `MouseAssumption`,
`TerminalAssumption`, `EditorAssumption`, `ConsoleAssumption`): types, sizes that the code divides
by or takes a first element of are not zero, the pages that `vmm_init` maps are pages that the
tables can reach, the screen is not higher than the scrollback, and no key or output is a character
that only `putchar` gives a meaning. Where a theorem needs more, its ASSUME says so.

**Frames, kernel calls** (`KernelMemoryProofs`): `KernelGrantsInBitmap`, `KernelCountInRange`,
`KernelRefinesFramePool`. The inductive invariant `KInv` says that the used bits of the bitmap are
exactly a prefix (below `Top`), and that the count is that prefix or one less (block 0 is set but
not counted). It is needed because `GrantsInBitmap` says nothing of where the free bits are: the
prefix makes a run that starts in the bitmap stay in it whenever the count check passes, whatever
the memory behind the bitmap holds (`TopFits`).

**Frames, whole interface** (`KernelMemoryProofs`): `ApiTypeOK`, `ApiNoDoubleGrant`,
`ApiNeverReserved`, `ApiCountExact`, from `AInv`, which adds that held blocks and reserved blocks
have their bits set. These claims about freeing and reserving are proved and not run: the kernel
never frees.

**Heap** (`KernelMemoryProofs`): `HeapTypeOK`, `HeapBlocksDisjoint`, `HeapOwnersServed`,
`HeapHandsOutUnowned`, from `HInv`, which adds that sizes are multiples of 8 and that owned blocks
are not marked free; the shape of the list is not part of it, safety does not depend on it.
`HeapFreeListSound` is about that shape: `Visited`, what a search reaches, is the least set of
blocks that holds the head and is closed under `next`. `ListInv` says that it holds every free block
and that every part of it has a block whose `next` leads out of the part, so that no part is a
cycle; having an end (`next` is Nil somewhere) is not inductive by itself, since the block that
`kfree` puts in front might close a cycle elsewhere.

**Kernel memory** (`KernelMemoryProofs`): every step of `MemorySpec` is a step of `KernelSpec` and
of `HeapSpec` or leaves their variables alone (`MemoryHasFrames`, `MemoryHasHeap`; a step of the
page tables is one `Grant(1)` or `Refuse(1)` at most). So the theorems about each allocator hold of
the composition: `MemoryRefinesFramePool`, `MemoryBlocksDisjoint`, `MemoryHandsOutUnowned`,
`MemoryFreeListSound`. `MemoryFramesClear` assumes `HeapBelowBitmap`, that the heap ends below the
bitmap where it is used, which is what the kernel's literals leave to the linker; it follows from
`NeverReserved`, `HeapTypes` and `BlocksDisjoint`, and from `Used`, which ties the region's base to
the chosen layout. It says nothing of heap and image, which overlap (section 4).

**Page tables** (`KernelMemoryProofs`): `MemoryRefinesAddressSpace`, for every number of levels and
entries. A walk goes through frames, so a write to a table changes the mapping of every page whose
walk passes that entry. `PageInv` says that tables lie in granted frames (`InFrames`), that a walk
under way is where `Walk` is after as many levels (`Cursor`), and that the tables form a tree
(`Grown`, `Tree`): each but the root is entered from one entry of one table, all at the same depth.
Two walks that meet then came the same way (`PathsMeet`); the indices of a page determine it
(`IndicesTell`), so an entry of the last level belongs to one page (`OnePage`). A new table is a
frame that was free, hence no table yet, and is empty, hence changes no mapping. Facts about all
levels are proved by induction in the form of least counterexamples and well-founded sets of
numbers, which need no operator parameters.

`MemoryKernelMapped` adds `MapInv`: the loop of `vmm_init`, or of `mmio_map`, has mapped those of its
pages that are not in `pages` any more (`Progress`), the devices served before are still mapped
(`ServedInv`), and the pages given out to devices end at `mmio_virt_next` (`Given`). The hypothesis
`PlacesApart` is what the kernel's literals provide. The 16 MB that are mapped to themselves
(`paging.c:102`) hold every block the allocator manages; pages that are mapped twice (a framebuffer
in those 16 MB) are mapped to the same place; everything lies below `MMIO_VIRT_BASE`, which is 255 MB
above the start of the kernel's second place (`paging.c:13`, `:123`). Virtual pages in the model are
the 48 bits that the walk uses.

**Keyboard** (`KeyboardProofs`): `KeyboardLastKeyReturned`, `KeyboardModifiersFollow`. Both
properties speak of rest; the invariants say where the bytes that matter are until then. A byte
moves from the wire to the output buffer, to `last_scancode`, to the caller. `LastInFlight`: the
last key is the last one under way, or has been returned, unless an arrow key was typed. The
modifiers need two cases: no byte under way changes one, or exactly one does and it is the only
one that does.

**FAT32** (`Fat32Proofs`): `Fat32NoCrossLinks`, `Fat32OthersIntact`, `Fat32AppendAtomic`, with power
failures, failed sectors and names that exist already, for calls in `Growing` (touch, write, mkdir,
cp). The hypothesis is the code's: a delete or a save frees the old chain before it writes the
entry, so that a power failure between leaves an entry that leads to free clusters. The run
`fat_power` has the same restriction. The properties speak of chains and a step changes one FAT
entry, so the inductive `GrowInv` is local: no cluster has two predecessors and one that has a
predecessor is used (`Sound`), files start at different clusters that have none (`DirInv`), the
call holds a chain of its own (`BuiltInv`) and a cluster that is nobody's until it is linked
(`FreshInv`), an append writes behind what the size in the directory accounts for (`TailInv`).
That chains are then disjoint, and stay as they are up to the first entry that changes, is proved
by induction along them (`ChainsMeet`, `ChainUsed`, `ChainKept`); `TextKept` carries it to what
files read as.

`Fat32NoLeak` and `Fat32FilesApart` are about calls of every kind, deletes, saves and moves included,
until one of them fails or is cut off, and assume that no sector fails (`~Faults`): a failed call
leaves its clusters behind, as the properties say, and `fat32_free_cluster_chain` does not report a
sector it could not write. Their invariant `SpaceInv` says that the used clusters are exactly those
of the chains of certain roots (`Forest`): first clusters of files, of the chain that the call
builds, and the cluster it is about to free or to link (`Roots`). Freeing the first cluster of a chain
makes the next one a root (`ForestFrees`), linking takes a root away (`ForestLinks`). A chain must
also end where the file's size says (`Stored`, `Built`), or an append would link its clusters in the
middle and lose the rest; that is arithmetic on the sizes (`FullCount`, `TailCount`). `Fat32TypeOK`
holds whatever fails. `Fat32MirrorAgrees` is about calls of every kind and assumes what the property
is about, that nothing fails: the copies differ only between the two writes of `fat32_write_fat`.

`Fat32RefinesFileStore` says that the driver implements `FileStore`: a call is performed as a whole,
on its own names only, or refused. Its hypotheses are places where the code does otherwise:

| Hypothesis | The code without it |
|---|---|
| `Crashes => Kinds \subseteq Growing` | rm, mv and save free the chain before they write the entry (`fat32.c:523`, `:558`): power lost between leaves a file that is neither old nor new |
| `~Faults` | a sector that could not be written is not reported everywhere (`fat32_write_cluster_chain`, `fat32_free_cluster_chain`) |
| `~Shadowing` | a second entry of a name is hidden by the first (`fat32.c:478`) |
| `Volume = Clusters` | a cluster beyond the volume is handed out as free, and reads short (`fat32.c:152`) |
| `"write" \in Kinds => RoomForWrites` | a save that does not fit has freed the old text before it fails |
| `CopyLimit >= MaxLen` | cp and mv copy what fits in 4096 bytes (`commands.c:577`) |

The abstract step is taken when the entry is written, or for a refusal when the call gives up, so
the invariant `StoreInv` must say before then what the entry will mean. Between calls it holds sound
chains that are disjoint and end where the sizes say (`Files`). During one, the clusters written
so far hold the beginning of the wanted text (`Doing`), the answer of `FileStore` is that the name
reads as that text and the others as before (`Promise`), and until then all names do read as before
(`Untouched`), the saved one excepted. A save must also still find its clusters (`Room`).

**Network card** (`E1000Proofs`): `E1000DescriptorsDivided`, `E1000FramesTransmitted`,
`E1000RefinesRxFifo`. `RxInv` places the driver's `rx_tail`, the device's `rdh` and the register
`rdt` around the ring and says of every slot whether it is marked; `TxInv` counts queued frames by
the distance from head to tail, until a full ring looks empty and nothing moves again.

**Network stack** (`NetStackProofs`): `NetNothingBound`, `NetArpCurrent`, `NetRepliesCounted`,
`NetOwnPacketsRouted`, for every number of neighbours, cache entries, handlers and attempts.
`ip_send` may be interrupted by itself, through the same packet buffer, so the last one needs
`BufferInv`: the buffer holds a command's own packet only while the command's call is the only
activation. `PortInv` says that a binding exists exactly as long as a request.

**Downloads** (`HostFilesProofs`): `HostFilesSavedIsPrefix` assumes `OnePulled`, that pulls ask for
one file only; `HostFilesSavesWhole` also `OneNamed`, that no other file of the host is asked for
at all. Without them the code breaks both, since a reply does not say what it answers (section 4).
`PullInv` says that what is saved and staged is the beginning of the file and `off` its length.
`SavesWhole` is about pulls that read the numbers that were sent (`exact`); a chunk's reply goes on
behind its number, so only one that ends with a number can be read wrong (`NumberRead`), and as
long as all are read right the total is the file's length, no request is made past its end, and
every reply with the right number has its header line.

**Terminal and editor** (`ConsoleProofs`): `ConsoleEcho`, `ConsoleViewport`, `ConsoleRecall`,
`ConsolePage`. They are about every step of the console, the mouse's and the editor's included, so
the steps are first sorted into those that matter to the terminal (`TermStep`). The echo compares
cells by their place in reading order (`Place`), in which `putchar` moves the cursor by one and a
backspace moves it back, also over the end of a line. `EchoInv` says it of every stage of `putchar`,
for the part of the line that is stored by then (`Shown`), and that nothing but blanks is behind
the cursor. A line that is recalled is echoed again, so recalled lines must hold no backspace;
hence the hypothesis `PrintableGarbage`: before the first Up, Down copies a line from the stack that
nothing was written to (`terminal.c:281`), and the theorem is about garbage without control
characters. `ConsoleViewport` assumes `InputFitsScreen`: the longest line of input (511 characters)
is shorter than the screen (48 rows of 128), so that erasing it never leads above what is shown;
`CappedInv` bounds where a line began that reached the last line of the scrollback. `RecallInv`
says that the ring, read backwards from its head, is the last lines entered. `ConsolePage` says that
a page not marked modified is the file as far as it was read (`short` if a load failed on the way);
`PageTypes` adds that the page stays within its array.

**Mouse** (`MouseProofs`): `ConsoleMouseReady`, `ConsolePointer`. `Booting` describes `mouse_init` line
by line: the bytes that wait, the mouse's mode and rates, and the variable that its tests look at;
its parts (enable, identify, set a rate, configure, reset, stream) are proved once each and put
together where the script repeats them. From the line that enables the interrupt each answer also
raises one, which finds no handler and leaves its byte to the read. `InStep` says of the time after
that the bytes the handler has counted, followed by those that wait, are the packets that the mouse
has begun, in order; `ConsolePointer` follows when the fourth is counted. It leaves the pointer the
one place past the screen's edge that the code allows it.

Only model-checked, and why:

* Liveness (`ReadyIsConsumed`, `CommandsEnd` and the like) needs ENABLED and fairness, which the
  prover does not handle.
* What recursive definitions compute: the GK lexer, parser and interpreter, the DNS parser, the
  checksums. Their modules use RECURSIVE operators, or would need induction over data.
* `RefinesLineEditor`: it compares the array with the lines that a recursive function splits it
  into, by induction over the array.

## 6. Not modelled

`PROJECT.json` "components" gives each part's status.

* Output (screen, serial, printing, what the shell's other commands print), static tables (layouts,
  fonts, descriptor tables), boot code, PCI and USB detection keep no state of interest.
* Processes and the ELF loader: `create_process` loads an address space in which only the stack is
  mapped (`process.c:61`, `:105`), so the instruction after it faults, and nothing switches back;
  there is no scheduling whose orders could be explored.
* `cp` and `mv` of a file onto itself (`Copy` has two different names): both make a second entry of
  the name, and `mv` then deletes the first of the two.
* ATA and drives: a sector write is one step of `Fat32` that may fail. Registration runs once, in an
  order that hardware registers decide, and the slave is registered twice (`ata.c:103`).
* In the modelled parts, names, messages and encodings are opaque unless a property is about them;
  FAT sectors and directory sectors are one sector each, and mounting is taken as done; the TLB and
  the protection bits of page tables, the scanning of single characters by the GK lexer, and the
  colours of the terminal are left out.

## 7. Plan

1. Proofs: the refinement of `LineEditor`.
2. Mounting (the BPB) in front of `Fat32`, and directory listings.
3. Reset and EEPROM reading of the network card.

Runs stay one for each question.

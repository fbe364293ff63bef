# H3OS in TLA+

This directory holds TLA+ models of the H3OS kernel and shell, the TLC configurations
that check them on small instances, and TLAPS proofs about the two memory allocators, the
kernel that uses them, the page tables, the file system, the main loop and the shell.
Every definition that stands for code is translated from the C or assembly source;
`PROJECT.json` gives the lines of each one, the runs, the faulty variant ("mutant")
that shows each property can fail, the findings and the hazards.

- [The system](#the-system)
- [Modules](#modules)
- [Runs and what they show](#runs-and-what-they-show)
- [Bounds](#bounds)
- [Fairness](#fairness)
- [Proofs](#proofs)
- [What is not modelled](#what-is-not-modelled)
- [Plan](#plan)
- [How to run](#how-to-run)

## The system

H3OS boots through Multiboot2 into long mode, initialises everything in `kernel_main`
(`kernel/core/main.c:106`) in one flow of control, enables interrupts once and enters
`kernel_idle`, an endless event loop: read the keyboard, let the desktop look at the
mouse, let the window manager look at it, draw, clear the mouse's edges, wait for the
next frame. There is one processor. Concurrency comes from interrupt handlers, which
run behind interrupt gates and so are never interrupted themselves; they share plain
variables with the loop, without locks. Nothing is persistent.

| Component (source) | State | Operations | Used by | What makes it correct |
|---|---|---|---|---|
| Physical memory manager (`memory/pmm.c`) | bitmap, `total_pages`, `used_pages` | init from the memory map, allocate and free runs | framebuffer, heap, VMM, PE loader, adaptive profile | no page given out twice, only RAM, exact accounting |
| Heap (`memory/heap.c`) | doubly linked blocks with headers in memory, counters | `kmalloc`, `kcalloc`, `kfree`, `krealloc`, growth from the PMM | VFS, PE loader | blocks tile memory, a client's block is its own, a second free is ignored while the freed header stands |
| Virtual memory (`memory/vmm.c`) | page tables | map, unmap, resolve | no caller beyond boot | the tables are a tree and implement a map from pages to frames |
| Adaptive profile (`kernel/core/adaptive.c`) | the profile | chosen once at boot | window limit, frame rate | the profile is not below what the RAM deserves |
| Keyboard (`drivers/keyboard/keyboard.c`) | ring buffer, modifiers | interrupt handler, `keyboard_try_read` | main loop | a FIFO, wherever interrupts fall |
| Timer (`drivers/timer/timer.c`) | `g_ticks` | interrupt handler, uptime | main loop | the wait of a frame ends |
| Framebuffer (`drivers/framebuffer/framebuffer.c`) | `g_fb`: the shown surface and the double buffer | init from the boot loader's tag, primitives, `fb_swap` | desktop, window manager, applications | a canvas that cuts off at its edges and shows whole frames |
| Main loop (`kernel/core/main.c`) | where it is in the frame | keys, mouse, drawing, pacing | | keys are handled in time, frames go on |
| Mouse (`drivers/mouse/mouse.c`) | buttons, edges, packet bytes | interrupt handler, snapshot, poll | desktop, window manager | edges are set by the handler and cleared once a frame |
| Interrupts (`kernel/arch/x86_64/idt.c`, `isr.asm`) | PIC masks, handler table | install, dispatch, acknowledge | drivers | every installed line is served |
| Scheduler (`kernel/core/sched.c`) | task table, ready queue | create, yield | system calls | yield returns |
| VFS (`filesystem/vfs/vfs.c`) | node table threaded as a tree, `cwd`, contents in the heap | resolve, mkdir, create, write, unlink, copy, rename, chdir | terminal, file manager, PE seed | a tree, exact buffers, failures lose nothing |
| PE loader (`loader/pe.c`) | images in memory, `g_exited`, `g_exit_code` | probe, place, relocate, call, API | terminal | an image is what its file says; nothing is written but the image and what its relocation table names |
| Terminal (`applications/terminal/terminal.c`) | `g_term`: screen and input line, shared by all terminals | keys, commands, `h3pkg`, `run` | window manager, PE loader | the screen is a scroll buffer; the package database loses nothing |
| Window manager (`window_manager/wm.c`) | windows, `focused`, flags, drag | create, destroy, focus, snap, minimise, mouse | desktop, main loop | focus, count and drag agree with the windows |
| Desktop (`desktop/desktop.c`) | five popups | clicks, shortcuts, launching | main loop | popups exclude each other |

The remaining parts (locks, IPC, system calls, security, RTC, PCI, themes, logging, the
small applications, the file-system and network stubs) are listed in `PROJECT.json` with
the reason they are left out.

What is hard about this code: an interrupt between any two instructions of an
unprotected reader or of the frame; two snapshots of the mouse in one frame; a drag
that lasts over many frames while windows open and close; allocation that fails in the
middle of an operation of several steps; lists relinked over splits, merges and
expansions; tables, buffers and bitmaps at their limits; entries that begin or end in
the middle of a page; memory that is handed out or handed over and is not mapped;
drawing at coordinates that are not on the screen; a wait for a clock that only an
interrupt moves. The `hazards` of `PROJECT.json` place each of these at its line
and name the properties that would notice it going wrong.

## Modules

```
PMM ── Adaptive ────┐
 │ └── Framebuffer ── Boot ──> Canvas           Heap       VMM ──> AddressSpace
 │       Shapes ──┘                             VFS        Sched      Interrupts
 └──── Loader ── Terminal ──> ScrollBuffer
Keyboard ── MainLoop ──> BoundedQueue           WindowManager ── Desktop ── Shell
```

A line is EXTENDS, an arrow "implements" (a refinement checked as a PROPERTY). Modules
called `MC...` give constants their values. `PMMProof`, `HeapProof`, `VMMProof`,
`VFSProof`, `MainLoopProof` and `ShellProof` hold the proofs about the module they are
named after, `ClientsProof` those about Boot and about Loader and Terminal, which are
built on PMM, and `Counting` the lemmas they share.

- **PMM**. The bitmap is the set of pages whose bit is set. `pmm_init`,
  `pmm_alloc_pages` and `pmm_free_pages` are one step each, since no interrupt handler
  calls them. `owned` represents the clients: they give back what they hold
  (`Release`) or free once more what is free already (`ReleaseAgain`).
- **Adaptive**. `adaptive_init` as a further operation on PMM's state.
- **Framebuffer**. Where `fb_init` puts the two surfaces (the boot loader's memory, pages
  of the PMM or the placeholder `g_fallback`), every primitive, and `fb_swap`. A surface
  is its memory, a function from offsets to colours with the pitch of the source, and
  coordinates are compared as unsigned numbers of a small width, as in `fb_put_pixel`;
  so a point that is not cut off lands in another row, as it would. A line is drawn step
  by step, a text character by character; the points of a glyph are a constant.
- **Shapes**. The reference for the primitives: each shape as a set of points of the
  unbounded plane, by what it looks like. For a line these are all sets with one point
  per step of the longer axis, each as near to the line as a point can be.
- **Canvas**. What drawing is for: a picture on which shapes are painted and cut off, and
  a screen that changes only when the picture is presented, to the whole of it, or, if
  there is no double buffer, with the picture.
- **Boot**. `kernel_main` as far as it deals in physical memory, in the order of the
  source: the memory map, the surfaces, the double buffer, the profile; then frames
  (wallpaper, taskbar, one operation under or over the taskbar, present) between which
  the other clients of the PMM allocate and free. Touching memory above the identity mapping of `boot.asm` ends in
  `kpanic`; drawing on the placeholder, which is too small, overwrites other data
  (`wild`).
- **Heap**. The list, its header fields and counters are one record, so that an entry
  point is the composition of its calls (grow, take, split, coalesce). Headers that
  were merged away remain in memory as `stale`: this is what makes the second free of
  such a pointer a question at all. History fields record the memory given to the heap
  and whether two blocks that do not touch were ever merged (`seam`).
- **VMM** / **AddressSpace**. `vmm_map_page` walks and allocates table after table and
  may fail at any of them. AddressSpace says what this is for: a partial function from
  virtual pages to frames which a failed call leaves alone.
- **Keyboard** / **BoundedQueue**. `keyboard_irq` is atomic; `keyboard_try_read` is
  three steps, between which interrupts may fall. BoundedQueue is a FIFO that refuses
  only when full and delivers what it accepted.
- **MainLoop**. `kernel_idle` around the reader: the loop over the keys, the rest of the
  frame as one step, and the wait on `timer_uptime_ms` for the profile's frame time,
  with keyboard and timer interrupts between any two steps. A history variable counts
  the characters that were already waiting when the last frame was drawn.
- **Sched**. Every iteration of the walk to the end of the ready queue is a step.
- **VFS**. The node table with parent, child and sibling links; paths as sequences of
  components. Operations that may run out of memory return sets of outcomes. Its
  actions are the terminal's file commands. `vfs_chdir` rebuilds the working directory
  from the parent pointers in an array of 32 names (`MAX_PARTS`, `vfs.c:220`): of a
  directory that lies deeper the beginning of the path is lost, and `cwd` then names
  another place or none. `CdArrives` is therefore stated for the others.
- **Interrupts**. The two interrupt controllers as the kernel programs them. The
  behaviour of the 8259 itself (masks, cascade, priority) is external.
- **WindowManager**, **Desktop**, **Shell**. The first two are operators on the state
  of `wm.c` and `desktop.c`; Shell is the state machine of the frame, with
  `mouse_irq` between any two of its steps. Geometry is reduced to "covers the whole
  desktop or not", which decides what a pointer can hit; everything else about the
  pointer's position is a free choice of the region hit. Shell assumes that mouse
  interrupts arrive, which is the intended machine; run `irq12` is about whether they do.
- **Loader**. PE images in a memory of words over PMM. `pe_run` up to the call of the
  entry point is one step; the program then calls `exit`, writes, and returns.
  If the PMM has no pages the image goes to the heap, of which only the addresses are
  kept here. Other clients dirty pages before they give them back. `apply_relocations`
  tests no entry of the table (`pe.c:218`): the write lands wherever the entry points,
  in the image, in memory that someone else holds, or beyond memory, where the model
  stops looking (the machine may fault there). Nor does the model look at what the
  kernel's own variables are after such a write: only memory's contents change.
- **Terminal** / **ScrollBuffer**. The character-by-character screen of the terminal,
  its input line, the `h3pkg` database, and `run`. ScrollBuffer lays a whole text out
  and then shows the last rows.

Next to a definition there may be a variant introduced by "A fault:". Nothing uses
these; they are the mutants of `PROJECT.json`.

## Runs and what they show

| Run | Configuration | Expected | Shows |
|---|---|---|---|
| `pmm` | `Boot.cfg` | pass | `BitmapExact`, `AllocationsDisjoint`, `UsedExact`, `OnlyRam` over six memory maps and the fallback without a map, with the framebuffer among the clients; `ProfileNotBelowRam`; drawing and presenting implement Canvas (`ImplementsCanvas`) |
| `heap` | `Heap.cfg` | pass | `BlocksTile`, `ListCoherent`, `LiveBlocksExact`, `UsedExact`, `NoAdjacentFree`, `DoubleFreeIgnored`, `LiveBlocksStable`, up to the first merge of blocks that do not touch |
| `keyboard` | `MainLoop.cfg` | pass | the ring buffer implements BoundedQueue, delivery included; no key waits for a second frame (`KeysInTime`); `FramesGoOn` |
| `vfs` | `VFS.cfg` | pass | `TreeWellFormed`, `BuffersExact`, `RmTakesOnlySubtree`, `FailureKeepsContent`, `CdArrives` |
| `vmm` | `VMM.cfg` | pass | `TablesTree`, and the page tables implement AddressSpace |
| `shell` | `Shell.cfg` | pass | `FocusCoherent`, `WindowsCounted`, `DragCoherent`, `PopupsExclusive`, and `DragEnds` |
| `terminal` | `Terminal.cfg` | pass | `ImagesFaithful`, `OthersUntouched`, `ExitReported`, `RecordsKept`, and the screen implements ScrollBuffer |
| `present` | `Present.cfg` | violation | `FramesPresented` |
| `heap_merge` | `HeapMerge.cfg` | violation | `OnlyAdjacentMerged` |
| `sched_yield` | `Sched.cfg` | violation | `YieldReturns` |
| `vfs_rename` | `VFSRename.cfg` | violation | `MvMoves` |
| `irq12` | `Interrupts.cfg` | violation | `RequestsServed` |

The five violations are disagreements between the code and what the repository says:

- **present**. The linear framebuffer of a PC lies in the PCI hole below 4 GiB. The boot
  code maps the first GiB and nothing maps more, so the frame is drawn into the double
  buffer and the copy of `fb_swap` to the screen faults (`framebuffer.c:132`,
  `framebuffer.c:287`; `README.md:68` lists the framebuffer under "What works"). The run
  gives the machine enough RAM, so that this is the only thing that can go wrong.
  With the maps of `Boot.cfg` the same property also fails in two other ways: with too
  little RAM the software surface of 1280 by 720 is put on the 2000 words of
  `g_fallback` (`framebuffer.c:148`), and with more than 1 GiB the PMM hands out pages
  that are not mapped (`pmm.c:13`).
- **heap_merge**. `coalesce` merges neighbours on the list; an expansion is put in front
  of the list, so the neighbour may lie elsewhere (`heap.c:55`; the comment at
  `heap.c:5` says adjacent blocks). The merged block's extent covers memory that is not
  the heap's. The run uses `kmalloc` and `kfree` only, the calls the kernel makes.
- **sched_yield**. Tasks are queued when created and again when they yield; a task that
  is queued twice ends up linked to itself and the walk never ends (`sched.c:70`).
- **vfs_rename**. `vfs_copy` returns a byte count and `vfs_rename` takes any value but 0
  for failure, so `mv` of a file that is not empty copies it and fails (`vfs.c:203`).
- **irq12**. `irq_install` opens a line of the slave controller and not line 2 of the
  master, through which the slave is connected (`idt.c:70`, with the masks of
  `idt.c:52`); a request of the mouse stays latched for ever.

## Bounds

All bounds are constants of the modules. Sizes are small but keep the relations that
matter in the source.

- `pmm`: 16 pages of four units, so that entries and the kernel can end inside a page;
  maps with holes, with RAM beyond the bitmap and with a reserved entry far above. The
  mapping ends one page below the bitmap. Surfaces are four by three, those of a tag with
  a padded row: room for shapes that start and end on either side of each edge. One
  operation per frame is drawn besides wallpaper and taskbar; what a primitive does to a
  surface does not depend on what is on it. Coordinates wrap at 64, far from the edges,
  as 2^32 is. Some maps leave room for two surfaces and other clients, some for one
  surface, some for none. `present` has the same bounds and one map.
- `heap`: header 2, alignment 2, pages of 4, an arena of 12 units and memory for two
  expansions; requests that split, fit exactly and force growth. `CONSTRAINT Intact`
  stops at a merge of blocks that do not touch, which `heap_merge` shows to happen and
  after which no property of the heap is claimed. `VIEW Readable` drops what no code
  can read: the contents of headers that left the list, except where they stand.
- `keyboard`: four slots hold three characters, enough for wrap-around, full and empty.
  The clock has 100 ticks a second and a frame of 60 a second takes 16 ms, as in the
  source: the wait ends with the second tick. `ELAPSED_MAX` lets one more pass.
- `vfs`: five nodes, of which two are free, so the table fills; six paths that reach the
  same nodes in different ways; every allocation may fail. `MAX_PARTS` is two, which
  some of the directories reach.
- `vmm`: two entries per table, five pages for new tables and virtual pages that need
  six, so allocation fails at every level. The frames are symmetric.
- `shell`: two windows, the least with which focus can move, a window can be closed
  behind another and the limit can be reached. Most of the state space (650 thousand
  states) is the product with the popups and buttons.
- `terminal`: seven pages of which four are free, so that three runs exhaust memory and
  the heap is used; files with overlapping sections, sections that do not fit, a table
  that is not copied, and a damaged table with an entry behind the image and a word named
  twice. Each exception in `ImagesFaithful` and `OthersUntouched` is needed with that
  file: without it TLC finds the property violated. A screen of two by two; a database
  buffer of two records with a database of three.
- `sched_yield`: three tasks; two suffice. `irq12`: the three lines the kernel installs.

## Fairness

- MainLoop and Shell: weak fairness of the main loop's own step (`kernel_idle`). No
  step of the loop waits for anything but time, and interrupt handlers return. In
  Shell this includes that the loop leaves its `while` over the keys, that is, that
  nobody types faster than the loop reads for ever. In MainLoop, where that loop is
  modelled, it is the premise of `FramesGoOn` and not assumed otherwise; there the timer
  ticks (weak fairness of `timer_irq`: line 0 is open, `idt.c:52`, and the periodic mode
  of the PIT needs no further care). The other interrupts have no fairness.
- Sched: weak fairness of the steps inside `sched_yield`. It holds the processor, so
  nothing but its own loop can keep it from returning.
- Interrupts: weak fairness of boot and dispatch, strong fairness of the delivery of
  each line, the most favourable assumption for the code: even so line 12 is not served.
- The other modules state safety only.

In Boot a kernel that is dead stutters (`Halt`), as `kpanic` does.
`Terminal.cfg` turns deadlock checking off, since `shutdown` ends the system. In Shell
mouse interrupts go on after the power is off.

## Proofs

The theorems hold for every value of the constants that satisfies the named assumptions
of the module; TLC evaluates those assumptions on the instances.

**Counting** holds what the proofs need and the libraries do not give in a usable form:
a finite set of numbers has a least and a greatest element, sums over finite sets do not
depend on the order, and recursive functions and folds exist and can be reasoned about
step by step. The library's induction theorems take an operator as parameter, which the
provers cannot instantiate. Counting gets by without one: a property of numbers is the
*set* of the numbers that have it. A set of numbers that has 0 and with each number its
successor has them all, since otherwise the numbers missing below some m would have a
least one (`SetInduction`, from `LeastExists`, which rests on the cardinality theorems);
`IntervalInduction` and `SubsetInduction` are the same for intervals and for the sets a
fold runs over. `IterationExists` and `FoldExists` then say that the functions behind
`LET f[k \in S] == ...` and `FoldLeft` satisfy their equations.

**PMMProof**: `TypeCorrect`, `Bitmap`, `Disjointness`, `Accounting`,
`RamOnly`, that is `Spec => []P` for five of the invariants of run `pmm`. `Spec` is
PMM with arbitrary clients; ClientsProof connects it to the kernel. Assumed are a
positive page size, low memory that ends on a page, a kernel that ends above it, a
fallback within the bitmap, and finite memory maps. None of the invariants is inductive
as it stands. The inductive one adds that nothing is held before boot (`Unbooted`), that
held runs lie below `total_pages` (`Below`), apart from each other (`Apart`) and outside
the reserved pages (`Outside`), and that `BitmapExact` and `UsedExact` hold: freeing a
run leaves the rest of the bitmap exact only because no other run shares a page with it,
and the count moves with the bitmap only because the run lies below `total_pages`.
Lemmas about rounding (`PageBounds`) and cardinalities (`DisjointUnion`, `ScanCounts`)
come first, then one lemma per action.

**ClientsProof**, on Boot: `BootUsesPMM`, that is `BootSpec => Spec`: every step of the kernel of
Boot is a step of a client of PMM or leaves the memory manager alone. It needs that the
page counts of the surfaces are among those clients ask for (`SurfaceCounts`), and the
invariant that the double buffer is as large as the surface chosen before it. The
invariants of PMM, for every memory map, framebuffer tag and surface size, follow for
Boot (`BootBitmap`, `BootDisjoint`, `BootAccounting`, `BootRamOnly`). `ProfileKept`
(`ProfileNotBelowRam`) compares the sum of the available entries with the end of the
highest one: entries that do not overlap add up to no more than the end of the last
(`Packed`, by taking away the highest entry), the bitmap cuts off at or above the last
threshold (`RamTracked`), and the profile is monotone in memory (`ProfileMonotone`). It
assumes that thresholds are ordered and within the bitmap, which the 2 GiB of
`adaptive.c` and `pmm.c` satisfy, and that available entries do not overlap, as the
boot loader promises (`ThresholdAssumption`, `RamAssumption`).

**ClientsProof**, on Loader and Terminal: all six properties of run `terminal`, for every
memory size, heap, set of executables, screen size and database: `TerminalTypeCorrect`,
`ImagesKept` (`ImagesFaithful`), `OthersKept` (`OthersUntouched`), `ExitsReported`,
`InstallKeepsRecords` (`RecordsKept`) and the refinement `ScrollBufferImplemented`. The
copying of sections and the relocation table are folds over memory. `PlacedImage` and
`MovedImage` follow them by induction over the indices done so far (`Placing`, `Moving`),
and `LoadedImage` concludes that, whatever was there before, memory then holds the
expected word at every offset of the image that the table does not name twice, and
outside the image what it held, except where the table points. What tables point to
outside their images is `Strays`; both properties leave those words out, no more, and
nothing is assumed of relocation tables. For files whose entries lie in the image and
name no word twice, as a linker makes them, nothing is left out. That images
and clients stay out of each other's memory needs more than the PMM's disjointness: the
invariant says where each image's memory comes from (`Housed`: the heap, or an
allocation with as many pages as the image needs) and that images are apart (`Separate`),
and the lemmas `ImageInSpan`, `KernelApart` and `HousedApart` carry the disjointness of
pages over to addresses. For `ExitReported` the invariant says what a running program has
told so far (`ExitInv`). For the scroll buffer the screen and the laid out text are
compared line by line (`Matches`): a character keeps them matched (`MatchOne`), hence a
text does (`PrintMatches`, induction over both folds at once), and matched they show the
same (`ShownMatches`). Assumed are files made of numbers (`FilesAssumption`), words that
`HALF` divides (`WordAssumption`), and a kernel that lies in the memory the bitmap tracks
with the heap inside it (`ArenaAssumption`).

**HeapProof**: `TypeCorrect`, `Tiling`, `Ownership`, `UsedIsExact`, `FullyCoalesced`,
`ListIsCoherent`, `DoubleFree`, `Stability`: all properties of run `heap`, for any header,
alignment, page and arena size, up to the first merge of blocks that do not touch (the
guard `Intact` of Next). The inductive invariant says of the list that blocks are ordered
without overlap (`Ordered`), lie in the heap's memory (`Covered`) and fill it (`Filled`),
that links are mutual (`Doubly`), that the list has no part which the head does not
reach (`Reached`), that headers which left the list are marked free (`Rejected`) and that
the head begins a region (`Based`); that free neighbours are apart (`Apart`), that
`heap_used` is the sum of the blocks in use (`Tallied`), and of the clients that each
holds a block that is in use and large enough (`Holds`). `Doubly` is needed so that the
neighbour a merge swallows is the one it tests; `Rejected` is why a second free of a
pointer is ignored, as long as its header still stands and its block was not handed out
again (after that `kfree` cannot tell the two holders apart, and nothing is claimed).
`Reached` is stated with sets of blocks that are closed under `next`, which
steps can be proved to keep; that the walk of `kmalloc` meets every block follows by
induction over the walk. `Apart` does not hold inside `kfree` and `krealloc`, so the
lemmas about their parts say where it may fail (`ApartAround`, `ApartBefore`). Each
operator has a lemma that reads off the fields of its result and one that it preserves
the invariant; the actions compose them.

**VMMProof**: `TypeCorrect`, `TablesAreATree`, and the refinement
`AddressSpaceImplemented` (`Spec => ImplementsAddressSpace`, which has no fairness), for
every number of entries per table, set of pages and boot mapping. Both properties speak
of the tables that can be reached, and nothing would say what the others hold; the
invariant gives every table its level (`Ranks`), lets entries lead one level down
(`Descends`), from one place only (`Once`), and every table that was taken be linked
somewhere (`Held`). With it two virtual pages meet at an entry of the last level only if
they are the same page, so that a store changes one mapping, and a table that was linked
by a call that failed later is empty and changes none.

**VFSProof**: all six properties of run `vfs`, for every table size, set of names, seeded
hierarchy and set of paths: `TypeCorrect`, `TreeKept`, `BuffersKept`, `FailureKeeps`,
`ChdirArrives`, `RmTakesSubtree`. Assumed are that names are none of the special ones and
that paths are made of components. The lists are recursive through `sibling` and
nothing bounds them by itself. What does is the order of allocation: a node is younger
than its parent (`Parented`), and a list runs from the youngest kid to the oldest
(`Threaded`), where the kids of a directory are the nodes that point to it and were not
unlinked. So a list ends, is exactly the kids (`MembersAreKids`), and the way up reaches
the root (`UpDepth`). `Distinct` (names in a directory) and `Counted` (buffers) complete
the invariant. Paths lead to *attached* nodes, whose parents lead to the root through
links under proper names (`FollowStays`); a file called `.` or `..` can be made and not
be found again, and is not attached. `ChdirArrives` goes down the path as the parents go
up it (`PathLeads`). `RmTakesSubtree` takes `Below` for the least set that is closed
under kids (`BelowLeast`) and compares those sets before and after (`CutReach`).

**MainLoopProof**: `TypeCorrect`, `NoKeyLags` (`LoopSpec => []KeysInTime`) and
`ImplementsQueueSafely`, the refinement of BoundedQueue without its fairness, for every
size of the ring buffer, every set of keys and every frame rate. The inductive invariant
adds that the characters left over from the last frame are among those waiting
(`Behind`), that one is waiting when the reader moves the tail (`HasNext`) and that the
reader holds the one at the tail (`HasRead`), which is what lets the interrupt fall
between the reader's steps; lemmas about distances on the ring (`RingDistance`,
`RingMoves`, `RingSlots`) do away with the remainders.

**ShellProof**: `TypeCorrect`, `FocusIsCoherent`, `WindowsAreCounted`, `DragIsCoherent`,
`PopupsAreExclusive`, for every table of windows and every limit of the profile. The
invariant has one part for the window manager (`Focus`, `Count`, `Drag`) and one for the
desktop, and each operation of either keeps its part. Focus and drag need each other:
the press that closes a window focuses it first and only counts when there is no drag,
so that the closed window is neither.

Only model-checked: liveness and everything stated with fairness (`DragEnds`, the
delivery part of `ImplementsQueue`, `FramesGoOn`, `YieldReturns`, `RequestsServed`),
since the prover handles neither fairness nor ENABLED; and the refinement of Canvas,
which the plan takes up.

## What is not modelled

What is drawn where, themes, the bitmaps of the font and the wording of output; RTC and
PCI, which are read through ports into tables that nothing but a log and the clock
display uses; the walk over the boot loader's tags; file modes, owners and the lengths of
names; `pe_probe`'s single tests and entry points' own code; processor exceptions other
than the page fault of a surface, which all end in a panic; `wm_resize`, `krealloc` from the kernel and the VMM's mappings from the
kernel have no callers (the last two are modelled all the same). IPC, system calls and
security are tables without callers; FAT32, ext2, H3FS and the network are placeholders.

Known behaviours that no run is about: a press that arrives between the frame's
snapshots and `mouse_poll_frame` is lost (Shell has it); `pe_run` never gives an image's
memory back (Loader has it); `terminal_open` clears the screen all terminals share, even
when no window can be opened (Terminal has it); `h3pkg remove` leaves the record in the
database (Terminal treats it as a command that only prints); the profile may be higher
than the RAM deserves, since a reserved entry high up in the memory map counts as RAM
(`adaptive.c:15`; `tests/TESTPLAN.md:27` says "Adaptive profile matches RAM size", and
Boot has such a map); a click is tried on the desktop's icons before the windows that
may cover them (`desktop.c:486`).

## Plan

Modelled, checked and in part proved so far: everything in the list of modules above.
In this order, next:

1. Window manager: state that a shown window is drawn. A click in the taskbar can
   minimise the window that is being dragged, and its release at an edge makes it normal
   while `focused` is NULL and its flag set; `wm_render` (`wm.c:173`) then draws it in
   neither of its passes. Also the geometry of a maximised window that is minimised and
   restored (`wm.c:70`; `README.md` promises "min / max / close like Windows").
2. Locks (`kernel/sync/sync.c`): mutual exclusion of mutex and semaphore over the
   spinlock, and the comment that spinlocks are IRQ-safe although they leave interrupts on.
3. Proofs: the drawing primitives of Framebuffer as painters of a Canvas, which is the
   one refinement without fairness that only TLC checks.
4. IPC and system calls, once they have callers.

## How to run

    tlc -workers 2 -config Boot.cfg MCBoot
    tlapm PMMProof.tla

and likewise for the other runs and proofs. The longest runs (`shell`,
`terminal`) take a minute or two.

# Night kernel: TLA+ models, checks and proofs

Specifications of the Night kernel (32-bit x86, C and assembly, `src/`).  The
modules translate the C code; TLC checks them on small instances, and TLAPS
proves the main results for every size.

## The system

| part | source | state it keeps | operations |
|---|---|---|---|
| physical memory manager | `kernel/src/mm/pmm.c` | bitmap of 4 KiB blocks, `used_blocks`, `max_blocks`, `kernel_end` | `init_pmm`, `pmm_init_region`, `pmm_deinit_region`, `pmm_alloc_page`, `pmm_alloc_pages`, `pmm_alloc_aligned_large_page`, `pmm_free_page(s)` |
| kernel heap | `lib/liballoc/src/liballoc.c`, `hooks.c` | list of majors (runs of pages), lists of minors (allocations), `l_bestBet`, totals | `kmalloc`, `kcalloc`, `krealloc`, `kfree` |
| paging | `kernel/src/mm/paging.c` | page directory and tables (recursive slot 1023), `p_online` | map, unmap, allocate, translate |
| screen | `kernel/src/drivers/scrn.c` | cursor, colour, lock, tab stop, 80x25 text | `putch`, `puts`, `cls`, `scroll`, `tab_stop` |
| keyboard | `kernel/src/drivers/kb.c` | last character | `keyboard_handler` (IRQ 1), `get_char` |
| timer | `kernel/src/drivers/timer.c` | ticks, seconds | `timer_handler` (IRQ 0), `sleep`, `sleepP` |
| IRQ dispatch | `kernel/src/cpu/irq.c` | handler table, the two PICs | install, remap, `irq_handler` with end-of-interrupt |
| exceptions, IDT, GDT | `kernel/src/cpu/` | tables filled at boot | `fault_handler` stops the machine |
| file system | `kernel/src/fs/fs.c` | tree of `fs_node` | `add_dir`, `get_file`, `make_file`, read, write, mount |
| tar ramdisk | `kernel/src/fs/tar/tar.c` | `files[]`, `tar_root` | `parse`, `tar_read` |
| boot | `kernel/src/kernel/kernel.c`, `start.s` | order of initialisation | `kmain` |
| libk | `lib/libk/src/` | `strtok`'s position | strings, memory, `printf`, `kpanic` |

How they interact.  `kmain` initialises the parts in order with interrupts off,
then enables them and sleeps.  The heap takes and returns runs of pages through
`liballoc_alloc` and `liballoc_free`, which are `pmm_alloc_pages` and
`pmm_free_pages`; paging takes single pages for tables and mappings; `make_file`
and the tar parser allocate from the heap.  There is one thread; concurrency
comes from IRQ 0 (timer) and IRQ 1 (keyboard), whose handler prints to the screen
the main thread prints to.  `liballoc_lock` does nothing, and no handler
allocates.  `kpanic` prints and RETURNS: every caller goes on after it.

What is hard: a heap and a memory manager whose errors show many calls later;
u32 arithmetic that wraps; block 0 used as "no block"; failures of an inner
allocation in the middle of an outer operation; interrupts between any two
instructions of the screen driver; waiting loops that depend on interrupts.

What makes each part correct:

- memory manager: no block has two owners, what is held is marked, block 0 is never
  given away and the kernel only when the memory map, passed after `init_pmm`, calls
  it usable, the count moves with the bitmap;
- heap: headers and allocations never overlap, the lists and totals are
  consistent, pages held are the pages of the majors, a call always returns;
- paging: a virtual page maps the frame it was given, no frame is mapped after it
  is freed, an allocation that gives up in the middle loses no frame;
- screen: under any interleaving the cursor comes back to the screen, and no write
  misses it by more than a row;
- timer and IRQ: every raised interrupt is served, a sleep ends;
- file system: a lookup answers what a walk of the tree by the code's rules does (which
  let a path find any entry whose name begins with it, and only the first two files of
  the ramdisk), and a node reads the data of its own member.

## Modules

| module | what it is |
|---|---|
| `Frames` | abstract: frames are available or taken; grant, return, donate, withdraw |
| `Pmm` | the memory manager, all operations; implements `Frames` |
| `PmmScan` | the two bitmap scans loop by loop, compared with the closed forms of `Pmm` |
| `PmmProofs` | the proofs about `Pmm` and `PmmScan` |
| `LeastElement` | a non-empty set of naturals has a least element: what the proofs about searches and lists rest on |
| `Blocks` | abstract: aligned, disjoint blocks of memory handed to callers |
| `Heap` | liballoc, extends `Pmm` and calls its operators; implements `Blocks` |
| `HeapListProofs` | what linking and unlinking a minor or a major does to the lists, for every list |
| `HeapProofs` | the proofs about `Heap`, over those lemmas and the proofs about `Pmm` |
| `Paging` | page directory, tables and TLB, extends `Pmm` and takes frames from it |
| `PagingProofs` | the proofs about `Paging`, over those about `Pmm` |
| `Irq` | gates, interrupt controllers, dispatch, timer, and the main thread from `idt_install` to its waiting loops |
| `IrqProofs` | the proofs about `Irq` |
| `Console` | the screen, printed to by the main thread and by the keyboard interrupt |
| `ConsoleProofs` | the proofs about `Console` |
| `Fs` | the tree of nodes, the ramdisk mounted in it, `strtok` and the lookup of paths |
| `FsProofs` | the proofs about `Fs` |
| `MCPmm`, `MCPmmScan`, `MCHeap`, `MCPaging`, `MCConsole`, `MCFs` | instances for TLC (`Irq` needs none) |

### Pmm

`bitmap` is the set of bits that are 1; `used_blocks` is kept modulo `U32`.  A
loop over `mmap_set` or `mmap_unset` is one step (`mmap_set_run`,
`mmap_unset_run`).  The scans are stated in closed form (`mmap_find_free`,
`mmap_find_free_frame`), with the code's quirk: `first = 0` means "no run yet", so
a run starting at bit 0 would be returned as 1.  `report` is what the last
`pmm_alloc_page` told its caller.

External: `held` counts for every block how many callers have it; they free only
what they hold.  `todo` is the part of the memory map not yet passed to
`pmm_init_region` or `pmm_deinit_region`, `usable` the blocks that the last entry passed
about them calls usable (a history variable: no action reads it).  The loop of `init_pmm` that would pass it
is commented out in this version, so the kernel as it boots has no free block and
every allocation fails; the operations are exported, and the model lets their
caller pass the entries in any order, each once, while nobody holds their blocks.
Assumed of the memory map: it lies inside the bitmap, which the code does not check.
It may call the kernel's own blocks usable, as the map of a real machine does.  The source
has the loop before the call that reserves the kernel, so that the order repairs this; with
the loop commented out, a map passed later does give the kernel's blocks away, and
`OnlyUsableGiven` says that nothing else does: a block is free or with a caller only if
the last word about it was that it is usable.

### Heap

A header is a record under its address (`major`, `minor`).  `call` is the position
and the locals of the running call; `given` is external, the pointers callers
hold, with the offset byte `ALIGN` leaves below each.  One step of `MajorTurn` or
`MinorTurn` is one turn of the loops of `kmalloc`, CASE 1 to 5 of the code being
their disjuncts; `krealloc` that must move runs `kmalloc` and then `FreeOld`,
which frees the old block also when there is no new one, as the code does.

Two properties are stated so that they can be reasoned about.  The totals are compared with
the numbers of bytes that minors and majors cover, not with sums.  That every major is on the
list is said without recursion: every set of majors that contains `l_memRoot` and, with a
major, the next one contains all of them, and the links agree in both directions.

Callers pass only pointers they hold and write only inside their blocks; the
checks of the magic number can then not fail and are left out, as are the
counters of warnings and errors and the contents of memory.  `kcalloc` and
`krealloc` write through a NULL result when memory is exhausted; contents being
abstracted, the model shows only that the old block is lost.

### Paging

`dir` and `table` are the directory and its tables; a table is kept under the
frame it lies in, so two directory entries with one frame share it.  `call` is the
running call of `paging_map_pages`, `paging_unmap_pages` or `paging_alloc_pages`;
one step is one turn of its loop, and the frames come from the operators of
`Pmm`.  When memory runs out while a table is made, the code does not notice and
the table is in frame 0, which nobody was given; this goes well, since block 0 stays marked.
The next one that finds no memory is the same table (`TableShared`), so two parts of the
address space show the same entries.  What the properties promise then ends: a range mapped in both parts is unmapped once and then again with
entries that are 0, which frees frame 0, after which every `pmm_alloc_page` finds block 0
and reports failure for ever.  Until two directory entries share the table in frame 0,
`FreeMemoryIsFound` and the others hold.

External: `tlb`, followed for the pages of `Watched`, with the processor loading an
entry at any time; `hand`, the frames callers hold and have not mapped;
`unflushed`, the pages they unmapped and have not invalidated.  With `Careful` they
ask `paging_get_page` before they map or unmap.  Nothing in this version turns
paging on, and `init_paging` runs before `init_pmm`, when `pmm_get_kernel_end()` is
still 0, so it maps no page; the exported operations are what is modelled.  Flags
and the recursive entry are left out.

### Irq

`irq_handler` in two steps: `RunRoutine` (the handler in the table) and `SendEoi`
(slave, then master).  `main` is the thread of `kmain` from `idt_install` on: the
gates (`idt_install` clears them, `isr_install` sets 0 to 31, `irq_install` remaps the
lines and sets 32 to 47), the two installs of handlers, `sti`, and then, in any order,
`sleep`, `sleepP`, `get_char` and whatever does not wait.  A turn of a waiting loop is
one step.  `idt` says where the gate of a vector leads, `offset` where the controllers
put their lines; `Enter` is the stub of `start.s`, which pushes the vector.
`InterruptsReachTheirGate` is what the order of the boot is for: before `irq_remap` the
timer would arrive as a double fault, and `fault_handler` halts.

External: the two 8259 controllers (`irr`, `isr`, priorities, the slave at line 2),
the processor, which takes a pending interrupt before the next instruction of the
main thread, and the devices.  Handlers do not nest, because interrupt gates
clear the flag.  A device raises its line again only after the main thread has gone
on once (`ready`): a tick is 55 ms.  The keyboard raises its line again only after
its byte has been read.  Before `irq_install` the controllers are not initialised and
no device is heard.  `Noise` is a spurious interrupt, without a device: it comes on line
7 of the master, which then has nothing in service, or as line 15, where the master has
line 2 in service and the slave nothing.  `slept` counts the ticks handled since a sleep began.

### Fs

`node` and `cell` are what lies at an address: a node, or a section number of
`mkfile`.  `call` is the running call: `init_fs`, `init_tarfs`, one turn of the loop of
`parse` for a member of the archive, the mount, or one turn of the loop of `get_file`.
A path is a sequence of characters, since prefixes and slashes decide; `strtok` cuts it
in the caller's `buffer` and keeps its place in `left`.

What the code does, and the model with it: `add_dir` enters two files and leaves out
every later one, so only the first two files of a ramdisk can be found; `get_file` takes
the first entry whose name BEGINS with the component, and for an empty component, at
the end of a path, any; below a plain file it goes on into the section number, and in an
empty directory into address 0.  Where the code takes for a node what is none, or writes
behind `files`, the model ends (`Astray`), and the properties say when that may happen.

External: `memory` is the largest request `kmalloc` still grants.  No result is looked
at: what gets NULL is written at address 0.  As the kernel boots, no memory region is
ever passed on, every request fails from the first, all nodes lie over each other at
address 0, and nothing is found (`LookupResolves`); with all memory, the lookups answer
what a walk of the tree does.  The archive is a sequence of members with names,
sizes and the addresses of their headers: the first at 0, each right behind the padded data of the one
before, which is the format; callers make directories, add each once, look up, and read only what they found.
`fs_write` calls the same function of a node as `fs_read` and is no action of its own.

### Console

The kernel is built without optimisation (`-O0`), so each statement of the main
thread that touches the cursor is a step, and `csr_x++` is a read and a write.  The
keyboard interrupt runs between any two of them and is one step, since nothing
interrupts it.  A fill or a copy of rows is one step.  `Script` is what the main
thread prints: output while the screen is locked, then `cls` and `terminal()`.
`stray` collects the addresses outside the 80x25 cells that were written.  Colours
and the hardware cursor are left out; a cell keeps only who wrote it.

## Runs

Deadlock is checked in every run.  The real sizes are scaled down: words, pages
and headers keep their proportions only as far as the cases of the code need.

| run | instance | shows |
|---|---|---|
| `pmm` | 12 blocks in a bitmap of 16, words of 4 bits, large pages of 2 blocks, runs up to 3; five map entries: low memory that reaches into the first of the kernel's blocks 3 and 4, the call that reserves the kernel, two usable ones that overlap (`used_blocks` wraps), an unaligned reserved one | the five invariants, `AccountingExact`, `ImplementsFrames` |
| `pmm_scan` | all 2^13 bitmaps of 13 blocks: three words and a partial one | `ScansAreClosedForms`: the loops equal the closed forms for every size |
| `heap` | 3 pages of 18 units: up to three majors, one- and two-page majors | `MajorsLinked`, `PagesAccounted` |
| `heap_gaps` | 2 pages of 24 units: up to six minors in a major, gaps before, between, behind | `HeapTypeOK`, `MinorsInOrder`, `TotalsExact`, `AskedBytesFit`, `ImplementsBlocks`, `GrowsOnlyWhenFull`, `CallsReturn` |
| `paging` | 4 frames, three tables of two pages, ranges up to 3, page 1 watched, careful callers | `PagingTypeOK`, `FramesHaveOnePlace`, `StaleOnlyIfUnflushed`, `FreeMemoryIsFound`, `OnlyNamedPagesChange` |
| `irq` | lines 0, 1, 8, 12, spurious interrupts as line 15; 2 ticks a second, 7 ticks; sleeps of 1 and 2 | `IrqTypeOK`, `InterruptsReachTheirGate`, `NothingLeftInService`, `EveryIrqServed`, `KeysRead`, `SleepLongEnough`, `SleepNotTooLong`, `SleepEnds` |
| `fs` | blocks of 2 bytes, 3 places in `files`, five archives of 0 to 4 members, 3 directories, 11 paths, memory that is there, runs out or never was | `FsTypeOK`, `LookupResolves`, `MountKeepsToTheTree`, `ReadsOwnMember`, `EntriesStay`, `LookupEnds` |
| `console` | 4x2 screen, tab 2, every kind of key, without limit | `ConsoleTypeOK`, `StraysStayNear`, `CursorOnScreen`, `PromptKept` |
| `pmm_exhaustion` | as `pmm` | violated: with nothing free `pmm_alloc_page` does not reach its panic |
| `heap_overflow` | as `heap_gaps`, requests 4 and U32 - 3 | violated: a request near 2^32 wraps and is granted a few bytes |
| `paging_remap` | as `paging`, callers that do not look | violated: mapping over a present page panics, and `kpanic` returns, so the old mapping is overwritten |
| `irq_sleep` | as `irq`, sleeps of 0 and 1 | violated: `sleep(0)`, interrupted by the tick that ends a second, waits 2^32 seconds |

Bounds.  `MaxRequest` (largest run asked of the manager), `Requests` and `Objects`
(sizes asked of the heap), `Regions` (memory map), `MaxPages` and `Watched` (paging),
`Sleeps` and `MaxTicks` (timer), `Archives`, `Names`, `Paths` and `MaxDirectories` (file
system).  Twelve blocks allow runs
across words, runs that fail for fragmentation, and a large page inside a run.
Three majors are the least for unlinking a middle one; three minors in a page are
the least for a gap between two.  A unit of the heap is 8 bytes, so that a header
of 24 bytes is 3 units and an alignment of 16 is 2: allocations start at odd and
even distances, and `ALIGN` pads some.  `U32` is the modulus; in the passing heap
runs no sum reaches it, in `heap_overflow` one does.  Four frames are the least with
which two tables exist and two pages are mapped, and few enough that memory runs
out at every allocation of paging; with three tables, two can be made without memory
and be the same one.  Lines 8 and 12 share the slave, so one can wait
for the other's end of interrupt; seven ticks hold a sleep of two seconds that begins
inside a second; the counter does not wrap.  The archives hold sizes that are and are not
multiples of a block, an empty file, a name that begins another, three files (one more
than a directory takes) and four (one more than `files` takes); the paths have slashes
at either end and twice, components below files and in empty directories, and names
that are only prefixes.  Line 15 is the spurious interrupt both controllers take part in; line 7
is covered by the proofs.  Two rows are enough to scroll by one
or, after a key in the wrong place, by two.

Fairness.  `heap_gaps` (`CallsReturn`): weak fairness of the steps inside a call; the
thread that runs it is never blocked, and interrupts return.  `irq`
(`EveryIrqServed`, `KeysRead`, `SleepEnds`): weak fairness of the main thread, of the
two steps of a handler, of the processor taking an interrupt, and of the timer, a
free-running oscillator; no other device is assumed to raise anything.  `fs` (`LookupEnds`): weak fairness of the
turns of `get_file`, which waits for nothing.

Because `init_pmm` counts the kernel's blocks twice and `pmm_init_region` counts
block 0 once more, the manager refuses runs while blocks are free: with n free
blocks the heap instances can use n - 2.  `AccountingExact` states what remains
true: allocating and freeing keep the error constant.

## Proofs

`PmmProofs`, for all values of the constants that `PmmAssumption` and
`RegionsAssumption` allow.  The inductive invariant `IInv` is the conjunction of
the five invariants of `pmm`: `HeldAreMarked` is what keeps a scan from returning
a held block, `BlockZeroReserved` is what makes the scan's result a run that is
free from end to end (`FoundRunIsFree`), `NoDoubleAllocation` is what makes a
freed block nobody's, and `OnlyUsableGiven` ties free and held blocks to what the
memory map said of them.  From it follow the theorems `TypeCorrect`, `NoBlockGivenTwice`,
`HeldBlocksStayMarked`, `BlockZeroStaysReserved`, `OnlyUsableIsGiven`, `KernelIsSafe`, and
`ImplementsFramesThm`.  `KernelIsSafe` excludes no memory map inside the bitmap: the
kernel's blocks are marked and nobody's as long as none of them is `usable`, which is so after `init_pmm`, ends only with
an entry that names one of them as usable, and is so again after the call that reserves
the kernel.  The refinement: allocation is a Grant, freeing a Return, a usable region a
Donate and a reserved one a Withdraw.  That `init_pmm` leaves nothing free rests
on words being whole bytes (`WordsInsideBytes`).  `AccountingIsExact` counts: the bits a
run sets or clears number what `used_blocks` moves by, and `RemaindersAgree` carries this
through the modulus.  `ScansFindTheFirst` is about the loops of `PmmScan`: `Counting` says what
`first` and `count` are at a bit (`CountsAnew` behind a used bit or a skipped word, `CountsFree`
at a free one), and the two scans agree with the closed forms from the last bit down.

`PagingProofs`, for every size of memory, directory and tables, with `Careful` callers.
`PagingInv` says that until two directory entries share the table in frame 0 every taken frame
is a table, mapped at one page, in the hands of a caller or on its way into a table
(`OnePlace`), that what a call has still to do is as its caller found it (`CallOK`), and that the TLB agrees with the tables but
for `unflushed` pages (`Translated`).  It is `IInv` of `PmmProofs` that makes a frame that was
found a free one, and that keeps everybody else away from the first table in frame 0.  Tables in
frame 0 stay there (`DirKept`), so nothing has to be said of the steps after two share it.

`ConsoleProofs`, for every size of the screen, script and key.  The invariant says, for each
position of the main thread, where the cursor may be and which old value of it the thread
carries (`CursorNear`, `LocalNear`).  The statements at which a key finds the cursor beside
or below the screen are `RightOfScreen` and `BelowScreen`; `KeyReturnsToScreen` shows that a
whole `putch` of the interrupt brings it back.  A screen has at least two rows: with one row
`scroll` would blank what is outside.
`PromptStays` is about a script that ends with `tab_stop`, as `terminal()` does.
Its invariant (`PromptInv`) is that nothing of the keyboard lies before the tab stop and the
cursor not in front of it (`Clear`), from the statement on at which `tab_stop` reads the column;
`KeyKeepsClear` shows that a whole `putch` keeps this, with every scroll moving the stop up by
a row.

`IrqProofs`, for every set of lines with devices and of spurious interrupts.
`InServiceExact` says what is in service: the interrupt that is handled, and line 2 if it
came from the slave; of a spurious one only line 2, or nothing.  The lemma `EoiEnds`
shows that the two ends of interrupt then empty both controllers, and
`AllIsAcknowledged` follows.  `Prepared` says that interrupts are off until the gates are
set and the lines moved, and that nothing undoes this; it makes the vector of line l
equal l + 32 (`VectorOfLine`), which `InServiceExact` needs to know which line is
handled, and gives `GatesAreReady`.  `TypeCorrect` is the type.  The lengths of sleeps rest on
`ClockInv`: `secs` is `timer_ticks` divided by the ticks of a second, and a sleep waits for a
value counted from the tick at which it began.  `SleepsAreLong` follows by the arithmetic of
`SecondsApart`.  `SleepsEndInTime` needs `InTime` as well: between two looks of the main thread
there is at most one tick, raised, waiting or handled, and before it the time was not over.
Both are about the time until the signed tick counter turns negative (`NoWrap`: 2^31 ticks,
about four years), the second about sleeps of at least one; `irq_sleep` shows why.

`HeapProofs`, for every size of headers, pages and memory and every set of requests, as long
as no size computed from a request leaves u32 (`NoOverflow`).  The code does not check this:
`heap_overflow` shows what happens otherwise.  The inductive invariant `HInv` has five parts.
`IInv` is that of the memory manager: a run it grants is not held, so a new major overlaps no other.
`HeapShape` is what the lists look like: majors on runs of pages of their own, linked both ways
with nothing left out, minors in the order of their addresses inside their major, the totals
equal to the bytes covered, and the pages held those of the majors.  `CallOK` says where the
running call is, and that its size is what was asked plus the alignment.  `NoEmptyMajor`: the one major without
minors is the one the search has just added, and it is large enough.  `GivenOK` pairs pointers
and minors: every pointer that is out, and the one `krealloc` is about to return, is the aligned
end of the header of a minor, and every minor has one.  It is what makes `kfree` and `krealloc`
find a header and not something else.  `HeapListProofs` has what linking and unlinking does to
lists of any length; the theorems are `HeapTypeCorrect`, `MajorListIsWhole`,
`MinorsNeverOverlap`, `TotalsStayExact`, `FreedMemoryGoesBack` and `CallersGetTheirBytes`, and
`HeapImplementsBlocks`, where what a caller holds becomes a block of `Blocks`.
`GrowsOnlyWhenNothingFits` needs more (`SearchOK`): a search that starts at `l_bestBet` starts
again at `l_memRoot`, so what counts is a search that did not, or does no more; it has been in
majors that lead from the root to where it is (`Passed`), none of which has a gap, and has found
none before the minor it is at.  At the end of the list that set is closed, so it is all
majors.

`FsProofs`, for every archive, path, name, and place where memory runs out.  `FsInv` has four
parts.  `StoreOK`: addresses are given out one after the other, nodes and section numbers
lie at different ones, and a node that reads leads through its section number and `files` to
the member with its name and size.  `RootsOK`: what root and tar_root are.  `SupplyOK`: while all memory was
granted directories contain only nodes, and when none was there is nothing but address 0; in
between the code can go astray, and the property says so.  `RunOK`: `parse` has as many headers behind it as
entries in `files`, and is at the next one, because what it adds to its address is a header and the
padded data (`AdvancePads`), and the buffer of a lookup stays ended by NUL (`StrtokStays`).
The theorems are `FsTypeCorrect`, `MountStaysInside`, `NodesKeepTheirMember`, `LinksStay`,
`EntriesAreKept` and `LookupsResolve`.  `EntriesAreKept` needs that a list has at most two entries (`TwoEntries`): a node that
is second ends its list and is the first of none, which holds because whatever is added is
listed nowhere yet (`Unlisted`), the node of the ramdisk included until it is mounted.
`LookupsResolve` says that `get_file` answers what `Resolve` does.  Its invariant (`LookingOK`) is
that what the walk would still find from the entry and the place the lookup is at is what it was
to find from the root; `StrtokSpells` shows that strtok takes the next token of the path and
leaves behind it the rest of the path as it was (`Spells`).

That there is a least element, of the runs first fit may pick, of the ends of a token, of the
places of a list that are wrong, is `LeastExists`; it is derived from the
well-foundedness of strict inclusion on finite sets, because the induction
theorems on naturals take an operator parameter.

Recursion, in the scans and in the walk of `get_file`, is written as recursive functions.  That
such a function exists is not taken for granted: it is built up in the proofs
(`FrameScanIsFirst`, `WalkExists`), with the least number of steps for which it could not be.

Only model-checked: liveness (`CallsReturn`, `LookupEnds`, `EveryIrqServed`, `KeysRead`,
`SleepEnds`), which is out of the prover's reach.  Every other property of the passing runs is
proved.

## Not modelled

Left out:

- the GDT, constants written once, and `fault_handler`, which prints and halts;
- formatting (`printf`, `vsprintf`), copying, and the parts of libk and `irq.c` nothing
  calls (`strdup`, `ssplit`, `sprintf`, `irq_uninstall_handler`);
- colours and the hardware cursor: `move_csr` can be interrupted between the choice of
  a register and the write to it, which the next call repairs;
- contents of memory: what `kcalloc` and `krealloc` write through NULL, and how many
  bytes `tar_read` copies;
- one module for the whole of `kmain`.  The parts of the boot meet in few places, and
  each is where it matters: gates, lines and `sti` in `Irq`, `init_paging` before
  `init_pmm` in `Paging`, `init_fs` and `load_mods` with no memory at all in `Fs`;
- the build files and the ramdisk tool.

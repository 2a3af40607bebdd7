# A TLA+ verification of the Cavern kernel

Cavern is a microkernel for 64-bit ARM. `src/kernel_core/` holds its portable
parts, `src/kernel/` the parts that touch the machine. This directory models the
parts whose correctness depends on interleavings, boundaries or long sequences
of calls, checks the models with TLC on small instances, and proves the most
important properties of five of them with TLAPS for every instance.

`PROJECT.json` lists the components, the runs, a mutant for every checked
property, the map from definitions to source lines, the findings, the hazards
and the theorems. Paths below are relative to `src/kernel_core/src/` unless they
start with `kernel/`.

## The system

| Part | State | Operations | What is hard about it |
|---|---|---|---|
| Handle allocator (`collections/handle_allocator.rs`) | a bit set in atomic words | `next_handle`, `free_handle` | compare-exchange loops racing on one word; a scan that is not atomic |
| Handle map (`collections/handle_map.rs`) | a radix tree of atomic entries, reference counts | `insert`, `get`, `remove`, drop | tables created by racing inserts; load and increment, take and free are two steps each |
| Logger (`logger.rs`) | a ring of chunks, two indices, an overflow count, the sink's lock | `log`, `flush` | writers at different speeds, wrap-around, overflow, a reader that waits for a writer |
| Buddy page allocator (`memory/buddy.rs`) | lock-free lists of free blocks, headers inside the blocks | `add_memory_region`, `allocate`, `free` | ABA, lists that change under a walk, merging, region borders |
| Kernel heap (`memory/heap.rs`) | a free list inside pages | `alloc`, `dealloc` | splitting with alignment padding |
| Page tables (`memory/page_table.rs`, `memory/mod.rs`) | four levels of tables, pointers with tags | `map`, `unmap`, `physical_address_of`, drop | entries of three sizes, failure halfway, regions over several tables |
| Memory set-up (`kernel/src/memory.rs`, `memory/subtract_ranges.rs`) | the regions of the page allocator, the kernel's tables | `init`, `SubtractRanges::next` | borders, order of the reserved regions |
| Boot and SMP (`kernel/src/main.rs`, `platform/cpu.rs`, `kernel/src/psci.rs`) | which globals are initialised, which cores run | `kmain`, `boot_all_cores`, `secondary_core_kmain` | cores that start while the boot core goes on; partial failure |
| Timer interrupts and scheduler (`exceptions/interrupt/`, `kernel/src/exceptions/`, `kernel/src/timer.rs`, `kernel/src/thread.rs`, `process/thread/`) | saved registers, current thread and queue of each core, timers | the interrupt from vector to return, `next_time_slice` | state saved and restored around a switch; interrupts must be finished and timers reset |
| Device tree (`platform/device_tree/`) | cursors over a blob of tokens | iterators, path look-up | tokens of different lengths, nesting, iterators that are cloned and go on separately |
| Driver set-up (`kernel/src/uart.rs`, `timer.rs`, `psci.rs`, `memory.rs`, `exceptions/interrupt/controller/gic2.rs`, `platform/cpu.rs`) | what was found so far | `in_device_tree`, `list_cores`, ... | properties in any order, missing or malformed |
| GIC driver (`gic2.rs`) | distributor, core interfaces | set-up, enable, acknowledge, finish | registers that are banked by core |
| UART output, exception reports | registers | write | device I/O |

How they interact. `kmain` sets up the logger, whose UART it looks up in the
device tree, then memory, whose RAM is there too: `subtract_ranges`
yields the RAM that neither the kernel image nor the device tree occupies, the
buddy allocator gets it, the page tables map it, and the heap takes its pages
from the buddy allocator. Threads live in a handle map, whose handles the handle
allocator draws. The scheduler and the interrupt policy are called from the
exception vector on every core. Every part logs, from any core.

## Modules

| Module | Models | Grain of a step |
|---|---|---|
| `HandleSet` | what the handle allocator promises, as an atomic set | a whole call |
| `HandleAllocator` | `handle_allocator.rs` | one atomic access |
| `HandleAllocatorProofs` | theorems about `HandleAllocator`, among them that it implements `HandleSet` | |
| `HandleMap` | `handle_map.rs` over an atomic `HandleSet` | one access to an entry, a count or the allocator |
| `HandleMapProofs` | theorems about `HandleMap` | |
| `Logger` | `logger.rs` | one access to an atomic, a chunk or the lock |
| `LoggerProofs` | theorems about `Logger` | |
| `Buddy` | `buddy.rs` | one access to a list head or a header |
| `Heap` | `heap.rs` | a whole call |
| `Addresses` | `memory/mod.rs`: tags and conversions of pointers | |
| `PageTables` | `page_table.rs` over `Addresses` | one entry of an inner table, or the entries of a leaf table |
| `MemorySetup` | `kernel/src/memory.rs` and `subtract_ranges.rs` | one turn of the iterator's loop |
| `MemorySetupProofs` | theorems about `MemorySetup` | |
| `Boot` | `kernel/src/main.rs` and what boot and a timer interrupt call | one stage of the boot or of the handler |
| `BootProofs` | theorems about `Boot` | |
| `DeviceTree` | `platform/device_tree/` | one token |
| `Drivers` | the look-ups of the boot, over `DeviceTree` | one property or node that an iterator returns |
| `MC*` | the instances that TLC checks | |

Names follow the source. State is one variable per field or local variable that
matters; variables marked *history* in the modules are not in the code and only
serve to state properties. No guard reads them, except to say which arguments a
caller may pass (a handle it owns, a block it was given).

- **HandleAllocator.** `bits` is the array of words, each the set of the handles
  whose bit is set. `NextLoad`, `NextCasOk` and `NextCasFail` are the loop of
  `next_handle`, `FreeLoad`, `FreeCasOk`, `FreeCasFail` and `FreeOutOfBounds`
  that of `free_handle`. A failed exchange returns the value it saw and the loop
  goes on with it, as in the code.
- **HandleMap.** A table is named by its level and the prefix of the handles it
  is for; a walk reads one entry per step. `GetLoad` and `GetIncrement` are the
  two halves of `get_value`, `RemoveTake` and `RemoveFree` those of `remove`.
  `strong` is the count of each `Arc`. `Span` and `Depth` are the digits of a
  handle, at most four.
- **Logger.** A record is the chunks it takes: after each one it goes on or it
  does not. The bytes of a chunk are named by the index that its writer drew.
  The writer's steps are `DrawIndex`, `CheckDistance`, `Claim` (or
  `CountOverflow`, `Discard`), `Copy` and `Finish`; the flusher's are `TryLock`,
  `Report`, `CheckIndices`, `TryRead`, `Accept`, `MarkEmpty`, `Advance` and
  `Unlock`.
- **Buddy.** A block is its first page and its order. Its header is its first
  word, so an owner overwrites it (`Garbage`). `loc` holds a thread's place in
  the code and its local variables.
- **Heap.** Addresses are bytes. `AllocFromList` and `AllocFromPages` are the two
  ways through `alloc`, with the padding, the header, the split and the
  assertions; `Dealloc` has its checks and its push.
- **PageTables.** `stack` is the recursion of `Walker::step`. `view` is the
  translation that completed calls promise. A page entry has the bits of a table
  entry and is told apart by its level, as in `Entry::decode`. Words have a tag
  (module `Addresses`): entries hold physical addresses, the code goes by
  pointers, and callers pass virtual addresses of either space. `Init` is
  `PageTables::empty`, or `from_existing` on the tables of `kernel/src/start.S`
  (`BootTables`), which are the kernel's and never dropped.
- **MemorySetup.** The iterator's fields, the ranges given to the page allocator
  and what is mapped. `Reserved` is the list that `init` makes, `taken` how far
  the iterator is in it. `PagesOf` is the page arithmetic of `add_memory_region`.
- **Boot.** `once` is the set of initialised globals; using one that is missing
  panics. `regs`, `frame` and `saved` say whose execution the registers, the
  vector's frame and a thread's saved state hold.
  `SetUpFails` and `BootFails` are the `expect`s of `kmain`, before
  and after other cores may run. `distributor`, `interface`, `enabled` and
  `active` are the interrupt controller: an interrupt reaches a core only if all
  of them allow it.
- **DeviceTree.** `structure` maps byte offsets to tokens, so that a cursor which
  is not at a token shows. `cur`, `level`, `segments`, `cells` and `depth` are the
  local variables of the searches and of `NodesNamedIter`, `props` those of a
  `NodePropertyIter`, which is a clone and advances by itself.
- **Drivers.** `caller` says which look-up runs. `got` are the local variables of
  its loop, `result` is its answer. `seen` (history) is what the iterators have
  returned. `Described` and `AskedProperties` say the same from the nested tree,
  without a cursor.

## Runs

| Run | Instance | Checks |
|---|---|---|
| `allocator_words` | 2 callers, 3 handles in words of 2 bits, any handle freed | `TypeOK`, `Exclusive`, `BitsAreOwned`, `ImplementsHandleSet`, `SomeCallReturns` |
| `map_owners` | 2 threads, 3 values, 2 levels of tables; each thread gets and removes what it inserted | `TypeOK`, `NothingAtFreshHandle`, `InsertedIsFound`, `CountsAreExact`, `NoUseAfterFree`, `HandlesAccounted` |
| `map_getters` | 2 threads, 1 value; any thread gets any handle | `NoUseAfterFree` is violated |
| `logger_ring` | 2 threads, 3 chunks, 4 indices and the chunks of the records begun before the bound | `TypeOK`, `ChunksAreExclusive`, `ClaimSucceeds`, `AcceptedInOrder`, `NothingAfterALoss`, `RecordsAreWhole`, `LossIsReported`, `ProcessedUnlessLost` |
| `logger_stuck` | 2 threads, 2 chunks | `EveryChunkProcessed` is violated |
| `buddy_lists` | 1 thread that allocates and frees, or 2 that allocate; 6 pages, 4 orders, requests up to 4 pages | `TypeOK`, `BlocksDisjoint`, `NoPageLost`, `FreeAccepted`, `HeadersAreValid`, `OutOfMemoryMeansFull` |
| `buddy_upper` | 1 thread, 4 pages, requests up to 2 pages, any block freed | `NoPageLost` is violated |
| `heap_fit` | 9 small pages, 4 layouts, 3 live allocations | `ExtentsDisjoint`, `NoPanic` |
| `page_tables` | tables of 2 entries, 7 frames for them, 2 tags, 2 calls on empty tables or the kernel's | `TypeOK`, `OldOrNew`, `TablesFormATree`, `NoPanic` |
| `memory_setup` | pages of 4 bytes, blocks of 4 pages, every placement of image and device tree in `WellPlaced` | `ReservedKept`, `AllGiven` |
| `boot_smp` | the boot core and 2 others | `NoUseBeforeInit`, `ResumesOwnExecution`, `EveryCoreRuns` |
| `device_tree` | 6 look-ups in some 10000 trees | `NoPanic`, `YieldsInOrder`, `ResultFromNode`, `LookUpEnds` |

What they show:

- `allocator_words`: racing exchanges never give out a handle twice, lose a bit
  or revive one; every behaviour is one of the atomic set; and the loops are
  lock-free: of the calls in progress one returns, unless another starts.
- `map_owners`: inserts that race to create the same tables do not lose each
  other's values, counts are exact also across the drop of the map, and no handle
  leaks. `map_getters` shows that this needs the callers' discipline: a `get`
  that races the owner's `remove` increments a count that is already freed.
- `logger_ring`: two writers never share a chunk, the exchange that claims one
  never fails, and the sink gets chunks once, in order and without gaps in a
  record, through wrap-around and overflow. Losses are announced. `logger_stuck`
  shows that one overflow stops the log for good: the writer that found no room
  has already drawn an index, whose chunk nobody will ever finish.
- `buddy_lists`: blocks stay disjoint and cover the memory, for one thread that
  allocates and frees and for two that allocate, which is what the kernel does at
  this version. `NoPageLost` compares the blocks with the pages of the region, so
  it also says that none lies outside. `OutOfMemoryMeansFull` is about one
  thread: with two, a request may fail while the other holds the halves of a
  split. `buddy_upper` shows why `buddy_lists` does not free an upper buddy whose
  lower buddy is free: the merged block is pushed at the wrong address and a page
  is lost.
- `heap_fit`: no sequence of calls makes headers, data or free blocks overlap,
  also when a rest is smaller than the header that is written to it.
- `page_tables`: each page is translated as before or as asked, also after a
  failure halfway, and dropping the tables frees each of them once. An address of
  the other space changes nothing, and tables are only reached by pointers of the
  kernel's space.
- `memory_setup`: the page allocator gets every free page and no reserved byte.
- `boot_smp`: no core uses a global before it is initialised, every core resumes
  its own execution after any interleaving of interrupts, and cores that started
  get time slices for ever, also when the boot core stops halfway.
- `device_tree`: whatever the lengths of names and data, the order of properties
  and the nesting, the iterators keep their place and yield the properties of the
  node that was asked for with its parent's cells; each driver answers as its node
  says, and each look-up ends. Trees are well formed; properties may be missing,
  repeated in a child, of the wrong value, or between nop tokens.

### Bounds

Every bound is a constant in a cfg. They are small but contain the cases that
matter: a word only partly used (`MaxHandle` 3, `WordBits` 2); two levels of
tables with a shared prefix; a ring that wraps and overflows (more indices than
chunks); memory that is no power of two, so that a block has no buddy; rests of a
split on both sides of the header's size; regions that span several tables, with
fewer frames than they need; a device tree at any byte, also over the end of the RAM;
two cores beside the boot core, so that two can be starting at once; device trees
of up to five levels in which the node that is asked for comes first, last or not
at all, with every selection and order of up to `MaxProps` of its properties and
names and data that fill their last word or do not. A cell of 32 bits is a digit
below `CellBase`, and two of them fill a `usize`. `MaxIndex`
keeps the log finite; the theorems of `LoggerProofs` hold for every value of it.
`MaxCalls`, `MaxHeld`, `MaxRefs`, `MaxRequest` and `MaxCount` bound the callers,
not the code. Threads are symmetric in `map_owners`, `map_getters`
and `buddy_lists`, which check no liveness.

### Deadlock

It is checked in all runs but three. In the two runs of the handle map no values
are left once all are inserted, and in `page_tables` the calls are used up.

### Fairness

- `allocator_words` and `logger_ring`: weak fairness of a thread inside a call;
  the loops have no condition to wait for, and the scheduler and the interrupt
  handlers return to the code they interrupt. `compare_exchange_weak` is assumed
  not to fail spuriously for ever. For the logger, a `flush` gets the lock if it
  is free again and again (strong fairness, since other flushes hold it in
  between): every record that is logged ends with an attempt to flush.
- `memory_setup` and `device_tree`: a sequential program that runs, on one core
  and before there are interrupts.
- `boot_smp`: weak fairness of each core, of its timer (hardware counts down) and
  of taking an interrupt that is pending and enabled (hardware takes it).

## Proofs

TLAPS checks every theorem below for all values of the constants.

**`HandleAllocatorProofs`**, from `ConstantsAssumption` (`MaxHandle` and
`WordBits` are positive, `AnyFree` is a Boolean): `TypeCorrect`,
`ExclusiveOwnership`, `NoLeak`, `OwnFreeIsAccepted` (a caller that frees its own
handle is never refused, if all do) and `Refinement`, that `Spec` implements
`HandleSet` under the mapping `allocated <- Allocated`. The properties are not
inductive by themselves. `IInv` adds `WordInv`, that a word holds only its own
handles, so that one exchange decides about one handle, and `LocalInv`, that a
call works on a word of the set and that `free_handle` exchanges a word in
which it saw its bit. The lemma about each action uses it: a successful
exchange shows that the word is the one that was read, so the bit it takes was
clear there, and by `WordInv` clear everywhere. In the refinement every
successful exchange is an atomic allocation or free, each error answer is given
at the last read, and all other steps stutter.

**`HandleMapProofs`**, from `MapAssumption` (`Fanout` at least 2, `MaxHandle`
positive and of at most four digits, `None` no value) and the hypothesis
`~RemoveOthers`, that a thread removes only what it inserted:
`FreshPositionIsEmpty`, `InsertedStaysFound` and `NoHandleLeaks`. Any thread may
get any handle. `IInv` says that an allocated handle has one owner, a
completed insert or one thread in the middle of an insert or remove
(`OwnerInv`); that an entry which is not empty is a completed insert's, or that of
a remove which has not yet reached it (`SlotInv`); that the tables of a completed
insert exist and its entry holds its value (`BoundInv`); and that an insert has
the tables behind it, and a remove finds all of its own (`WalkInv`). The last part
is needed because a remove that misses a table returns without a release. At
`put_value` the thread owns the handle, so by `SlotInv` the entry is empty. The
arithmetic is in `DepthFits` and `PositionFacts`: a handle below `MaxHandle` is
its own position.

**`LoggerProofs`**, from `LoggerAssumption` (`NumChunks` positive, `MaxIndex` a
number, `NoThread` no thread): `TypeCorrect`, `ChunkExclusion`,
`ClaimNeverFails`, `InOrderDelivery`, `LossIsFinal` and `NoTornRecord`. `IInv`
has six parts besides the types: each index is held by at most one thread, lies
in the window from `read_index` and is not lost while held (`HeldInv`); a chunk
being written has a writer (`WriterInv`); a full chunk holds an index of the
window that nobody holds (`FullInv`); what the holder of the lock knows about
the chunk at `read_index` (`ReaderInv`); the length of what was accepted is
`read_index`, or one more between two stores (`AcceptedInv`); the indices of a
record grow (`RecordInv`). The heart is `SlotInjective`: two indices in one
window of `NumChunks` have different chunks. So whoever has a chunk has its
index, and indices are exclusive because `fetch_add` hands them out.

**`BootProofs`**, from `BootAssumption` (cores are numbers, 0 is the boot core,
stacks are not 0): `InitialisedBeforeUse`, `OwnExecutionResumed` and
`WaitingCoreWakeable`, for every set of cores. The last is the safety half of
`EveryCoreRuns`: a core that waits for interrupts has a timer that runs, and
nothing between the timer and the core is off, masked or unfinished. `IInv` has
five parts besides the types: how far the boot core's place in `kmain` says the
globals are initialised, and that it is alone until all of them are
(`GlobalsReady`); each core has its own idle thread and nothing queued
(`ThreadsAreOwn`); where a core's own execution is at each place of the handler,
in registers, in the vector's frame or in its thread (`ExecutionKept`); what a
core has set up stays, and an interrupt is unfinished only while it is handled
(`SetUpKept`); no two cores have one stack (`StacksDistinct`). Without the second
half of `GlobalsReady` it is not inductive: a core that ran during `init_threads`
would find its saved state overwritten.

**`MemorySetupProofs`**, from `MemorySetupAssumption` (ranges are not empty,
blocks are whole pages) and the hypothesis that every placement satisfies
`InOrder`, that the device tree lies above the kernel image, as the order of
`init`'s list and the doc of `subtract_ranges` ask, and that the RAM and the end
of the image have page borders: `ReservedNeverGiven`, that no byte of a reserved
range is ever in a page that the allocator has. `IInv` adds to the types where the
iterator is: at the start of the last range it took, or past it, with every
other range that it took behind it, and at a page border while there is another
range to take (`IteratorInv`). So a range that it yields has no reserved byte, and
has a page border at one end. The lemma `PagesInside` does the rest: the pages
that `add_memory_region` counts in such a range lie within it.

Only model-checked: liveness (`SomeCallReturns`, `LossIsReported`,
`ProcessedUnlessLost`, `AllGiven`, `EveryCoreRuns`, `LookUpEnds`), which is
beyond this prover; `CountsAreExact` and `NoUseAfterFree` of `HandleMap`, which
sum over threads; and everything about `Buddy`, `Heap`, `PageTables`,
`DeviceTree` and `Drivers`. The last two compare with recursive definitions over
trees, whose proofs need an induction that the prover does not have.

This version of tlapm gives its SMT solver an axiom about `Len` that is false for
functions with 0 in their domain. The proofs do not depend on it: obligations
about such functions (the cores of `Boot`, for one) keep `Len` and `<<>>` inside
definitions that are not expanded there, which is why `Boot` names `EmptyQueue`
and `NoThreads`.

## What the runs leave out, and what happens there

The passing runs stay within the conditions under which the code works. Beyond
them the following was found with the same modules, or in reading the code.

- **Handle allocator.** `next_handle` may answer `None` although at no moment
  every handle was taken: a handle freed in a word already scanned is not seen.
  `HandleSet` allows it (`GiveUp`).
- **Handle map.** Two removes of one handle, racing its reuse, can free the
  handle of a new insert and reach the assertion at line 216
  (`RemoveOthers = TRUE`). A handle with digits above the tree's depth finds the
  entry of another handle (line 165).
- **Buddy.** `pop_free` compares only the address of the head (line 119): with
  one thread freeing while another allocates, a head that was popped and pushed
  again passes the exchange with a stale `next_block`, and a page is in two
  blocks (two threads, `frees |-> "safe"`). A walk of a list (line 173) may follow
  a block that was taken meanwhile. Freeing a block of the largest order indexes
  past the lists (lines 326, 331). The padding at the start of a region that
  starts inside a page is not taken off its length (line 87), so the last block
  reaches past its end (`Regions <- Unaligned`, `PageLen = 2`).
- **Heap.** Alignments of 32 and more can need more padding than `align - 16`
  when a block starts at an odd multiple of 8, and the assertion at line 205
  fails (`Layouts <- WideLayouts`, `PageSize = 64`). Blocks are never merged, and rests of at most
  16 bytes are lost until their neighbour is freed, or for good.
- **Page tables.** `Walker::step` subtracts an index from a number of blocks
  (line 389), so a region that crosses an entry two levels above its blocks
  reaches the assertion at line 381 (`MayCross = TRUE`). A block that is mapped
  or unmapped where a table hangs overwrites the table's entry, and the table is
  never freed; the doc (line 550) says `AlreadyMapped`. Unmapping a leaf entry
  that is empty answers `Ok`; the doc (line 591) says `NotMapped`. Tables for
  user space accept every tag but `0xffff`, where the comment (line 428) asks for
  `0x0000`: the bits between are ignored by the walk. For pages of 16KiB, which
  the kernel does not use, `pages_per_entry` (line 301) gives an entry of the
  root `2 * 2048 * 2048` pages; such an entry leads to a table of 2048 entries of
  `2048 * 2048` pages each.
- **Memory set-up.** `subtract_ranges` needs sorted ranges, and `init` does not
  sort them (lines 82-85): a device tree below the kernel image is given away. A
  gap of less than a page between reserved regions makes `init` assert (line
  106); a gap with both ends inside pages may be given more pages than it has.
- **Boot.** The frame of `exception_vector.S` (line 45) has 240 bytes, but `x30`
  is stored at offset 240. `MAIR_EL1` is written only on the boot core. The boot
  core is assumed to have id 0. A panic stops only its own core.

- **Device tree.** `iter_node_properties` and `iter_nodes_named` remember the last
  `#address-cells` and `#size-cells` on the way, so a parent that defines none
  below one that does passes the latter's on (`mod.rs`, line 467); the
  specification and the comment in `iter.rs` (line 166) have the parent's own or
  the default. In the run every parent below the root defines both. A `reg` that
  ends within a range makes `RegistersIter::next` panic, and so does a blob that
  is not well formed.
- **Scheduler.** `ArcSwap::load` (`arc_swap.rs`, lines 27-35) reads the pointer
  and then increments the count, as the handle map's `get` does; each one is only
  used by its own core.

Not modelled: the header of the device tree blob and its memory reservation
block, which the kernel does not read; the wording of errors; the UART's output
(its set-up is in `Drivers`); the GIC driver's `disable` and `clear_pending`,
which have no caller, and the bits of its registers; exception reports; pages of
16KiB; memory attributes of page table entries; memory ordering weaker than sequential consistency, the logger's
indices wrapping at 2^64, and the limit of 1000 tries in `push_free`.

## Plan

Next, in this order:

1. *Model.* The scheduler with threads on its queues, `ArcSwap` with load and
   increment as two steps, and the state changes of threads, as a module of its
   own that `Boot` uses; the heap's list at the grain of one exchange, composed
   with `Buddy`.
2. *Abstract specifications.* A page allocator as an atomic partition of memory,
   which `Buddy` without frees implements; a map from pages to pages, which
   `PageTables` implements call by call; a map from handles to values for
   `HandleMap`.
3. *Theorems.* `HandleMap`: `CountsAreExact` under the owners' discipline.
   `Heap`: `ExtentsDisjoint` for every layout up to the header's alignment.

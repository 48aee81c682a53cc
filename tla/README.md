# Novix in TLA+

Novix is a small operating system for i386 PCs, written in C. This directory
holds TLA+ models of its kernel (`src/src/kernel`), the TLC configurations
that check them, and proofs of their main properties that TLAPS checks.

The kernel runs on one CPU. Its concurrency is that of an interrupted
uniprocessor: a timer interrupt may strike between any two instructions that
run with the interrupt flag set, wake sleeping processes, and give the CPU to
another process. Locks are an interrupt-disable count (`lock_sheduler`,
`unlock_sheduler`) and `mutex_t`.

## 1. Inventory

| part | source | state | operations | hard because of |
|---|---|---|---|---|
| scheduler | `scheduler/multitask.c`, `multitask.asm`, `hal/pit.c` | READY, DEAD and sleep lists threaded through `process_t.next`, `current_process`, `status`, `disable_irq_count`, EFLAGS.IF, tick count | `create_process`, `spawn_process`, `yield`, `sleep`, `wakeUp`, `terminate_task`, `cleaner_task`, `timer` | preemption anywhere, nested interrupts, one `next` field for every list, `sti` inside locked sections |
| mutex | `multitask.c` | `locked`, `locked_count`, `owner`, waiting list | `acquire_mutex`, `release_mutex` | fields read and written with interrupts on |
| heap | `memmgr/heap.c`, `lib/ordered_array.c` | list of blocks, ordered array of free blocks, break | `kmalloc`, `kfree`, `krealloc`, `kcalloc`, `sbrk` | splitting and merging, called from the timer interrupt with no lock |
| frames and ranges | `memmgr/physmem_manager.c`, `memmgr/vmalloc.c` | two bitmaps, counters | `PHYSMEM_AllocBlock(s)`, `freeBlock(s)`, `vmalloc`, `vfree` | search for runs, failure half-way, counters against bitmap |
| paging | `memmgr/virtmem_manager.c`, `memory_manger.asm` | page directories and tables | `mapPage`, `unMapPage`, `createAddressSpace`, `destroyAddressSpace` | shared tables, `sti` in `flushTLB` |
| VFS | `vfs/vfs.c` | mount list, descriptors | `mount`, `unmount`, `open`, `read`, `close` | reference counts, blocking calls between test and set |
| FAT12 | `vfs/floppy_fat12.c` | vnode cache, one sector buffer | `mount`, `lookup`, `read` | eviction, shared buffer |
| floppy | `drivers/fdc.c`, `hal/dma.c` | `fdc_lock`, irq flag, motor, current cylinder | `readSectors`, `seek`, `resetController` | interrupt against timeout, retries, sleeping with the lock |
| keyboard | `drivers/keyboard.c` | scan code state, last key | interrupt handler, `getLastKey`, `getChar` | handler against readers, prefix codes |
| screen | `drivers/vga_text.c`, `stdio.c` | `vga_lock`, cursor, colour, cells | `putc`, `puts`, `coloredPuts`, scrolling | nested lock, several writers |
| shell | `shell.c`, `main.c` | line buffer, `args` | `shellRead`, `shellParse`, `shellExecute` | a line edited, echoed and cut in place |
| debug port | `drivers/e9_port.c`, `debug.c` | `e9_lock` | `putc`, log lines | lock taken under a condition that changes |
| interrupt plumbing | `hal/{idt,isr,irq,pic,gdt,syscall}.c` | handler tables, PIC masks | register, dispatch | little state |
| start-up | `main.c`, `entry.asm`, `hal/hal.c` | - | initialisation in order, tasks A to D | - |
| boot loader, library, user program | `bootloader/`, `lib/`, `user/` | - | - | sequential |

How they interact: the timer calls `wakeUp` (scheduler), which calls `kfree`
(heap); `create_process` and `delete_process` call the heap, `vmalloc` and
paging; the heap maps pages through paging, which takes frames; the VFS calls
FAT12, which calls the floppy driver, which waits for its interrupt with
`sleep` and protects itself with a mutex; every log line takes the mutex of the
debug port. `src/ZigNovix` (a copy of another kernel) and `src/osdev` are built
apart from the C kernel and are not modelled.

What makes each part correct: a process is on the list its status says, never
on two, and never lost; each lock is given back once; nothing that was freed is
reachable; a sleeper is woken on time, a ready process runs, a dead one is
deleted; a mutex has one owner and serves its waiters in order; heap blocks
tile the heap without overlap and every free one can be found again; a frame or
a page range has one owner and counters match bitmaps; a descriptor has one
user and a vnode outlives its references; a disk command gets its own
interrupt and terminates; a key is delivered once; what is on the screen is
what was printed, and the words of a command are those of the line. The hazards behind these,
each at its line, are in `PROJECT.json`.

## 2. Modules

| module | stands for | built on |
|---|---|---|
| `Scheduler` | `multitask.c` less the mutex, `context_switch`, `timer()` | |
| `Lifecycle` | what the scheduler promises, with no list, lock or interrupt | |
| `SchedulerRefinement` | the scheduler seen as a `Lifecycle` | `Scheduler`, `Lifecycle` |
| `SchedulerInvariant` | the inductive invariant | `SchedulerRefinement` |
| `Mutex` | one `mutex_t`, its processes and the scheduler composed | `SchedulerRefinement`, `FifoLock` |
| `FifoLock` | what the mutex promises | |
| `Heap` | `heap.c` with `ordered_array.c` | |
| `Allocator` | what the heap promises to its callers | |
| `Memory` | `physmem_manager.c`, `vmalloc.c`, `virtmem_manager.c` and the calls that reach them from `main.c`, `heap.c`, `fdc.c`, `floppy_fat12.c`, `multitask.c` | |
| `Floppy` | `fdc.c`, with the controller it drives | `FifoLock` for `fdc_lock` |
| `Files` | `vfs.c` over `floppy_fat12.c` | |
| `Screen` | `vga_text.c` with several writers | `FifoLock` for `vga_lock` |
| `Terminal` | `keyboard.c`, `getchar` and `shell.c` | `Screen` |
| `MCScheduler`, `MCMutex`, `MCHeap`, `MCMemory`, `MCFloppy`, `MCFiles`, `MCTerminal` | the instances TLC checks | |
| `MutexInvariant`, `HeapInvariant`, `MemoryInvariant` | the inductive invariants | `SchedulerInvariant`, `Heap`, `Memory` |
| `ListLemmas` | facts about the entries of sequences | |
| `SchedulerProofs` | the theorems on the scheduler | `SchedulerInvariant`, `ListLemmas` |
| `MutexProofs` | those on the mutex | `MutexInvariant`, `SchedulerProofs` |
| `HeapProofs` | those on the heap | `HeapInvariant`, `ListLemmas` |
| `MemoryProofs` | those on frames, tables and address spaces | `MemoryInvariant`, `ListLemmas` |
| `FilesProofs` | those on descriptors and vnodes, and on what is read, with their invariants | `Files`, `ListLemmas` |
| `TerminalProofs` | those on the keyboard, the line, the strings and the arguments, with their invariants | `Terminal`, `ListLemmas` |
| `FloppyProofs` | those on the floppy driver, with their invariant | `Floppy`, `ListLemmas` |

The parts meet through what they promise each other. `Mutex` is checked to
implement `FifoLock` where no interrupt strikes inside its functions, and
`Floppy` and `Screen` use `FifoLock` in its place; `Heap` implements
`Allocator`; `Floppy` shows what `FDC_readSectors` does to a request, and
`Files` reads its disk the way `FDC_readSectors` does (`LoadedAt`).

### Scheduler

A step is a stretch of code the timer cannot split: a section run with
interrupts disabled, or the code between two points where they are on.
Correspondence of the variables:

| variable | code |
|---|---|
| `current`, `status`, `count` | `current_process`, `process_t.status`, `disable_irq_count` |
| `ready`, `dead`, `sleepers` | the three lists, in order |
| `left[p]` | `wake_time - getTickCount()`, 0 once due |
| `phase` | `g_timeSinceBoot % 5`, with `QUANTUM` for 5 |
| `intr` | EFLAGS.IF |
| `pc[p]` | the place of a thread, at the granularity above |
| `frames[p]` | the `timer()` calls stacked on the kernel stack of `p`: `tick` before its test for `yield`, `iret` after |
| `target[p]` | the `process_t` that `create_process` fills or `delete_process` frees |

Points worth knowing when reading it:

- `count` and `intr` are two variables because the code lets them disagree:
  `flushTLB` ends with `sti` whatever the count is (`memory_manger.asm:36`), so
  that the locked section of `sleep` is open when its `kmalloc` maps a page
  (`SleepAllocate`); and the `popf` of `context_switch` turns interrupts on for
  a new process before its first `unlock_sheduler` (`Fresh`, pc `spawn`).
- `yield` is one step. Everything in it runs with interrupts off, up to the
  `unlock_sheduler` executed by the process that is resumed.
- `Tick` is `timer()` up to the end of `wakeUp`, whose `unlock_sheduler`
  re-enables interrupts inside the handler; a second interrupt may then nest.
- The DEAD list is tested by the cleaner with no lock held (`CleanerCheck`).
- Time is relative, so the state space is finite with no bound on the tick
  counter. Nodes of the sleep list that are already due keep their order of
  arrival; the code could order two of them by their past wake times, which
  changes nothing `wakeUp` does but the order of two wake-ups of one tick.

Left out: process identifiers, user mode and `TSS_setKernelStack`, logging,
and `kmalloc` or `vmalloc` returning NULL in `create_process` and `sleep`, which
the code does not test.

Logging is not harmless in one place. The `log_debug` of `cleaner_task`
(`multitask.c:267`) is inside its locked section and takes `e9_lock` for every
character. When another process has that mutex, the cleaner becomes BLOCKED on
its waiting list and yields with `disable_irq_count` raised; a process that
terminates then finds `cleaner_process->status == BLOCKED` (line 324) and puts
it on the READY list too, so that it is on two lists through one `next` field.
`CleanerReap` never blocks, and `OnOneList`, `StatusMatchesList`, `LockBalance`
and the liveness properties are about a cleaner that does not log.

### Mutex

One mutex used by the processes of the `Scheduler`; the actions of the
scheduler are reused unchanged. `acquire_mutex` and `release_mutex` run with
interrupts on except where they touch a list, so each access to a field is a
step. `held[p]` counts the acquisitions that have returned to the program of
`p` and have not been released, whatever the fields say. `ReleaseFault` is the
dereference of an empty list's head; the thread stops there.

### Heap

The globals of `heap.c` are one record, and each function of the code is an
operator from a record to a record, so that `kmalloc` can call `kfree` for the
rest of a block as the code does. The block list keeps its `next` and `back`
links: that they stay a tiling of the heap is what `BlocksTile` says, and it is
not built into the model. Addresses count from `BREAK_START_ADDR`, in units of
which a header takes `HEADER`.

The array is modelled with its mistakes, which are about the word beyond its end
(`heap.beyond`):

- `insert_ordered_array` in the middle of the array replaces the last entry by
  that word (`Inserted`). It is NULL at first, for the page of the array is
  fresh and the emulators the repository is run with give zeroed memory, and a
  removal from an array that is not full shifts that NULL down.
- The capacity of the array is exactly its page (1024 words, `heap.c:110`), and
  the heap starts behind it. So `remove_ordered_array` on a full array shifts
  the first word of the heap into the last place (`Behind`): the size of the
  first block. From then on this word is the one beyond the end, and the next
  insertion in the middle makes it an entry.

`search_freeBlock` and the criteria function follow such entries as pointers to
a `header_t`, a NULL to address 0 and a size to that address: low memory, which
is mapped one to one (`virtmem_manager.c:207`). `Low` are these addresses, the
sizes (`Stray`) written as negative numbers because addresses count from
`BREAK_START_ADDR`. `low` is what a read finds there: any member of `AtLow`,
chosen once, for the model has nobody else who writes it. (In the kernel as it is the first
block is the bitmap of `vmalloc.c`, 4096 bytes that are never freed, and the
word is always 0x1000.) When `kmalloc` or `krealloc` takes a stray entry for a
block, it marks, cuts and hands out memory that is not of the heap: `wild` is
set and the model stops (`kmallocStray`). The run `heap_safety` reaches both, and
its properties hold with stray entries in the array, up to `wild`.

`RequestAssumption` bounds a request by a page: no structure the kernel
allocates is larger, except the bitmap of `vmalloc.c`, 4096 bytes and a header,
which is the first request of all and fits in what `sbrk` maps for it.
`BreakIsMapped` is therefore about the break's places within a page, refused
frames and blocks given back; a larger request would break it.

A call is one step. The code has nothing to make it so: `wakeUp` calls `kfree`
from the timer interrupt, which may strike inside another call.

### Memory

`mem` is a record of what the three files keep, and their functions are
operators from a record to a record. Frames and pages are numbers; 0 is NULL.
The callers are the actions: the floppy buffer, the mount that may fail and
then gives its pages back, a process created in any address space, the page of
a user program, a heap that grows in any address space, a process deleted by
the cleaner.

- `FirstFit` is the search of both files, with its count that restarts at 1
  for a block not tested yet: past the first free run it tests one block less
  than it takes.
- `PHYSMEM_setBlockToFree` toggles. `Vfree` gives `VMALLOC_setBlockToFree` a
  number beyond the bitmap: the counters move, the bitmap does not, and a page
  of the range is never used again. Tasks A to D create each other for ever, so
  that the 32768 pages of the range run out in the end.
- `cached` is the translation that `flushTLB` leaves in the CPU, whose `invlpg`
  has the address of its own argument: `Destroyed` may clear the user table of
  a process deleted before, whose pages are gone, and then the pages of the
  process it is called for stay marked used for ever. No frame is used
  twice for it (`FrameHasOneUse`).
- Nothing reserves the frames of the kernel image at 1 MB in the bitmap. When
  they are handed out, or the code goes on with a page it did not get, `lost` is
  set and the model stops: from there the code overwrites itself.
- The loops of the code are functions `after[i]`, the memory after `i` turns.

A call is one step: the functions take no lock, and two of them interrupting
each other are not modelled. The maps of the run put the bitmap at block 0, the
first available memory of a PC. On a map that leaves block 0 free,
`PHYSMEM_AllocBlock` marks it used and returns NULL, and its callers see a failure.

`PHYSMEM_initData` copies the map with a `memcpy` of 256 bytes, the number of
entries the destination has room for: 12 entries of 20 bytes, and base and
length, but not the type, of the next. `Copy` cuts the map there (`COPIED`).
An entry that lost its type is reserved, and those behind it do not exist. One of
the lost ones can be the last, which reserves the bitmap; it is harmless while
it only loses its type, which both maps of the run show, and a longer map is
`Usable` as long as frame 0, where the bitmap starts, does not become free by it.

### Floppy

A function is the sequence of the steps it takes, and `todo[p]` is what is left
of them, so that `FDC_resetController` is written as the code is, out of the
functions it calls; a step is what the driver does between two places where it
waits. Where a loop turns, the step that ends the turn puts the next one in
front of what is left (`Attempt`, `Turn`). Nobody reads before
`FDC_initialize` is through (`Started`), for `init_process` calls it first. The controller (external: an 82077 as the driver talks to it) may take
any time, miss a cylinder or never answer. `astray` records that the driver
went on without the answer, which it does not notice itself: `FDC_waitIrq`
reports nothing, and `FDC_readSectors` does not look at what `FDC_seek` returns: a
seek that missed on every attempt is followed by a read all the same, from the
wrong cylinder. The steps are those of the code there too, but `InStep` and
`ReadsWhatWasAsked` are about what happens before `astray` is set; `CallReturns`
is about all of it. The loop of the wait reads the flag again on every turn, for
the kernel is built without optimisation.

`dma` is the place in the buffer channel 2 is set to; the bytes of the two
address registers, of the count and of the page, always sent under `fdc_lock`,
are one step.

### Files

A step is what a call does from one `FDC_readSectors`, where it waits for the
disk, to the next, and processes interleave there. What the timer can split in
between is one step here: the fill of `fat_buffer` and its use
(`floppy_fat12.c:274` to 280), which another process may refill;
`find_free_fd` and the fill of the descriptor (`vfs.c:262` to 270), so
that two processes may find the same one; `ref_count++` and `ref_count--` (266,
280), each a read and a write; and the count and the mark of `VFS_close` (280,
281). `DescriptorsHoldVnodes` and `ReadReturnsFile` say nothing of those races:
the code has no protection against them. Callers are those of the
repository: `spawn_process` and the `readfile` command open, read on and close.

`Disk` is what a sector holds; the names in paths are mapped by `FatName`, as
`string_to_fatname` does. `wild` is set where the code follows a pointer to
nothing, and the model stops: `VFS_open` after a mount that failed (`vfs_root`
is NULL, and `init_process` goes on), and a lookup that comes back to a
directory whose vnode another process evicted while it waited
(`floppy_fat12.c:444`); TLC reaches both, and no property is about what
follows. `CachedUnder` looks for a name in the
whole cache, as `create_vnode` does: on a disk with one name in two directories
`ReadReturnsFile` fails, and the disk of the run has none (`DiskIsSound`).

### Screen and Terminal

`Screen` writes functions as sequences of steps too, so that the nested use of
`vga_lock` is the code's. `printf` takes the lock for each character, `VGA_puts`
for the string. Cells are characters with colours; a row scrolled out is gone.

`Terminal` is the shell of `main.c`, behind the endless loop `start()` stays in
at this commit, as it would be run: no other process reads keys or prints while
it does. Keys are records of two characters; `code` is `g_scancode`, which the
handler overwrites with every byte, between any two accesses of the shell.
`g_extended` stays set after an arrow was released, so that the next shift or
caps lock is not seen. The shift codes that a keyboard sends of itself around
such a key come behind the prefix too (`FakeShift`): the release clears
`g_shiftPressed`, the press only `g_extended`. `getLastKey` never releases its mutex, which a single
reader does not notice. The rest of the commands and the formatting of `vfprintf` are
left out. A tabulator typed into the line moves the cursor by up to four columns
and is one character of the line, of which one backspace takes one column away:
line and screen then differ, so that `PromptIsOnScreen` compares their
characters on lines without one (`tabbed`).

`ArgsAreTheWords` states what `shellParse` does with its boundaries named: the
second of two marks that follow one another stays, a line of blanks is read
beyond its end. `memset(args, 0, 64)` clears 16 of the 64 pointers, though the
comment at `shell.c:239` wants a NULL at the end: nobody reads it.

## 3. Runs

| run | question | bounds | result |
|---|---|---|---|
| `scheduler_safety` | are lists, statuses, locks and life cycle right under every interleaving? | 3 process blocks, quantum 2, sleeps of 1 or 2 ticks, 2 nested interrupts | holds |
| `scheduler_liveness` | is every sleeper woken, every ready process run, every dead one deleted? | 2 blocks, sleeps of 1 tick, no nesting | holds |
| `mutex_safety` | what survives when the timer strikes inside the mutex functions, and are they a FIFO recursive lock when it does not? | 3 blocks, no sleep, 2 nested acquisitions where calls are atomic | holds |
| `mutex_liveness` | does every waiter get it, then? | 2 blocks | holds |
| `mutex_release_refused` | can `release_mutex` refuse one that acquired? | 2 blocks | violated |
| `heap_safety` | do callers get disjoint blocks, and do blocks tile the heap? | 14 units, header 1, page 6, requests of 1 and 4, array of 3, 3 contents of low memory | holds |
| `heap_free_block_lost` | is every free block in the array? | same | violated |
| `memory` | does every frame have one use, over all address spaces? | 34 frames, tables of 4 entries, 3 processes, 2 BIOS maps | holds |
| `floppy` | do driver and controller keep in step, and do calls return? | 2 processes, 8 sectors on 2 cylinders, 2 attempts, a buffer of 2 sectors | holds |
| `floppy_sectors_skipped` | does a request of three sectors get them? | same, a buffer of 3 | violated |
| `files` | are descriptors and vnodes nobody else's, and the bytes those of the file? | 3 processes, 2 descriptors, 2 vnodes, files and directories of 2 clusters | holds |
| `terminal` | do strings, the line on the screen, keys and words come out right? | 3 writers, a screen of 2 rows of 4, 5 keys, a buffer of 6, 3 arguments | holds |

Why the bounds are enough. Three blocks are the least for which a list has a
head, a middle and a tail, for two waiters behind an owner, and for two
releases to race for one waiter; block names are interchangeable, hence the
symmetry (safety runs only). Quantum 2 gives ticks that end a quantum and ticks
that do not. Sleep times 1 and 2 give equal, earlier and later wake times.
`MaxNest` bounds the interrupts nested on one stack, which in the code is
bounded by a stack of one page; 2 is enough for an interrupt between the two
halves of another. `MaxHeld` bounds nested acquisitions: 2 is one nested level,
and 1 where the timer may strike inside a call, which keeps that part small.
The heap has room for six blocks, so that two separate free ones can be among
used ones, it grows by two pages, and the array can be full, lose an entry and
take in a stray one; low memory looks like a large free block, like none, or
like the first at address 0 only. Deadlock is not checked there, for the model
stops at `wild`. `memory` has
three table ranges and frames for all but the last processes, so that it runs
out of both; its maps have memory that ends inside a block, and the entry
that reserves the bitmap is the one the copy cuts. Deadlock
is not checked there either, nor in `files`, for the models stop at `lost` and `wild`,
nor in `terminal`, where the user may stop typing. `floppy` has two cylinders, so
that a seek may be needed or miss, and requests at and beyond the end
of the disk. `files` has fewer vnodes and descriptors than processes want, so
that both tables fill and vnodes are evicted; paths end in the root, in a
directory of two clusters, or nowhere. Five keys on a screen of eight
characters reach the end of a row, scroll, fill the buffer, go back over a
row's end, and make three words with a mark of quotation.

Fairness. `SF(Tick)`: the PIT never stops and the PIC keeps an interrupt
pending, so one is taken if the flag is on again and again. `WF` for the rest
of an interrupt handler, which runs unless nested. `SF` for the steps of
threads and of the cleaner: a thread that is dispatched again and again has
a quantum of several million cycles each time. `CallingProcesses` is about the
programs: like tasks A to D of `main.c`, each calls `create_process`, `sleep`
or `terminate_task` again after a while. Without it `ReadyRuns` fails: a new
process starts with interrupts on (`create_process` stores EFLAGS 0x202) while
`disable_irq_count` is still 1, and gives the count back in the first statement
of `spawn_process` only; preempted between the two, it leaves a process that
resumes inside `yield` with interrupts off, and one that computes then keeps
the CPU, in spite of the `preemptive multitasking` of `main.c:161`.
`DeadAreDeleted` leaves out a process that dies while the
cleaner is between its test of the DEAD list, which is not protected, and its
`block_current_task`: that one stays on the list until the next termination
wakes the cleaner up. `Floppy` has `WF` for the steps of each process in the
driver, which is what the scheduler gives it, and none for the controller.

`atomic = TRUE` in `Mutex` is the assumption that no interrupt strikes between two
accesses of one mutex call. The code does not ensure it: without it
`MutualExclusion`, `NoStrandedWaiter` and `ImplementsFifoLock` fail, and
`mutex_release_refused` shows a consequence that contradicts the source's own
message. Checked under that assumption, they show that the rest of the logic
(nesting, hand-over, order) is right, so that the missing protection is all
that is wrong with it.

## 4. Proofs

`Scheduler` is proved for any finite set of processes, any quantum, any sleep
times and any depth of nesting. Assumptions: `ProcessAssumption` (the names
are distinct, `Worker` is finite) and `TimeAssumption`.

The properties of `scheduler_safety` are not inductive. `IInv`
(`SchedulerInvariant`) adds what they need:

- `Threads`: where the idle process and the cleaner can be, and that a process
  that is current without being RUNNING is on its way to `yield`. This is what
  makes `Terminate`, `SleepBlock` and `CleanerBlock` safe: their caller is
  RUNNING, hence on no list.
- `FreeBlocks`, `Targets`: a block that is free or being built belongs to
  nobody, or to one `create_process`, so `CreateReady` adds a new element to
  the READY list, and the cleaner frees a process no list has.
- `Leavers`: only workers sleep and die, so the cleaner woken by
  `terminate_task` is on no list.
- `Lists` and `Locks`: the properties themselves, `OnOneList`,
  `StatusMatchesList`, `LockBalance`, `InterruptsOnUnlessLocked`, and the half
  of `NoneLost` that is about the dead (`DeadNotLost`).

`SchedulerProofs` proves `Init => IInv` and one lemma per action;
`ListLemmas` has the facts about appending, taking, cutting, inserting and
reversing lists without duplicates. From `[]IInv` follow every state invariant
of the run and `DeadNeverDispatched`; `Refinement` is, step by step, that the
scheduler implements `Lifecycle`. IInv itself was checked with TLC on the
instance of `scheduler_safety` before it was proved.

What the order of the lists is for needs more. `NobodyOvertakes` compares the
places of two ready processes before and after each step, with lemmas about
the places of the entries of an appended, cut or joined list. For
`EveryoneWakesOnTime` the sleep list must be sorted by the time that is left
(`SleepersInOrder`), since `wakeUp` stops at the first node that is not due:
`SleepListIsSorted` shows it, from where `sleep` inserts.

The scheduler is also the lower half of the mutex, whose waiters are BLOCKED on
no list of its own. `IInv` therefore says nothing of such processes (`Parked`),
so that the lemmas about the scheduler's steps serve both; that the scheduler
alone has none (`NobodyParked`) is an invariant beside it, and gives `NoneLost`.

### Mutex

Assumptions: those of the scheduler and `MutexAssumption`, for any number of
processes and any depth of nested acquisitions.

`MutexProofs` is about both kinds of scheduling. The scheduler's invariant is
kept by `acquire_mutex` and `release_mutex`, which move a process between
`current_process`, the waiting list and the READY list; and a process that is
BLOCKED without being on the sleep list (`Parked`) is exactly one on the waiting
list, once (`Waiters`). So the timer may strike anywhere in the two functions:
the shared `next` fields stay in order and no waiter gets lost.

`AtomicInvariance` is about calls that no interrupt cuts. `Undisturbed` adds that
the process between two accesses keeps the CPU (`Serial`), that what it found at
its last test still holds (`Tested`), what an owner that holds nothing is doing
(`Owners`: it was given the mutex and is on its way back from its wait), and
how the flag lags behind the owner (`Flag`). Mutual exclusion, that no waiter
is stranded, and `ImplementsFifoLock` follow: the accesses that set the owner,
count or queue map to a step of `FifoLock`, the others to none.

### Heap

Assumptions: `HeapAssumption` (positive sizes, NULL is no address, the heap starts
above any size it can have) and `RequestAssumption`; any sizes of header, page,
heap, array and requests, and any contents of low memory.

`HInv` speaks of a record, not of the variable, for `kfree` and `krealloc` go
through heaps that no caller sees: `Good` holds between two calls, `Pending`
while a block that is in no list is being freed. Its parts:

- `Formed`, the fields and their types; no block is empty.
- `Tiled`, the links: each block but the last is followed by the one that starts
  where it ends, and `back` undoes `next`.
- `Spaced`: no block reaches into another or over the break. It follows from
  `Tiled` by induction along the list, which this prover cannot do, so it is a
  part of the invariant; without it a merge could not be shown to keep the
  other blocks apart.
- `Listing`: the entries of the array are distinct free blocks or addresses in
  low memory, and a block is no smaller than the entries before it, where a low
  address counts with the size read there. Stray words are in it only once
  the word beyond the end is one. That is all that insertion and removal leave
  true, full or not, and enough for `kmalloc` to take a block that is free and
  large enough, or a stray word (`StrayFacts`).
- `Merged`: free blocks do not touch and the last one is in use.

`HInv` adds the callers' blocks, and that `wild` comes only after the word beyond
the array has become a stray one. `HeapProofs` shows what an insertion and a
removal do to the array (a removal from a full one brings in the size of the
first block: `BehindFacts`), and then
goes through `kfree` (its merge with either neighbour, and the break that moves
down), the cut of a block in `kmalloc`, which frees the rest, and the growth by
`sbrk`. In `AllocatorIsImplemented` a `krealloc` that moves its block
maps to one step, with the heap between its `kmalloc` and its `kfree` as the
witness.

### Memory

`MemoryProofs` is about any number of processes and frames, any sizes of the
ranges and any image. Assumptions: `MemoryAssumption`, and, as a hypothesis of
each theorem, that every memory map is `Usable`.

`MemoryAssumption` bounds the sizes by each other, as the code's constants are:

| conjunct | what it is for | in the code |
|---|---|---|
| `STEP <= PER` | the loop that makes the tables of a range skips none | 400 pages, 1024 entries |
| `FATPAGES <= PER` | the mount's pages | 9 sectors, 2 pages |
| `3 <= HEAPTABLES * PER` | the pages the heap starts with | 32 tables |
| `MaxHeap <= HEAPTABLES * PER` | the heap stays in its range | `sbrk` refuses `HEAP_END_ADDR` |

`Usable` says what the machine has to be like, and the theorems fail without it:

- Frame 0 is not given out: the code takes its address for "no frame".
- There are `7 + HEAPTABLES + VMTABLES` free frames: three for `VIRTMEM_initialize`,
  the tables of both ranges, and four pages. `start()` does not test whether it
  got them.
- No free run but the first is shorter than the buffer of the floppy, for the
  search of `PHYSMEM_AllocBlocks` counts one block too many beyond the first
  run, and would put the end of the buffer in a frame that has an owner.

The maps TLC checks are usable (`MapsAreUsable` in `MCMemory`).

`MInv` has these parts:

- `Kept`, what every function of the three files keeps, over the directories a
  caller may be in: `FramesKept` (bitmap and counters; the frames reserved at
  the start stay so), `DirectoriesKept` (all agree on the kernel's slots) and
  `OneUse`, the property `FrameHasOneUse` of any record.
- `Tabled`: the kernel's tables are there, so that no page of the heap or of
  vmalloc makes a table in one directory that the others do not get.
- `RangeKept`: vmalloc hands its pages out once, in order. The bitmap that
  `vfree` never clears makes this so, and it is why a list whose counters alone
  move cannot give a page to two callers.
- `Packed`: until the buffer of the floppy is taken, the frames in use are below
  the free ones. It says that the buffer, searched for in what is left of the
  runs of the map, fits (`BufferFits`); afterwards nobody asks for more than
  one frame.
- `ProcessesKept`: directory and stack of a process are nodes of vmalloc's list
  that no other process has, and `root` is the frame behind the directory. So
  `DeleteProcess` frees what `CreateProcess` took, in the address space of the
  cleaner, and no more.
- `CacheKept`: a translation the CPU keeps leads to a table with no entries, so
  that the stale one `VIRTMEM_destroyAddressSpace` may read through gives back no
  frame of anybody. This is why the wrong `invlpg` leaks and does not corrupt.

There is a lemma for each function of the files, on any record that is `Kept`,
for what a use of frames becomes when one is added (`OneMore`: a table, a page,
a directory) or taken away (`OneLess`). A loop is treated by the set of turns
before which the claim fails: it has no least element (`NoFirst`), which takes
the place of an induction theorem. A lemma for each action (`CreateProcessStep`,
`DeleteProcessStep`, ...) composes those of its calls, and `InitKept` follows
`start()`.

Each inductive invariant was an invariant of a TLC run on the instance of the
component's safety run before it was proved (`MInv` without the types in `Shaped`,
which are infinite sets; `StringInv` with three keys, and with the labels computed
from the steps that were taken).

### Files

Assumptions: `FilesAssumption`; any disk, any number of processes, and any size
of the two tables. `DescriptorsHoldVnodes` is in `FInv` in the form that is
inductive: `CachedOnce` (a vnode in use is in one slot of the cache, and no slot
holds one that is not), `CountsHolders` (`ref_count` is the number of
descriptors that hold the vnode) and `OneOwner` (each descriptor in use is
the one of exactly one call). They are operators of the tables, for `VFS_open`
goes through tables no other call sees. The steps that
matter are the eviction of the vnode that `create_vnode` replaces, which must not
take one that is counted, and the slot that is free whenever no vnode is.

`ReadsAreRight` proves `ReadReturnsFile` for any disk the driver can read, which
`DiskIsSound` says and `MCFiles` has TLC evaluate for the disk of the run:

- what the paths name is unique by name, over all directories they lead through,
  for `create_vnode` looks in its cache by name alone;
- the part of the FAT the chains use is what `fat12_mount` loaded. It loads the
  whole table in one `FDC_readSectors`, whose first two sectors are the right ones
  (`floppy_sectors_skipped` is about the others), so this holds for disks whose
  chains stay in them;
- the chain of a directory ends, and that of a file is as long as its size asks.
  Otherwise a lookup or a read goes where the FAT leads, to no promise of the code.

The invariant of it, `RInv`, has what a path may rely on while it waits for the disk
and others evict its vnodes. `VnodesShow`: a vnode in use is of an entry some path
names. `LooksRight`: a lookup has names left of its path, and the sector it waits
for is one of the directory they are in; it does not speak of the vnode of that
directory, which may be gone. `ReadsRight`: the vnode of a descriptor shows the
file of the path, what was read is its first bytes, as many as the position
says, and a read in progress is in the cluster its next byte is in (`Continues`).
`CreatedFacts` ties them to `FInv`: the vnode of an open descriptor is not the one
that is evicted. The reference `TrueBytes` and the driver's `Skip` are both
recursive in the FAT; that they agree (`SkipFacts`, `ChainFacts`) is proved from
their defining equations with `NoFirst`, least numbers in place of induction. TLC
checked `RInv` on the instance of `files` before it was proved.

### Keyboard, line, strings and arguments

Assumptions: `ScreenAssumption` and `TerminalAssumption`, for any screen, buffer
and keys. `NoPressTwice` needs a press to stay counted while the driver or
`getchar` has it (`PressesCounted`), whichever way the interrupts fall between
the accesses of the shell to `g_scancode`. `LineIsOnScreen` is `InFront`: the
characters in front of the cursor are those of the buffer, which each echo,
backspace, line end and scroll keeps; a row that scrolls out takes its part of
the line with it. The proof showed that a tabulator breaks it, which the keys
of the run had left out; the property now says so (`tabbed`), and the run has
the key.

`StringsStayWhole` proves `StringsAreWhole` for any writers that print any texts,
next to a shell that is typed in. Its hypothesis, `TextsAreReadable`, is what the
property needs to mean something: a character on the screen tells which text it
is of, so no text shares one with another, with the keys or with the prompt;
none rubs out or writes over what is printed (no blank, backspace or carriage
return), and only `printf` prints line ends and tabulators, for a string with a line
end in it does not stay in one piece. The texts TLC checks are readable
(`TextsReadable` in `MCTerminal`); with a key typed that is in a text, TLC finds
`StringsAreWhole` violated.

The steps of a writer have labels, as those of `Floppy` below: how often it has
`vga_lock`, how many characters it has printed, which colour it has set. `May`
lets it print the next character of its text only in its own colour, and give the
lock away for good only in the default colour and outside of a string; that
`VGA_puts` and `VGA_coloredPuts` are such programs (`PrintsLeads`) is composed from
one lemma for each function. `StringInv` says that every writer has a label that
leads to its end and fits the lock and the colour, and that the screen is `Whole`
at the counts of the labels:

- `Clean`: behind the cursor there is nothing.
- `Coloured`: a character of a text has the colour of its writer.
- `Joined`: behind a character of a string comes the next one, or the cursor
  while its writer is exactly there. Only the holder of the lock is inside of a
  string, so no other character goes there.

`Shifted` is what line ends, scrolling and tabulators do to a screen that is
clean, and keeps all three. When the shell has the screen, nobody is inside of a
string (`Quiet`), and a backspace takes only what was typed: the last `position`
cells in front of the cursor are of no text (`Own`), for each character of the
buffer takes at least one cell.

`WordsAreRight` proves `ArgsAreTheWords`. `ArgsInv` adds to `TerminalInv` that the
buffer has ended in a NUL since `shellRead` wrote one, and that the arguments of
a command are what `shellParse` made of this prompt. The rest is about that
program, which cuts words out of a buffer while it shifts the quotation marks
out of it. `PurifiedFacts` shows that `promptPurify` leaves the typed line at the
start of the buffer. `Loop` is the invariant of the loop: after the first k
characters of the line, with the position at t,

- `Rest`: the characters of the line that are left lie at t;
- `Found`: the finished words lie in front of `begin`, each with its NUL;
- `Opened`: the word that is open lies from `begin` to t.

A turn takes one character (`TurnFacts`): a mark is shifted out and the rest moves
onto it (`MarkGoes`), a blank cuts (`BlankCuts`), any other character stays
(`CharStays`). The loop ends with the line or with the last argument there is room
for (`EndsFacts`). That the recursive functions `Words` and the loop are written as
have values is shown by `NoFirst`, as for the files.

### Floppy

Assumption: `FloppyAssumption`; any number of processes and attempts, any
geometry, any requests. The state of a process is a list of steps, so that the
invariant cannot name the places of the program as a program counter would.
`FloppyProofs` gives each place between two steps a label instead: how often
`fdc_lock` is held there, what the DOR is set to, what the controller does, the
cylinder and the place in the buffer the driver relies on, and how many sectors
have been read. `May` is what a step needs of the label in front of it, `After`
the label behind it, and `Leads(r, t, a, b)` that the steps `t` can be labelled
all the way from `a` to `b`. One lemma for each function of the driver
(`SeekLeads`, `ResetControllerLeads`, ...) is composed from those of the functions it
calls. `FloppyInv` says that what every process has left leads from a label that
fits the state (`Fits`) to the one at rest, and each step of the system then
checks one step of one program.

From it follow `InStep`, and that a copy has the sectors its own loop computed
(`ReadsAreWhole`), whoever else reads. They are not those that were asked for
when there are three or more, as `floppy_sectors_skipped` shows;
`ShortReadsAreRight` has `ReadsWhatWasAsked` for requests of one and two.
`floppy_fat12.c` asks for one sector, or for one cluster, at a time, and for the
whole allocation table when it mounts.

### Only model-checked

Every invariant of a passing run is proved. Liveness (`scheduler_liveness`,
`mutex_liveness`, `CallReturns`) is out of reach of the prover.

## 5. Not modelled

- The linking of the scheduler's lists through `next` fields: they are
  sequences here.
- The debug port with `vfprintf`, the GDT, IDT, PIC and dispatch tables,
  `hal/io.c`, the library's string functions: no state that another part reads,
  or tables filled once.
- `VFS_unmount`, a second mount, `fat12_write`, `FDC_dmaWrite`,
  `PHYSMEM_freeBlocks`, `destroy_mutex`: without a caller, or stubs.
- `FDC_selectDataRate`, which `FDC_resetController` calls (`fdc.c:406`): it
  writes a register no other step depends on. `VGA_moveCursorTo`, by which the `help` command aligns its columns
  (`shell.c:278` to 307), with the other commands.
- `kmalloc`, `kfree`, frames and ranges interrupted by each other: they take no
  lock, and the code claims no protection to check.
- The boot loader, which runs once, before the kernel; the user program, a few
  instructions; `src/ZigNovix` and `src/osdev`, other programs.

------------------------------- MODULE Memory -------------------------------
(***************************************************************************)
(* Frames, page tables and address spaces:                                 *)
(* src/src/kernel/memmgr/physmem_manager.c, vmalloc.c, virtmem_manager.c,  *)
(* and what the start-up code and the processes ask of them.               *)
(*                                                                         *)
(* `mem` is a record of what these three files keep in memory: the bitmaps *)
(* with their two counters (`ram` for frames, `range` for the pages of     *)
(* vmalloc), the list `track` of vmalloc, the page directories `pd` and    *)
(* page tables `pt`, by the frame they are in, and `boot`, the directory   *)
(* that virtmem_manager.c starts with.  Functions of the code are          *)
(* operators from a record to a record.  An address of a page is its       *)
(* number; frame 0, page 0 and the entry 0 are NULL, "not present".        *)
(*                                                                         *)
(* A call is one step: this is the memory of callers that do not interrupt *)
(* each other inside these functions, which take no lock.                  *)
(***************************************************************************)
EXTENDS Integers, Sequences, FiniteSets, FiniteSetsExt, SequencesExt, Functions

CONSTANTS
    Proc,       \* the process_t of create_process
    NULL,       \* no process
    BLOCK,      \* the size of a block, in the unit of the memory map
    TOTAL,      \* totalBlockNumber
    BITMAP,     \* bitmapSize
    Maps,       \* memory maps that the BIOS may report
    COPIED,     \* entries of a map that fit in the 256 bytes copied: 12
    Image,      \* the frames that hold the kernel, at 1 MB
    PER,        \* the entries of a page table: 1024
    STEP,       \* pages from one VIRTMEM_mapTable to the next at start: 400
    HEAPTABLES, \* the page tables of the heap's range
    VMTABLES,   \* the page tables of vmalloc's range
    DMABLOCKS,  \* FDC_BUFFER_BLOCKSIZE
    FATPAGES,   \* the pages of a file allocation table
    MaxHeap     \* bound: pages of the heap

ASSUME MemoryAssumption ==
    /\ NULL \notin {{}} \cup {f .. f + DMABLOCKS - 1 : f \in 0 .. TOTAL - 1}
    /\ NULL \notin [dir : Int, root : Int, stack : Int]
    /\ {BLOCK, TOTAL, BITMAP, COPIED, PER, STEP, HEAPTABLES, VMTABLES, DMABLOCKS,
        FATPAGES, MaxHeap} \subseteq Nat \ {0}
    /\ STEP <= PER /\ FATPAGES <= PER
    /\ 3 <= HEAPTABLES * PER /\ MaxHeap <= HEAPTABLES * PER
    /\ Image \subseteq 1 .. TOTAL - 1

\* The table slots of a page directory: 0 maps the first frames onto
\* themselves, 1 is the program of a user process at 0x400000, 2 the kernel
\* at 0xC0000000; the heap and vmalloc follow.
Identity == 0
User == 1
Kernel == 2
Slot == 0 .. 2 + HEAPTABLES + VMTABLES
UserPage == User * PER
HeapStart == 3 * PER
VmStart == (3 + HEAPTABLES) * PER
VmPages == VMTABLES * PER

VARIABLES
    mem,      \* what the three files keep, as above
    cached,   \* the translation of the address of table User that the CPU
              \* keeps for the boot directory, 0 if none
    proc,     \* the process_t: pages of its directory and stack, its cr3
    reserved, \* the frames that PHYSMEM_initialize leaves marked used
    heapEnd,  \* the first page of the heap's range not mapped
    dma,      \* the frames of fdc_buffer, NULL before FDC_initialize
    fat,      \* the pages of the file allocation table, 0 before the mount
    lost      \* the kernel has used a page it did not get

memVars == <<mem, cached, proc, reserved, heapEnd, dma, fat, lost>>

-----------------------------------------------------------------------------
(***************************************************************************)
(* Mutated forms of operators below, used only to show that every property *)
(* of the runs can fail.                                                   *)
(***************************************************************************)

\* PHYSMEM_freeBlock counts before it looks at the pointer.
FreeBlockNull(m, f) ==
    [m EXCEPT !.ram = [used |-> IF f = 0 THEN @.used ELSE @.used \ {f},
                       free |-> @.free + 1,
                       busy |-> @.busy - 1]]

\* VIRTMEM_freePage forgets to clear the entry.
ClearEntryNever(m, t, i) ==
    [m EXCEPT !.ram = [used |-> @.used \ {m.pt[t][i]},
                       free |-> IF m.pt[t][i] = 0 THEN @.free ELSE @.free + 1,
                       busy |-> IF m.pt[t][i] = 0 THEN @.busy ELSE @.busy - 1]]

\* VIRTMEM_createAddressSpace clears up to slot 768 included.
CopiedBelow(m, d) == [m.pd[d] EXCEPT ![User] = 0, ![Kernel] = 0]

-----------------------------------------------------------------------------
(***************************************************************************)
(* The bitmaps: the same search in physmem_manager.c and vmalloc.c         *)
(***************************************************************************)

\* The first block of the run that the search for n blocks ends in, if it
\* ends: after the first run the search counts one block too many.
FirstFit(b, n, total) ==
    LET free == (0 .. total - 1) \ b.used
        starts == {s \in free : s - 1 \notin free}
        tested(s) == IF s = Min(free) THEN n ELSE n - 1
        fits == {s \in starts : s .. s + tested(s) - 1 \subseteq free}
    IN  IF n > b.free \/ fits = {} THEN {} ELSE {Min(fits)}

SetUsed(b, blocks) ==
    [used |-> b.used \cup blocks,
     free |-> b.free - Cardinality(blocks),
     busy |-> b.busy + Cardinality(blocks)]

-----------------------------------------------------------------------------
(***************************************************************************)
(* physmem_manager.c                                                       *)
(***************************************************************************)

\* PHYSMEM_memoryMapToBlock and the loops of PHYSMEM_initialize, over the
\* map with the entry that PHYSMEM_initData adds for the bitmap: available
\* blocks are toggled, then the others are marked used.
Up(n) == (n + BLOCK - 1) \div BLOCK

Covers(e, x) ==
    IF e.available THEN Up(e.base) <= x /\ x < Up(e.base) + e.length \div BLOCK
    ELSE e.base \div BLOCK <= x /\ x < e.base \div BLOCK + Up(e.length)

BitmapEntry(map) ==
    LET fit(e) == e.available /\ e.length >= BITMAP
    IN  [base |-> map[SelectInSeq(map, fit)].base, length |-> BITMAP,
         available |-> FALSE]

\* The copy that PHYSMEM_initData makes stops before the type of the entry
\* after those that fit, which is then none that is available.  What lies
\* behind is empty.
Copy(entries) ==
    [i \in DOMAIN entries |->
        CASE i <= COPIED -> entries[i]
          [] i = COPIED + 1 -> [entries[i] EXCEPT !.available = FALSE]
          [] OTHER -> [base |-> 0, length |-> 0, available |-> FALSE]]

PhysInitialized(map) ==
    LET entries == Copy(Append(map, BitmapEntry(map)))
        on(x, kind) == {i \in DOMAIN entries :
                            entries[i].available = kind /\ Covers(entries[i], x)}
        used == {x \in 0 .. TOTAL - 1 :
                    Cardinality(on(x, TRUE)) % 2 = 0 \/ on(x, FALSE) # {}}
    IN  [used |-> used, free |-> TOTAL - Cardinality(used),
         busy |-> Cardinality(used)]

\* PHYSMEM_AllocBlock: the frame it returns, 0 if there is none, and the
\* memory after it.
NextFrame(m) == LET at == FirstFit(m.ram, 1, TOTAL) IN IF at = {} THEN 0 ELSE Min(at)

AllocBlock(m) == [m EXCEPT !.ram = SetUsed(@, FirstFit(@, 1, TOTAL))]

\* PHYSMEM_AllocBlocks: the frames, NULL if there are none.
NextFrames(m, n) ==
    LET at == FirstFit(m.ram, n, TOTAL)
    IN  IF at = {} THEN {} ELSE Min(at) .. Min(at) + n - 1

\* PHYSMEM_freeBlock, with the toggle of PHYSMEM_setBlockToFree.
FreeBlock(m, f) ==
    IF f = 0 THEN m
    ELSE [m EXCEPT !.ram = [used |-> SymDiff(@.used, {f}),
                            free |-> @.free + 1,
                            busy |-> @.busy - 1]]

-----------------------------------------------------------------------------
(***************************************************************************)
(* virtmem_manager.c.  d is the directory in cr3.                          *)
(***************************************************************************)

NoEntries == [i \in 0 .. PER - 1 |-> 0]

MapTable(m, d, v) ==
    LET s == v \div PER
        f == NextFrame(m)
    IN  IF m.pd[d][s] # 0 THEN m
        ELSE IF f = 0 THEN AllocBlock(m)
        ELSE [AllocBlock(m) EXCEPT !.pd[d][s] = f,
                                   !.pt = [t \in DOMAIN @ \cup {f} |->
                                              IF t = f THEN NoEntries ELSE @[t]]]

\* VIRTMEM_getPhysAddr.  The first 4 MB, where NULL is, are always mapped.
Phys(m, d, v) ==
    IF v \div PER = Identity THEN v
    ELSE IF m.pd[d][v \div PER] = 0 THEN 0
    ELSE m.pt[m.pd[d][v \div PER]][v % PER]

\* VIRTMEM_mapPage once the table is there, if there was a frame for it.
MapEntry(m, d, v) ==
    LET t == m.pd[d][v \div PER]
    IN  IF v \div PER = Identity \/ t = 0 \/ m.pt[t][v % PER] # 0 THEN m
        ELSE [AllocBlock(m) EXCEPT !.pt[t][v % PER] = NextFrame(m)]

MapPage(m, d, v) == MapEntry(MapTable(m, d, v), d, v)

\* VIRTMEM_freePage of an entry of table t, if it is present.
ClearEntry(m, t, i) ==
    IF m.pt[t][i] = 0 THEN m
    ELSE [FreeBlock(m, m.pt[t][i]) EXCEPT !.pt[t][i] = 0]

UnMapPage(m, d, v) ==
    LET t == m.pd[d][v \div PER]
    IN  IF v \div PER = Identity \/ t = 0 THEN m ELSE ClearEntry(m, t, v % PER)

UnMapTable(m, d, s) == [FreeBlock(m, m.pd[d][s]) EXCEPT !.pd[d][s] = 0]

MapPages(m, d, v, n) ==
    LET after[i \in 0 .. n] ==
            IF i = 0 THEN m ELSE MapPage(after[i - 1], d, v + i - 1)
    IN  after[n]

UnMapPages(m, d, v, n) ==
    LET after[i \in 0 .. n] ==
            IF i = 0 THEN m ELSE UnMapPage(after[i - 1], d, v + i - 1)
    IN  after[n]

\* VIRTMEM_initialize: the directory, the identity map and the kernel's.
Paged(m) ==
    LET one == AllocBlock(m)
        two == AllocBlock(one)
        frame == [x \in 1 .. 3 |-> NextFrame(CASE x = 1 -> m [] x = 2 -> one
                                               [] x = 3 -> two)]
        directory == [s \in Slot |-> CASE s = Identity -> frame[2]
                                       [] s = Kernel -> frame[3]
                                       [] OTHER -> 0]
    IN  [AllocBlock(two) EXCEPT !.boot = frame[1],
                                !.pd = [d \in {frame[1]} |-> directory]]

-----------------------------------------------------------------------------
(***************************************************************************)
(* vmalloc.c, and the start of heap.c                                      *)
(***************************************************************************)

\* The tables of a range, so that they are "consistent in all address space".
Tables(tables) == (tables * PER + STEP - 1) \div STEP

MapRange(m, from, tables) ==
    LET after[i \in 0 .. Tables(tables)] ==
            IF i = 0 THEN m
            ELSE MapTable(after[i - 1], m.boot, from + (i - 1) * STEP)
    IN  after[Tables(tables)]

HeapInitialized(m) ==
    MapPages(MapRange(m, HeapStart, HEAPTABLES), m.boot, HeapStart, 2)

\* VMALLOC_initialize; its kmalloc of the bitmap takes one page more.
VmInitialized(m) ==
    MapRange(MapPages(m, m.boot, HeapStart + 2, 1), VmStart, VMTABLES)

\* vmalloc of n pages: the first page, NULL if the range is exhausted, whose
\* pages are then those at 0, and the memory after it.
VmPage(m, n) ==
    LET at == FirstFit(m.range, n, VmPages)
    IN  IF at = {} THEN 0 ELSE VmStart + Min(at)

Vmalloc(m, d, n) ==
    LET v == VmPage(m, n)
        blocks == IF v = 0 THEN {} ELSE v - VmStart .. v - VmStart + n - 1
        found == [m EXCEPT !.range = SetUsed(@, blocks)]
        node == [page |-> v, size |-> n]
    IN  [MapPages(found, d, v, n) EXCEPT
            !.track = IF @ = <<>> THEN <<node>> ELSE InsertAt(@, 2, node)]

\* vfree.  VMALLOC_freeThisRange computes a block number beyond the bitmap,
\* where VMALLOC_setBlockToFree does nothing: only the counters move.
Vfree(m, d, v) ==
    LET at == SelectInSeq(m.track, LAMBDA node : node.page = v)
        n == m.track[at].size
        counted == [m EXCEPT !.range.free = @ + n, !.range.busy = @ - n]
    IN  IF v = 0 \/ at = 0 THEN m
        ELSE [UnMapPages(counted, d, v, n) EXCEPT !.track = RemoveAt(@, at)]

-----------------------------------------------------------------------------
(***************************************************************************)
(* Address spaces                                                          *)
(***************************************************************************)

\* What VIRTMEM_createAddressSpace writes in the new directory.
Copied(m, d) == [m.pd[d] EXCEPT ![User] = 0]

\* VIRTMEM_destroyAddressSpace of the directory in frame r, at page v.  Its
\* user table enters the boot directory, which the cleaner runs in, and is
\* read at the address that all user tables in turn have there: flushTLB
\* gives invlpg the address of its argument, so that the CPU may still keep
\* the translation that a former call left, `seen`.
Table(m, r, seen) == IF m.pd[r][User] # 0 /\ seen # 0 THEN seen ELSE m.pd[r][User]

Cleared(m, t) ==
    LET after[i \in 0 .. PER] ==
            IF i = 0 THEN m ELSE ClearEntry(after[i - 1], t, i - 1)
    IN  after[PER]

Destroyed(m, r, v, seen) ==
    LET entered == [m EXCEPT !.pd[m.boot][User] = m.pd[r][User]]
        t == Table(m, r, seen)
        cleared == IF t = 0 THEN entered ELSE Cleared(entered, t)
        freed == Vfree(UnMapTable(cleared, m.boot, User), m.boot, v)
    IN  [freed EXCEPT !.pd = Restrict(@, DOMAIN @ \ {r})]

-----------------------------------------------------------------------------
(***************************************************************************)
(* The callers                                                             *)
(***************************************************************************)

Live == {p \in Proc : proc[p] # NULL}

\* The directories a caller may run in.
Directory == {mem.boot} \cup {proc[p].root : p \in Live}

\* What is next written is in a page the kernel got, and the frames taken
\* are not those it runs from.
Safe(m, d, v) == v # 0 /\ Phys(m, d, v) # 0 /\ m.ram.used \cap Image = {}

\* start(), up to initialize_multitasking with the stack of the cleaner.
MemInit ==
    \E map \in Maps :
        LET ram == PhysInitialized(map)
            none == [used |-> {}, free |-> VmPages, busy |-> 0]
            blank == [ram |-> ram, range |-> none, track |-> <<>>,
                      pd |-> <<>>, pt |-> <<>>, boot |-> 0]
            ready == VmInitialized(HeapInitialized(Paged(blank)))
        IN  /\ mem = Vmalloc(ready, ready.boot, 1)
            /\ cached = 0
            /\ proc = [p \in Proc |-> NULL]
            /\ reserved = ram.used
            /\ heapEnd = HeapStart + 3
            /\ dma = NULL
            /\ fat = 0
            /\ lost = FALSE

\* init_process: FDC_initialize, then VFS_mount, whose vmalloc is given back
\* when the mount fails.
FdcInitialize ==
    /\ dma = NULL /\ Live # {}
    /\ LET frames == NextFrames(mem, DMABLOCKS)
       IN  /\ dma' = frames
           /\ mem' = [mem EXCEPT !.ram = SetUsed(@, frames)]
           /\ lost' = (frames \cap Image # {})
    /\ UNCHANGED <<cached, proc, reserved, heapEnd, fat>>

Mount ==
    /\ dma # NULL /\ fat = 0
    /\ \E p \in Live :
        LET d == proc[p].root
            v == VmPage(mem, FATPAGES)
            got == Vmalloc(mem, d, FATPAGES)
        IN  /\ \/ mem' = got /\ fat' = v
               \/ mem' = Vfree(got, d, v) /\ UNCHANGED fat
            /\ lost' = ~(\A i \in 0 .. FATPAGES - 1 : Safe(got, d, v + i))
    /\ UNCHANGED <<cached, proc, reserved, heapEnd, dma>>

\* create_process, called in directory d: first by start(), then by
\* processes once init_process is through.
CreateProcess(p, d) ==
    /\ proc[p] = NULL
    /\ fat # 0 \/ (dma = NULL /\ Live = {})
    /\ LET v == VmPage(mem, 1)
           one == Vmalloc(mem, d, 1)
           r == Phys(one, d, v)
           copied == [one EXCEPT !.pd = [x \in DOMAIN @ \cup {r} |->
                                            IF x = r THEN Copied(one, d) ELSE @[x]]]
           w == VmPage(one, 1)
           two == Vmalloc(copied, d, 1)
       IN  IF ~Safe(one, d, v) THEN
               mem' = one /\ lost' = TRUE /\ UNCHANGED proc
           ELSE
               /\ mem' = two
               /\ lost' = ~Safe(two, d, w)
               /\ proc' = [proc EXCEPT ![p] = [dir |-> v, root |-> r, stack |-> w]]
    /\ cached' = 0
    /\ UNCHANGED <<reserved, heapEnd, dma, fat>>

\* spawn_process of a user process, which runs in its own directory: the
\* CPU has forgotten the translations of the one before.
LoadProgram(p) ==
    /\ fat # 0
    /\ Phys(mem, proc[p].root, UserPage) = 0
    /\ mem' = MapPage(mem, proc[p].root, UserPage)
    /\ lost' = ~Safe(mem', proc[p].root, UserPage)
    /\ cached' = 0
    /\ UNCHANGED <<proc, reserved, heapEnd, dma, fat>>

\* sbrk maps one more page of the heap, in whatever directory it is called,
\* but not by the cleaner.
GrowHeap(d) ==
    /\ heapEnd < HeapStart + MaxHeap
    /\ mem' = MapPage(mem, d, heapEnd)
    /\ heapEnd' = IF Phys(mem', d, heapEnd) # 0 THEN heapEnd + 1 ELSE heapEnd
    /\ lost' = (mem'.ram.used \cap Image # {})
    /\ cached' = 0
    /\ UNCHANGED <<proc, reserved, dma, fat>>

\* delete_process, by the cleaner: the CPU may keep or forget a translation.
DeleteProcess(p) ==
    /\ \E seen \in {cached, 0} :
        /\ mem' = Vfree(Destroyed(mem, proc[p].root, proc[p].dir, seen),
                        mem.boot, proc[p].stack)
        /\ LET t == Table(mem, proc[p].root, seen)
           IN  cached' = IF t = 0 THEN cached ELSE t
    /\ proc' = [proc EXCEPT ![p] = NULL]
    /\ UNCHANGED <<reserved, heapEnd, dma, fat, lost>>

\* Other processes run, and come back to the cleaner.
SwitchAway == cached' = 0 /\ UNCHANGED <<mem, proc, reserved, heapEnd, dma, fat, lost>>

MemNext ==
    /\ ~lost
    /\ \/ FdcInitialize
       \/ Mount
       \/ \E d \in Directory : GrowHeap(d) \/ \E p \in Proc : CreateProcess(p, d)
       \/ \E p \in Live : LoadProgram(p) \/ (fat # 0 /\ DeleteProcess(p))
       \/ SwitchAway

MemSpec == MemInit /\ [][MemNext]_memVars

-----------------------------------------------------------------------------
(***************************************************************************)
(* Safety                                                                  *)
(***************************************************************************)

\* What frames are used for: the first directory, the tables, the pages that
\* entries of the tables map, the buffer of the floppy.  The slots of the
\* kernel are the same in every directory.
Use(frame, of, by, at) == [frame |-> frame, of |-> of, by |-> by, at |-> at]

OwnSlots(m, d) == IF d = m.boot THEN Slot ELSE {User}

TableUses(m, dirs) ==
    {use \in {Use(m.pd[d][s], "directory", d, s) : d \in dirs, s \in Slot} :
        use.frame # 0 /\ use.at \in OwnSlots(m, use.by)}

PageTables(m, dirs) ==
    {use.frame : use \in {u \in TableUses(m, dirs) : u.at \notin {Identity, Kernel}}}

PageUses(m, dirs) ==
    {use \in {Use(m.pt[t][i], "table", t, i) : t \in PageTables(m, dirs), i \in 0 .. PER - 1} :
        use.frame # 0}

Uses(m, dirs, buffer) ==
    {Use(m.boot, "cr3", 0, 0)} \cup TableUses(m, dirs) \cup PageUses(m, dirs)
    \cup {Use(f, "dma", 0, f) : f \in buffer}

Buffer == IF dma = NULL THEN {} ELSE dma

OneUse(uses, used) ==
    /\ {use.frame : use \in uses} \subseteq used
    /\ \A u, w \in uses : u.frame = w.frame => u = w

\* A frame in use is marked so in the bitmap and has one use: nothing that
\* can still be reached through an address space, the cleaner's included,
\* has been given back or is given out twice.
FrameHasOneUse == OneUse(Uses(mem, Directory, Buffer), mem.ram.used \ reserved)

\* The heap and vmalloc are "consistent in all address space": their tables
\* are in every directory, where no later mapping is missed, and the cleaner
\* keeps no user table.
KernelShared ==
    /\ mem.pd[mem.boot][User] = 0
    /\ \A d \in Directory, s \in Slot \ {User} :
        mem.pd[d][s] # 0 /\ mem.pd[d][s] = mem.pd[mem.boot][s]
    /\ ~lost => \A p \in Live :
        /\ Phys(mem, proc[p].root, proc[p].dir) = proc[p].root
        /\ Phys(mem, proc[p].root, proc[p].stack) # 0

\* The counters say what the bitmap of the frames, and the list of vmalloc,
\* say; the pages mapped in its range are those of its list, each once.
Pages(node) == node.page .. node.page + node.size - 1

Nodes(track) == {i \in DOMAIN track : track[i].page # 0}

Held(track) == UNION {Pages(track[i]) : i \in Nodes(track)}

VmMapped(m) == {v \in VmStart .. VmStart + VmPages - 1 : Phys(m, m.boot, v) # 0}

Counted(b, taken, total) == b.busy = Cardinality(taken) /\ b.free = total - b.busy

CountersMatch ==
    /\ Counted(mem.ram, mem.ram.used, TOTAL)
    /\ Counted(mem.range, Held(mem.track), VmPages)
    /\ \A i, j \in Nodes(mem.track) :
          i # j => Pages(mem.track[i]) \cap Pages(mem.track[j]) = {}
    /\ ~lost => Held(mem.track) = VmMapped(mem)

=============================================================================

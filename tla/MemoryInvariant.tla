-------------------------- MODULE MemoryInvariant --------------------------
(***************************************************************************)
(* The inductive invariant of Memory, in parts that speak of any record of *)
(* what the three files keep: a call goes through many that no caller ever *)
(* sees.                                                                   *)
(***************************************************************************)
EXTENDS Memory

-----------------------------------------------------------------------------
Bitmap == [used : SUBSET Int, free : Int, busy : Int]

Node == [page : Nat, size : Nat \ {0}]

\* The fields, and what they are made of.
Shaped(m) ==
    /\ m \in [ram : Bitmap, range : Bitmap, track : Seq(Node),
              pd : {m.pd}, pt : {m.pt}, boot : Nat]
    /\ m.pd \in [DOMAIN m.pd -> [Slot -> Nat]]
    /\ m.pt \in [DOMAIN m.pt -> [0 .. PER - 1 -> Nat]]

\* The bitmap of the frames and its counters; R is reserved, frame 0 with it.
FramesKept(m, R) ==
    /\ m.ram.used \subseteq 0 .. TOTAL - 1
    /\ 0 \in R /\ R \subseteq m.ram.used
    /\ Counted(m.ram, m.ram.used, TOTAL)

\* The directories D have the kernel's slots in common.
DirectoriesKept(m, D) ==
    /\ m.boot \in D /\ D \subseteq DOMAIN m.pd
    /\ \A d \in D, s \in Slot \ {User} : m.pd[d][s] = m.pd[m.boot][s]
    /\ PageTables(m, D) \subseteq DOMAIN m.pt

\* What every function of the three files keeps, for callers in one of the
\* directories D and a floppy buffer B.
Kept(m, D, B, R) ==
    /\ Shaped(m) /\ FramesKept(m, R) /\ DirectoriesKept(m, D)
    /\ OneUse(Uses(m, D, B), m.ram.used \ R)

\* The tables of the kernel's slots are there.
Tabled(m) == \A s \in Slot \ {User} : m.pd[m.boot][s] # 0

\* The pages of vmalloc are handed out once, in order: the ones handed out
\* are at the start of the range, and only those in the list are mapped.
RangeKept(m) ==
    /\ \E k \in 0 .. VmPages :
        /\ m.range.used = 0 .. k - 1
        /\ Held(m.track) \subseteq VmStart .. VmStart + k - 1
    /\ \A i, j \in Nodes(m.track) :
          i # j => Pages(m.track[i]) \cap Pages(m.track[j]) = {}
    /\ Counted(m.range, Held(m.track), VmPages)
    /\ VmMapped(m) \subseteq Held(m.track)

\* Nothing has been given back yet: the frames taken are below the free ones.
Packed(m, R) ==
    \A x \in m.ram.used \ R, y \in (0 .. TOTAL - 1) \ m.ram.used : x < y

\* What the memory map of the machine has to be like: frame 0, where the
\* bitmap lies, is not given out (so the entry for the bitmap is copied),
\* there is the memory to start with, and a run of free frames after the
\* first is no shorter than the buffer of the floppy.
Usable(map) ==
    LET ram == PhysInitialized(map)
        free == (0 .. TOTAL - 1) \ ram.used
    IN  /\ 0 \in ram.used
        /\ Cardinality(free) >= 7 + HEAPTABLES + VMTABLES
        /\ \A x \in free : \/ x = Min(free) \/ x - 1 \in free
                           \/ x .. x + DMABLOCKS - 1 \subseteq free

-----------------------------------------------------------------------------
One(v) == [page |-> v, size |-> 1]

\* The pages of a process are its own, and its directory is the one that the
\* page for it maps.
ProcessesKept ==
    /\ \A p \in Live :
        /\ One(proc[p].dir) \in Range(mem.track) /\ proc[p].dir # 0
        /\ One(proc[p].stack) \in Range(mem.track) /\ proc[p].stack # 0
        /\ Phys(mem, mem.boot, proc[p].dir) = proc[p].root
    /\ \A p, q \in Live :
        /\ proc[p].dir # proc[q].stack
        /\ p # q => proc[p].dir # proc[q].dir /\ proc[p].stack # proc[q].stack

\* A translation that the CPU keeps leads to a table without entries.
CacheKept ==
    cached # 0 => /\ fat # 0
                  /\ cached \in DOMAIN mem.pt /\ mem.pt[cached] = NoEntries

MInv ==
    /\ proc \in [Proc -> {NULL} \cup [dir : Nat, root : Nat, stack : Nat]]
    /\ heapEnd \in Nat /\ heapEnd >= HeapStart
    /\ cached \in Nat /\ fat \in Nat
    /\ \E map \in Maps : reserved = PhysInitialized(map).used
    /\ Kept(mem, Directory, Buffer, reserved)
    /\ Tabled(mem) /\ mem.pd[mem.boot][User] = 0
    /\ RangeKept(mem)
    /\ ~lost => Held(mem.track) = VmMapped(mem) /\ ProcessesKept
    /\ CacheKept
    /\ fat # 0 => dma # NULL
    /\ dma = NULL => Packed(mem, reserved)
=============================================================================

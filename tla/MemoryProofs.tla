---------------------------- MODULE MemoryProofs ----------------------------
(***************************************************************************)
(* Proofs about Memory, for any number of processes and frames, any sizes  *)
(* of the tables and ranges, and all memory maps that are Usable.          *)
(***************************************************************************)
EXTENDS MemoryInvariant, ListLemmas, FiniteSetTheorems

-----------------------------------------------------------------------------
(***************************************************************************)
(* Numbers of pages                                                        *)
(***************************************************************************)
LEMMA Sizes ==
    /\ TOTAL \in Nat \ {0} /\ PER \in Nat \ {0} /\ STEP \in Nat \ {0}
    /\ HEAPTABLES \in Nat \ {0} /\ VMTABLES \in Nat \ {0}
    /\ DMABLOCKS \in Nat \ {0} /\ FATPAGES \in Nat \ {0} /\ MaxHeap \in Nat \ {0}
    /\ STEP <= PER /\ FATPAGES <= PER
    /\ HEAPTABLES * PER \in Nat /\ 3 <= HEAPTABLES * PER /\ MaxHeap <= HEAPTABLES * PER
    /\ VMTABLES * PER \in Nat /\ (3 + HEAPTABLES) * PER \in Nat
BY MemoryAssumption

\* A page is an entry of a table.
LEMMA DivMod ==
    ASSUME NEW v \in Nat, NEW n \in Nat \ {0}
    PROVE  /\ v \div n \in Nat /\ v % n \in 0 .. n - 1
           /\ v = n * (v \div n) + (v % n)
OBVIOUS

LEMMA DivBetween ==
    ASSUME NEW v \in Nat, NEW n \in Nat \ {0}, NEW j \in Nat, NEW k \in Nat,
           j * n <= v, v < k * n
    PROVE  j <= v \div n /\ v \div n < k
OBVIOUS

\* Two pages that are the same entry of the same table are one.
LEMMA SamePage ==
    ASSUME NEW v \in Nat, NEW w \in Nat, NEW n \in Nat \ {0},
           v \div n = w \div n, v % n = w % n
    PROVE  v = w
BY DivMod

\* The slots of the heap's pages and of vmalloc's.
KernelSlot == 3 .. 2 + HEAPTABLES + VMTABLES

VmRange == VmStart .. VmStart + VmPages - 1

LEMMA SlotFacts ==
    /\ Slot \subseteq Nat /\ KernelSlot \subseteq Slot
    /\ KernelSlot \cap {Identity, User, Kernel} = {}
    /\ Slot = KernelSlot \cup {Identity, User, Kernel}
    /\ {Identity, User, Kernel} = 0 .. 2
BY Sizes DEF Slot, KernelSlot, Identity, User, Kernel

LEMMA VmPageFacts ==
    /\ VmStart \in Nat /\ VmPages \in Nat \ {0} /\ VmStart > 0
    /\ \A v \in VmRange : v \in Nat /\ v # 0 /\ v \div PER \in KernelSlot
<1>1. /\ VmStart \in Nat /\ VmPages \in Nat \ {0} /\ VmStart > 0
  BY Sizes DEF VmStart, VmPages
<1>2. ASSUME NEW v \in VmRange
      PROVE  v \in Nat /\ v # 0 /\ v \div PER \in KernelSlot
  <2>1. v \in Nat /\ v # 0
    BY <1>1, <1>2 DEF VmRange
  <2>2. (3 + HEAPTABLES) * PER <= v /\ v < (3 + HEAPTABLES + VMTABLES) * PER
    BY <1>1, <1>2, Sizes DEF VmRange, VmStart, VmPages
  <2>5. /\ HEAPTABLES \in Nat /\ VMTABLES \in Nat /\ PER \in Nat \ {0}
        /\ 3 + HEAPTABLES \in Nat /\ 3 + HEAPTABLES + VMTABLES \in Nat
    BY Sizes
  <2>3. 3 + HEAPTABLES <= v \div PER /\ v \div PER < 3 + HEAPTABLES + VMTABLES
    BY <2>1, <2>2, <2>5, DivBetween
  <2>4. v \div PER \in Nat
    BY <2>1, DivMod, Sizes
  <2> QED BY <2>1, <2>3, <2>4, <2>5 DEF KernelSlot
<1> QED BY <1>1, <1>2

LEMMA HeapPage ==
    /\ HeapStart \in Nat
    /\ \A v \in HeapStart .. HeapStart + HEAPTABLES * PER - 1 :
           v \in Nat /\ v # 0 /\ v \div PER \in KernelSlot
<1>1. HeapStart \in Nat /\ HeapStart > 0
  BY Sizes DEF HeapStart
<1>2. ASSUME NEW v \in HeapStart .. HeapStart + HEAPTABLES * PER - 1
      PROVE  v \in Nat /\ v # 0 /\ v \div PER \in KernelSlot
  <2>1. v \in Nat /\ v # 0
    BY <1>1, <1>2, Sizes
  <2>2. 3 * PER <= v /\ v < (3 + HEAPTABLES) * PER
    BY <1>1, <1>2, Sizes DEF HeapStart
  <2>5. /\ HEAPTABLES \in Nat /\ VMTABLES \in Nat /\ PER \in Nat \ {0}
        /\ 3 \in Nat /\ 3 + HEAPTABLES \in Nat
    BY Sizes
  <2>3. 3 <= v \div PER /\ v \div PER < 3 + HEAPTABLES
    BY <2>1, <2>2, <2>5, DivBetween
  <2>4. v \div PER \in Nat
    BY <2>1, DivMod, Sizes
  <2> QED BY <2>1, <2>3, <2>4, <2>5 DEF KernelSlot
<1> QED BY <1>1, <1>2

-----------------------------------------------------------------------------
(***************************************************************************)
(* The loops, unfolded                                                     *)
(***************************************************************************)
\* Every loop has its states, one for each turn.
MapTurns(f, m, d, v, n) ==
    /\ f[0] = m /\ f[n] = MapPages(m, d, v, n)
    /\ \A i \in 1 .. n : f[i] = MapPage(f[i - 1], d, v + i - 1)

LEMMA MapPagesLoop ==
    ASSUME NEW m, NEW d, NEW v \in Nat, NEW n \in Nat
    PROVE  \E f : MapTurns(f, m, d, v, n)
<1> DEFINE L(f, k) == f = [i \in 0 .. k |-> IF i = 0 THEN m ELSE MapPage(f[i - 1], d, v + i - 1)]
           I == {k \in 0 .. n : ~ \E f : L(f, k)}
<1>1. 0 \notin I
  <2> DEFINE f == [i \in 0 .. 0 |-> m]
  <2>1. \A i \in 0 .. 0 : f[i] = IF i = 0 THEN m ELSE MapPage(f[i - 1], d, v + i - 1)
    OBVIOUS
  <2>2. L(f, 0)
    <3> HIDE DEF f
    <3> SUFFICES f = [i \in 0 .. 0 |-> f[i]]
      BY <2>1
    <3> QED BY Zenon DEF f
  <2> HIDE DEF f, L
  <2> QED BY <2>2
<1>2. ASSUME NEW k \in 1 .. n, k - 1 \notin I PROVE k \notin I
  <2>1. PICK f : L(f, k - 1)
    BY <1>2
  <2> DEFINE g == [i \in 0 .. k |-> IF i = k THEN MapPage(f[k - 1], d, v + k - 1) ELSE f[i]]
  <2>2. ASSUME NEW i \in 0 .. k
        PROVE  g[i] = IF i = 0 THEN m ELSE MapPage(g[i - 1], d, v + i - 1)
    <3>1. \A j \in 0 .. k - 1 : f[j] = IF j = 0 THEN m ELSE MapPage(f[j - 1], d, v + j - 1)
      BY <2>1
    <3>2. CASE i = k
      BY <3>2
    <3>3. CASE i # k
      <4>1. i \in 0 .. k - 1 /\ (i # 0 => i - 1 \in 0 .. k - 1)
        BY <3>3
      <4>2. g[i] = f[i] /\ (i # 0 => g[i - 1] = f[i - 1])
        BY <3>3, <4>1
      <4> HIDE DEF g
      <4> QED BY <3>1, <4>1, <4>2
    <3> QED BY <3>2, <3>3
  <2>3. L(g, k)
    <3> HIDE DEF g
    <3> SUFFICES g = [i \in 0 .. k |-> g[i]]
      BY <2>2
    <3> QED BY Zenon DEF g
  <2> QED BY <2>3
<1> HIDE DEF L
<1>3. I = {}
  <2> HIDE DEF I
  <2>1. I \subseteq 0 .. n
    BY DEF I
  <2> QED BY <1>1, <1>2, <2>1, NoFirst
<1>4. PICK f : L(f, n)
  BY <1>3
<1>5. PICK g : L(g, n) /\ g[n] = MapPages(m, d, v, n)
  BY <1>4 DEF MapPages, L
<1>6. \A i \in 0 .. n : g[i] = IF i = 0 THEN m ELSE MapPage(g[i - 1], d, v + i - 1)
  BY <1>5 DEF L
<1> QED BY <1>5, <1>6 DEF MapTurns

UnMapTurns(f, m, d, v, n) ==
    /\ f[0] = m /\ f[n] = UnMapPages(m, d, v, n)
    /\ \A i \in 1 .. n : f[i] = UnMapPage(f[i - 1], d, v + i - 1)

LEMMA UnMapPagesLoop ==
    ASSUME NEW m, NEW d, NEW v \in Nat, NEW n \in Nat
    PROVE  \E f : UnMapTurns(f, m, d, v, n)
<1> DEFINE L(f, k) == f = [i \in 0 .. k |-> IF i = 0 THEN m ELSE UnMapPage(f[i - 1], d, v + i - 1)]
           I == {k \in 0 .. n : ~ \E f : L(f, k)}
<1>1. 0 \notin I
  <2> DEFINE f == [i \in 0 .. 0 |-> m]
  <2>1. \A i \in 0 .. 0 : f[i] = IF i = 0 THEN m ELSE UnMapPage(f[i - 1], d, v + i - 1)
    OBVIOUS
  <2>2. L(f, 0)
    <3> HIDE DEF f
    <3> SUFFICES f = [i \in 0 .. 0 |-> f[i]]
      BY <2>1
    <3> QED BY Zenon DEF f
  <2> HIDE DEF f, L
  <2> QED BY <2>2
<1>2. ASSUME NEW k \in 1 .. n, k - 1 \notin I PROVE k \notin I
  <2>1. PICK f : L(f, k - 1)
    BY <1>2
  <2> DEFINE g == [i \in 0 .. k |-> IF i = k THEN UnMapPage(f[k - 1], d, v + k - 1) ELSE f[i]]
  <2>2. ASSUME NEW i \in 0 .. k
        PROVE  g[i] = IF i = 0 THEN m ELSE UnMapPage(g[i - 1], d, v + i - 1)
    <3>1. \A j \in 0 .. k - 1 : f[j] = IF j = 0 THEN m ELSE UnMapPage(f[j - 1], d, v + j - 1)
      BY <2>1
    <3>2. CASE i = k
      BY <3>2
    <3>3. CASE i # k
      <4>1. i \in 0 .. k - 1 /\ (i # 0 => i - 1 \in 0 .. k - 1)
        BY <3>3
      <4>2. g[i] = f[i] /\ (i # 0 => g[i - 1] = f[i - 1])
        BY <3>3, <4>1
      <4> HIDE DEF g
      <4> QED BY <3>1, <4>1, <4>2
    <3> QED BY <3>2, <3>3
  <2>3. L(g, k)
    <3> HIDE DEF g
    <3> SUFFICES g = [i \in 0 .. k |-> g[i]]
      BY <2>2
    <3> QED BY Zenon DEF g
  <2> QED BY <2>3
<1> HIDE DEF L
<1>3. I = {}
  <2> HIDE DEF I
  <2>1. I \subseteq 0 .. n
    BY DEF I
  <2> QED BY <1>1, <1>2, <2>1, NoFirst
<1>4. PICK f : L(f, n)
  BY <1>3
<1>5. PICK g : L(g, n) /\ g[n] = UnMapPages(m, d, v, n)
  BY <1>4 DEF UnMapPages, L
<1>6. \A i \in 0 .. n : g[i] = IF i = 0 THEN m ELSE UnMapPage(g[i - 1], d, v + i - 1)
  BY <1>5 DEF L
<1> QED BY <1>5, <1>6 DEF UnMapTurns

LEMMA ClearedLoop ==
    ASSUME NEW m, NEW t
    PROVE  \E f : /\ f[0] = m /\ f[PER] = Cleared(m, t)
                  /\ \A i \in 1 .. PER : f[i] = ClearEntry(f[i - 1], t, i - 1)
<1> DEFINE L(f, k) == f = [i \in 0 .. k |-> IF i = 0 THEN m ELSE ClearEntry(f[i - 1], t, i - 1)]
           I == {k \in 0 .. PER : ~ \E f : L(f, k)}
<1>0. PER \in Nat
  BY Sizes
<1>1. 0 \notin I
  <2> DEFINE f == [i \in 0 .. 0 |-> m]
  <2>1. \A i \in 0 .. 0 : f[i] = IF i = 0 THEN m ELSE ClearEntry(f[i - 1], t, i - 1)
    OBVIOUS
  <2>2. L(f, 0)
    <3> HIDE DEF f
    <3> SUFFICES f = [i \in 0 .. 0 |-> f[i]]
      BY <2>1
    <3> QED BY Zenon DEF f
  <2> HIDE DEF f, L
  <2> QED BY <2>2
<1>2. ASSUME NEW k \in 1 .. PER, k - 1 \notin I PROVE k \notin I
  <2>1. PICK f : L(f, k - 1)
    BY <1>0, <1>2
  <2> DEFINE g == [i \in 0 .. k |-> IF i = k THEN ClearEntry(f[k - 1], t, k - 1) ELSE f[i]]
  <2>2. ASSUME NEW i \in 0 .. k
        PROVE  g[i] = IF i = 0 THEN m ELSE ClearEntry(g[i - 1], t, i - 1)
    <3>1. \A j \in 0 .. k - 1 : f[j] = IF j = 0 THEN m ELSE ClearEntry(f[j - 1], t, j - 1)
      BY <2>1
    <3>2. CASE i = k
      BY <3>2
    <3>3. CASE i # k
      <4>1. i \in 0 .. k - 1 /\ (i # 0 => i - 1 \in 0 .. k - 1)
        BY <3>3
      <4>2. g[i] = f[i] /\ (i # 0 => g[i - 1] = f[i - 1])
        BY <3>3, <4>1
      <4> HIDE DEF g
      <4> QED BY <3>1, <4>1, <4>2
    <3> QED BY <3>2, <3>3
  <2>3. L(g, k)
    <3> HIDE DEF g
    <3> SUFFICES g = [i \in 0 .. k |-> g[i]]
      BY <2>2
    <3> QED BY Zenon DEF g
  <2> QED BY <2>3
<1> HIDE DEF L
<1>3. I = {}
  <2> HIDE DEF I
  <2>1. I \subseteq 0 .. PER
    BY DEF I
  <2> QED BY <1>0, <1>1, <1>2, <2>1, NoFirst
<1>4. PICK f : L(f, PER)
  BY <1>0, <1>3
<1>5. PICK g : L(g, PER) /\ g[PER] = Cleared(m, t)
  BY <1>0, <1>4 DEF Cleared, L
<1>6. \A i \in 0 .. PER : g[i] = IF i = 0 THEN m ELSE ClearEntry(g[i - 1], t, i - 1)
  BY <1>5 DEF L
<1> QED BY <1>0, <1>5, <1>6

RangeTurns(f, m, from, tables) ==
    /\ f[0] = m /\ f[Tables(tables)] = MapRange(m, from, tables)
    /\ \A i \in 1 .. Tables(tables) :
          f[i] = MapTable(f[i - 1], m.boot, from + (i - 1) * STEP)

LEMMA MapRangeLoop ==
    ASSUME NEW m, NEW from \in Nat, NEW tables \in Nat
    PROVE  \E f : RangeTurns(f, m, from, tables)
<1> DEFINE L(f, k) == f = [i \in 0 .. k |-> IF i = 0 THEN m ELSE MapTable(f[i - 1], m.boot, from + (i - 1) * STEP)]
           I == {k \in 0 .. Tables(tables) : ~ \E f : L(f, k)}
<1>0. Tables(tables) \in Nat
  BY Sizes DEF Tables
<1>1. 0 \notin I
  <2> DEFINE f == [i \in 0 .. 0 |-> m]
  <2>1. \A i \in 0 .. 0 : f[i] = IF i = 0 THEN m ELSE MapTable(f[i - 1], m.boot, from + (i - 1) * STEP)
    OBVIOUS
  <2>2. L(f, 0)
    <3> HIDE DEF f
    <3> SUFFICES f = [i \in 0 .. 0 |-> f[i]]
      BY <2>1
    <3> QED BY Zenon DEF f
  <2> HIDE DEF f, L
  <2> QED BY <2>2
<1>2. ASSUME NEW k \in 1 .. Tables(tables), k - 1 \notin I PROVE k \notin I
  <2>1. PICK f : L(f, k - 1)
    BY <1>0, <1>2
  <2> DEFINE g == [i \in 0 .. k |-> IF i = k THEN MapTable(f[k - 1], m.boot, from + (k - 1) * STEP) ELSE f[i]]
  <2>2. ASSUME NEW i \in 0 .. k
        PROVE  g[i] = IF i = 0 THEN m ELSE MapTable(g[i - 1], m.boot, from + (i - 1) * STEP)
    <3>1. \A j \in 0 .. k - 1 : f[j] = IF j = 0 THEN m ELSE MapTable(f[j - 1], m.boot, from + (j - 1) * STEP)
      BY <2>1
    <3>2. CASE i = k
      BY <3>2
    <3>3. CASE i # k
      <4>1. i \in 0 .. k - 1 /\ (i # 0 => i - 1 \in 0 .. k - 1)
        BY <3>3
      <4>2. g[i] = f[i] /\ (i # 0 => g[i - 1] = f[i - 1])
        BY <3>3, <4>1
      <4> HIDE DEF g
      <4> QED BY <3>1, <4>1, <4>2
    <3> QED BY <3>2, <3>3
  <2>3. L(g, k)
    <3> HIDE DEF g
    <3> SUFFICES g = [i \in 0 .. k |-> g[i]]
      BY <2>2
    <3> QED BY Zenon DEF g
  <2> QED BY <2>3
<1> HIDE DEF L
<1>3. I = {}
  <2> HIDE DEF I
  <2>1. I \subseteq 0 .. Tables(tables)
    BY DEF I
  <2> QED BY <1>0, <1>1, <1>2, <2>1, NoFirst
<1>4. PICK f : L(f, Tables(tables))
  BY <1>0, <1>3
<1>5. PICK g : L(g, Tables(tables)) /\ g[Tables(tables)] = MapRange(m, from, tables)
  BY <1>0, <1>4 DEF MapRange, L
<1>6. \A i \in 0 .. Tables(tables) : g[i] = IF i = 0 THEN m ELSE MapTable(g[i - 1], m.boot, from + (i - 1) * STEP)
  BY <1>5 DEF L
<1> QED BY <1>0, <1>5, <1>6 DEF RangeTurns

-----------------------------------------------------------------------------
(***************************************************************************)
(* Frames                                                                  *)
(***************************************************************************)
FreeFrames(m) == (0 .. TOTAL - 1) \ m.ram.used

\* A block less to take, or one more: what the counters say of a bitmap.
LEMMA CountOfFree ==
    ASSUME NEW total \in Nat, NEW b, b.used \subseteq 0 .. total - 1,
           Counted(b, b.used, total)
    PROVE  /\ IsFiniteSet(b.used)
           /\ b.free = Cardinality((0 .. total - 1) \ b.used)
           /\ b.busy \in Nat /\ b.free \in Nat
           /\ b.free = 0 <=> (0 .. total - 1) \ b.used = {}
<1> DEFINE all == 0 .. total - 1
<1>1. IsFiniteSet(all) /\ Cardinality(all) = total
  <2>1. 0 \in Int /\ total - 1 \in Int
    OBVIOUS
  <2>2. /\ IsFiniteSet(0 .. total - 1)
        /\ Cardinality(0 .. total - 1) = IF 0 > total - 1 THEN 0 ELSE (total - 1) - 0 + 1
    BY <2>1, FS_Interval
  <2> QED BY <2>2
<1>2. IsFiniteSet(b.used) /\ Cardinality(b.used) \in Nat
  BY <1>1, FS_Subset, FS_CardinalityType
<1>3. all \cap b.used = b.used
  OBVIOUS
<1>4. /\ IsFiniteSet(all \ b.used)
      /\ Cardinality(all \ b.used) = total - Cardinality(b.used)
  <2> HIDE DEF all
  <2> QED BY <1>1, <1>3, FS_Difference
<1>5. Cardinality(all \ b.used) \in Nat /\ (Cardinality(all \ b.used) = 0 <=> all \ b.used = {})
  BY <1>4, FS_CardinalityType, FS_EmptySet
<1> QED BY <1>2, <1>4, <1>5 DEF Counted

Taken(m, f) == [m EXCEPT !.ram = SetUsed(@, {f})]

LEMMA FirstFrame ==
    ASSUME NEW m, NEW R, FramesKept(m, R)
    PROVE  \/ FreeFrames(m) = {} /\ m.ram.free = 0 /\ FirstFit(m.ram, 1, TOTAL) = {}
           \/ \E f \in FreeFrames(m) :
                  /\ \A g \in FreeFrames(m) : f <= g
                  /\ m.ram.free > 0 /\ FirstFit(m.ram, 1, TOTAL) = {f}
<1> DEFINE F == FreeFrames(m)
           S == {s \in F : s - 1 \notin F}
           tested(s) == IF s = Min(F) THEN 1 ELSE 1 - 1
           fits == {s \in S : s .. s + tested(s) - 1 \subseteq F}
<1>1. /\ m.ram.free = Cardinality(F) /\ m.ram.free \in Nat
      /\ m.ram.free = 0 <=> F = {}
  BY Sizes, CountOfFree DEF FramesKept, FreeFrames
<1>2. FirstFit(m.ram, 1, TOTAL) = IF 1 > m.ram.free \/ fits = {} THEN {} ELSE {Min(fits)}
  BY DEF FirstFit, FreeFrames
<1>3. CASE F = {}
  BY <1>1, <1>2, <1>3
<1>4. CASE F # {}
  <2>1. F \subseteq Nat
    BY Sizes DEF FreeFrames
  <2>2. PICK f \in F : f = Min(F) /\ \A g \in F : f <= g
    BY <1>4, <2>1, MinFacts
  <2>3. f \in fits
    <3>1. f - 1 \notin F
      BY <2>1, <2>2
    <3>2. f .. f + tested(f) - 1 \subseteq F
      BY <2>1, <2>2
    <3> QED BY <3>1, <3>2
  <2>4. fits \subseteq F
    OBVIOUS
  <2> HIDE DEF fits, F
  <2>5. PICK g \in fits : g = Min(fits) /\ \A h \in fits : g <= h
    BY <2>1, <2>3, <2>4, MinFacts
  <2>6. g = f
    BY <2>1, <2>2, <2>3, <2>4, <2>5
  <2>7. m.ram.free > 0
    BY <1>1, <1>4
  <2>8. FirstFit(m.ram, 1, TOTAL) = {f}
    BY <1>1, <1>2, <2>3, <2>5, <2>6, <2>7
  <2> QED BY <2>2, <2>7, <2>8 DEF F
<1> QED BY <1>3, <1>4

LEMMA AllocFacts ==
    ASSUME NEW m, NEW R, Shaped(m), FramesKept(m, R)
    PROVE  \/ NextFrame(m) = 0 /\ AllocBlock(m) = m /\ m.ram.free = 0
           \/ /\ NextFrame(m) \in FreeFrames(m) /\ NextFrame(m) \in Nat \ {0}
              /\ \A g \in FreeFrames(m) : NextFrame(m) <= g
              /\ AllocBlock(m) = Taken(m, NextFrame(m)) /\ m.ram.free > 0
<1>1. CASE /\ m.ram.free = 0 /\ FirstFit(m.ram, 1, TOTAL) = {}
  <2>1. Cardinality({}) = 0
    BY FS_EmptySet
  <2>2. SetUsed(m.ram, {}) = m.ram
    BY <2>1 DEF SetUsed, Shaped, Bitmap
  <2>3. AllocBlock(m) = m
    BY <1>1, <2>2 DEF AllocBlock, Shaped
  <2> QED BY <1>1, <2>3 DEF NextFrame
<1>2. ASSUME NEW f \in FreeFrames(m), \A g \in FreeFrames(m) : f <= g,
             m.ram.free > 0, FirstFit(m.ram, 1, TOTAL) = {f}
      PROVE  /\ NextFrame(m) \in FreeFrames(m) /\ NextFrame(m) \in Nat \ {0}
             /\ \A g \in FreeFrames(m) : NextFrame(m) <= g
             /\ AllocBlock(m) = Taken(m, NextFrame(m)) /\ m.ram.free > 0
  <2>1. f \in Nat \ {0} /\ {f} # {}
    BY <1>2, Sizes DEF FreeFrames, FramesKept
  <2>2. Min({f}) = f
    BY <2>1, MinFacts
  <2>3. NextFrame(m) = f
    BY <1>2, <2>1, <2>2 DEF NextFrame
  <2> QED BY <1>2, <2>1, <2>3 DEF AllocBlock, Taken
<1> QED BY <1>1, <1>2, FirstFrame

LEMMA TakenFacts ==
    ASSUME NEW m, NEW R, Shaped(m), FramesKept(m, R), NEW f \in FreeFrames(m)
    PROVE  LET n == Taken(m, f)
           IN  /\ Shaped(n) /\ FramesKept(n, R)
               /\ n.ram.used = m.ram.used \cup {f} /\ n.ram.free = m.ram.free - 1
               /\ n.range = m.range /\ n.track = m.track
               /\ n.pd = m.pd /\ n.pt = m.pt /\ n.boot = m.boot
<1> DEFINE n == Taken(m, f)
<1>1. Cardinality({f}) = 1
  BY FS_Singleton
<1>0. f \in Int
  BY Sizes DEF FreeFrames
<1>2. n.ram = [used |-> m.ram.used \cup {f}, free |-> m.ram.free - 1,
               busy |-> m.ram.busy + 1]
  BY <1>1 DEF Taken, SetUsed, Shaped
<1>3. /\ n.range = m.range /\ n.track = m.track
      /\ n.pd = m.pd /\ n.pt = m.pt /\ n.boot = m.boot
  BY DEF Taken, Shaped
<1>4. n.ram \in Bitmap
  BY <1>0, <1>2 DEF Shaped, Bitmap
<1>5. n \in [ram : Bitmap, range : Bitmap, track : Seq(Node),
            pd : {n.pd}, pt : {n.pt}, boot : Nat]
  <2>1. n = [m EXCEPT !.ram = n.ram]
    BY <1>2 DEF Taken, SetUsed, Shaped
  <2> HIDE DEF n
  <2> QED BY <2>1, <1>3, <1>4 DEF Shaped
<1> HIDE DEF n
<1>6. Shaped(n)
  BY <1>3, <1>5 DEF Shaped
<1>7. IsFiniteSet(m.ram.used)
  BY Sizes, CountOfFree DEF FramesKept
<1>8. Cardinality(m.ram.used \cup {f}) = Cardinality(m.ram.used) + 1
  BY <1>7, FS_AddElement DEF FreeFrames
<1>9. FramesKept(n, R)
  <2>1. /\ n.ram.used = m.ram.used \cup {f} /\ n.ram.free = m.ram.free - 1
        /\ n.ram.busy = m.ram.busy + 1
    BY <1>2
  <2>2. m.ram.free \in Int /\ m.ram.busy \in Int
    BY DEF Shaped, Bitmap
  <2>3. Counted(n.ram, n.ram.used, TOTAL)
    BY <2>1, <2>2, <1>8, Sizes DEF FramesKept, Counted
  <2> QED BY <2>1, <2>3 DEF FramesKept, FreeFrames
<1> QED BY <1>2, <1>3, <1>6, <1>9 DEF n

-----------------------------------------------------------------------------
(***************************************************************************)
(* Uses of frames                                                          *)
(***************************************************************************)
LEMMA UsesAre ==
    ASSUME NEW m, NEW D, NEW B, NEW u
    PROVE  u \in Uses(m, D, B) <=>
             \/ u = Use(m.boot, "cr3", 0, 0)
             \/ \E d \in D, s \in Slot : /\ s \in OwnSlots(m, d) /\ m.pd[d][s] # 0
                                        /\ u = Use(m.pd[d][s], "directory", d, s)
             \/ \E t \in PageTables(m, D), i \in 0 .. PER - 1 :
                    m.pt[t][i] # 0 /\ u = Use(m.pt[t][i], "table", t, i)
             \/ \E f \in B : u = Use(f, "dma", 0, f)
<1>1. u \in TableUses(m, D) <=>
        \E d \in D, s \in Slot : /\ s \in OwnSlots(m, d) /\ m.pd[d][s] # 0
                               /\ u = Use(m.pd[d][s], "directory", d, s)
  BY DEF TableUses, Use
<1>2. u \in PageUses(m, D) <=>
        \E t \in PageTables(m, D), i \in 0 .. PER - 1 :
           m.pt[t][i] # 0 /\ u = Use(m.pt[t][i], "table", t, i)
  BY DEF PageUses, Use
<1> QED BY <1>1, <1>2 DEF Uses

LEMMA PageTablesAre ==
    ASSUME NEW m, NEW D, NEW t
    PROVE  t \in PageTables(m, D) <=>
             \E d \in D, s \in Slot : /\ s \notin {Identity, Kernel} /\ s \in OwnSlots(m, d)
                                    /\ m.pd[d][s] # 0 /\ t = m.pd[d][s]
<1>1. ASSUME NEW u
      PROVE  u \in TableUses(m, D) <=>
               \E d \in D, s \in Slot : /\ s \in OwnSlots(m, d) /\ m.pd[d][s] # 0
                                      /\ u = Use(m.pd[d][s], "directory", d, s)
  BY DEF TableUses, Use
<1>2. t \in PageTables(m, D) <=>
        \E u \in TableUses(m, D) : u.at \notin {Identity, Kernel} /\ t = u.frame
  BY DEF PageTables
<1>3. ASSUME NEW u \in TableUses(m, D), u.at \notin {Identity, Kernel}, t = u.frame
      PROVE  \E d \in D, s \in Slot : /\ s \notin {Identity, Kernel} /\ s \in OwnSlots(m, d)
                                    /\ m.pd[d][s] # 0 /\ t = m.pd[d][s]
  BY <1>1, <1>3 DEF Use
<1>4. ASSUME NEW d \in D, NEW s \in Slot, s \notin {Identity, Kernel}, s \in OwnSlots(m, d),
             m.pd[d][s] # 0, t = m.pd[d][s]
      PROVE  \E u \in TableUses(m, D) : u.at \notin {Identity, Kernel} /\ t = u.frame
  <2>1. Use(t, "directory", d, s) \in TableUses(m, D)
    BY <1>1, <1>4
  <2>2. Use(t, "directory", d, s).at = s /\ Use(t, "directory", d, s).frame = t
    BY DEF Use
  <2> QED BY <1>4, <2>1, <2>2
<1> QED BY <1>2, <1>3, <1>4

\* The frame of a use is taken, and a table's is in a use of its own.
LEMMA UsedFrames ==
    ASSUME NEW m, NEW D, NEW B, NEW R, Kept(m, D, B, R)
    PROVE  /\ \A u \in Uses(m, D, B) : u.frame \in m.ram.used \ R
           /\ \A t \in PageTables(m, D) : t \in m.ram.used \ R
           /\ \A t \in PageTables(m, D), i \in 0 .. PER - 1 :
                 m.pt[t][i] # 0 => m.pt[t][i] \in m.ram.used \ R
<1>1. \A u \in Uses(m, D, B) : u.frame \in m.ram.used \ R
  BY DEF Kept, OneUse
<1>2. ASSUME NEW t \in PageTables(m, D) PROVE t \in m.ram.used \ R
  <2>1. PICK d \in D, s \in Slot : /\ s \in OwnSlots(m, d) /\ m.pd[d][s] # 0
                                 /\ t = m.pd[d][s]
    BY <1>2, PageTablesAre
  <2>2. Use(t, "directory", d, s) \in Uses(m, D, B)
    BY <2>1, UsesAre
  <2> QED BY <1>1, <2>2 DEF Use
<1>3. ASSUME NEW t \in PageTables(m, D), NEW i \in 0 .. PER - 1, m.pt[t][i] # 0
      PROVE  m.pt[t][i] \in m.ram.used \ R
  <2>1. Use(m.pt[t][i], "table", t, i) \in Uses(m, D, B)
    BY <1>3, UsesAre
  <2> QED BY <1>1, <2>1 DEF Use
<1> QED BY <1>1, <1>2, <1>3

LEMMA SameTables ==
    ASSUME NEW m, NEW n, NEW D, n.pd = m.pd, n.boot = m.boot
    PROVE  PageTables(n, D) = PageTables(m, D)
<1>1. \A d : OwnSlots(n, d) = OwnSlots(m, d)
  BY DEF OwnSlots
<1>2. ASSUME NEW t PROVE t \in PageTables(n, D) <=> t \in PageTables(m, D)
  BY <1>1, PageTablesAre
<1> QED BY <1>2

LEMMA OneMore ==
    ASSUME NEW U, NEW V, NEW used, NEW R, NEW x, NEW f, x.frame = f,
           OneUse(U, used \ R), V \subseteq U \cup {x}, f \notin used, R \subseteq used
    PROVE  OneUse(V, (used \cup {f}) \ R)
BY DEF OneUse

LEMMA OneLess ==
    ASSUME NEW U, NEW V, NEW used, NEW R, NEW x \in U, NEW f, x.frame = f,
           OneUse(U, used \ R), V \subseteq U \ {x}
    PROVE  OneUse(V, (used \ {f}) \ R)
BY DEF OneUse

\* n is what m becomes with frame f as a new table at slot s of directory d,
\* and with f as the page that entry i of table t maps.
GotTable(m, n, d, s, f) ==
    /\ n.ram.used = m.ram.used \cup {f} /\ n.boot = m.boot
    /\ n.pd = [m.pd EXCEPT ![d][s] = f]
    /\ n.pt = [t \in DOMAIN m.pt \cup {f} |-> IF t = f THEN NoEntries ELSE m.pt[t]]

GotPage(m, n, t, i, f) ==
    /\ n.ram.used = m.ram.used \cup {f} /\ n.boot = m.boot
    /\ n.pd = m.pd
    /\ n.pt = [m.pt EXCEPT ![t][i] = f]

\* A new table joins the slots of a directory, without entries.
LEMMA AddTable ==
    ASSUME NEW m, NEW D, NEW B, NEW R, Kept(m, D, B, R), NEW d \in D, NEW s \in Slot,
           s \notin {Identity, Kernel}, s \in OwnSlots(m, d), m.pd[d][s] = 0,
           s = User \/ D = {d}, NEW f \in FreeFrames(m), f \in Nat \ {0},
           NEW n, Shaped(n), FramesKept(n, R), GotTable(m, n, d, s, f)
    PROVE  Kept(n, D, B, R)
<1>1. /\ D \subseteq DOMAIN m.pd /\ m.boot \in D
      /\ m.pd \in [DOMAIN m.pd -> [Slot -> Nat]]
      /\ m.pt \in [DOMAIN m.pt -> [0 .. PER - 1 -> Nat]]
      /\ f \notin m.ram.used /\ R \subseteq m.ram.used
  BY DEF Kept, DirectoriesKept, Shaped, FramesKept, FreeFrames
<1>2. \A e \in D, z \in Slot : n.pd[e][z] = IF e = d /\ z = s THEN f ELSE m.pd[e][z]
  BY <1>1 DEF GotTable
<1>3. n.boot = m.boot /\ \A e \in D : OwnSlots(n, e) = OwnSlots(m, e)
  BY DEF OwnSlots, GotTable
<1>4. ASSUME NEW t \in PageTables(n, D), t # f PROVE t \in PageTables(m, D)
  <2>1. PICK e \in D, z \in Slot : /\ z \notin {Identity, Kernel} /\ z \in OwnSlots(n, e)
                                 /\ n.pd[e][z] # 0 /\ t = n.pd[e][z]
    BY <1>4, PageTablesAre
  <2>2. n.pd[e][z] = m.pd[e][z]
    BY <1>2, <1>4, <2>1
  <2> QED BY <1>3, <2>1, <2>2, PageTablesAre
<1>5. f \notin PageTables(m, D)
  BY <1>1, UsedFrames
<1>6. PageTables(m, D) \subseteq DOMAIN m.pt
  BY DEF Kept, DirectoriesKept
<1>7. /\ \A i \in 0 .. PER - 1 : n.pt[f][i] = 0
      /\ \A t \in PageTables(m, D) : n.pt[t] = m.pt[t]
  BY <1>5, <1>6 DEF NoEntries, GotTable
<1>8. ASSUME NEW u \in Uses(n, D, B), u # Use(f, "directory", d, s) PROVE u \in Uses(m, D, B)
  <2>1. CASE \E e \in D, z \in Slot : /\ z \in OwnSlots(n, e) /\ n.pd[e][z] # 0
                                     /\ u = Use(n.pd[e][z], "directory", e, z)
    <3>1. PICK e \in D, z \in Slot : /\ z \in OwnSlots(n, e) /\ n.pd[e][z] # 0
                                   /\ u = Use(n.pd[e][z], "directory", e, z)
      BY <2>1
    <3>2. n.pd[e][z] = m.pd[e][z]
      BY <1>2, <1>8, <3>1
    <3> QED BY <1>3, <3>1, <3>2, UsesAre
  <2>2. CASE \E t \in PageTables(n, D), i \in 0 .. PER - 1 :
                n.pt[t][i] # 0 /\ u = Use(n.pt[t][i], "table", t, i)
    <3>1. PICK t \in PageTables(n, D), i \in 0 .. PER - 1 :
                n.pt[t][i] # 0 /\ u = Use(n.pt[t][i], "table", t, i)
      BY <2>2
    <3>2. t # f
      BY <1>7, <3>1
    <3>3. t \in PageTables(m, D) /\ n.pt[t] = m.pt[t]
      BY <1>4, <1>7, <3>2
    <3> QED BY <3>1, <3>3, UsesAre
  <2>3. CASE u = Use(n.boot, "cr3", 0, 0) \/ \E g \in B : u = Use(g, "dma", 0, g)
    BY <1>3, <2>3, UsesAre
  <2> QED BY <1>8, <2>1, <2>2, <2>3, UsesAre
<1>9. OneUse(Uses(n, D, B), n.ram.used \ R)
  <2>1. Use(f, "directory", d, s).frame = f
    BY DEF Use
  <2>2. Uses(n, D, B) \subseteq Uses(m, D, B) \cup {Use(f, "directory", d, s)}
    BY <1>8
  <2>3. OneUse(Uses(m, D, B), m.ram.used \ R)
    BY DEF Kept
  <2>4. OneUse(Uses(n, D, B), (m.ram.used \cup {f}) \ R)
    BY <1>1, <2>1, <2>2, <2>3, OneMore, Zenon
  <2> QED BY <2>4 DEF GotTable
<1>10. DirectoriesKept(n, D)
  <2>1. \A e \in D, z \in Slot \ {User} : n.pd[e][z] = n.pd[n.boot][z]
    BY <1>1, <1>2, <1>3 DEF Kept, DirectoriesKept
  <2>2. (\A t \in PageTables(n, D) : t \in DOMAIN n.pt) /\ DOMAIN n.pd = DOMAIN m.pd
    BY <1>1, <1>4, <1>6 DEF GotTable
  <2> QED BY <1>1, <1>3, <2>1, <2>2 DEF DirectoriesKept
<1> QED BY <1>9, <1>10 DEF Kept

\* An entry of a table maps a page.
LEMMA AddPage ==
    ASSUME NEW m, NEW D, NEW B, NEW R, Kept(m, D, B, R),
           NEW t \in PageTables(m, D), NEW i \in 0 .. PER - 1, m.pt[t][i] = 0,
           NEW f \in FreeFrames(m), f \in Nat \ {0},
           NEW n, Shaped(n), FramesKept(n, R), GotPage(m, n, t, i, f)
    PROVE  Kept(n, D, B, R)
<1>1. /\ m.pt \in [DOMAIN m.pt -> [0 .. PER - 1 -> Nat]]
      /\ f \notin m.ram.used /\ R \subseteq m.ram.used
      /\ PageTables(m, D) \subseteq DOMAIN m.pt
  BY DEF Kept, DirectoriesKept, Shaped, FramesKept, FreeFrames
<1>3. PageTables(n, D) = PageTables(m, D)
  BY SameTables DEF GotPage
<1>4. \A x \in PageTables(m, D), j \in 0 .. PER - 1 :
         n.pt[x][j] = IF x = t /\ j = i THEN f ELSE m.pt[x][j]
  <2>1. ASSUME NEW x \in PageTables(m, D)
        PROVE  n.pt[x] = IF x = t THEN [m.pt[t] EXCEPT ![i] = f] ELSE m.pt[x]
    BY <1>1 DEF GotPage
  <2>2. ASSUME NEW x \in PageTables(m, D), NEW j \in 0 .. PER - 1
        PROVE  n.pt[x][j] = IF x = t /\ j = i THEN f ELSE m.pt[x][j]
    <3>1. m.pt[x] \in [0 .. PER - 1 -> Nat]
      BY <1>1
    <3>2. n.pt[x] = IF x = t THEN [m.pt[t] EXCEPT ![i] = f] ELSE m.pt[x]
      BY <2>1
    <3> QED BY <3>1, <3>2
  <2> QED BY <2>2
<1>5. ASSUME NEW u \in Uses(n, D, B), u # Use(f, "table", t, i) PROVE u \in Uses(m, D, B)
  <2>1. CASE \E x \in PageTables(n, D), j \in 0 .. PER - 1 :
                n.pt[x][j] # 0 /\ u = Use(n.pt[x][j], "table", x, j)
    <3>1. PICK x \in PageTables(m, D), j \in 0 .. PER - 1 :
                n.pt[x][j] # 0 /\ u = Use(n.pt[x][j], "table", x, j)
      BY <1>3, <2>1
    <3>2. n.pt[x][j] = m.pt[x][j]
      BY <1>4, <1>5, <3>1
    <3> QED BY <3>1, <3>2, UsesAre
  <2>2. CASE ~ \E x \in PageTables(n, D), j \in 0 .. PER - 1 :
                n.pt[x][j] # 0 /\ u = Use(n.pt[x][j], "table", x, j)
    <3>1. \A e : OwnSlots(n, e) = OwnSlots(m, e)
      BY DEF OwnSlots, GotPage
    <3>2. u \in Uses(n, D, B)
      BY <1>5
    <3>3. \/ u = Use(n.boot, "cr3", 0, 0)
          \/ \E e \in D, z \in Slot : /\ z \in OwnSlots(n, e) /\ n.pd[e][z] # 0
                                     /\ u = Use(n.pd[e][z], "directory", e, z)
          \/ \E g \in B : u = Use(g, "dma", 0, g)
      BY <2>2, <3>2, UsesAre
    <3>4. \/ u = Use(m.boot, "cr3", 0, 0)
          \/ \E e \in D, z \in Slot : /\ z \in OwnSlots(m, e) /\ m.pd[e][z] # 0
                                     /\ u = Use(m.pd[e][z], "directory", e, z)
          \/ \E g \in B : u = Use(g, "dma", 0, g)
      BY <3>1, <3>3 DEF GotPage
    <3> QED BY <3>4, UsesAre
  <2> QED BY <2>1, <2>2
<1>6. OneUse(Uses(n, D, B), n.ram.used \ R)
  <2>1. Use(f, "table", t, i).frame = f
    BY DEF Use
  <2>2. Uses(n, D, B) \subseteq Uses(m, D, B) \cup {Use(f, "table", t, i)}
    BY <1>5
  <2>3. OneUse(Uses(m, D, B), m.ram.used \ R)
    BY DEF Kept
  <2>4. OneUse(Uses(n, D, B), (m.ram.used \cup {f}) \ R)
    BY <1>1, <2>1, <2>2, <2>3, OneMore, Zenon
  <2> QED BY <2>4 DEF GotPage
<1>7. DirectoriesKept(n, D)
  BY <1>1, <1>3 DEF Kept, DirectoriesKept, GotPage
<1> QED BY <1>6, <1>7 DEF Kept

LEMMA FreeFacts ==
    ASSUME NEW m, NEW R, Shaped(m), FramesKept(m, R), NEW f \in m.ram.used \ R
    PROVE  LET n == FreeBlock(m, f)
           IN  /\ Shaped(n) /\ FramesKept(n, R) /\ n.ram.used = m.ram.used \ {f}
               /\ n.range = m.range /\ n.track = m.track
               /\ n.pd = m.pd /\ n.pt = m.pt /\ n.boot = m.boot
<1> DEFINE r == [used |-> m.ram.used \ {f}, free |-> m.ram.free + 1, busy |-> m.ram.busy - 1]
           n == FreeBlock(m, f)
<1>1. f # 0 /\ SymDiff(m.ram.used, {f}) = m.ram.used \ {f}
  BY DEF FramesKept, SymDiff
<1>2. n = [m EXCEPT !.ram = r]
  BY <1>1 DEF FreeBlock, Shaped
<1>3. r \in Bitmap
  BY DEF Shaped, Bitmap
<1>4. IsFiniteSet(m.ram.used)
  BY Sizes, CountOfFree DEF FramesKept
<1>5. Cardinality(m.ram.used \ {f}) = Cardinality(m.ram.used) - 1
  BY <1>4, FS_RemoveElement
<1>6. /\ r.used = m.ram.used \ {f} /\ r.free = m.ram.free + 1
      /\ r.busy = m.ram.busy - 1
  OBVIOUS
<1>7. m.ram.free \in Int /\ m.ram.busy \in Int
  BY DEF Shaped, Bitmap
<1> HIDE DEF r, n
<1>8. /\ n.ram = r /\ n.range = m.range /\ n.track = m.track
      /\ n.pd = m.pd /\ n.pt = m.pt /\ n.boot = m.boot
  BY <1>2 DEF Shaped
<1>9. n \in [ram : Bitmap, range : Bitmap, track : Seq(Node),
            pd : {n.pd}, pt : {n.pt}, boot : Nat]
  BY <1>2, <1>3, <1>8 DEF Shaped
<1>10. Shaped(n)
  <2>1. /\ n.pd \in [DOMAIN n.pd -> [Slot -> Nat]]
        /\ n.pt \in [DOMAIN n.pt -> [0 .. PER - 1 -> Nat]]
    BY <1>8 DEF Shaped
  <2> QED BY <1>9, <2>1, Zenon DEF Shaped
<1>11. Counted(n.ram, n.ram.used, TOTAL)
  <2>1. m.ram.busy = Cardinality(m.ram.used) /\ m.ram.free = TOTAL - m.ram.busy
    BY DEF FramesKept, Counted
  <2>2. Cardinality(r.used) = Cardinality(m.ram.used) - 1
    BY <1>5, <1>6
  <2>3. r.busy = Cardinality(r.used) /\ r.free = TOTAL - r.busy
    BY <1>6, <1>7, <2>1, <2>2, Sizes
  <2> QED BY <1>8, <2>3 DEF Counted
<1>12. FramesKept(n, R)
  BY <1>6, <1>8, <1>11 DEF FramesKept
<1> QED BY <1>6, <1>8, <1>10, <1>12 DEF n

\* Entry i of table t no longer maps a page: its frame is free.
LostPage(m, n, t, i) ==
    /\ n.ram.used = m.ram.used \ {m.pt[t][i]} /\ n.boot = m.boot
    /\ n.pd = m.pd /\ n.pt = [m.pt EXCEPT ![t][i] = 0]

LEMMA DropPage ==
    ASSUME NEW m, NEW D, NEW B, NEW R, Kept(m, D, B, R),
           NEW t \in PageTables(m, D), NEW i \in 0 .. PER - 1, m.pt[t][i] # 0,
           NEW n, Shaped(n), FramesKept(n, R), LostPage(m, n, t, i)
    PROVE  Kept(n, D, B, R)
<1> DEFINE f == m.pt[t][i]
           x == Use(f, "table", t, i)
<1>1. /\ m.pt \in [DOMAIN m.pt -> [0 .. PER - 1 -> Nat]]
      /\ PageTables(m, D) \subseteq DOMAIN m.pt
  BY DEF Kept, DirectoriesKept, Shaped
<1>2. PageTables(n, D) = PageTables(m, D)
  BY SameTables DEF LostPage
<1>3. ASSUME NEW y \in PageTables(m, D), NEW j \in 0 .. PER - 1
      PROVE  n.pt[y][j] = IF y = t /\ j = i THEN 0 ELSE m.pt[y][j]
  <2>1. n.pt[y] = IF y = t THEN [m.pt[t] EXCEPT ![i] = 0] ELSE m.pt[y]
    BY <1>1 DEF LostPage
  <2>2. m.pt[y] \in [0 .. PER - 1 -> Nat]
    BY <1>1
  <2> QED BY <2>1, <2>2
<1>4. ASSUME NEW u \in Uses(n, D, B) PROVE u \in Uses(m, D, B) \ {x}
  <2>1. CASE \E y \in PageTables(n, D), j \in 0 .. PER - 1 :
                n.pt[y][j] # 0 /\ u = Use(n.pt[y][j], "table", y, j)
    <3>1. PICK y \in PageTables(m, D), j \in 0 .. PER - 1 :
                n.pt[y][j] # 0 /\ u = Use(n.pt[y][j], "table", y, j)
      BY <1>2, <2>1
    <3>2. n.pt[y][j] = m.pt[y][j] /\ ~ (y = t /\ j = i)
      BY <1>3, <3>1
    <3>3. u # x
      BY <3>1, <3>2 DEF Use
    <3> QED BY <3>1, <3>2, <3>3, UsesAre
  <2>2. CASE ~ \E y \in PageTables(n, D), j \in 0 .. PER - 1 :
                n.pt[y][j] # 0 /\ u = Use(n.pt[y][j], "table", y, j)
    <3>1. \A e : OwnSlots(n, e) = OwnSlots(m, e)
      BY DEF OwnSlots, LostPage
    <3>2. u \in Uses(n, D, B)
      BY <1>4
    <3>3. \/ u = Use(n.boot, "cr3", 0, 0)
          \/ \E e \in D, z \in Slot : /\ z \in OwnSlots(n, e) /\ n.pd[e][z] # 0
                                     /\ u = Use(n.pd[e][z], "directory", e, z)
          \/ \E g \in B : u = Use(g, "dma", 0, g)
      BY <2>2, <3>2, UsesAre
    <3>4. \/ u = Use(m.boot, "cr3", 0, 0)
          \/ \E e \in D, z \in Slot : /\ z \in OwnSlots(m, e) /\ m.pd[e][z] # 0
                                     /\ u = Use(m.pd[e][z], "directory", e, z)
          \/ \E g \in B : u = Use(g, "dma", 0, g)
      BY <3>1, <3>3 DEF LostPage
    <3>5. u.of # "table"
      BY <3>4 DEF Use
    <3>6. x.of = "table"
      BY DEF Use
    <3> QED BY <3>4, <3>5, <3>6, UsesAre
  <2> QED BY <2>1, <2>2
<1>5. OneUse(Uses(n, D, B), n.ram.used \ R)
  <2>1. x \in Uses(m, D, B) /\ x.frame = f
    BY UsesAre DEF Use
  <2>2. Uses(n, D, B) \subseteq Uses(m, D, B) \ {x}
    BY <1>4
  <2>3. OneUse(Uses(m, D, B), m.ram.used \ R)
    BY DEF Kept
  <2> HIDE DEF x, f
  <2>4. OneUse(Uses(n, D, B), (m.ram.used \ {f}) \ R)
    BY <2>1, <2>2, <2>3, OneLess
  <2> QED BY <2>4 DEF LostPage, f
<1>6. DirectoriesKept(n, D)
  BY <1>1, <1>2 DEF Kept, DirectoriesKept, LostPage
<1> QED BY <1>5, <1>6 DEF Kept

\* The slot of the user in the first directory no longer has a table.
LostTable(m, n) ==
    /\ n.ram.used = m.ram.used \ {m.pd[m.boot][User]} /\ n.boot = m.boot
    /\ n.pd = [m.pd EXCEPT ![m.boot][User] = 0] /\ n.pt = m.pt

LEMMA DropTable ==
    ASSUME NEW m, NEW D, NEW B, NEW R, Kept(m, D, B, R), m.pd[m.boot][User] # 0,
           NEW n, Shaped(n), FramesKept(n, R), LostTable(m, n)
    PROVE  Kept(n, D, B, R)
<1> DEFINE f == m.pd[m.boot][User]
           x == Use(f, "directory", m.boot, User)
<1>1. /\ D \subseteq DOMAIN m.pd /\ m.boot \in D
      /\ m.pd \in [DOMAIN m.pd -> [Slot -> Nat]]
      /\ PageTables(m, D) \subseteq DOMAIN m.pt
      /\ User \in Slot
  BY SlotFacts DEF Kept, DirectoriesKept, Shaped
<1>2. \A e \in D, z \in Slot :
        n.pd[e][z] = IF e = m.boot /\ z = User THEN 0 ELSE m.pd[e][z]
  BY <1>1 DEF LostTable
<1>3. n.boot = m.boot /\ \A e : OwnSlots(n, e) = OwnSlots(m, e)
  BY DEF OwnSlots, LostTable
<1>4. ASSUME NEW t \in PageTables(n, D) PROVE t \in PageTables(m, D)
  <2>1. PICK e \in D, z \in Slot : /\ z \notin {Identity, Kernel} /\ z \in OwnSlots(n, e)
                                 /\ n.pd[e][z] # 0 /\ t = n.pd[e][z]
    BY <1>4, PageTablesAre
  <2>2. n.pd[e][z] = m.pd[e][z]
    BY <1>2, <2>1
  <2> QED BY <1>3, <2>1, <2>2, PageTablesAre
<1>5. ASSUME NEW u \in Uses(n, D, B) PROVE u \in Uses(m, D, B) \ {x}
  <2>1. CASE \E e \in D, z \in Slot : /\ z \in OwnSlots(n, e) /\ n.pd[e][z] # 0
                                     /\ u = Use(n.pd[e][z], "directory", e, z)
    <3>1. PICK e \in D, z \in Slot : /\ z \in OwnSlots(n, e) /\ n.pd[e][z] # 0
                                   /\ u = Use(n.pd[e][z], "directory", e, z)
      BY <2>1
    <3>2. n.pd[e][z] = m.pd[e][z] /\ ~ (e = m.boot /\ z = User)
      BY <1>2, <3>1
    <3>3. u # x
      BY <3>1, <3>2 DEF Use
    <3> QED BY <1>3, <3>1, <3>2, <3>3, UsesAre
  <2>2. CASE ~ \E e \in D, z \in Slot : /\ z \in OwnSlots(n, e) /\ n.pd[e][z] # 0
                                       /\ u = Use(n.pd[e][z], "directory", e, z)
    <3>1. u \in Uses(n, D, B)
      BY <1>5
    <3>2. \/ u = Use(n.boot, "cr3", 0, 0)
          \/ \E y \in PageTables(n, D), j \in 0 .. PER - 1 :
                n.pt[y][j] # 0 /\ u = Use(n.pt[y][j], "table", y, j)
          \/ \E g \in B : u = Use(g, "dma", 0, g)
      BY <2>2, <3>1, UsesAre
    <3>3. \/ u = Use(m.boot, "cr3", 0, 0)
          \/ \E y \in PageTables(m, D), j \in 0 .. PER - 1 :
                m.pt[y][j] # 0 /\ u = Use(m.pt[y][j], "table", y, j)
          \/ \E g \in B : u = Use(g, "dma", 0, g)
      BY <1>3, <1>4, <3>2 DEF LostTable
    <3>4. u.of # "directory" /\ x.of = "directory"
      BY <3>3 DEF Use
    <3> QED BY <3>3, <3>4, UsesAre
  <2> QED BY <2>1, <2>2
<1>6. OneUse(Uses(n, D, B), n.ram.used \ R)
  <2>1. x \in Uses(m, D, B) /\ x.frame = f
    BY <1>1, UsesAre DEF Use, OwnSlots
  <2>2. Uses(n, D, B) \subseteq Uses(m, D, B) \ {x}
    BY <1>5
  <2>3. OneUse(Uses(m, D, B), m.ram.used \ R)
    BY DEF Kept
  <2> HIDE DEF x, f
  <2>4. OneUse(Uses(n, D, B), (m.ram.used \ {f}) \ R)
    BY <2>1, <2>2, <2>3, OneLess
  <2> QED BY <2>4 DEF LostTable, f
<1>7. DirectoriesKept(n, D)
  <2>1. \A e \in D, z \in Slot \ {User} : n.pd[e][z] = n.pd[n.boot][z]
    BY <1>1, <1>2, <1>3 DEF Kept, DirectoriesKept
  <2>2. (\A t \in PageTables(n, D) : t \in DOMAIN n.pt) /\ DOMAIN n.pd = DOMAIN m.pd
    BY <1>1, <1>4 DEF LostTable
  <2> QED BY <1>1, <1>3, <2>1, <2>2 DEF DirectoriesKept
<1> QED BY <1>6, <1>7 DEF Kept

\* Fewer directories, or a change of what no frame is in: nothing to say.
LEMMA SameUses ==
    ASSUME NEW m, NEW D, NEW B, NEW R, Kept(m, D, B, R), NEW n, Shaped(n),
           n.ram = m.ram, n.pt = m.pt, n.boot = m.boot,
           NEW E, E \subseteq D, m.boot \in E, E \subseteq DOMAIN n.pd,
           \A d \in E : n.pd[d] = m.pd[d]
    PROVE  Kept(n, E, B, R)
<1>1. \A e : OwnSlots(n, e) = OwnSlots(m, e)
  BY DEF OwnSlots
<1>2. ASSUME NEW t \in PageTables(n, E) PROVE t \in PageTables(m, D)
  <2>1. PICK e \in E, z \in Slot : /\ z \notin {Identity, Kernel} /\ z \in OwnSlots(n, e)
                                 /\ n.pd[e][z] # 0 /\ t = n.pd[e][z]
    BY <1>2, PageTablesAre
  <2> QED BY <1>1, <2>1, PageTablesAre
<1>3. ASSUME NEW u \in Uses(n, E, B) PROVE u \in Uses(m, D, B)
  <2>1. \/ u = Use(n.boot, "cr3", 0, 0)
        \/ \E e \in E, z \in Slot : /\ z \in OwnSlots(n, e) /\ n.pd[e][z] # 0
                                   /\ u = Use(n.pd[e][z], "directory", e, z)
        \/ \E y \in PageTables(n, E), j \in 0 .. PER - 1 :
              n.pt[y][j] # 0 /\ u = Use(n.pt[y][j], "table", y, j)
        \/ \E g \in B : u = Use(g, "dma", 0, g)
    BY <1>3, UsesAre
  <2>2. \/ u = Use(m.boot, "cr3", 0, 0)
        \/ \E e \in D, z \in Slot : /\ z \in OwnSlots(m, e) /\ m.pd[e][z] # 0
                                   /\ u = Use(m.pd[e][z], "directory", e, z)
        \/ \E y \in PageTables(m, D), j \in 0 .. PER - 1 :
              m.pt[y][j] # 0 /\ u = Use(m.pt[y][j], "table", y, j)
        \/ \E g \in B : u = Use(g, "dma", 0, g)
    BY <1>1, <1>2, <2>1
  <2> QED BY <2>2, UsesAre
<1>4. OneUse(Uses(n, E, B), n.ram.used \ R)
  BY <1>3 DEF Kept, OneUse
<1>5. DirectoriesKept(n, E)
  BY <1>2 DEF Kept, DirectoriesKept
<1>6. FramesKept(n, R)
  BY DEF Kept, FramesKept
<1> QED BY <1>4, <1>5, <1>6 DEF Kept

LEMMA OneOther ==
    ASSUME NEW U, NEW V, NEW F, NEW x \in U, NEW y, y.frame = x.frame,
           OneUse(U, F), V \subseteq (U \ {x}) \cup {y}
    PROVE  OneUse(V, F)
BY DEF OneUse

\* The first directory takes the user's table of directory r, which is left.
Entered(m, n, r) ==
    /\ n.ram = m.ram /\ n.pt = m.pt /\ n.boot = m.boot
    /\ n.pd = [m.pd EXCEPT ![m.boot][User] = m.pd[r][User]]

LEMMA EnterTable ==
    ASSUME NEW m, NEW D, NEW B, NEW R, Kept(m, D, B, R), NEW r \in D, r # m.boot,
           m.pd[m.boot][User] = 0, NEW n, Shaped(n), Entered(m, n, r)
    PROVE  Kept(n, D \ {r}, B, R)
<1> DEFINE f == m.pd[r][User]
           x == Use(f, "directory", r, User)
           y == Use(f, "directory", m.boot, User)
           E == D \ {r}
<1>1. /\ D \subseteq DOMAIN m.pd /\ m.boot \in D
      /\ m.pd \in [DOMAIN m.pd -> [Slot -> Nat]]
      /\ PageTables(m, D) \subseteq DOMAIN m.pt
      /\ User \in Slot
  BY SlotFacts DEF Kept, DirectoriesKept, Shaped
<1>0. User \notin {Identity, Kernel}
  BY DEF User, Identity, Kernel
<1>2. \A e \in D, z \in Slot :
        n.pd[e][z] = IF e = m.boot /\ z = User THEN f ELSE m.pd[e][z]
  BY <1>1 DEF Entered
<1>3. /\ n.boot = m.boot /\ n.pt = m.pt /\ n.ram = m.ram
      /\ \A e : OwnSlots(n, e) = OwnSlots(m, e)
      /\ \A e : User \in OwnSlots(m, e)
  BY <1>1 DEF OwnSlots, Entered
<1>10. E \subseteq D /\ m.boot \in E /\ r \notin E
  BY <1>1
<1> HIDE DEF f, E
<1>4. ASSUME NEW t \in PageTables(n, E) PROVE t \in PageTables(m, D)
  <2>1. PICK e \in E, z \in Slot : /\ z \notin {Identity, Kernel} /\ z \in OwnSlots(n, e)
                                 /\ n.pd[e][z] # 0 /\ t = n.pd[e][z]
    BY <1>4, PageTablesAre
  <2>2. CASE e = m.boot /\ z = User
    <3>1. t = f /\ f # 0
      BY <1>2, <1>10, <2>1, <2>2
    <3> QED BY <1>0, <1>1, <1>3, <3>1, PageTablesAre DEF f
  <2>3. CASE ~ (e = m.boot /\ z = User)
    <3>1. n.pd[e][z] = m.pd[e][z]
      BY <1>2, <1>10, <2>1, <2>3
    <3> QED BY <1>3, <1>10, <2>1, <3>1, PageTablesAre
  <2> QED BY <2>2, <2>3
<1>5. ASSUME NEW u \in Uses(n, E, B), f = 0 \/ u # y
      PROVE  u \in Uses(m, D, B) \ {x}
  <2>1. CASE \E e \in E, z \in Slot : /\ z \in OwnSlots(n, e) /\ n.pd[e][z] # 0
                                     /\ u = Use(n.pd[e][z], "directory", e, z)
    <3>1. PICK e \in E, z \in Slot : /\ z \in OwnSlots(n, e) /\ n.pd[e][z] # 0
                                   /\ u = Use(n.pd[e][z], "directory", e, z)
      BY <2>1
    <3>2. n.pd[e][z] = m.pd[e][z]
      BY <1>2, <1>5, <1>10, <3>1
    <3>3. u # x
      BY <1>10, <3>1 DEF Use
    <3> QED BY <1>3, <1>10, <3>1, <3>2, <3>3, UsesAre
  <2>2. CASE ~ \E e \in E, z \in Slot : /\ z \in OwnSlots(n, e) /\ n.pd[e][z] # 0
                                       /\ u = Use(n.pd[e][z], "directory", e, z)
    <3>1. u \in Uses(n, E, B)
      BY <1>5
    <3>2. \/ u = Use(n.boot, "cr3", 0, 0)
          \/ \E q \in PageTables(n, E), j \in 0 .. PER - 1 :
                n.pt[q][j] # 0 /\ u = Use(n.pt[q][j], "table", q, j)
          \/ \E g \in B : u = Use(g, "dma", 0, g)
      BY <2>2, <3>1, UsesAre
    <3>3. \/ u = Use(m.boot, "cr3", 0, 0)
          \/ \E q \in PageTables(m, D), j \in 0 .. PER - 1 :
                m.pt[q][j] # 0 /\ u = Use(m.pt[q][j], "table", q, j)
          \/ \E g \in B : u = Use(g, "dma", 0, g)
      BY <1>3, <1>4, <3>2
    <3>4. u.of # "directory" /\ x.of = "directory"
      BY <3>3 DEF Use
    <3> QED BY <3>3, <3>4, UsesAre
  <2> QED BY <2>1, <2>2
<1>6. OneUse(Uses(m, D, B), m.ram.used \ R)
  BY DEF Kept
<1>7. OneUse(Uses(n, E, B), n.ram.used \ R)
  <2>1. CASE f = 0
    BY <1>3, <1>5, <1>6, <2>1 DEF OneUse
  <2>2. CASE f # 0
    <3>1. x \in Uses(m, D, B) /\ y.frame = x.frame
      BY <1>1, <1>3, <2>2, UsesAre DEF Use, f
    <3>2. Uses(n, E, B) \subseteq (Uses(m, D, B) \ {x}) \cup {y}
      BY <1>5
    <3> HIDE DEF x, y
    <3>3. OneUse(Uses(n, E, B), m.ram.used \ R)
      BY <1>6, <3>1, <3>2, OneOther
    <3> QED BY <1>3, <3>3
  <2> QED BY <2>1, <2>2
<1>8. DirectoriesKept(n, E)
  <2>1. \A e \in E, z \in Slot \ {User} : n.pd[e][z] = n.pd[n.boot][z]
    BY <1>1, <1>2, <1>3, <1>10 DEF Kept, DirectoriesKept
  <2>2. (\A t \in PageTables(n, E) : t \in DOMAIN n.pt) /\ DOMAIN n.pd = DOMAIN m.pd
    BY <1>1, <1>3, <1>4 DEF Entered
  <2> QED BY <1>1, <1>3, <1>10, <2>1, <2>2 DEF DirectoriesKept
<1>9. FramesKept(n, R)
  BY <1>3 DEF Kept, FramesKept
<1> QED BY <1>7, <1>8, <1>9 DEF Kept, E

\* r is a copy of directory d without the user table.
Spawned(m, n, d, r) ==
    /\ n.ram = m.ram /\ n.pt = m.pt /\ n.boot = m.boot
    /\ n.pd = [x \in DOMAIN m.pd \cup {r} |-> IF x = r THEN Copied(m, d) ELSE m.pd[x]]

\* A new directory has no user table: no frame gets a use.
LEMMA NewDirectory ==
    ASSUME NEW m, NEW D, NEW B, NEW R, Kept(m, D, B, R), NEW d \in D, NEW r, r \notin D,
           NEW n, Shaped(n), Spawned(m, n, d, r)
    PROVE  Kept(n, D \cup {r}, B, R)
<1> DEFINE E == D \cup {r}
<1>1. /\ D \subseteq DOMAIN m.pd /\ m.boot \in D /\ r # m.boot
      /\ m.pd \in [DOMAIN m.pd -> [Slot -> Nat]]
      /\ PageTables(m, D) \subseteq DOMAIN m.pt
      /\ User \in Slot
  BY SlotFacts DEF Kept, DirectoriesKept, Shaped
<1>2. /\ \A e \in D, z \in Slot : n.pd[e][z] = m.pd[e][z]
      /\ \A z \in Slot : n.pd[r][z] = IF z = User THEN 0 ELSE m.pd[d][z]
  BY <1>1 DEF Copied, Spawned
<1>0. n.ram = m.ram /\ n.pt = m.pt /\ n.boot = m.boot
  BY DEF Spawned
<1>3. /\ \A e : OwnSlots(n, e) = OwnSlots(m, e)
      /\ OwnSlots(m, r) = {User}
  BY <1>0, <1>1 DEF OwnSlots
<1>4. ASSUME NEW t \in PageTables(n, E) PROVE t \in PageTables(m, D)
  <2>1. PICK e \in E, z \in Slot : /\ z \notin {Identity, Kernel} /\ z \in OwnSlots(n, e)
                                 /\ n.pd[e][z] # 0 /\ t = n.pd[e][z]
    BY <1>4, PageTablesAre
  <2>2. e \in D
    BY <1>2, <1>3, <2>1
  <2>3. n.pd[e][z] = m.pd[e][z]
    BY <1>2, <2>1, <2>2
  <2> QED BY <1>3, <2>1, <2>2, <2>3, PageTablesAre
<1>5. ASSUME NEW u \in Uses(n, E, B) PROVE u \in Uses(m, D, B)
  <2>1. \/ u = Use(n.boot, "cr3", 0, 0)
        \/ \E e \in E, z \in Slot : /\ z \in OwnSlots(n, e) /\ n.pd[e][z] # 0
                                   /\ u = Use(n.pd[e][z], "directory", e, z)
        \/ \E y \in PageTables(n, E), j \in 0 .. PER - 1 :
              n.pt[y][j] # 0 /\ u = Use(n.pt[y][j], "table", y, j)
        \/ \E g \in B : u = Use(g, "dma", 0, g)
    BY <1>5, UsesAre
  <2>2. \/ u = Use(m.boot, "cr3", 0, 0)
        \/ \E e \in D, z \in Slot : /\ z \in OwnSlots(m, e) /\ m.pd[e][z] # 0
                                   /\ u = Use(m.pd[e][z], "directory", e, z)
        \/ \E y \in PageTables(m, D), j \in 0 .. PER - 1 :
              m.pt[y][j] # 0 /\ u = Use(m.pt[y][j], "table", y, j)
        \/ \E g \in B : u = Use(g, "dma", 0, g)
    <3>1. ASSUME NEW e \in E, NEW z \in Slot, z \in OwnSlots(n, e), n.pd[e][z] # 0
          PROVE  e \in D /\ z \in OwnSlots(m, e) /\ n.pd[e][z] = m.pd[e][z]
      BY <1>2, <1>3, <3>1
    <3> HIDE DEF E
    <3> QED BY <1>0, <1>4, <2>1, <3>1
  <2> QED BY <2>2, UsesAre
<1>6. OneUse(Uses(n, E, B), n.ram.used \ R)
  BY <1>0, <1>5 DEF Kept, OneUse
<1>7. DirectoriesKept(n, E)
  <2>1. \A e \in E, z \in Slot \ {User} : n.pd[e][z] = n.pd[n.boot][z]
    BY <1>0, <1>1, <1>2 DEF Kept, DirectoriesKept
  <2>2. \A t \in PageTables(n, E) : t \in DOMAIN n.pt
    BY <1>0, <1>1, <1>4
  <2>3. DOMAIN n.pd = DOMAIN m.pd \cup {r}
    BY DEF Spawned
  <2> QED BY <1>0, <1>1, <2>1, <2>2, <2>3 DEF DirectoriesKept
<1>8. FramesKept(n, R)
  BY <1>0 DEF Kept, FramesKept
<1> QED BY <1>6, <1>7, <1>8 DEF Kept

-----------------------------------------------------------------------------
(***************************************************************************)
(* Entries of the page tables                                              *)
(***************************************************************************)
\* The fields that only vmalloc and the address spaces change.
Still(m, n) ==
    /\ n.pd = m.pd /\ n.boot = m.boot /\ n.range = m.range /\ n.track = m.track

\* Entry i of table t becomes x, nothing else in the tables changes.
EntrySet(m, n, t, i, x) ==
    /\ DOMAIN n.pt = DOMAIN m.pt
    /\ \A y \in DOMAIN m.pt, j \in 0 .. PER - 1 :
          n.pt[y][j] = IF y = t /\ j = i THEN x ELSE m.pt[y][j]

\* A frame is in one entry of one directory only, and a page's in one entry
\* of one table.
LEMMA TableOnce ==
    ASSUME NEW m, NEW D, NEW B, NEW R, Kept(m, D, B, R),
           NEW d \in D, NEW s \in Slot, s \in OwnSlots(m, d), m.pd[d][s] # 0,
           NEW e \in D, NEW z \in Slot, z \in OwnSlots(m, e), m.pd[e][z] = m.pd[d][s]
    PROVE  d = e /\ s = z
<1> DEFINE f == m.pd[d][s]
<1>1. Use(f, "directory", d, s) \in Uses(m, D, B) /\ Use(f, "directory", e, z) \in Uses(m, D, B)
  BY UsesAre
<1> HIDE DEF f
<1>2. Use(f, "directory", d, s) = Use(f, "directory", e, z)
  <2>1. Use(f, "directory", d, s).frame = Use(f, "directory", e, z).frame
    BY DEF Use
  <2> QED BY <1>1, <2>1 DEF Kept, OneUse
<1> QED BY <1>2 DEF Use

LEMMA PageOnce ==
    ASSUME NEW m, NEW D, NEW B, NEW R, Kept(m, D, B, R),
           NEW t \in PageTables(m, D), NEW i \in 0 .. PER - 1, m.pt[t][i] # 0,
           NEW y \in PageTables(m, D), NEW j \in 0 .. PER - 1, m.pt[y][j] = m.pt[t][i]
    PROVE  t = y /\ i = j
<1> DEFINE f == m.pt[t][i]
<1>1. Use(f, "table", t, i) \in Uses(m, D, B) /\ Use(f, "table", y, j) \in Uses(m, D, B)
  BY UsesAre
<1> HIDE DEF f
<1>2. Use(f, "table", t, i) = Use(f, "table", y, j)
  <2>1. Use(f, "table", t, i).frame = Use(f, "table", y, j).frame
    BY DEF Use
  <2> QED BY <1>1, <2>1 DEF Kept, OneUse
<1> QED BY <1>2 DEF Use

\* The frame of a page is neither the first directory nor a table.
LEMMA PageIsNoTable ==
    ASSUME NEW m, NEW D, NEW B, NEW R, Kept(m, D, B, R),
           NEW t \in PageTables(m, D), NEW i \in 0 .. PER - 1, m.pt[t][i] # 0
    PROVE  m.pt[t][i] # m.boot /\ m.pt[t][i] \notin PageTables(m, D)
<1> DEFINE f == m.pt[t][i]
           u == Use(f, "table", t, i)
<1>1. u \in Uses(m, D, B)
  BY UsesAre
<1>2. \A w \in Uses(m, D, B) : w.frame = f => w = u
  <2>1. u.frame = f
    BY DEF Use
  <2> HIDE DEF u, f
  <2> QED BY <1>1, <2>1 DEF Kept, OneUse
<1>3. f # m.boot
  <2>1. Use(m.boot, "cr3", 0, 0) \in Uses(m, D, B)
    BY UsesAre
  <2> QED BY <1>2, <2>1 DEF Use
<1>4. ASSUME f \in PageTables(m, D) PROVE FALSE
  <2>1. PICK d \in D, s \in Slot : s \in OwnSlots(m, d) /\ m.pd[d][s] # 0 /\ f = m.pd[d][s]
    BY <1>4, PageTablesAre
  <2> HIDE DEF f
  <2>2. Use(f, "directory", d, s) \in Uses(m, D, B)
    BY <2>1, UsesAre
  <2>3. Use(f, "directory", d, s) = u
    BY <1>2, <2>2 DEF Use
  <2> QED BY <2>3 DEF Use
<1> QED BY <1>3, <1>4

\* The tables of a directory, its own or shared.
LEMMA TablesIn ==
    ASSUME NEW m, NEW D, NEW B, NEW R, Kept(m, D, B, R), NEW d \in D,
           NEW s \in KernelSlot \cup {User}, m.pd[d][s] # 0
    PROVE  /\ s \in Slot /\ m.pd[d][s] \in PageTables(m, D) /\ m.pd[d][s] \in DOMAIN m.pt
           /\ s \in KernelSlot => m.pd[d][s] = m.pd[m.boot][s]
           /\ d = m.boot \/ s = User => s \in OwnSlots(m, d)
<1>1. s \in Slot /\ s \notin {Identity, Kernel} /\ (s \in KernelSlot => s # User)
  BY SlotFacts DEF Identity, User, Kernel
<1>2. s \in KernelSlot => m.pd[d][s] = m.pd[m.boot][s]
  BY <1>1 DEF Kept, DirectoriesKept
<1>3. d = m.boot \/ s = User => s \in OwnSlots(m, d)
  BY <1>1 DEF OwnSlots
<1>4. m.boot \in D /\ PageTables(m, D) \subseteq DOMAIN m.pt
  BY DEF Kept, DirectoriesKept
<1>5. m.pd[d][s] \in PageTables(m, D)
  <2>1. CASE s = User
    BY <1>1, <1>3, <2>1, PageTablesAre
  <2>2. CASE s # User
    <3>1. m.pd[d][s] = m.pd[m.boot][s] /\ s \in OwnSlots(m, m.boot)
      BY <1>1, <1>2, <2>2 DEF OwnSlots
    <3> QED BY <1>1, <1>4, <3>1, PageTablesAre
  <2> QED BY <2>1, <2>2
<1> QED BY <1>1, <1>2, <1>3, <1>4, <1>5

\* What a change of an entry is to the pages of the kernel.
LEMMA OtherPages ==
    ASSUME NEW m, NEW D, NEW B, NEW R, Kept(m, D, B, R), NEW d \in D, NEW v \in Nat,
           v \div PER \in KernelSlot \cup {User}, v \div PER \in KernelSlot \/ d # m.boot,
           m.pd[d][v \div PER] # 0,
           NEW n, NEW x, Still(m, n), EntrySet(m, n, m.pd[d][v \div PER], v % PER, x)
    PROVE  /\ Phys(n, d, v) = x /\ Phys(m, d, v) = m.pt[m.pd[d][v \div PER]][v % PER]
           /\ \A w \in Nat : w \div PER \in KernelSlot /\ w # v
                 => Phys(n, n.boot, w) = Phys(m, m.boot, w)
<1> DEFINE s == v \div PER
           t == m.pd[d][s]
<1>1. /\ s \in Slot /\ t \in DOMAIN m.pt
      /\ s \in KernelSlot => t = m.pd[m.boot][s]
      /\ d = m.boot \/ s = User => s \in OwnSlots(m, d)
  BY TablesIn
<1>2. m.boot \in D /\ n.pd = m.pd /\ n.boot = m.boot
  BY DEF Kept, DirectoriesKept, Still
<1>3. v % PER \in 0 .. PER - 1 /\ PER \in Nat \ {0}
  BY DivMod, Sizes
<1>4. Identity \notin KernelSlot \cup {User}
  BY SlotFacts DEF Identity, User
<1>5. Phys(n, d, v) = x /\ Phys(m, d, v) = m.pt[t][v % PER]
  BY <1>1, <1>2, <1>3, <1>4 DEF Phys, EntrySet
<1>6. ASSUME NEW w \in Nat, w \div PER \in KernelSlot, w # v
      PROVE  Phys(n, n.boot, w) = Phys(m, m.boot, w)
  <2> DEFINE z == w \div PER
             y == m.pd[m.boot][z]
  <2>1. Phys(m, m.boot, w) = (IF y = 0 THEN 0 ELSE m.pt[y][w % PER])
    BY <1>4, <1>6 DEF Phys
  <2>2. Phys(n, n.boot, w) = (IF y = 0 THEN 0 ELSE n.pt[y][w % PER])
    BY <1>2, <1>4, <1>6 DEF Phys
  <2>3. CASE y = 0
    BY <2>1, <2>2, <2>3
  <2>4. CASE y # 0
    <3>1. z \in Slot /\ y \in DOMAIN m.pt /\ z \in OwnSlots(m, m.boot)
      BY <1>2, <1>6, <2>4, TablesIn
    <3>2. w % PER \in 0 .. PER - 1
      BY DivMod, Sizes
    <3>3. ~ (y = t /\ w % PER = v % PER)
      <4> SUFFICES ASSUME y = t, w % PER = v % PER PROVE FALSE
        OBVIOUS
      <4>1. CASE s \in KernelSlot
        <5>1. s \in OwnSlots(m, m.boot) /\ t = m.pd[m.boot][s]
          BY <1>1, <1>2, <4>1 DEF OwnSlots
        <5>2. z = s
          BY <1>1, <1>2, <2>4, <3>1, <5>1, TableOnce
        <5> QED BY <1>3, <1>6, <5>2, SamePage
      <4>2. CASE s = User /\ d # m.boot
        <5>1. s \in OwnSlots(m, d)
          BY <1>1, <4>2
        <5>2. d = m.boot
          BY <1>1, <1>2, <2>4, <3>1, <5>1, TableOnce
        <5> QED BY <4>2, <5>2
      <4> QED BY <4>1, <4>2
    <3>4. n.pt[y][w % PER] = m.pt[y][w % PER]
      BY <3>1, <3>2, <3>3 DEF EntrySet
    <3> QED BY <2>1, <2>2, <3>4
  <2> QED BY <2>3, <2>4
<1> QED BY <1>5, <1>6

-----------------------------------------------------------------------------
(***************************************************************************)
(* virtmem_manager.c                                                       *)
(***************************************************************************)
\* The pages that the kernel sees are the same.
SamePages(m, n) ==
    \A w \in Nat : w \div PER \in KernelSlot => Phys(n, n.boot, w) = Phys(m, m.boot, w)

\* A frame is taken, from the free ones, the lowest.
LEMMA TakenPacked ==
    ASSUME NEW m, NEW R, FramesKept(m, R), Packed(m, R), NEW f \in FreeFrames(m),
           \A g \in FreeFrames(m) : f <= g, NEW n, n.ram.used = m.ram.used \cup {f}
    PROVE  Packed(n, R)
<1> SUFFICES ASSUME NEW x \in n.ram.used \ R, NEW y \in (0 .. TOTAL - 1) \ n.ram.used
             PROVE  x < y
  BY DEF Packed
<1>1. y \in FreeFrames(m) /\ y # f /\ f <= y /\ f \in Int /\ y \in Int
  BY Sizes DEF FreeFrames
<1>2. CASE x = f
  BY <1>1, <1>2
<1>3. CASE x # f
  BY <1>1, <1>3 DEF Packed, FreeFrames
<1> QED BY <1>2, <1>3

With(m, t, i, x) == [m EXCEPT !.pt[t][i] = x]

LEMMA SetShaped ==
    ASSUME NEW m, Shaped(m), NEW t \in DOMAIN m.pt, NEW i \in 0 .. PER - 1, NEW x \in Nat,
           NEW n, n = With(m, t, i, x)
    PROVE  /\ Shaped(n) /\ n.ram = m.ram /\ Still(m, n)
           /\ n.pt = [m.pt EXCEPT ![t][i] = x] /\ EntrySet(m, n, t, i, x)
<1>1. n.ram = m.ram /\ Still(m, n) /\ n.pt = [m.pt EXCEPT ![t][i] = x]
  BY DEF Shaped, Still, With
<1>2. m.pt \in [DOMAIN m.pt -> [0 .. PER - 1 -> Nat]]
  BY DEF Shaped
<1>3. ASSUME NEW y \in DOMAIN m.pt
      PROVE  /\ n.pt[y] \in [0 .. PER - 1 -> Nat]
             /\ \A j \in 0 .. PER - 1 : n.pt[y][j] = IF y = t /\ j = i THEN x ELSE m.pt[y][j]
  <2>1. n.pt[y] = IF y = t THEN [m.pt[t] EXCEPT ![i] = x] ELSE m.pt[y]
    BY <1>1, <1>2
  <2>2. m.pt[y] \in [0 .. PER - 1 -> Nat]
    BY <1>2
  <2>3. CASE y = t
    BY <2>1, <2>2, <2>3
  <2>4. CASE y # t
    BY <2>1, <2>2, <2>4
  <2> QED BY <2>3, <2>4
<1>4. DOMAIN n.pt = DOMAIN m.pt /\ n.pt \in [DOMAIN n.pt -> [0 .. PER - 1 -> Nat]]
  <2>1. n.pt = [y \in DOMAIN m.pt |-> IF y = t THEN [m.pt[t] EXCEPT ![i] = x] ELSE m.pt[y]]
    BY <1>1, <1>2
  <2> QED BY <1>3, <2>1
<1>5. n \in [ram : Bitmap, range : Bitmap, track : Seq(Node),
            pd : {n.pd}, pt : {n.pt}, boot : Nat]
  BY <1>1 DEF Shaped, With, Still
<1>6. Shaped(n)
  <2>1. n.pd \in [DOMAIN n.pd -> [Slot -> Nat]]
    BY <1>1 DEF Shaped, Still
  <2> QED BY <1>4, <1>5, <2>1, Zenon DEF Shaped
<1> QED BY <1>1, <1>3, <1>4, <1>6 DEF EntrySet

\* VIRTMEM_mapPage in a table that is there.
Mapped(m, n, D, B, R, d, v) ==
    /\ Kept(n, D, B, R) /\ Still(m, n)
    /\ \A w \in Nat : w \div PER \in KernelSlot /\ w # v
          => Phys(n, n.boot, w) = Phys(m, m.boot, w)
    /\ Packed(m, R) => Packed(n, R)
    /\ n.ram.free >= m.ram.free - 1
    /\ m.ram.free > 0 => Phys(n, d, v) # 0

LEMMA MapPageFacts ==
    ASSUME NEW m, NEW D, NEW B, NEW R, Kept(m, D, B, R), NEW d \in D, NEW v \in Nat,
           v \div PER \in KernelSlot \cup {User}, v \div PER \in KernelSlot \/ d # m.boot,
           m.pd[d][v \div PER] # 0
    PROVE  Mapped(m, MapPage(m, d, v), D, B, R, d, v)
<1> DEFINE t == m.pd[d][v \div PER]
           i == v % PER
           f == NextFrame(m)
           n == MapPage(m, d, v)
<1>1. /\ t \in PageTables(m, D) /\ t \in DOMAIN m.pt /\ i \in 0 .. PER - 1
  BY TablesIn, DivMod, Sizes
<1>2. v \div PER # Identity /\ MapTable(m, d, v) = m
  BY SlotFacts DEF Identity, User, MapTable
<1>3. n = IF m.pt[t][i] # 0 THEN m ELSE With(AllocBlock(m), t, i, f)
  BY <1>2 DEF MapPage, MapEntry, With
<1>4. Shaped(m) /\ FramesKept(m, R) /\ m.ram.free \in Int
  BY DEF Kept, Shaped, Bitmap
<1>5. Phys(m, d, v) = m.pt[t][i]
  BY <1>2 DEF Phys
<1> HIDE DEF t, i, n, f
<1>6. CASE n = m /\ (m.pt[t][i] # 0 \/ m.ram.free = 0)
  <2>1. Still(m, m) /\ m.ram.free >= m.ram.free - 1
    BY <1>4 DEF Still
  <2>2. m.ram.free > 0 => Phys(m, d, v) # 0
    BY <1>4, <1>5, <1>6
  <2>3. Mapped(m, m, D, B, R, d, v)
    BY <2>1, <2>2 DEF Mapped
  <2> QED BY <1>6, <2>3 DEF n
<1>7. CASE m.pt[t][i] = 0 /\ f = 0 /\ AllocBlock(m) = m /\ m.ram.free = 0
  <2>1. n = With(m, t, i, 0)
    BY <1>3, <1>7
  <2>2. /\ Shaped(n) /\ n.ram = m.ram /\ Still(m, n) /\ EntrySet(m, n, t, i, 0)
        /\ n.pt = [m.pt EXCEPT ![t][i] = 0]
    BY <1>1, <1>4, <2>1, SetShaped
  <2>3. n.pt = m.pt
    <3>1. m.pt \in [DOMAIN m.pt -> [0 .. PER - 1 -> Nat]]
      BY <1>4 DEF Shaped
    <3>2. [m.pt[t] EXCEPT ![i] = 0] = m.pt[t]
      BY <1>1, <1>7, <3>1
    <3> QED BY <1>1, <2>2, <3>1, <3>2
  <2>4. n = m
    BY <1>4, <2>1, <2>3 DEF Shaped, With
  <2> QED BY <1>6, <1>7, <2>4
<1>8. CASE /\ m.pt[t][i] = 0 /\ f \in FreeFrames(m) /\ f \in Nat \ {0}
           /\ (\A g \in FreeFrames(m) : f <= g)
           /\ AllocBlock(m) = Taken(m, f) /\ m.ram.free > 0
  <2> DEFINE a == Taken(m, f)
  <2>1. /\ Shaped(a) /\ FramesKept(a, R)
        /\ a.ram.used = m.ram.used \cup {f} /\ a.ram.free = m.ram.free - 1
        /\ Still(m, a) /\ a.pt = m.pt
    BY <1>4, <1>8, TakenFacts DEF Still
  <2>2. n = With(a, t, i, f)
    BY <1>3, <1>8
  <2> HIDE DEF a
  <2>3. /\ Shaped(n) /\ n.ram = a.ram /\ Still(a, n) /\ EntrySet(a, n, t, i, f)
        /\ n.pt = [a.pt EXCEPT ![t][i] = f]
    BY <1>1, <1>8, <2>1, <2>2, SetShaped
  <2>4. Still(m, n) /\ EntrySet(m, n, t, i, f)
    BY <2>1, <2>3 DEF Still, EntrySet
  <2>5. FramesKept(n, R)
    BY <2>1, <2>3 DEF FramesKept
  <2>6. GotPage(m, n, t, i, f)
    BY <2>1, <2>3, <2>4 DEF GotPage, Still
  <2>7. Kept(n, D, B, R)
    BY <1>1, <1>8, <2>3, <2>5, <2>6, AddPage
  <2>8. /\ Phys(n, d, v) = f
        /\ \A w \in Nat : w \div PER \in KernelSlot /\ w # v
              => Phys(n, n.boot, w) = Phys(m, m.boot, w)
    <3>1. EntrySet(m, n, m.pd[d][v \div PER], v % PER, f)
      BY <2>4 DEF t, i
    <3> QED BY <2>4, <3>1, OtherPages
  <2>9. Packed(m, R) => Packed(n, R)
    BY <1>4, <1>8, <2>1, <2>3, TakenPacked
  <2>10. n.ram.free >= m.ram.free - 1
    BY <1>4, <2>1, <2>3
  <2>11. Phys(n, d, v) # 0
    BY <1>8, <2>8
  <2> QED BY <2>4, <2>7, <2>8, <2>9, <2>10, <2>11 DEF Mapped, n
<1>9. CASE m.pt[t][i] # 0
  BY <1>3, <1>6, <1>9
<1>10. CASE m.pt[t][i] = 0
  <2>1. \/ f = 0 /\ AllocBlock(m) = m /\ m.ram.free = 0
        \/ /\ f \in FreeFrames(m) /\ f \in Nat \ {0}
           /\ \A g \in FreeFrames(m) : f <= g
           /\ AllocBlock(m) = Taken(m, f) /\ m.ram.free > 0
    BY <1>4, AllocFacts DEF f
  <2> QED BY <1>7, <1>8, <1>10, <2>1
<1> QED BY <1>9, <1>10 DEF n

\* VIRTMEM_freePage of an entry.
Unset(m, n, D, B, R, t, i) ==
    Kept(n, D, B, R) /\ Still(m, n) /\ EntrySet(m, n, t, i, 0)

LEMMA ClearEntryFacts ==
    ASSUME NEW m, NEW D, NEW B, NEW R, Kept(m, D, B, R),
           NEW t \in PageTables(m, D), NEW i \in 0 .. PER - 1
    PROVE  Unset(m, ClearEntry(m, t, i), D, B, R, t, i)
<1> DEFINE f == m.pt[t][i]
           n == ClearEntry(m, t, i)
<1>1. t \in DOMAIN m.pt /\ Shaped(m) /\ FramesKept(m, R)
  BY DEF Kept, DirectoriesKept
<1>2. CASE f = 0
  BY <1>2 DEF ClearEntry, Unset, EntrySet, Still
<1>3. CASE f # 0
  <2> DEFINE a == FreeBlock(m, f)
  <2>1. f \in m.ram.used \ R
    BY <1>3, UsedFrames
  <2>2. /\ Shaped(a) /\ FramesKept(a, R) /\ a.ram.used = m.ram.used \ {f}
        /\ Still(m, a) /\ a.pt = m.pt
    BY <1>1, <2>1, FreeFacts DEF Still
  <2>3. n = With(a, t, i, 0)
    BY <1>3 DEF ClearEntry, With
  <2> HIDE DEF a, n
  <2>4. /\ Shaped(n) /\ n.ram = a.ram /\ Still(a, n) /\ EntrySet(a, n, t, i, 0)
        /\ n.pt = [a.pt EXCEPT ![t][i] = 0]
    BY <1>1, <2>2, <2>3, SetShaped
  <2>5. Still(m, n) /\ EntrySet(m, n, t, i, 0)
    BY <2>2, <2>4 DEF Still, EntrySet
  <2>6. FramesKept(n, R)
    BY <2>2, <2>4 DEF FramesKept
  <2>7. LostPage(m, n, t, i)
    BY <2>2, <2>4, <2>5 DEF LostPage, Still
  <2>8. Kept(n, D, B, R)
    BY <1>3, <2>4, <2>6, <2>7, DropPage
  <2> QED BY <2>5, <2>8 DEF Unset, n
<1> QED BY <1>2, <1>3

\* Pages V are unmapped, and entries only become 0.
Unmapped(m, n, D, B, R, V) ==
    /\ Kept(n, D, B, R) /\ Still(m, n)
    /\ \A w \in Nat : w \div PER \in KernelSlot
          => Phys(n, n.boot, w) = IF w \in V THEN 0 ELSE Phys(m, m.boot, w)
    /\ DOMAIN n.pt = DOMAIN m.pt
    /\ \A y \in DOMAIN m.pt, j \in 0 .. PER - 1 : n.pt[y][j] \in {0, m.pt[y][j]}

LEMMA UnMapPageFacts ==
    ASSUME NEW m, NEW D, NEW B, NEW R, Kept(m, D, B, R), NEW d \in D, NEW v \in Nat,
           v \div PER \in KernelSlot
    PROVE  Unmapped(m, UnMapPage(m, d, v), D, B, R, {v})
<1> DEFINE t == m.pd[d][v \div PER]
           n == UnMapPage(m, d, v)
<1>1. v \div PER # Identity /\ v \div PER \in Slot \ {User}
  BY SlotFacts DEF Identity, User
<1>2. t = m.pd[m.boot][v \div PER] /\ m.boot \in D
  BY <1>1 DEF Kept, DirectoriesKept
<1>3. CASE t = 0
  <2>1. n = m
    BY <1>3 DEF UnMapPage
  <2>2. Phys(m, m.boot, v) = 0
    BY <1>1, <1>2, <1>3 DEF Phys
  <2> HIDE DEF n
  <2> QED BY <2>1, <2>2 DEF Unmapped, Still, n
<1>4. CASE t # 0
  <2>1. t \in PageTables(m, D) /\ t \in DOMAIN m.pt /\ v % PER \in 0 .. PER - 1
    BY <1>4, TablesIn, DivMod, Sizes
  <2>2. n = ClearEntry(m, t, v % PER)
    BY <1>1, <1>4 DEF UnMapPage
  <2>3. Unset(m, n, D, B, R, t, v % PER)
    BY <2>1, <2>2, ClearEntryFacts
  <2> HIDE DEF n
  <2>4. /\ Phys(n, m.boot, v) = 0
        /\ \A w \in Nat : w \div PER \in KernelSlot /\ w # v
              => Phys(n, n.boot, w) = Phys(m, m.boot, w)
    <3>1. /\ Still(m, n) /\ EntrySet(m, n, m.pd[d][v \div PER], v % PER, 0)
          /\ m.pd[d][v \div PER] # 0
      BY <1>4, <2>3 DEF Unset
    <3>2. v \div PER \in KernelSlot \cup {User}
      OBVIOUS
    <3> HIDE DEF t
    <3>3. /\ Phys(n, d, v) = 0
          /\ \A w \in Nat : w \div PER \in KernelSlot /\ w # v
                => Phys(n, n.boot, w) = Phys(m, m.boot, w)
      <4>1. PICK x : x = 0
        OBVIOUS
      <4>2. EntrySet(m, n, m.pd[d][v \div PER], v % PER, x)
        BY <3>1, <4>1
      <4>3. /\ Phys(n, d, v) = x
            /\ \A w \in Nat : w \div PER \in KernelSlot /\ w # v
                => Phys(n, n.boot, w) = Phys(m, m.boot, w)
        BY <3>1, <3>2, <4>2, OtherPages
      <4> QED BY <4>1, <4>3
    <3>4. Phys(n, m.boot, v) = Phys(n, d, v)
      BY <1>2, <2>3 DEF Phys, Unset, Still, t
    <3> QED BY <3>3, <3>4
  <2>5. n.boot = m.boot
    BY <2>3 DEF Unset, Still
  <2>6. \A w \in Nat : w \div PER \in KernelSlot
          => Phys(n, n.boot, w) = IF w \in {v} THEN 0 ELSE Phys(m, m.boot, w)
    BY <2>4, <2>5
  <2>7. /\ DOMAIN n.pt = DOMAIN m.pt
        /\ \A y \in DOMAIN m.pt, j \in 0 .. PER - 1 : n.pt[y][j] \in {0, m.pt[y][j]}
    BY <2>3 DEF Unset, EntrySet
  <2> QED BY <2>3, <2>6, <2>7 DEF Unmapped, Unset, n
<1> QED BY <1>3, <1>4

-----------------------------------------------------------------------------
\* VIRTMEM_mapTable of a slot without a table, when there is a frame.
TableMade(m, n, D, B, R, d, s) ==
    /\ Kept(n, D, B, R) /\ SamePages(m, n)
    /\ n.boot = m.boot /\ n.range = m.range /\ n.track = m.track
    /\ \A e \in D, z \in Slot :
          IF e = d /\ z = s THEN n.pd[e][z] # 0 ELSE n.pd[e][z] = m.pd[e][z]
    /\ Packed(m, R) => Packed(n, R)
    /\ n.ram.free = m.ram.free - 1

WithTable(m, d, s, f) ==
    [m EXCEPT !.pd[d][s] = f,
              !.pt = [t \in DOMAIN @ \cup {f} |-> IF t = f THEN NoEntries ELSE @[t]]]

TableAt(m, n, d, s, f) ==
    /\ n.pd = [m.pd EXCEPT ![d][s] = f]
    /\ n.pt = [t \in DOMAIN m.pt \cup {f} |-> IF t = f THEN NoEntries ELSE m.pt[t]]

LEMMA TableShaped ==
    ASSUME NEW m, Shaped(m), NEW d \in DOMAIN m.pd, NEW s \in Slot, NEW f \in Nat,
           NEW n, n = WithTable(m, d, s, f)
    PROVE  /\ Shaped(n) /\ n.ram = m.ram /\ n.boot = m.boot
           /\ n.range = m.range /\ n.track = m.track
           /\ TableAt(m, n, d, s, f)
<1>1. /\ n.ram = m.ram /\ n.boot = m.boot
      /\ n.range = m.range /\ n.track = m.track
      /\ n.pd = [m.pd EXCEPT ![d][s] = f]
      /\ n.pt = [t \in DOMAIN m.pt \cup {f} |-> IF t = f THEN NoEntries ELSE m.pt[t]]
  BY DEF Shaped, WithTable
<1>2. m.pd \in [DOMAIN m.pd -> [Slot -> Nat]] /\ m.pt \in [DOMAIN m.pt -> [0 .. PER - 1 -> Nat]]
  BY DEF Shaped
<1>3. n.pd \in [DOMAIN n.pd -> [Slot -> Nat]]
  <2>1. [m.pd[d] EXCEPT ![s] = f] \in [Slot -> Nat]
    BY <1>2
  <2> DEFINE g == [m.pd[d] EXCEPT ![s] = f]
  <2>2. n.pd = [m.pd EXCEPT ![d] = g]
    BY <1>1
  <2> HIDE DEF g
  <2> QED BY <1>2, <2>1, <2>2 DEF g
<1>4. n.pt \in [DOMAIN n.pt -> [0 .. PER - 1 -> Nat]]
  <2>1. NoEntries \in [0 .. PER - 1 -> Nat]
    BY DEF NoEntries
  <2> QED BY <1>1, <1>2, <2>1
<1>5. n \in [ram : Bitmap, range : Bitmap, track : Seq(Node),
            pd : {n.pd}, pt : {n.pt}, boot : Nat]
  BY <1>1 DEF Shaped, WithTable
<1>6. Shaped(n)
  BY <1>3, <1>4, <1>5, Zenon DEF Shaped
<1> QED BY <1>1, <1>6 DEF TableAt

LEMMA MapTableFacts ==
    ASSUME NEW m, NEW D, NEW B, NEW R, Kept(m, D, B, R), NEW d \in D, NEW v \in Nat,
           NEW s \in KernelSlot \cup {User}, s = v \div PER,
           s \in OwnSlots(m, d), s = User \/ D = {d}
    PROVE  \/ MapTable(m, d, v) = m /\ (m.pd[d][s] # 0 \/ m.ram.free = 0)
           \/ m.pd[d][s] = 0 /\ TableMade(m, MapTable(m, d, v), D, B, R, d, s)
<1> DEFINE f == NextFrame(m)
           a == AllocBlock(m)
           n == MapTable(m, d, v)
<1>1. /\ Shaped(m) /\ FramesKept(m, R) /\ m.ram.free \in Int
      /\ d \in DOMAIN m.pd /\ m.boot \in D
      /\ m.pd \in [DOMAIN m.pd -> [Slot -> Nat]]
      /\ PageTables(m, D) \subseteq DOMAIN m.pt
      /\ D \subseteq DOMAIN m.pd
  BY DEF Kept, Shaped, Bitmap, DirectoriesKept
<1>2. s \in Slot /\ s \notin {Identity, Kernel}
  BY SlotFacts DEF Identity, User, Kernel
<1>3. n = IF m.pd[d][s] # 0 THEN m ELSE IF f = 0 THEN a ELSE WithTable(a, d, s, f)
  BY DEF MapTable, WithTable
<1> HIDE DEF n, f, a
<1>4. CASE m.pd[d][s] # 0
  BY <1>3, <1>4 DEF n
<1>5. CASE m.pd[d][s] = 0
  <2>1. \/ f = 0 /\ a = m /\ m.ram.free = 0
        \/ /\ f \in FreeFrames(m) /\ f \in Nat \ {0}
           /\ \A g \in FreeFrames(m) : f <= g
           /\ a = Taken(m, f)
    BY <1>1, AllocFacts DEF f, a
  <2>2. CASE f = 0 /\ a = m /\ m.ram.free = 0
    BY <1>3, <1>5, <2>2 DEF n
  <2>3. CASE /\ f \in FreeFrames(m) /\ f \in Nat \ {0}
             /\ \A g \in FreeFrames(m) : f <= g
             /\ a = Taken(m, f)
    <3>1. /\ Shaped(a) /\ FramesKept(a, R)
          /\ a.ram.used = m.ram.used \cup {f} /\ a.ram.free = m.ram.free - 1
          /\ a.range = m.range /\ a.track = m.track
          /\ a.pd = m.pd /\ a.pt = m.pt /\ a.boot = m.boot
      BY <1>1, <2>3, TakenFacts
    <3>2. n = WithTable(a, d, s, f)
      BY <1>3, <1>5, <2>3
    <3>3. /\ Shaped(n) /\ n.ram = a.ram /\ n.boot = a.boot
          /\ n.range = a.range /\ n.track = a.track
          /\ TableAt(a, n, d, s, f)
      <4>1. d \in DOMAIN a.pd /\ f \in Nat /\ s \in Slot /\ Shaped(a)
        BY <1>1, <1>2, <2>3, <3>1
      <4> QED BY <3>2, <4>1, TableShaped
    <3>4. GotTable(m, n, d, s, f)
      BY <3>1, <3>3 DEF GotTable, TableAt
    <3>5. FramesKept(n, R)
      BY <3>1, <3>3 DEF FramesKept
    <3>6. Kept(n, D, B, R)
      BY <1>2, <1>5, <2>3, <3>3, <3>4, <3>5, AddTable
    <3>7. Packed(m, R) => Packed(n, R)
      BY <1>1, <2>3, <3>1, <3>3, TakenPacked
    <3>8. \A e \in D, z \in Slot :
             IF e = d /\ z = s THEN n.pd[e][z] = f ELSE n.pd[e][z] = m.pd[e][z]
      <4>1. m.pd[d] \in [Slot -> Nat]
        BY <1>1
      <4>2. \A e \in D : n.pd[e] = IF e = d THEN [m.pd[d] EXCEPT ![s] = f] ELSE m.pd[e]
        BY <1>1, <3>1, <3>3 DEF TableAt
      <4>3. ASSUME NEW e \in D, NEW z \in Slot
            PROVE  IF e = d /\ z = s THEN n.pd[e][z] = f ELSE n.pd[e][z] = m.pd[e][z]
        <5>1. n.pd[e] = IF e = d THEN [m.pd[d] EXCEPT ![s] = f] ELSE m.pd[e]
          BY <4>2
        <5> QED BY <4>1, <5>1, <1>2
      <4> QED BY <4>3
    <3>9. SamePages(m, n)
      <4> SUFFICES ASSUME NEW w \in Nat, w \div PER \in KernelSlot
                   PROVE  Phys(n, n.boot, w) = Phys(m, m.boot, w)
        BY DEF SamePages
      <4> DEFINE z == w \div PER
                 y == m.pd[m.boot][z]
                 x == n.pd[m.boot][z]
      <4>1. z \in Slot /\ z # Identity /\ z # User /\ w % PER \in 0 .. PER - 1
        BY SlotFacts, DivMod, Sizes DEF Identity, User
      <4>2. Phys(m, m.boot, w) = (IF y = 0 THEN 0 ELSE m.pt[y][w % PER])
        BY <4>1 DEF Phys
      <4>3. Phys(n, n.boot, w) = (IF x = 0 THEN 0 ELSE n.pt[x][w % PER])
        BY <3>1, <3>3, <4>1 DEF Phys
      <4>4. CASE m.boot = d /\ z = s
        <5>1. y = 0 /\ x = f
          BY <1>1, <1>2, <1>5, <3>8, <4>4
        <5>2. n.pt[f] = NoEntries
          BY <3>1, <3>3 DEF TableAt
        <5>3. n.pt[f][w % PER] = 0
          BY <4>1, <5>2 DEF NoEntries
        <5> HIDE DEF x, y, z
        <5> QED BY <4>2, <4>3, <5>1, <5>3
      <4>5. CASE ~ (m.boot = d /\ z = s)
        <5>1. x = y
          BY <1>1, <3>8, <4>1, <4>5
        <5>2. CASE y # 0
          <6>1. y \in PageTables(m, D)
            BY <1>1, <5>2, TablesIn
          <6>2. y # f /\ y \in DOMAIN m.pt
            BY <1>1, <2>3, <6>1, UsedFrames DEF FreeFrames
          <6>3. n.pt[y] = m.pt[y]
            BY <3>1, <3>3, <6>2 DEF TableAt
          <6> QED BY <4>2, <4>3, <5>1, <6>3
        <5> QED BY <4>2, <4>3, <5>1, <5>2
      <4> QED BY <4>4, <4>5
    <3>10. n.boot = m.boot /\ n.range = m.range /\ n.track = m.track
      BY <3>1, <3>3
    <3>11. n.ram.free = m.ram.free - 1
      BY <3>1, <3>3
    <3>12. \A e \in D, z \in Slot :
             IF e = d /\ z = s THEN n.pd[e][z] # 0 ELSE n.pd[e][z] = m.pd[e][z]
      BY <2>3, <3>8
    <3> QED BY <1>5, <3>6, <3>7, <3>9, <3>10, <3>11, <3>12 DEF TableMade, n
  <2> QED BY <2>1, <2>2, <2>3
<1> QED BY <1>4, <1>5

-----------------------------------------------------------------------------
(***************************************************************************)
(* The loops                                                               *)
(***************************************************************************)
\* Pages V are mapped, as far as there are frames.
MappedAll(m, n, D, B, R, V) ==
    /\ Kept(n, D, B, R) /\ Still(m, n)
    /\ \A w \in Nat : w \div PER \in KernelSlot /\ w \notin V
          => Phys(n, n.boot, w) = Phys(m, m.boot, w)
    /\ Packed(m, R) => Packed(n, R)

LEMMA MapPagesFacts ==
    ASSUME NEW m, NEW D, NEW B, NEW R, Kept(m, D, B, R), NEW d \in D,
           NEW v \in Nat, NEW n \in Nat,
           \A w \in v .. v + n - 1 : w \div PER \in KernelSlot /\ m.pd[d][w \div PER] # 0
    PROVE  MappedAll(m, MapPages(m, d, v, n), D, B, R, v .. v + n - 1)
<1>0. PICK f : MapTurns(f, m, d, v, n)
  BY MapPagesLoop
<1>1. /\ f[0] = m /\ f[n] = MapPages(m, d, v, n)
      /\ \A i \in 1 .. n : f[i] = MapPage(f[i - 1], d, v + i - 1)
  BY <1>0 DEF MapTurns
<1> DEFINE P(i) == MappedAll(m, f[i], D, B, R, v .. v + i - 1)
           I == {i \in 0 .. n : ~ P(i)}
<1>2. P(0)
  BY <1>1 DEF MappedAll, Still
<1>3. ASSUME NEW i \in 1 .. n, P(i - 1) PROVE P(i)
  <2> DEFINE a == f[i - 1]
             w == v + i - 1
  <2>1. w \in Nat /\ w \in v .. v + n - 1 /\ f[i] = MapPage(a, d, w)
    BY <1>1, <1>3
  <2>2. /\ Kept(a, D, B, R) /\ Still(m, a)
        /\ \A x \in Nat : x \div PER \in KernelSlot /\ x \notin v .. v + (i - 1) - 1
              => Phys(a, a.boot, x) = Phys(m, m.boot, x)
        /\ Packed(m, R) => Packed(a, R)
    BY <1>3 DEF MappedAll
  <2>3. w \div PER \in KernelSlot /\ a.pd[d][w \div PER] # 0
    BY <2>1, <2>2 DEF Still
  <2>4. w \div PER \in KernelSlot \cup {User}
    BY <2>3
  <2> HIDE DEF a, w
  <2>5. Mapped(a, f[i], D, B, R, d, w)
    <3>1. Mapped(a, MapPage(a, d, w), D, B, R, d, w)
      BY <2>1, <2>2, <2>3, <2>4, MapPageFacts
    <3> QED BY <2>1, <3>1
  <2>6. Still(m, f[i])
    BY <2>2, <2>5 DEF Mapped, Still
  <2>7. ASSUME NEW x \in Nat, x \div PER \in KernelSlot, x \notin v .. v + i - 1
        PROVE  Phys(f[i], f[i].boot, x) = Phys(m, m.boot, x)
    <3>1. x # w /\ x \notin v .. v + (i - 1) - 1
      BY <2>7 DEF w
    <3>2. Phys(a, a.boot, x) = Phys(m, m.boot, x)
      BY <2>2, <2>7, <3>1
    <3>3. Phys(f[i], f[i].boot, x) = Phys(a, a.boot, x)
      BY <2>5, <2>7, <3>1 DEF Mapped
    <3> QED BY <3>2, <3>3
  <2>8. Kept(f[i], D, B, R) /\ (Packed(m, R) => Packed(f[i], R))
    BY <2>2, <2>5 DEF Mapped
  <2> QED BY <2>6, <2>7, <2>8 DEF MappedAll
<1> HIDE DEF P
<1>4. I = {}
  <2>1. I \subseteq 0 .. n /\ 0 \notin I
    BY <1>2
  <2>2. \A i \in 1 .. n : i - 1 \notin I => i \notin I
    BY <1>3
  <2> HIDE DEF I
  <2> QED BY <2>1, <2>2, NoFirst
<1>5. P(n)
  BY <1>4
<1> QED BY <1>1, <1>5 DEF P

\* Pages of the first table are mapped already.
LEMMA MapIdentity ==
    ASSUME NEW m, NEW d, NEW v \in Nat, NEW n \in Nat, m.pd[d][Identity] # 0,
           \A w \in v .. v + n - 1 : w \div PER = Identity
    PROVE  MapPages(m, d, v, n) = m
<1>0. PICK f : MapTurns(f, m, d, v, n)
  BY MapPagesLoop
<1>1. /\ f[0] = m /\ f[n] = MapPages(m, d, v, n)
      /\ \A i \in 1 .. n : f[i] = MapPage(f[i - 1], d, v + i - 1)
  BY <1>0 DEF MapTurns
<1> DEFINE I == {i \in 0 .. n : f[i] # m}
<1>2. ASSUME NEW i \in 1 .. n, f[i - 1] = m PROVE f[i] = m
  <2>1. f[i] = MapPage(m, d, v + i - 1) /\ v + i - 1 \in v .. v + n - 1
    BY <1>1, <1>2
  <2>2. (v + i - 1) \div PER = Identity
    BY <2>1
  <2> QED BY <2>1, <2>2 DEF MapPage, MapEntry, MapTable
<1>3. I \subseteq 0 .. n /\ 0 \notin I
  BY <1>1
<1>4. \A i \in 1 .. n : i - 1 \notin I => i \notin I
  BY <1>2
<1>5. I = {}
  <2> HIDE DEF I
  <2> QED BY <1>3, <1>4, NoFirst
<1> QED BY <1>1, <1>5

LEMMA UnMapPagesFacts ==
    ASSUME NEW m, NEW D, NEW B, NEW R, Kept(m, D, B, R), NEW d \in D,
           NEW v \in Nat, NEW n \in Nat,
           \A w \in v .. v + n - 1 : w \div PER \in KernelSlot
    PROVE  Unmapped(m, UnMapPages(m, d, v, n), D, B, R, v .. v + n - 1)
<1>0. PICK f : UnMapTurns(f, m, d, v, n)
  BY UnMapPagesLoop
<1>1. /\ f[0] = m /\ f[n] = UnMapPages(m, d, v, n)
      /\ \A i \in 1 .. n : f[i] = UnMapPage(f[i - 1], d, v + i - 1)
  BY <1>0 DEF UnMapTurns
<1> DEFINE P(i) == Unmapped(m, f[i], D, B, R, v .. v + i - 1)
           I == {i \in 0 .. n : ~ P(i)}
<1>2. P(0)
  BY <1>1 DEF Unmapped, Still
<1>3. ASSUME NEW i \in 1 .. n, P(i - 1) PROVE P(i)
  <2> DEFINE a == f[i - 1]
             w == v + i - 1
  <2>1. w \in Nat /\ w \in v .. v + n - 1 /\ f[i] = UnMapPage(a, d, w)
    BY <1>1, <1>3
  <2>2. /\ Kept(a, D, B, R) /\ Still(m, a)
        /\ \A x \in Nat : x \div PER \in KernelSlot
              => Phys(a, a.boot, x) = IF x \in v .. v + (i - 1) - 1 THEN 0
                                      ELSE Phys(m, m.boot, x)
        /\ DOMAIN a.pt = DOMAIN m.pt
        /\ \A y \in DOMAIN m.pt, j \in 0 .. PER - 1 : a.pt[y][j] \in {0, m.pt[y][j]}
    BY <1>3 DEF Unmapped
  <2>3. w \div PER \in KernelSlot
    BY <2>1
  <2> HIDE DEF a, w
  <2>5. Unmapped(a, f[i], D, B, R, {w})
    <3>1. Unmapped(a, UnMapPage(a, d, w), D, B, R, {w})
      BY <2>1, <2>2, <2>3, UnMapPageFacts
    <3> QED BY <2>1, <3>1
  <2>6. Still(m, f[i])
    BY <2>2, <2>5 DEF Unmapped, Still
  <2>7. ASSUME NEW x \in Nat, x \div PER \in KernelSlot
        PROVE  Phys(f[i], f[i].boot, x) = IF x \in v .. v + i - 1 THEN 0
                                          ELSE Phys(m, m.boot, x)
    <3>1. x \in v .. v + i - 1 <=> x \in v .. v + (i - 1) - 1 \/ x = w
      BY <2>7 DEF w
    <3>2. Phys(a, a.boot, x) = IF x \in v .. v + (i - 1) - 1 THEN 0 ELSE Phys(m, m.boot, x)
      BY <2>2, <2>7
    <3>3. Phys(f[i], f[i].boot, x) = IF x = w THEN 0 ELSE Phys(a, a.boot, x)
      BY <2>5, <2>7 DEF Unmapped
    <3> QED BY <3>1, <3>2, <3>3
  <2>8. Kept(f[i], D, B, R)
    BY <2>5 DEF Unmapped
  <2>9. /\ DOMAIN f[i].pt = DOMAIN m.pt
        /\ \A y \in DOMAIN m.pt, j \in 0 .. PER - 1 : f[i].pt[y][j] \in {0, m.pt[y][j]}
    BY <2>2, <2>5 DEF Unmapped
  <2> QED BY <2>6, <2>7, <2>8, <2>9 DEF Unmapped
<1> HIDE DEF P
<1>4. I = {}
  <2>1. I \subseteq 0 .. n /\ 0 \notin I
    BY <1>2
  <2>2. \A i \in 1 .. n : i - 1 \notin I => i \notin I
    BY <1>3
  <2> HIDE DEF I
  <2> QED BY <2>1, <2>2, NoFirst
<1>5. P(n)
  BY <1>4
<1> QED BY <1>1, <1>5 DEF P

\* The loop of VIRTMEM_destroyAddressSpace over the user's table.
Emptied(m, n, D, B, R, t, V) ==
    /\ Kept(n, D, B, R) /\ Still(m, n)
    /\ DOMAIN n.pt = DOMAIN m.pt
    /\ \A y \in DOMAIN m.pt, j \in 0 .. PER - 1 :
          n.pt[y][j] = IF y = t /\ j \in V THEN 0 ELSE m.pt[y][j]

LEMMA ClearedFacts ==
    ASSUME NEW m, NEW D, NEW B, NEW R, Kept(m, D, B, R), NEW t \in PageTables(m, D)
    PROVE  Emptied(m, Cleared(m, t), D, B, R, t, 0 .. PER - 1)
<1>0. PER \in Nat \ {0}
  BY Sizes
<1>1. PICK f : /\ f[0] = m /\ f[PER] = Cleared(m, t)
               /\ \A i \in 1 .. PER : f[i] = ClearEntry(f[i - 1], t, i - 1)
  BY ClearedLoop
<1> DEFINE P(i) == Emptied(m, f[i], D, B, R, t, 0 .. i - 1)
           I == {i \in 0 .. PER : ~ P(i)}
<1>2. P(0)
  BY <1>1 DEF Emptied, Still
<1>3. ASSUME NEW i \in 1 .. PER, P(i - 1) PROVE P(i)
  <2> DEFINE a == f[i - 1]
             w == i - 1
  <2>1. w \in 0 .. PER - 1 /\ f[i] = ClearEntry(a, t, w)
    BY <1>0, <1>1, <1>3
  <2>2. /\ Kept(a, D, B, R) /\ Still(m, a)
        /\ DOMAIN a.pt = DOMAIN m.pt
        /\ \A y \in DOMAIN m.pt, j \in 0 .. PER - 1 :
              a.pt[y][j] = IF y = t /\ j \in 0 .. (i - 1) - 1 THEN 0 ELSE m.pt[y][j]
    BY <1>3 DEF Emptied
  <2>3. t \in PageTables(a, D)
    BY <2>2, SameTables DEF Still
  <2>4. \A j \in 0 .. PER - 1 : j \in 0 .. i - 1 <=> j \in 0 .. (i - 1) - 1 \/ j = w
    BY <1>0
  <2> HIDE DEF a, w
  <2>5. Unset(a, f[i], D, B, R, t, w)
    BY <2>1, <2>2, <2>3, ClearEntryFacts
  <2>6. Kept(f[i], D, B, R) /\ Still(m, f[i]) /\ DOMAIN f[i].pt = DOMAIN m.pt
    BY <2>2, <2>5 DEF Unset, Still, EntrySet
  <2>7. ASSUME NEW y \in DOMAIN m.pt, NEW j \in 0 .. PER - 1
        PROVE  f[i].pt[y][j] = IF y = t /\ j \in 0 .. i - 1 THEN 0 ELSE m.pt[y][j]
    BY <2>2, <2>4, <2>5 DEF Unset, EntrySet
  <2> QED BY <2>6, <2>7 DEF Emptied
<1> HIDE DEF P
<1>4. I = {}
  <2>1. I \subseteq 0 .. PER /\ 0 \notin I
    BY <1>0, <1>2
  <2>2. \A i \in 1 .. PER : i - 1 \notin I => i \notin I
    BY <1>0, <1>3
  <2> HIDE DEF I
  <2> QED BY <1>0, <2>1, <2>2, NoFirst
<1>5. P(PER)
  BY <1>0, <1>4
<1> QED BY <1>1, <1>5 DEF P

\* A table without entries is left as it is.
LEMMA ClearedNothing ==
    ASSUME NEW m, NEW t, m.pt[t] = NoEntries
    PROVE  Cleared(m, t) = m
<1>0. PER \in Nat \ {0}
  BY Sizes
<1>1. PICK f : /\ f[0] = m /\ f[PER] = Cleared(m, t)
               /\ \A i \in 1 .. PER : f[i] = ClearEntry(f[i - 1], t, i - 1)
  BY ClearedLoop
<1> DEFINE I == {i \in 0 .. PER : f[i] # m}
<1>2. ASSUME NEW i \in 1 .. PER, f[i - 1] = m PROVE f[i] = m
  <2>1. f[i] = ClearEntry(m, t, i - 1) /\ i - 1 \in 0 .. PER - 1
    BY <1>0, <1>1, <1>2
  <2>2. m.pt[t][i - 1] = 0
    BY <2>1 DEF NoEntries
  <2> QED BY <2>1, <2>2 DEF ClearEntry
<1>3. I \subseteq 0 .. PER /\ 0 \notin I
  BY <1>0, <1>1
<1>4. \A i \in 1 .. PER : i - 1 \notin I => i \notin I
  BY <1>0, <1>2
<1>5. I = {}
  <2> HIDE DEF I
  <2> QED BY <1>0, <1>3, <1>4, NoFirst
<1> QED BY <1>0, <1>1, <1>5

-----------------------------------------------------------------------------
LEMMA TimesLess ==
    ASSUME NEW x \in Int, NEW y \in Int, NEW n \in Nat \ {0}
    PROVE  /\ x <= y <=> x * n <= y * n
           /\ x < y <=> x * n < y * n
OBVIOUS

\* VIRTMEM_mapTable every STEP pages, no more than a table apart, reaches
\* all tables of a range and no other.
LEMMA RangeSlots ==
    ASSUME NEW a \in Nat, NEW tables \in Nat \ {0}
    PROVE  /\ \A i \in 1 .. Tables(tables) :
                 (a * PER + (i - 1) * STEP) \div PER \in a .. a + tables - 1
           /\ \A s \in a .. a + tables - 1 : \E i \in 1 .. Tables(tables) :
                 (a * PER + (i - 1) * STEP) \div PER = s
<1> DEFINE T == Tables(tables)
           all == tables * PER
<1>1. /\ PER \in Nat \ {0} /\ STEP \in Nat \ {0} /\ STEP <= PER
      /\ a * PER \in Nat /\ all \in Nat
  BY Sizes
<1>2. T \in Nat /\ T * STEP <= all + STEP - 1 /\ all <= T * STEP
  <2> DEFINE x == all + STEP - 1
  <2>1. x \in Nat /\ T = x \div STEP
    BY <1>1 DEF Tables
  <2>2. /\ x \div STEP \in Nat /\ x % STEP \in 0 .. STEP - 1
        /\ x = STEP * (x \div STEP) + (x % STEP)
    BY <1>1, <2>1, DivMod
  <2> HIDE DEF T
  <2>3. x = STEP * T + (x % STEP)
    BY <2>1, <2>2
  <2>4. STEP * T = T * STEP /\ STEP * T \in Nat
    BY <1>1, <2>1, <2>2
  <2> QED BY <1>1, <2>1, <2>2, <2>3, <2>4
<1> HIDE DEF T, all
<1>3. ASSUME NEW i \in 1 .. T
      PROVE  (a * PER + (i - 1) * STEP) \div PER \in a .. a + tables - 1
  <2> DEFINE y == (i - 1) * STEP
             v == a * PER + y
  <2>1. y \in Nat /\ y <= (T - 1) * STEP
    BY <1>1, <1>2, <1>3, TimesLess
  <2>2. (T - 1) * STEP = T * STEP - STEP
    BY <1>1, <1>2
  <2>3. y < all
    BY <1>1, <1>2, <2>1, <2>2
  <2>4. (a + tables) * PER = a * PER + all
    BY <1>1 DEF all
  <2> HIDE DEF y
  <2>5. v \in Nat /\ a * PER <= v /\ v < (a + tables) * PER
    BY <1>1, <2>1, <2>3, <2>4
  <2> HIDE DEF v
  <2>6. a + tables \in Nat /\ v \div PER \in Nat
    <3>1. v \div PER \in Nat
      BY <1>1, <2>5, DivMod
    <3> QED BY <3>1
  <2>7. a <= v \div PER /\ v \div PER < a + tables
    BY <1>1, <2>5, <2>6, DivBetween
  <2>8. v \div PER \in a .. a + tables - 1
    BY <2>6, <2>7
  <2> QED BY <2>8 DEF v, y
<1>4. ASSUME NEW s \in a .. a + tables - 1
      PROVE  \E i \in 1 .. T : (a * PER + (i - 1) * STEP) \div PER = s
  <2> DEFINE x == (s - a) * PER
             q == (x + STEP - 1) \div STEP
             v == a * PER + q * STEP
  <2>1. s \in Nat /\ s - a \in Nat /\ s - a <= tables - 1
    BY <1>4
  <2>2. x \in Nat /\ x <= (tables - 1) * PER
    BY <1>1, <2>1, TimesLess
  <2>3. (tables - 1) * PER = all - PER
    BY <1>1 DEF all
  <2>4. s * PER = a * PER + x /\ (s + 1) * PER = a * PER + x + PER
    BY <1>1, <2>1
  <2> HIDE DEF x
  <2>5. q \in Nat /\ x <= q * STEP /\ q * STEP <= x + PER - 1
    <3> DEFINE z == x + STEP - 1
    <3>1. z \in Nat
      BY <1>1, <2>2
    <3>2. /\ q \in Nat /\ z % STEP \in 0 .. STEP - 1
          /\ z = STEP * q + (z % STEP)
      BY <1>1, <3>1, DivMod
    <3> HIDE DEF q
    <3>3. STEP * q = q * STEP /\ STEP * q \in Nat
      BY <1>1, <3>2
    <3> QED BY <1>1, <2>2, <3>2, <3>3
  <2> HIDE DEF q
  <2>6. q * STEP \in Nat /\ q * STEP < T * STEP
    BY <1>1, <1>2, <2>2, <2>3, <2>5
  <2>7. q + 1 \in 1 .. T
    BY <1>1, <1>2, <2>5, <2>6, TimesLess
  <2>8. v \in Nat /\ s * PER <= v /\ v < (s + 1) * PER
    BY <1>1, <2>2, <2>4, <2>5, <2>6
  <2> HIDE DEF v
  <2>9. s + 1 \in Nat /\ v \div PER \in Nat
    BY <1>1, <2>1, <2>8, DivMod
  <2>10. s <= v \div PER /\ v \div PER < s + 1
    BY <1>1, <2>1, <2>8, <2>9, DivBetween
  <2>11. v \div PER = s
    BY <2>1, <2>9, <2>10
  <2>12. v = a * PER + ((q + 1) - 1) * STEP
    BY <1>1, <2>5 DEF v
  <2> QED BY <2>7, <2>11, <2>12
<1> QED BY <1>3, <1>4 DEF T

Zero(m) == {s \in Slot \ {User} : m.pd[m.boot][s] = 0}

Spare(m) == m.ram.free - Cardinality(Zero(m))

LEMMA ZeroFinite ==
    ASSUME NEW m
    PROVE  IsFiniteSet(Zero(m)) /\ Cardinality(Zero(m)) \in Nat
<1>1. IsFiniteSet(Slot)
  <2>1. 0 \in Int /\ 2 + HEAPTABLES + VMTABLES \in Int
    BY Sizes
  <2> QED BY <2>1, FS_Interval DEF Slot
<1>2. IsFiniteSet(Zero(m))
  BY <1>1, FS_Subset DEF Zero
<1> QED BY <1>2, FS_CardinalityType

\* The start-up code makes tables: all that the free frames are short of is
\* one for each slot without a table.
Growing(m, n, R) ==
    /\ Kept(n, {n.boot}, {}, R) /\ Packed(n, R) /\ SamePages(m, n)
    /\ n.boot = m.boot /\ n.range = m.range /\ n.track = m.track
    /\ n.pd[n.boot][User] = m.pd[m.boot][User]
    /\ Zero(n) \subseteq Zero(m) /\ Spare(n) = Spare(m)

LEMMA GrowOne ==
    ASSUME NEW m, NEW R, Kept(m, {m.boot}, {}, R), Packed(m, R), Spare(m) >= 0,
           NEW v \in Nat, v \div PER \in KernelSlot
    PROVE  LET n == MapTable(m, m.boot, v)
           IN  Growing(m, n, R) /\ v \div PER \notin Zero(n)
<1> DEFINE n == MapTable(m, m.boot, v)
           s == v \div PER
           D == {m.boot}
<1>1. s \in KernelSlot \cup {User} /\ s \in Slot \ {User} /\ s \in OwnSlots(m, m.boot)
  BY SlotFacts DEF User, OwnSlots
<1>2. m.ram.free \in Int
  BY DEF Kept, Shaped, Bitmap
<1>3. Kept(m, D, {}, R) /\ m.boot \in D
  OBVIOUS
<1> HIDE DEF s, D
<1>4. \/ n = m /\ (m.pd[m.boot][s] # 0 \/ m.ram.free = 0)
      \/ m.pd[m.boot][s] = 0 /\ TableMade(m, n, D, {}, R, m.boot, s)
  BY <1>1, <1>3, MapTableFacts DEF s, D
<1> HIDE DEF n
<1>5. IsFiniteSet(Zero(m)) /\ Cardinality(Zero(m)) \in Nat /\ Cardinality(Zero(n)) \in Nat
  BY ZeroFinite
<1>6. CASE n = m /\ (m.pd[m.boot][s] # 0 \/ m.ram.free = 0)
  <2>1. s \notin Zero(m)
    <3> SUFFICES ASSUME s \in Zero(m) PROVE FALSE
      OBVIOUS
    <3>1. Cardinality(Zero(m)) # 0
      BY <1>5, FS_EmptySet
    <3>2. m.ram.free > 0
      BY <1>2, <1>5, <3>1 DEF Spare
    <3> QED BY <1>6, <3>2 DEF Zero
  <2> QED BY <1>6, <2>1 DEF Growing, SamePages, n, s
<1>7. CASE m.pd[m.boot][s] = 0 /\ TableMade(m, n, D, {}, R, m.boot, s)
  <2>1. /\ Kept(n, D, {}, R) /\ SamePages(m, n)
        /\ n.boot = m.boot /\ n.range = m.range /\ n.track = m.track
        /\ Packed(n, R) /\ n.ram.free = m.ram.free - 1
        /\ \A z \in Slot : IF z = s THEN n.pd[m.boot][z] # 0
                          ELSE n.pd[m.boot][z] = m.pd[m.boot][z]
    BY <1>7 DEF TableMade, D
  <2>2. Zero(n) = Zero(m) \ {s} /\ s \in Zero(m)
    BY <1>1, <1>7, <2>1 DEF Zero
  <2>3. Cardinality(Zero(n)) = Cardinality(Zero(m)) - 1
    BY <1>5, <2>2, FS_RemoveElement
  <2>4. Spare(n) = Spare(m)
    BY <1>2, <1>5, <2>1, <2>3 DEF Spare
  <2>5. n.pd[n.boot][User] = m.pd[m.boot][User]
    BY <1>1, <2>1, SlotFacts
  <2> QED BY <2>1, <2>2, <2>4, <2>5 DEF Growing, n, s, D
<1> QED BY <1>4, <1>6, <1>7

LEMMA MapRangeFacts ==
    ASSUME NEW m, NEW R, Kept(m, {m.boot}, {}, R), Packed(m, R), Spare(m) >= 0,
           NEW a \in Nat, NEW tables \in Nat \ {0}, a .. a + tables - 1 \subseteq KernelSlot
    PROVE  LET n == MapRange(m, a * PER, tables)
           IN  Growing(m, n, R) /\ Zero(n) \cap (a .. a + tables - 1) = {}
<1>0. Tables(tables) \in Nat /\ a * PER \in Nat /\ STEP \in Nat /\ PER \in Nat
  BY Sizes DEF Tables
<1>7. PICK f : RangeTurns(f, m, a * PER, tables)
  BY <1>0, MapRangeLoop
<1>1. /\ f[0] = m /\ f[Tables(tables)] = MapRange(m, a * PER, tables)
      /\ \A i \in 1 .. Tables(tables) :
            f[i] = MapTable(f[i - 1], m.boot, a * PER + (i - 1) * STEP)
  BY <1>7 DEF RangeTurns
<1> DEFINE v(i) == a * PER + (i - 1) * STEP
           T == Tables(tables)
           P(i) == /\ Growing(m, f[i], R)
                   /\ \A j \in 1 .. i : v(j) \div PER \notin Zero(f[i])
           I == {i \in 0 .. T : ~ P(i)}
<1> HIDE DEF T
<1>2. P(0)
  BY <1>1 DEF Growing, SamePages
<1>3. ASSUME NEW i \in 1 .. T, P(i - 1) PROVE P(i)
  <2> DEFINE b == f[i - 1]
             w == v(i)
  <2>1. w \in Nat
    <3>1. (i - 1) \in Nat
      BY <1>0, <1>3 DEF T
    <3>2. (i - 1) * STEP \in Nat
      BY <1>0, <3>1
    <3> QED BY <1>0, <3>2
  <2>2. w \div PER \in KernelSlot
    BY <1>3, RangeSlots DEF T
  <2>3. f[i] = MapTable(b, m.boot, w)
    BY <1>1, <1>3 DEF T
  <2>4. Growing(m, b, R) /\ \A j \in 1 .. i - 1 : v(j) \div PER \notin Zero(b)
    BY <1>3
  <2> HIDE DEF b, w, v
  <2>5. b.boot = m.boot /\ Kept(b, {b.boot}, {}, R) /\ Packed(b, R) /\ Spare(b) >= 0
    BY <2>4 DEF Growing
  <2>6. Growing(b, f[i], R) /\ w \div PER \notin Zero(f[i])
    <3>1. f[i] = MapTable(b, b.boot, w)
      BY <2>3, <2>5
    <3> QED BY <2>1, <2>2, <2>5, <3>1, GrowOne
  <2>7. Growing(m, f[i], R)
    BY <2>4, <2>6 DEF Growing, SamePages
  <2>8. ASSUME NEW j \in 1 .. i PROVE v(j) \div PER \notin Zero(f[i])
    <3>1. CASE j = i
      BY <2>6, <3>1 DEF w
    <3>2. CASE j # i
      <4>1. j \in 1 .. i - 1
        BY <1>0, <1>3, <2>8, <3>2 DEF T
      <4> QED BY <2>4, <2>6, <4>1 DEF Growing
    <3> QED BY <3>1, <3>2
  <2> QED BY <2>7, <2>8
<1>4. I = {}
  <2> HIDE DEF P
  <2>1. I \subseteq 0 .. T /\ 0 \notin I /\ T \in Nat
    BY <1>0, <1>2 DEF T
  <2>2. \A i \in 1 .. T : i - 1 \notin I => i \notin I
    BY <1>3, <2>1
  <2> HIDE DEF I
  <2> QED BY <2>1, <2>2, NoFirst
<1>5. P(T)
  <2> HIDE DEF P
  <2>1. T \in 0 .. T
    BY <1>0 DEF T
  <2> QED BY <1>4, <2>1
<1>6. ASSUME NEW s \in a .. a + tables - 1 PROVE s \notin Zero(f[T])
  <2>1. PICK j \in 1 .. T : v(j) \div PER = s
    BY RangeSlots DEF T
  <2> QED BY <1>5, <2>1
<1> QED BY <1>1, <1>5, <1>6 DEF T

-----------------------------------------------------------------------------
(***************************************************************************)
(* The list of vmalloc                                                     *)
(***************************************************************************)
Apart(track) ==
    \A i, j \in Nodes(track) : i # j => Pages(track[i]) \cap Pages(track[j]) = {}

\* The pages that a node holds: none if vmalloc found none.
Of(node) == IF node.page = 0 THEN {} ELSE Pages(node)

LEMMA HeldAre ==
    ASSUME NEW s, NEW x
    PROVE  x \in Held(s) <=> \E i \in DOMAIN s : x \in Of(s[i])
BY DEF Held, Nodes, Of

LEMMA NodeAdded ==
    ASSUME NEW s \in Seq(Node), NEW e \in Node, NEW j \in 1 .. Len(s) + 1,
           NEW t \in Seq(Node), Widened(t, s, j, e)
    PROVE  /\ Range(t) = Range(s) \cup {e}
           /\ Held(t) = Held(s) \cup Of(e)
           /\ Apart(s) /\ Of(e) \cap Held(s) = {} => Apart(t)
<1>1. /\ Len(s) \in Nat /\ DOMAIN s = 1 .. Len(s) /\ DOMAIN t = 1 .. Len(t)
      /\ Len(t) = Len(s) + 1
  BY LenProperties DEF Widened
<1>2. \A k \in 1 .. Len(s) + 1 :
         t[k] = IF k < j THEN s[k] ELSE IF k = j THEN e ELSE s[k - 1]
  BY DEF Widened
<1> DEFINE h(k) == IF k < j THEN k ELSE k - 1
           g(i) == IF i < j THEN i ELSE i + 1
<1>3. \A k \in DOMAIN t \ {j} : h(k) \in DOMAIN s /\ t[k] = s[h(k)]
  BY <1>1, <1>2
<1>4. \A i \in DOMAIN s : g(i) \in DOMAIN t /\ t[g(i)] = s[i]
  BY <1>1, <1>2
<1>5. j \in DOMAIN t /\ t[j] = e
  BY <1>1, <1>2
<1>6. \A k, l \in DOMAIN t \ {j} : h(k) = h(l) => k = l
  BY <1>1
<1> HIDE DEF g, h
<1>7. Range(t) = Range(s) \cup {e}
  BY <1>3, <1>4, <1>5 DEF Range
<1>8. \A x : x \in Held(t) <=> x \in Held(s) \/ x \in Of(e)
  <2>1. ASSUME NEW x, x \in Held(t) PROVE x \in Held(s) \/ x \in Of(e)
    <3>1. PICK k \in DOMAIN t : x \in Of(t[k])
      BY <2>1, HeldAre
    <3> QED BY <1>3, <1>5, <3>1, HeldAre
  <2>2. ASSUME NEW x, x \in Held(s) PROVE x \in Held(t)
    <3>1. PICK i \in DOMAIN s : x \in Of(s[i])
      BY <2>2, HeldAre
    <3>2. g(i) \in DOMAIN t /\ x \in Of(t[g(i)])
      BY <1>4, <3>1
    <3> QED BY <3>2, HeldAre
  <2>3. ASSUME NEW x, x \in Of(e) PROVE x \in Held(t)
    BY <1>5, <2>3, HeldAre
  <2> QED BY <2>1, <2>2, <2>3
<1>9. ASSUME Apart(s), Of(e) \cap Held(s) = {} PROVE Apart(t)
  <2> SUFFICES ASSUME NEW k \in Nodes(t), NEW l \in Nodes(t), k # l,
                      NEW x \in Pages(t[k]), x \in Pages(t[l])
               PROVE  FALSE
    BY DEF Apart
  <2>1. ASSUME NEW i \in Nodes(t), i # j PROVE h(i) \in Nodes(s) /\ Pages(s[h(i)]) = Pages(t[i])
    BY <1>3, <2>1 DEF Nodes
  <2>2. ASSUME NEW i \in Nodes(t), i # j, x \in Pages(t[i]) PROVE x \in Held(s)
    BY <2>1, <2>2 DEF Held
  <2>3. j \in Nodes(t) => Of(e) = Pages(t[j])
    BY <1>5 DEF Nodes, Of
  <2>4. CASE k # j /\ l # j
    <3>1. h(k) # h(l)
      BY <1>6, <2>4 DEF Nodes
    <3> QED BY <1>9, <2>1, <2>4, <3>1 DEF Apart
  <2>5. CASE k = j \/ l = j
    BY <1>9, <2>2, <2>3, <2>5
  <2> QED BY <2>4, <2>5
<1> QED BY <1>7, <1>8, <1>9

LEMMA NodeRemoved ==
    ASSUME NEW s \in Seq(Node), Apart(s), NEW at \in 1 .. Len(s), s[at].page # 0
    PROVE  LET t == RemoveAt(s, at)
           IN  /\ t \in Seq(Node)
               /\ \A x \in Range(s) : x.page # s[at].page => x \in Range(t)
               /\ Held(t) = Held(s) \ Pages(s[at]) /\ Pages(s[at]) \subseteq Held(s)
               /\ Apart(t)
<1> DEFINE t == RemoveAt(s, at)
           h(k) == IF k < at THEN k ELSE k + 1
           g(i) == IF i < at THEN i ELSE i - 1
<1>1. /\ t \in Seq(Node) /\ Len(t) = Len(s) - 1
      /\ \A k \in 1 .. Len(s) - 1 : t[k] = IF k < at THEN s[k] ELSE s[k + 1]
  BY RemoveAtItems
<1> HIDE DEF t
<1>2. /\ Len(s) \in Nat /\ DOMAIN s = 1 .. Len(s) /\ DOMAIN t = 1 .. Len(s) - 1
  BY <1>1, LenProperties
<1>3. \A k \in DOMAIN t : h(k) \in DOMAIN s \ {at} /\ t[k] = s[h(k)]
  BY <1>1, <1>2
<1>4. \A i \in DOMAIN s \ {at} : g(i) \in DOMAIN t /\ t[g(i)] = s[i]
  BY <1>1, <1>2
<1>5. \A k, l \in DOMAIN t : h(k) = h(l) => k = l
  BY <1>1, <1>2
<1> HIDE DEF g, h
<1>6. at \in Nodes(s) /\ Of(s[at]) = Pages(s[at])
  BY <1>2 DEF Nodes, Of
<1>7. Pages(s[at]) \subseteq Held(s)
  BY <1>6 DEF Held
<1>8. ASSUME NEW x \in Range(s), x.page # s[at].page PROVE x \in Range(t)
  <2>1. PICK i \in DOMAIN s : x = s[i]
    BY DEF Range
  <2>2. i # at
    BY <1>8, <2>1
  <2> QED BY <1>4, <2>1, <2>2 DEF Range
<1>9. \A x : x \in Held(t) <=> x \in Held(s) /\ x \notin Pages(s[at])
  <2>1. ASSUME NEW x, x \in Held(t) PROVE x \in Held(s) /\ x \notin Pages(s[at])
    <3>1. PICK k \in Nodes(t) : x \in Pages(t[k])
      BY <2>1 DEF Held
    <3>2. h(k) \in Nodes(s) \ {at} /\ x \in Pages(s[h(k)])
      BY <1>3, <3>1 DEF Nodes
    <3> QED BY <1>6, <3>2 DEF Held, Apart
  <2>2. ASSUME NEW x, x \in Held(s), x \notin Pages(s[at]) PROVE x \in Held(t)
    <3>1. PICK i \in DOMAIN s : x \in Of(s[i])
      BY <2>2, HeldAre
    <3>2. i # at
      BY <1>6, <2>2, <3>1
    <3>3. g(i) \in DOMAIN t /\ x \in Of(t[g(i)])
      BY <1>4, <3>1, <3>2
    <3> QED BY <3>3, HeldAre
  <2> QED BY <2>1, <2>2
<1>10. Apart(t)
  <2> SUFFICES ASSUME NEW k \in Nodes(t), NEW l \in Nodes(t), k # l
               PROVE  Pages(t[k]) \cap Pages(t[l]) = {}
    BY DEF Apart
  <2>1. \A i \in Nodes(t) : h(i) \in Nodes(s) /\ Pages(s[h(i)]) = Pages(t[i])
    BY <1>3 DEF Nodes
  <2>2. h(k) # h(l)
    BY <1>5 DEF Nodes
  <2> QED BY <2>1, <2>2 DEF Apart
<1> QED BY <1>1, <1>7, <1>8, <1>9, <1>10 DEF t

\* The node that vmalloc makes is second in the list, or the only one.
LEMMA Inserted ==
    ASSUME NEW s \in Seq(Node), NEW e \in Node
    PROVE  LET t == IF s = <<>> THEN <<e>> ELSE InsertAt(s, 2, e)
           IN  /\ t \in Seq(Node)
               /\ \E j \in 1 .. Len(s) + 1 : Widened(t, s, j, e)
<1>1. CASE s = <<>>
  <2>1. <<e>> \in Seq(Node) /\ Len(<<e>>) = 1 /\ <<e>>[1] = e /\ Len(<<>>) = 0
    BY SingletonFacts
  <2>2. Widened(<<e>>, <<>>, 1, e)
    BY <2>1 DEF Widened
  <2> QED BY <1>1, <2>1, <2>2
<1>2. CASE s # <<>>
  <2>1. Len(s) \in Nat /\ 2 \in 1 .. Len(s) + 1
    BY <1>2, LenProperties, EmptySeq
  <2>2. InsertAt(s, 2, e) \in Seq(Node) /\ Widened(InsertAt(s, 2, e), s, 2, e)
    BY <2>1, InsertAtItems
  <2> QED BY <1>2, <2>1, <2>2
<1> QED BY <1>1, <1>2

-----------------------------------------------------------------------------
(***************************************************************************)
(* vmalloc.c                                                               *)
(***************************************************************************)
\* The pages handed out are at the start of the range.
LEMMA RangeFit ==
    ASSUME NEW b, b.free \in Int, NEW k \in 0 .. VmPages, b.used = 0 .. k - 1,
           NEW n \in Nat \ {0}
    PROVE  \/ FirstFit(b, n, VmPages) = {}
           \/ FirstFit(b, n, VmPages) = {k} /\ k + n <= VmPages
<1> DEFINE F == (0 .. VmPages - 1) \ b.used
           S == {s \in F : s - 1 \notin F}
           tested(s) == IF s = Min(F) THEN n ELSE n - 1
           fits == {s \in S : s .. s + tested(s) - 1 \subseteq F}
<1>0. VmPages \in Nat
  BY VmPageFacts
<1>1. F = k .. VmPages - 1
  BY <1>0
<1>2. FirstFit(b, n, VmPages) = IF n > b.free \/ fits = {} THEN {} ELSE {Min(fits)}
  BY DEF FirstFit
<1>3. CASE fits = {}
  BY <1>2, <1>3
<1>4. CASE fits # {}
  <2>1. S = {k} /\ k \in F
    <3>1. k \in F
      BY <1>0, <1>1, <1>4
    <3>2. \A s \in F : s - 1 \notin F <=> s = k
      BY <1>0, <1>1
    <3> QED BY <3>1, <3>2
  <2>2. k = Min(F)
    <3>1. F \subseteq Nat /\ F # {}
      BY <1>0, <1>1, <2>1
    <3>2. Min(F) \in F /\ Min(F) <= k
      BY <2>1, <3>1, MinFacts
    <3> HIDE DEF F
    <3> QED BY <1>0, <1>1, <3>2
  <2>3. fits = {k} /\ k .. k + n - 1 \subseteq F
    BY <1>4, <2>1, <2>2
  <2>4. Min(fits) = k
    <3>1. {k} \subseteq Nat /\ {k} # {}
      BY <1>0
    <3>2. Min({k}) = k
      BY <3>1, MinFacts
    <3> HIDE DEF fits
    <3> QED BY <2>3, <3>2
  <2>5. k + n <= VmPages
    <3>1. k + n - 1 \in F
      BY <2>3
    <3> QED BY <1>0, <1>1, <3>1
  <2> QED BY <1>2, <1>4, <2>4, <2>5
<1> QED BY <1>3, <1>4

LEMMA IntervalCount ==
    ASSUME NEW a \in Int, NEW n \in Nat
    PROVE  IsFiniteSet(a .. a + n - 1) /\ Cardinality(a .. a + n - 1) = n
<1>1. a + n - 1 \in Int
  OBVIOUS
<1>2. /\ IsFiniteSet(a .. a + n - 1)
      /\ Cardinality(a .. a + n - 1) = IF a > a + n - 1 THEN 0 ELSE (a + n - 1) - a + 1
  BY <1>1, FS_Interval
<1> QED BY <1>2

-----------------------------------------------------------------------------
WithRange(m, b) == [m EXCEPT !.range = b]
WithTrack(m, s) == [m EXCEPT !.track = s]

LEMMA RangeSet ==
    ASSUME NEW m, NEW D, NEW B, NEW R, Kept(m, D, B, R), NEW b \in Bitmap,
           NEW n, n = WithRange(m, b)
    PROVE  /\ Kept(n, D, B, R) /\ n.range = b
           /\ n.ram = m.ram /\ n.track = m.track /\ n.boot = m.boot
           /\ n.pd = m.pd /\ n.pt = m.pt
<1>1. Shaped(m) /\ D \subseteq DOMAIN m.pd /\ m.boot \in D
  BY DEF Kept, DirectoriesKept
<1>2. /\ n.range = b
      /\ n.ram = m.ram /\ n.track = m.track /\ n.boot = m.boot
      /\ n.pd = m.pd /\ n.pt = m.pt
  BY <1>1 DEF Shaped, WithRange
<1>3. n \in [ram : Bitmap, range : Bitmap, track : Seq(Node),
            pd : {n.pd}, pt : {n.pt}, boot : Nat]
  BY <1>1, <1>2 DEF Shaped, WithRange
<1>4. /\ n.pd \in [DOMAIN n.pd -> [Slot -> Nat]]
      /\ n.pt \in [DOMAIN n.pt -> [0 .. PER - 1 -> Nat]]
  BY <1>1, <1>2 DEF Shaped
<1>5. Shaped(n)
  BY <1>3, <1>4, Zenon DEF Shaped
<1>6. D \subseteq DOMAIN n.pd /\ \A d \in D : n.pd[d] = m.pd[d]
  BY <1>1, <1>2
<1>7. Kept(n, D, B, R)
  BY <1>1, <1>2, <1>5, <1>6, SameUses
<1> QED BY <1>2, <1>7

LEMMA TrackSet ==
    ASSUME NEW m, NEW D, NEW B, NEW R, Kept(m, D, B, R), NEW s \in Seq(Node),
           NEW n, n = WithTrack(m, s)
    PROVE  /\ Kept(n, D, B, R) /\ n.track = s
           /\ n.ram = m.ram /\ n.range = m.range /\ n.boot = m.boot
           /\ n.pd = m.pd /\ n.pt = m.pt
<1>1. Shaped(m) /\ D \subseteq DOMAIN m.pd /\ m.boot \in D
  BY DEF Kept, DirectoriesKept
<1>2. /\ n.track = s
      /\ n.ram = m.ram /\ n.range = m.range /\ n.boot = m.boot
      /\ n.pd = m.pd /\ n.pt = m.pt
  BY <1>1 DEF Shaped, WithTrack
<1>3. n \in [ram : Bitmap, range : Bitmap, track : Seq(Node),
            pd : {n.pd}, pt : {n.pt}, boot : Nat]
  BY <1>1, <1>2 DEF Shaped, WithTrack
<1>4. /\ n.pd \in [DOMAIN n.pd -> [Slot -> Nat]]
      /\ n.pt \in [DOMAIN n.pt -> [0 .. PER - 1 -> Nat]]
  BY <1>1, <1>2 DEF Shaped
<1>5. Shaped(n)
  BY <1>3, <1>4, Zenon DEF Shaped
<1>6. D \subseteq DOMAIN n.pd /\ \A d \in D : n.pd[d] = m.pd[d]
  BY <1>1, <1>2
<1>7. Kept(n, D, B, R)
  BY <1>1, <1>2, <1>5, <1>6, SameUses
<1> QED BY <1>2, <1>7

\* Pages at the start of the range of vmalloc, and of the first table.
LEMMA VmPagesAt ==
    ASSUME NEW k \in Nat, NEW n \in Nat, k + n <= VmPages
    PROVE  VmStart + k .. VmStart + k + n - 1 \subseteq VmRange
BY VmPageFacts DEF VmRange

LEMMA FirstPages ==
    ASSUME NEW w \in Nat, w < PER
    PROVE  w \div PER = Identity
<1>1. 0 * PER <= w /\ w < 1 * PER /\ 0 \in Nat /\ 1 \in Nat /\ PER \in Nat \ {0}
  BY Sizes
<1>2. w \div PER \in Nat
  BY <1>1, DivMod
<1>3. w \div PER < 1
  BY <1>1, DivBetween
<1> QED BY <1>2, <1>3 DEF Identity

\* What vmalloc of n pages does, v being the first of them or NULL.
Vmalloced(m, got, D, B, R, v, n) ==
    /\ Kept(got, D, B, R) /\ got.pd = m.pd /\ got.boot = m.boot
    /\ RangeKept(got)
    /\ Packed(m, R) => Packed(got, R)
    /\ Range(got.track) = Range(m.track) \cup {[page |-> v, size |-> n]}
    /\ v \in Nat /\ (v # 0 => v .. v + n - 1 \subseteq VmRange \ Held(m.track))
    /\ Held(got.track) = Held(m.track) \cup (IF v = 0 THEN {} ELSE v .. v + n - 1)
    /\ \A w \in Nat : w \div PER \in KernelSlot /\ (v = 0 \/ w \notin v .. v + n - 1)
          => Phys(got, got.boot, w) = Phys(m, m.boot, w)

LEMMA VmallocFacts ==
    ASSUME NEW m, NEW D, NEW B, NEW R, Kept(m, D, B, R), Tabled(m), RangeKept(m),
           NEW d \in D, NEW n \in 1 .. PER
    PROVE  Vmalloced(m, Vmalloc(m, d, n), D, B, R, VmPage(m, n), n)
<1> DEFINE at == FirstFit(m.range, n, VmPages)
           v == VmPage(m, n)
           blocks == IF v = 0 THEN {} ELSE v - VmStart .. v - VmStart + n - 1
           b == SetUsed(m.range, blocks)
           found == WithRange(m, b)
           mp == MapPages(found, d, v, n)
           node == [page |-> v, size |-> n]
           s == IF m.track = <<>> THEN <<node>> ELSE InsertAt(m.track, 2, node)
           got == Vmalloc(m, d, n)
<1>1. /\ Shaped(m) /\ m.range \in Bitmap /\ m.track \in Seq(Node)
      /\ m.range.free \in Int /\ m.range.busy \in Int
      /\ m.range = [used |-> m.range.used, free |-> m.range.free, busy |-> m.range.busy]
      /\ m.boot \in D
  BY DEF Kept, Shaped, Bitmap, DirectoriesKept
<1>2. PICK k \in 0 .. VmPages : /\ m.range.used = 0 .. k - 1
                                /\ Held(m.track) \subseteq VmStart .. VmStart + k - 1
  BY DEF RangeKept
<1>3. n \in Nat \ {0} /\ PER \in Nat \ {0} /\ VmStart \in Nat \ {0} /\ VmPages \in Nat /\ k \in Nat
  BY Sizes, VmPageFacts
<1>4. at = {} \/ (at = {k} /\ k + n <= VmPages)
  BY <1>1, <1>2, <1>3, RangeFit
<1>5. Min({k}) = k
  <2>1. {k} \subseteq Nat /\ {k} # {}
    BY <1>3
  <2> QED BY <2>1, MinFacts
<1>6. \/ v = 0
      \/ v = VmStart + k /\ v # 0 /\ k + n <= VmPages
  <2>1. v = IF at = {} THEN 0 ELSE VmStart + Min(at)
    BY DEF VmPage
  <2> HIDE DEF at, v
  <2> QED BY <1>3, <1>4, <1>5, <2>1
<1>7. got = WithTrack(mp, IF mp.track = <<>> THEN <<node>> ELSE InsertAt(mp.track, 2, node))
  BY DEF Vmalloc, WithTrack, WithRange
<1> HIDE DEF at, v, got
<1>8. v \in Nat /\ node \in Node
  BY <1>3, <1>6 DEF Node
<1>9. /\ b.used = m.range.used \cup blocks
      /\ b.free = m.range.free - Cardinality(blocks)
      /\ b.busy = m.range.busy + Cardinality(blocks)
  BY DEF SetUsed
<1>10. /\ v = 0 => blocks = {} /\ Cardinality(blocks) = 0
       /\ v # 0 => blocks = k .. k + n - 1 /\ Cardinality(blocks) = n
  <2>1. CASE v = 0
    BY <2>1, FS_EmptySet
  <2>2. CASE v # 0
    <3>1. v - VmStart = k
      BY <1>3, <1>6, <2>2
    <3>2. blocks = k .. k + n - 1
      BY <2>2, <3>1
    <3> HIDE DEF blocks
    <3>3. Cardinality(k .. k + n - 1) = n
      BY <1>3, IntervalCount
    <3> QED BY <2>2, <3>2, <3>3
  <2> QED BY <2>1, <2>2
<1>11. b \in Bitmap
  <2>1. blocks \subseteq Int /\ Cardinality(blocks) \in Int
    BY <1>3, <1>10
  <2>2. m.range.used \subseteq Int
    BY <1>1 DEF Bitmap
  <2> HIDE DEF blocks
  <2>4. m.range.used \cup blocks \in SUBSET Int
    BY <2>1, <2>2
  <2>5. m.range.free \in Int /\ m.range.busy \in Int
    BY <1>1
  <2>3. /\ m.range.used \cup blocks \in SUBSET Int
        /\ m.range.free - Cardinality(blocks) \in Int
        /\ m.range.busy + Cardinality(blocks) \in Int
    BY <2>1, <2>4, <2>5
  <2> QED BY <2>3 DEF SetUsed, Bitmap
<1>12. v = 0 => b = m.range
  <2> HIDE DEF blocks
  <2>1. ASSUME v = 0
        PROVE  /\ m.range.used \cup blocks = m.range.used
               /\ m.range.free - Cardinality(blocks) = m.range.free
               /\ m.range.busy + Cardinality(blocks) = m.range.busy
    BY <1>1, <1>10, <2>1
  <2>2. ASSUME v = 0
        PROVE  b = [used |-> m.range.used, free |-> m.range.free, busy |-> m.range.busy]
    BY <2>1, <2>2 DEF SetUsed
  <2> QED BY <1>1, <2>2
<1> HIDE DEF blocks, b
<1>13. /\ Kept(found, D, B, R) /\ found.range = b
       /\ found.ram = m.ram /\ found.track = m.track /\ found.boot = m.boot
       /\ found.pd = m.pd /\ found.pt = m.pt
  BY <1>11, RangeSet
<1> HIDE DEF found
<1>14. \A d1, w : Phys(found, d1, w) = Phys(m, d1, w)
  BY <1>13 DEF Phys
<1>15. Packed(m, R) => Packed(found, R)
  BY <1>13 DEF Packed
<1>16. /\ Kept(mp, D, B, R) /\ Still(found, mp)
       /\ \A w \in Nat : w \div PER \in KernelSlot /\ (v = 0 \/ w \notin v .. v + n - 1)
             => Phys(mp, mp.boot, w) = Phys(m, m.boot, w)
       /\ Packed(m, R) => Packed(mp, R)
  <2>1. CASE v = 0
    <3>1. \A w \in v .. v + n - 1 : w \div PER = Identity
      BY <1>3, <2>1, FirstPages
    <3>2. found.pd[d][Identity] # 0
      <4>1. Identity \in Slot \ {User}
        BY SlotFacts DEF Identity, User
      <4> QED BY <1>13, <4>1 DEF Tabled, Kept, DirectoriesKept
    <3>3. mp = found
      BY <1>3, <1>8, <3>1, <3>2, MapIdentity
    <3> QED BY <1>13, <1>14, <1>15, <3>3 DEF Still
  <2>2. CASE v # 0
    <3>1. v .. v + n - 1 \subseteq VmRange
      BY <1>3, <1>6, <2>2, VmPagesAt
    <3>2. ASSUME NEW w \in v .. v + n - 1
          PROVE  w \div PER \in KernelSlot /\ found.pd[d][w \div PER] # 0
      <4>1. w \div PER \in KernelSlot
        BY <3>1, VmPageFacts
      <4>2. w \div PER \in Slot \ {User}
        BY <4>1, SlotFacts DEF User
      <4> QED BY <1>13, <4>1, <4>2 DEF Tabled, Kept, DirectoriesKept
    <3>3. MappedAll(found, mp, D, B, R, v .. v + n - 1)
      BY <1>3, <1>8, <1>13, <3>2, MapPagesFacts
    <3> QED BY <1>14, <1>13, <1>15, <2>2, <3>3 DEF MappedAll
  <2> QED BY <2>1, <2>2
<1>17. /\ mp.track = m.track /\ mp.range = b /\ mp.boot = m.boot /\ mp.pd = m.pd
  BY <1>13, <1>16 DEF Still
<1> HIDE DEF mp
<1>18. got = WithTrack(mp, s) /\ s \in Seq(Node) /\ \E j \in 1 .. Len(m.track) + 1 : Widened(s, m.track, j, node)
  BY <1>1, <1>7, <1>8, <1>17, Inserted
<1> HIDE DEF node, s
<1>19. /\ Kept(got, D, B, R) /\ got.track = s
       /\ got.ram = mp.ram /\ got.range = mp.range /\ got.boot = mp.boot
       /\ got.pd = mp.pd /\ got.pt = mp.pt
  BY <1>16, <1>18, TrackSet
<1>20. Of(node) = IF v = 0 THEN {} ELSE v .. v + n - 1
  BY DEF Of, Pages, node
<1>21. v # 0 => v .. v + n - 1 \subseteq VmRange /\ (v .. v + n - 1) \cap Held(m.track) = {}
  <2> SUFFICES ASSUME v # 0 PROVE v .. v + n - 1 \subseteq VmRange /\ (v .. v + n - 1) \cap Held(m.track) = {}
    OBVIOUS
  <2>1. v .. v + n - 1 \subseteq VmRange
    BY <1>3, <1>6, VmPagesAt
  <2>2. (v .. v + n - 1) \cap (VmStart .. VmStart + k - 1) = {}
    BY <1>3, <1>6
  <2> QED BY <1>2, <2>1, <2>2
<1>22. /\ Range(s) = Range(m.track) \cup {node}
       /\ Held(s) = Held(m.track) \cup Of(node)
       /\ Apart(s)
  <2>1. Apart(m.track)
    BY DEF RangeKept, Apart
  <2>2. Of(node) \cap Held(m.track) = {}
    BY <1>20, <1>21
  <2>3. node \in Node
    BY <1>8 DEF node
  <2> QED BY <1>1, <1>18, <2>1, <2>2, <2>3, NodeAdded
<1>23. \A w \in Nat : w \div PER \in KernelSlot /\ (v = 0 \/ w \notin v .. v + n - 1)
             => Phys(got, got.boot, w) = Phys(m, m.boot, w)
  <2>1. \A d1, w : Phys(got, d1, w) = Phys(mp, d1, w)
    BY <1>19 DEF Phys
  <2> QED BY <1>16, <1>19, <2>1
<1>24. Counted(b, Held(s), VmPages)
  <2>1. m.range.busy = Cardinality(Held(m.track)) /\ m.range.free = VmPages - m.range.busy
    BY DEF RangeKept, Counted
  <2>2. CASE v = 0
    BY <1>12, <1>20, <1>22, <2>1, <2>2 DEF Counted
  <2>3. CASE v # 0
    <3>1. IsFiniteSet(Held(m.track))
      <4>1. IsFiniteSet(VmStart .. VmStart + k - 1)
        <5>1. VmStart \in Int /\ VmStart + k - 1 \in Int
          BY <1>3
        <5> QED BY <5>1, FS_Interval
      <4> QED BY <1>2, <4>1, FS_Subset
    <3>2. IsFiniteSet(v .. v + n - 1) /\ Cardinality(v .. v + n - 1) = n
      BY <1>3, <1>8, IntervalCount
    <3>3. (v .. v + n - 1) \cap Held(m.track) = {} /\ Cardinality({}) = 0
      BY <1>21, <2>3, FS_EmptySet
    <3>4. Cardinality(Held(m.track) \cup (v .. v + n - 1)) = Cardinality(Held(m.track)) + n
      <4>1. Held(m.track) \cap (v .. v + n - 1) = {}
        BY <3>3
      <4>2. Cardinality(Held(m.track)) \in Nat
        BY <3>1, FS_CardinalityType
      <4>3. Cardinality(Held(m.track) \cup (v .. v + n - 1))
              = Cardinality(Held(m.track)) + Cardinality(v .. v + n - 1)
                - Cardinality(Held(m.track) \cap (v .. v + n - 1))
        BY <3>1, <3>2, FS_Union
      <4>4. Cardinality(Held(m.track) \cap (v .. v + n - 1)) = 0
        BY <3>3, <4>1
      <4> QED BY <1>3, <3>2, <4>2, <4>3, <4>4
    <3>5. Held(s) = Held(m.track) \cup (v .. v + n - 1)
      BY <1>20, <1>22, <2>3
    <3>6. Cardinality(Held(s)) = Cardinality(Held(m.track)) + n
      BY <3>4, <3>5
    <3>7. b.busy = m.range.busy + n /\ b.free = m.range.free - n
      BY <1>9, <1>10, <2>3
    <3> QED BY <1>1, <1>3, <2>1, <3>6, <3>7 DEF Counted
  <2> QED BY <2>2, <2>3
<1>25. RangeKept(got)
  <2>1. got.range = b /\ got.track = s
    BY <1>17, <1>19
  <2>2. \E l \in 0 .. VmPages : /\ b.used = 0 .. l - 1
                               /\ Held(s) \subseteq VmStart .. VmStart + l - 1
    <3>1. CASE v = 0
      BY <1>2, <1>12, <1>20, <1>22, <3>1
    <3>2. CASE v # 0
      <4>1. k + n \in 0 .. VmPages
        BY <1>3, <1>6, <3>2
      <4>2. b.used = 0 .. (k + n) - 1
        <5>1. b.used = (0 .. k - 1) \cup (k .. k + n - 1)
          BY <1>2, <1>9, <1>10, <3>2
        <5> QED BY <1>3, <5>1
      <4>3. Held(s) \subseteq VmStart .. VmStart + (k + n) - 1
        <5>1. Held(s) \subseteq (VmStart .. VmStart + k - 1) \cup (v .. v + n - 1)
          BY <1>2, <1>20, <1>22, <3>2
        <5>2. v = VmStart + k
          BY <1>6, <3>2
        <5> QED BY <1>3, <5>1, <5>2
      <4> QED BY <4>1, <4>2, <4>3
    <3> QED BY <3>1, <3>2
  <2>3. ASSUME NEW w \in VmMapped(got) PROVE w \in Held(s)
    <3>1. w \in VmRange /\ Phys(got, got.boot, w) # 0
      BY DEF VmMapped, VmRange
    <3>2. w \in Nat /\ w \div PER \in KernelSlot
      BY <3>1, VmPageFacts
    <3>3. CASE v # 0 /\ w \in v .. v + n - 1
      BY <1>20, <1>22, <3>3
    <3>4. CASE v = 0 \/ w \notin v .. v + n - 1
      <4>1. Phys(m, m.boot, w) # 0
        BY <1>23, <3>1, <3>2, <3>4
      <4>2. w \in VmMapped(m)
        BY <3>1, <4>1 DEF VmMapped, VmRange
      <4> QED BY <1>22, <4>2 DEF RangeKept
    <3> QED BY <3>3, <3>4
  <2> QED BY <1>22, <1>24, <2>1, <2>2, <2>3 DEF RangeKept, Apart
<1>26. Packed(m, R) => Packed(got, R)
  BY <1>16, <1>19 DEF Packed
<1>27. Range(got.track) = Range(m.track) \cup {[page |-> v, size |-> n]}
  BY <1>19, <1>22 DEF node
<1>28. Held(got.track) = Held(m.track) \cup (IF v = 0 THEN {} ELSE v .. v + n - 1)
  BY <1>19, <1>20, <1>22
<1>29. v # 0 => v .. v + n - 1 \subseteq VmRange \ Held(m.track)
  BY <1>21
<1>30. Kept(got, D, B, R) /\ got.pd = m.pd /\ got.boot = m.boot
  BY <1>17, <1>19
<1> QED BY <1>8, <1>23, <1>25, <1>26, <1>27, <1>28, <1>29, <1>30 DEF Vmalloced, got, v

-----------------------------------------------------------------------------
\* What vfree of page v does.
Vfreed(m, n, D, B, R, v) ==
    /\ Kept(n, D, B, R) /\ n.pd = m.pd /\ n.boot = m.boot
    /\ RangeKept(n)
    /\ Held(m.track) = VmMapped(m) => Held(n.track) = VmMapped(n)
    /\ \A x \in Range(m.track) : x.page # v => x \in Range(n.track)
    /\ \A w \in Held(n.track) : Phys(n, n.boot, w) = Phys(m, m.boot, w)
    /\ DOMAIN n.pt = DOMAIN m.pt
    /\ \A y \in DOMAIN m.pt, j \in 0 .. PER - 1 : n.pt[y][j] \in {0, m.pt[y][j]}

LEMMA HeldPages ==
    ASSUME NEW m, RangeKept(m)
    PROVE  Held(m.track) \subseteq VmRange /\ IsFiniteSet(Held(m.track))
<1>1. PICK k \in 0 .. VmPages : Held(m.track) \subseteq VmStart .. VmStart + k - 1
  BY DEF RangeKept
<1>2. VmStart \in Int /\ VmStart + k - 1 \in Int /\ VmPages \in Nat
  BY VmPageFacts
<1>3. IsFiniteSet(VmStart .. VmStart + k - 1)
  BY <1>2, FS_Interval
<1>4. IsFiniteSet(Held(m.track))
  BY <1>1, <1>3, FS_Subset
<1> QED BY <1>1, <1>2, <1>4 DEF VmRange

LEMMA VfreeFacts ==
    ASSUME NEW m, NEW D, NEW B, NEW R, Kept(m, D, B, R), RangeKept(m), NEW d \in D, NEW v
    PROVE  Vfreed(m, Vfree(m, d, v), D, B, R, v)
<1> DEFINE I == {i \in 1 .. Len(m.track) : m.track[i].page = v}
           at == SelectInSeq(m.track, LAMBDA node : node.page = v)
           n == m.track[at].size
           b == [used |-> m.range.used, free |-> m.range.free + n, busy |-> m.range.busy - n]
           counted == WithRange(m, b)
           un == UnMapPages(counted, d, v, n)
           end == Vfree(m, d, v)
<1>1. /\ Shaped(m) /\ m.range \in Bitmap /\ m.track \in Seq(Node)
      /\ m.range.used \in SUBSET Int /\ m.range.free \in Int /\ m.range.busy \in Int
      /\ DOMAIN m.track = 1 .. Len(m.track) /\ Len(m.track) \in Nat
  <2>1. Shaped(m) /\ m.range \in Bitmap /\ m.track \in Seq(Node)
    BY DEF Kept, Shaped
  <2> QED BY <2>1, LenProperties DEF Bitmap
<1>2. at = IF I # {} THEN Min(I) ELSE 0
  BY DEF SelectInSeq
<1>3. at = 0 \/ (at \in 1 .. Len(m.track) /\ m.track[at].page = v)
  <2>1. CASE I = {}
    BY <1>2, <2>1
  <2>2. CASE I # {}
    <3>1. I \subseteq Nat
      OBVIOUS
    <3> HIDE DEF I
    <3>2. Min(I) \in I
      BY <2>2, <3>1, MinFacts
    <3>3. at \in I
      BY <1>2, <2>2, <3>2
    <3> QED BY <3>3 DEF I
  <2> QED BY <2>1, <2>2
<1>4. end = IF v = 0 \/ at = 0 THEN m
            ELSE WithTrack(un, RemoveAt(un.track, at))
  <2>1. v # 0 /\ at # 0 => counted = [m EXCEPT !.range.free = @ + n, !.range.busy = @ - n]
    BY <1>1 DEF WithRange, Shaped, Bitmap
  <2> DEFINE c == [m EXCEPT !.range.free = @ + n, !.range.busy = @ - n]
             u == UnMapPages(c, d, v, n)
  <2>2. end = IF v = 0 \/ at = 0 THEN m ELSE WithTrack(u, RemoveAt(u.track, at))
    BY Zenon DEF Vfree, WithTrack
  <2>3. v # 0 /\ at # 0 => c = counted
    BY <2>1
  <2> HIDE DEF c, at, end, counted
  <2> QED BY <2>2, <2>3
<1> HIDE DEF at, end
<1>5. CASE v = 0 \/ at = 0
  BY <1>4, <1>5 DEF Vfreed, end
<1>6. CASE v # 0 /\ at # 0
  <2>1. at \in 1 .. Len(m.track) /\ m.track[at].page = v /\ m.track[at] \in Node
    BY <1>1, <1>3, <1>6, ElementOfSeq
  <2>2. n \in Nat \ {0} /\ v \in Nat /\ Pages(m.track[at]) = v .. v + n - 1
    BY <2>1 DEF Node, Pages
  <2> HIDE DEF n
  <2>3. b \in Bitmap
    <3>1. m.range.free + n \in Int /\ m.range.busy - n \in Int
      BY <1>1, <2>2
    <3> QED BY <1>1, <3>1 DEF Bitmap
  <2>4. b.used = m.range.used /\ b.free = m.range.free + n /\ b.busy = m.range.busy - n
    OBVIOUS
  <2> HIDE DEF b
  <2>5. /\ Kept(counted, D, B, R) /\ counted.range = b
        /\ counted.ram = m.ram /\ counted.track = m.track /\ counted.boot = m.boot
        /\ counted.pd = m.pd /\ counted.pt = m.pt
    BY <2>3, RangeSet
  <2> HIDE DEF counted
  <2>6. /\ Held(m.track) \subseteq VmRange /\ IsFiniteSet(Held(m.track))
    BY HeldPages
  <2>7. Apart(m.track)
    BY DEF RangeKept, Apart
  <2> DEFINE s == RemoveAt(m.track, at)
  <2>8. /\ s \in Seq(Node)
        /\ \A x \in Range(m.track) : x.page # v => x \in Range(s)
        /\ Held(s) = Held(m.track) \ (v .. v + n - 1) /\ v .. v + n - 1 \subseteq Held(m.track)
        /\ Apart(s)
    BY <1>1, <1>6, <2>1, <2>2, <2>7, NodeRemoved
  <2> HIDE DEF s
  <2>9. Unmapped(counted, un, D, B, R, v .. v + n - 1)
    <3>1. \A w \in v .. v + n - 1 : w \div PER \in KernelSlot
      BY <2>6, <2>8, VmPageFacts
    <3> QED BY <2>2, <2>5, <3>1, UnMapPagesFacts
  <2> HIDE DEF un
  <2>10. /\ Kept(un, D, B, R) /\ un.track = m.track /\ un.range = b
         /\ un.boot = m.boot /\ un.pd = m.pd
    BY <2>5, <2>9 DEF Unmapped, Still
  <2>11. end = WithTrack(un, s)
    BY <1>4, <1>6, <2>10 DEF s
  <2>12. /\ Kept(end, D, B, R) /\ end.track = s
         /\ end.ram = un.ram /\ end.range = b /\ end.boot = m.boot
         /\ end.pd = m.pd /\ end.pt = un.pt
    BY <2>8, <2>10, <2>11, TrackSet
  <2>13. \A w \in Nat : w \div PER \in KernelSlot
            => Phys(end, end.boot, w) = IF w \in v .. v + n - 1 THEN 0 ELSE Phys(m, m.boot, w)
    <3>1. \A d1, w : Phys(end, d1, w) = Phys(un, d1, w) /\ Phys(counted, d1, w) = Phys(m, d1, w)
      BY <2>5, <2>10, <2>12 DEF Phys
    <3> QED BY <2>5, <2>9, <2>10, <2>12, <3>1 DEF Unmapped
  <2>14. ASSUME NEW w \in VmRange
         PROVE  w \in VmMapped(end) <=> w \in VmMapped(m) /\ w \notin v .. v + n - 1
    <3>1. w \in Nat /\ w \div PER \in KernelSlot
      BY VmPageFacts
    <3> QED BY <2>13, <3>1 DEF VmMapped, VmRange
  <2>15. VmMapped(end) = VmMapped(m) \ (v .. v + n - 1)
    BY <2>14 DEF VmMapped, VmRange
  <2>16. RangeKept(end)
    <3>1. \E k \in 0 .. VmPages : /\ end.range.used = 0 .. k - 1
                                 /\ Held(s) \subseteq VmStart .. VmStart + k - 1
      BY <2>4, <2>8, <2>12 DEF RangeKept
    <3>2. Counted(b, Held(s), VmPages)
      <4> DEFINE P == v .. v + n - 1
                 H == Held(m.track)
      <4>1. Cardinality(P) = n
        BY <2>2, IntervalCount
      <4> HIDE DEF P
      <4>2. H \cap P = P /\ Held(s) = H \ P
        BY <2>8 DEF P
      <4>3. Cardinality(H \ P) = Cardinality(H) - Cardinality(H \cap P)
        BY <2>6, FS_Difference
      <4>4. Cardinality(Held(s)) = Cardinality(H) - n
        BY <4>1, <4>2, <4>3
      <4>5. m.range.busy = Cardinality(H) /\ m.range.free = VmPages - m.range.busy
        BY DEF RangeKept, Counted
      <4>6. VmPages \in Nat
        BY VmPageFacts
      <4> HIDE DEF H
      <4> QED BY <1>1, <2>2, <2>4, <4>4, <4>5, <4>6 DEF Counted
    <3>3. VmMapped(end) \subseteq Held(s)
      BY <2>8, <2>15 DEF RangeKept
    <3> QED BY <2>8, <2>12, <3>1, <3>2, <3>3 DEF RangeKept, Apart
  <2>17. Held(m.track) = VmMapped(m) => Held(s) = VmMapped(end)
    BY <2>8, <2>15
  <2>18. \A w \in Held(s) : Phys(end, end.boot, w) = Phys(m, m.boot, w)
    <3>1. \A w \in Held(s) : w \in Nat /\ w \div PER \in KernelSlot /\ w \notin v .. v + n - 1
      BY <2>6, <2>8, VmPageFacts
    <3> QED BY <2>13, <3>1
  <2>19. /\ DOMAIN end.pt = DOMAIN m.pt
         /\ \A y \in DOMAIN m.pt, j \in 0 .. PER - 1 : end.pt[y][j] \in {0, m.pt[y][j]}
    BY <2>5, <2>9, <2>12 DEF Unmapped
  <2> QED BY <2>8, <2>12, <2>16, <2>17, <2>18, <2>19 DEF Vfreed, end
<1> QED BY <1>5, <1>6

-----------------------------------------------------------------------------
(***************************************************************************)
(* Address spaces                                                          *)
(***************************************************************************)
WithPd(m, pd) == [m EXCEPT !.pd = pd]

LEMMA PdSet ==
    ASSUME NEW m, Shaped(m), NEW pd, pd \in [DOMAIN pd -> [Slot -> Nat]],
           NEW n, n = WithPd(m, pd)
    PROVE  /\ Shaped(n) /\ n.pd = pd
           /\ n.ram = m.ram /\ n.range = m.range /\ n.track = m.track
           /\ n.boot = m.boot /\ n.pt = m.pt
<1>1. /\ n.pd = pd
      /\ n.ram = m.ram /\ n.range = m.range /\ n.track = m.track
      /\ n.boot = m.boot /\ n.pt = m.pt
  BY DEF Shaped, WithPd
<1>2. n \in [ram : Bitmap, range : Bitmap, track : Seq(Node),
            pd : {n.pd}, pt : {n.pt}, boot : Nat]
  BY <1>1 DEF Shaped, WithPd
<1>3. /\ n.pd \in [DOMAIN n.pd -> [Slot -> Nat]]
      /\ n.pt \in [DOMAIN n.pt -> [0 .. PER - 1 -> Nat]]
  BY <1>1 DEF Shaped
<1>4. Shaped(n)
  BY <1>2, <1>3, Zenon DEF Shaped
<1> QED BY <1>1, <1>4

\* An entry of a directory.
LEMMA PdEntry ==
    ASSUME NEW pd, pd \in [DOMAIN pd -> [Slot -> Nat]],
           NEW d \in DOMAIN pd, NEW s \in Slot, NEW x \in Nat,
           NEW q, q = [pd EXCEPT ![d][s] = x]
    PROVE  /\ q \in [DOMAIN q -> [Slot -> Nat]] /\ DOMAIN q = DOMAIN pd
           /\ \A e \in DOMAIN pd, z \in Slot :
                 q[e][z] = IF e = d /\ z = s THEN x ELSE pd[e][z]
<1> DEFINE g == [pd[d] EXCEPT ![s] = x]
<1>1. pd[d] \in [Slot -> Nat]
  OBVIOUS
<1>2. g \in [Slot -> Nat] /\ \A z \in Slot : g[z] = IF z = s THEN x ELSE pd[d][z]
  BY <1>1
<1>3. q = [pd EXCEPT ![d] = g]
  OBVIOUS
<1> HIDE DEF g
<1>4. DOMAIN q = DOMAIN pd /\ \A e \in DOMAIN pd : q[e] = IF e = d THEN g ELSE pd[e]
  BY <1>3
<1>5. q \in [DOMAIN q -> [Slot -> Nat]]
  BY <1>2, <1>3
<1>6. ASSUME NEW e \in DOMAIN pd, NEW z \in Slot
      PROVE  q[e][z] = IF e = d /\ z = s THEN x ELSE pd[e][z]
  <2>1. CASE e = d
    BY <1>2, <1>4, <2>1
  <2>2. CASE e # d
    BY <1>4, <2>2
  <2> QED BY <2>1, <2>2
<1> QED BY <1>4, <1>5, <1>6

\* A page of the kernel is in a frame of its own, which is neither the first
\* directory nor a table.
LEMMA PageFrame ==
    ASSUME NEW m, NEW D, NEW B, NEW R, Kept(m, D, B, R),
           NEW v \in Nat, v \div PER \in KernelSlot, Phys(m, m.boot, v) # 0
    PROVE  /\ Phys(m, m.boot, v) # m.boot /\ Phys(m, m.boot, v) \in Nat
           /\ \A w \in Nat : /\ w \div PER \in KernelSlot
                            /\ Phys(m, m.boot, w) = Phys(m, m.boot, v) => w = v
<1>1. ASSUME NEW w \in Nat, w \div PER \in KernelSlot, Phys(m, m.boot, w) # 0
      PROVE  /\ w \div PER \in Slot /\ w \div PER \in OwnSlots(m, m.boot)
             /\ w % PER \in 0 .. PER - 1
             /\ m.pd[m.boot][w \div PER] # 0
             /\ m.pd[m.boot][w \div PER] \in PageTables(m, D)
             /\ m.pd[m.boot][w \div PER] \in DOMAIN m.pt
             /\ Phys(m, m.boot, w) = m.pt[m.pd[m.boot][w \div PER]][w % PER]
  <2>1. w \div PER # Identity /\ w \div PER \in KernelSlot \cup {User}
    BY <1>1, SlotFacts DEF Identity
  <2>2. m.pd[m.boot][w \div PER] # 0 /\ Phys(m, m.boot, w) = m.pt[m.pd[m.boot][w \div PER]][w % PER]
    BY <1>1, <2>1 DEF Phys
  <2>3. m.boot \in D
    BY DEF Kept, DirectoriesKept
  <2>4. w % PER \in 0 .. PER - 1
    BY DivMod, Sizes
  <2> QED BY <2>1, <2>2, <2>3, <2>4, TablesIn
<1> DEFINE s == v \div PER
           t == m.pd[m.boot][s]
           i == v % PER
<1>2. /\ s \in Slot /\ s \in OwnSlots(m, m.boot) /\ i \in 0 .. PER - 1
      /\ t # 0 /\ t \in PageTables(m, D) /\ t \in DOMAIN m.pt
      /\ Phys(m, m.boot, v) = m.pt[t][i]
  BY <1>1
<1>3. m.pt \in [DOMAIN m.pt -> [0 .. PER - 1 -> Nat]] /\ m.boot \in D
  BY DEF Kept, Shaped, DirectoriesKept
<1>4. Phys(m, m.boot, v) # m.boot /\ Phys(m, m.boot, v) \in Nat
  <2> HIDE DEF t, i
  <2>1. m.pt[t][i] # m.boot
    BY <1>2, PageIsNoTable
  <2>2. m.pt[t] \in [0 .. PER - 1 -> Nat]
    BY <1>2, <1>3
  <2> QED BY <1>2, <2>1, <2>2
<1>5. ASSUME NEW w \in Nat, w \div PER \in KernelSlot,
             Phys(m, m.boot, w) = Phys(m, m.boot, v)
      PROVE  w = v
  <2> DEFINE z == w \div PER
             y == m.pd[m.boot][z]
             j == w % PER
  <2>1. /\ z \in Slot /\ z \in OwnSlots(m, m.boot) /\ j \in 0 .. PER - 1
        /\ y # 0 /\ y \in PageTables(m, D)
        /\ Phys(m, m.boot, w) = m.pt[y][j]
    BY <1>1, <1>5
  <2>2. y = t /\ j = i
    <3> HIDE DEF y, j, t, i
    <3>1. m.pt[t][i] # 0 /\ m.pt[y][j] = m.pt[t][i]
      BY <1>2, <1>5, <2>1
    <3> QED BY <1>2, <2>1, <3>1, PageOnce
  <2>3. z = s
    <3> HIDE DEF z, s
    <3> QED BY <1>2, <1>3, <2>1, <2>2, TableOnce
  <2> QED BY <2>2, <2>3, SamePage, Sizes
<1> QED BY <1>4, <1>5

\* VIRTMEM_mapPage makes the table that it needs.
LEMMA MapTabled ==
    ASSUME NEW m, NEW d, NEW v, v \div PER # Identity
    PROVE  LET n == MapTable(m, d, v)
           IN  MapPage(m, d, v) = IF n.pd[d][v \div PER] = 0 THEN n ELSE MapPage(n, d, v)
<1> DEFINE n == MapTable(m, d, v)
           s == v \div PER
<1>1. CASE n.pd[d][s] = 0
  BY <1>1 DEF MapPage, MapEntry
<1>2. CASE n.pd[d][s] # 0
  <2>1. MapTable(n, d, v) = n
    BY <1>2 DEF MapTable
  <2> HIDE DEF n
  <2> QED BY <1>2, <2>1 DEF MapPage, MapEntry, n
<1> QED BY <1>1, <1>2

\* A user's page: what the kernel sees does not change.
Loaded(m, n, D, B, R, d) ==
    /\ Kept(n, D, B, R) /\ SamePages(m, n)
    /\ n.boot = m.boot /\ n.range = m.range /\ n.track = m.track
    /\ \A z \in Slot : n.pd[m.boot][z] = m.pd[m.boot][z]
    /\ Packed(m, R) => Packed(n, R)

LEMMA LoadFacts ==
    ASSUME NEW m, NEW D, NEW B, NEW R, Kept(m, D, B, R), NEW d \in D, d # m.boot
    PROVE  Loaded(m, MapPage(m, d, UserPage), D, B, R, d)
<1> DEFINE v == UserPage
           a == MapTable(m, d, v)
           n == MapPage(m, d, v)
<1>1. v \in Nat /\ v \div PER = User
  BY Sizes DEF UserPage, User
<1>2. User \in KernelSlot \cup {User} /\ User \in OwnSlots(m, d) /\ User # Identity /\ m.boot \in D
  BY SlotFacts DEF OwnSlots, User, Identity, Kept, DirectoriesKept
<1> HIDE DEF v
<1>3. \/ a = m /\ (m.pd[d][User] # 0 \/ m.ram.free = 0)
      \/ m.pd[d][User] = 0 /\ TableMade(m, a, D, B, R, d, User)
  <2> DEFINE s == User
  <2>1. s \in KernelSlot \cup {User} /\ s = v \div PER /\ s \in OwnSlots(m, d) /\ s = User
    BY <1>1, <1>2
  <2> HIDE DEF s, a
  <2>2. \/ MapTable(m, d, v) = m /\ (m.pd[d][s] # 0 \/ m.ram.free = 0)
        \/ m.pd[d][s] = 0 /\ TableMade(m, MapTable(m, d, v), D, B, R, d, s)
    BY <1>1, <2>1, MapTableFacts
  <2> QED BY <2>1, <2>2 DEF a
<1>4. n = IF a.pd[d][User] = 0 THEN a ELSE MapPage(a, d, v)
  BY <1>1, <1>2, MapTabled
<1> HIDE DEF a, n
<1>5. Loaded(m, a, D, B, R, d)
  <2>1. CASE a = m
    BY <2>1 DEF Loaded, SamePages
  <2>2. CASE TableMade(m, a, D, B, R, d, User)
    BY <1>2, <2>2 DEF TableMade, Loaded
  <2> QED BY <1>3, <2>1, <2>2
<1>6. CASE a.pd[d][User] = 0
  BY <1>4, <1>5, <1>6 DEF n, v
<1>7. CASE a.pd[d][User] # 0
  <2>1. Kept(a, D, B, R) /\ a.boot = m.boot
    BY <1>5 DEF Loaded
  <2>2. Mapped(a, n, D, B, R, d, v)
    <3>1. /\ v \div PER \in KernelSlot \cup {User} /\ v \div PER = User
          /\ d # a.boot /\ a.pd[d][v \div PER] # 0
      BY <1>1, <1>2, <1>7, <2>1
    <3>2. Mapped(a, MapPage(a, d, v), D, B, R, d, v)
      BY <1>1, <2>1, <3>1, MapPageFacts
    <3> QED BY <1>4, <1>7, <3>2
  <2>3. /\ Kept(n, D, B, R) /\ Still(a, n)
        /\ \A w \in Nat : w \div PER \in KernelSlot /\ w # v
              => Phys(n, n.boot, w) = Phys(a, a.boot, w)
        /\ Packed(a, R) => Packed(n, R)
    BY <2>2 DEF Mapped
  <2>4. SamePages(m, n)
    <3> SUFFICES ASSUME NEW w \in Nat, w \div PER \in KernelSlot
                 PROVE  Phys(n, n.boot, w) = Phys(m, m.boot, w)
      BY DEF SamePages
    <3>1. w # v
      BY <1>1, SlotFacts
    <3> QED BY <1>5, <2>3, <3>1 DEF Loaded, SamePages
  <2> QED BY <1>5, <2>3, <2>4 DEF Loaded, Still, n, v
<1> QED BY <1>6, <1>7

-----------------------------------------------------------------------------
(***************************************************************************)
(* What the steps keep                                                     *)
(***************************************************************************)
\* The pages that are handed out stay so, in the frames they are in.
Steady(m, n) ==
    /\ \A x \in Range(m.track) : x.page # 0 => x \in Range(n.track)
    /\ \A w \in Held(m.track) : Phys(n, n.boot, w) = Phys(m, m.boot, w)

LEMMA OneHeld ==
    ASSUME NEW s \in Seq(Node), NEW x \in Range(s), x.page # 0
    PROVE  x.page \in Held(s) /\ x.page \in Nat
<1>1. PICK i \in DOMAIN s : s[i] = x
  BY DEF Range
<1>2. x \in Node
  BY <1>1, LenProperties, ElementOfSeq
<1>3. x.page \in Pages(x) /\ x.page \in Nat
  BY <1>2 DEF Pages, Node
<1>4. i \in Nodes(s)
  BY <1>1 DEF Nodes
<1> QED BY <1>1, <1>3, <1>4 DEF Held

LEMMA SameVm ==
    ASSUME NEW m, NEW n, RangeKept(m), n.range = m.range, n.track = m.track,
           \A w \in VmRange : Phys(n, n.boot, w) = Phys(m, m.boot, w)
    PROVE  RangeKept(n) /\ VmMapped(n) = VmMapped(m) /\ Steady(m, n)
<1>1. VmMapped(n) = VmMapped(m)
  BY DEF VmMapped, VmRange
<1>2. RangeKept(n)
  BY <1>1 DEF RangeKept
<1>3. Steady(m, n)
  BY HeldPages DEF Steady
<1> QED BY <1>1, <1>2, <1>3

\* A process' pages: of its directory, and of its stack.
OwnPages(m, x) ==
    /\ One(x.dir) \in Range(m.track) /\ x.dir # 0
    /\ One(x.stack) \in Range(m.track) /\ x.stack # 0
    /\ Phys(m, m.boot, x.dir) = x.root

LEMMA OwnHeld ==
    ASSUME NEW m, Shaped(m), NEW x, OwnPages(m, x)
    PROVE  /\ x.dir \in Held(m.track) /\ x.dir \in Nat
           /\ x.stack \in Held(m.track) /\ x.stack \in Nat
<1>1. m.track \in Seq(Node)
  BY DEF Shaped
<1>2. One(x.dir).page = x.dir /\ One(x.stack).page = x.stack
  BY DEF One
<1>3. ASSUME NEW y \in Range(m.track), y.page # 0 PROVE y.page \in Held(m.track) /\ y.page \in Nat
  BY <1>1, <1>3, OneHeld
<1> QED BY <1>2, <1>3 DEF OwnPages

LEMMA OwnSteady ==
    ASSUME NEW m, Shaped(m), NEW x, OwnPages(m, x), NEW n, Steady(m, n)
    PROVE  OwnPages(n, x)
<1>1. x.dir \in Held(m.track)
  BY OwnHeld
<1>2. One(x.dir).page = x.dir /\ One(x.stack).page = x.stack
  BY DEF One
<1> QED BY <1>1, <1>2 DEF OwnPages, Steady

Distinct(procs, live) ==
    \A p, q \in live :
        /\ procs[p].dir # procs[q].stack
        /\ p # q => procs[p].dir # procs[q].dir /\ procs[p].stack # procs[q].stack

LEMMA ProcessesAre ==
    ProcessesKept <=> (\A p \in Live : OwnPages(mem, proc[p])) /\ Distinct(proc, Live)
BY DEF ProcessesKept, OwnPages, Distinct

LEMMA SameProcesses ==
    ASSUME MInv, ~lost, UNCHANGED proc, mem'.boot = mem.boot, Steady(mem, mem')
    PROVE  Directory' = Directory /\ Live' = Live /\ ProcessesKept'
<1>1. Directory' = Directory /\ Live' = Live
  BY DEF Directory, Live
<1>2. Shaped(mem)
  BY DEF MInv, Kept
<1>3. (\A p \in Live : OwnPages(mem, proc[p])) /\ Distinct(proc, Live)
  BY ProcessesAre DEF MInv
<1>4. \A p \in Live : OwnPages(mem', proc[p])
  BY <1>2, <1>3, OwnSteady
<1>5. ProcessesKept'
  <2>1. (\A p \in Live' : OwnPages(mem', proc'[p])) /\ Distinct(proc', Live')
    BY <1>1, <1>3, <1>4
  <2> QED BY <2>1 DEF ProcessesKept, OwnPages, Distinct
<1> QED BY <1>1, <1>5

\* A process' directory is not the first one, nor another's.
LEMMA Roots ==
    ASSUME MInv, ~lost
    PROVE  /\ \A p \in Live : /\ proc[p].root # mem.boot /\ proc[p].root \in Nat
                             /\ proc[p].dir \in VmRange /\ proc[p].stack \in VmRange
           /\ \A p, q \in Live : proc[p].root = proc[q].root => p = q
<1>1. /\ Kept(mem, Directory, Buffer, reserved) /\ Shaped(mem) /\ RangeKept(mem)
      /\ Held(mem.track) = VmMapped(mem)
      /\ (\A p \in Live : OwnPages(mem, proc[p])) /\ Distinct(proc, Live)
  BY ProcessesAre DEF MInv, Kept
<1>2. Held(mem.track) \subseteq VmRange
  BY <1>1, HeldPages
<1>3. ASSUME NEW p \in Live
      PROVE  /\ proc[p].dir \in VmRange /\ proc[p].stack \in VmRange
             /\ proc[p].dir \in Nat /\ proc[p].dir \div PER \in KernelSlot
             /\ Phys(mem, mem.boot, proc[p].dir) = proc[p].root
             /\ Phys(mem, mem.boot, proc[p].dir) # 0
  <2>1. proc[p].dir \in Held(mem.track) /\ proc[p].stack \in Held(mem.track)
    BY <1>1, OwnHeld
  <2>2. proc[p].dir \in VmRange /\ proc[p].stack \in VmRange
    BY <1>2, <2>1
  <2>3. Phys(mem, mem.boot, proc[p].dir) # 0
    BY <1>1, <2>1 DEF VmMapped
  <2> QED BY <1>1, <2>2, <2>3, VmPageFacts DEF OwnPages
<1>4. ASSUME NEW p \in Live PROVE proc[p].root # mem.boot /\ proc[p].root \in Nat
  <2> DEFINE v == proc[p].dir
  <2>1. v \in Nat /\ v \div PER \in KernelSlot /\ Phys(mem, mem.boot, v) # 0
    BY <1>3
  <2> HIDE DEF v
  <2>2. Phys(mem, mem.boot, v) # mem.boot /\ Phys(mem, mem.boot, v) \in Nat
    BY <1>1, <2>1, PageFrame
  <2> QED BY <1>3, <2>2 DEF v
<1>5. ASSUME NEW p \in Live, NEW q \in Live, proc[p].root = proc[q].root PROVE p = q
  <2> DEFINE v == proc[p].dir
             w == proc[q].dir
  <2>1. /\ v \in Nat /\ v \div PER \in KernelSlot /\ Phys(mem, mem.boot, v) # 0
        /\ w \in Nat /\ w \div PER \in KernelSlot
        /\ Phys(mem, mem.boot, w) = Phys(mem, mem.boot, v)
    BY <1>3, <1>5
  <2> HIDE DEF v, w
  <2>2. w = v
    BY <1>1, <2>1, PageFrame
  <2> QED BY <1>1, <2>2 DEF Distinct, v, w
<1> QED BY <1>3, <1>4, <1>5

-----------------------------------------------------------------------------
LEMMA SwitchAwayStep ==
    ASSUME MInv, ~lost, SwitchAway
    PROVE  MInv'
<1> USE DEF SwitchAway
<1>1. Live' = Live /\ Directory' = Directory /\ Buffer' = Buffer
  BY DEF Live, Directory, Buffer
<1>2. ProcessesKept'
  BY <1>1 DEF MInv, ProcessesKept
<1> QED BY <1>1, <1>2 DEF MInv, CacheKept

LEMMA GrowHeapStep ==
    ASSUME MInv, ~lost, NEW d \in Directory, GrowHeap(d)
    PROVE  MInv'
<1>1. /\ Kept(mem, Directory, Buffer, reserved) /\ Tabled(mem) /\ RangeKept(mem)
      /\ mem.boot \in Directory
  BY DEF MInv, Directory
<1>2. /\ heapEnd \in Nat /\ heapEnd >= HeapStart /\ heapEnd < HeapStart + MaxHeap
      /\ mem' = MapPage(mem, d, heapEnd)
      /\ heapEnd' = IF Phys(mem', d, heapEnd) # 0 THEN heapEnd + 1 ELSE heapEnd
      /\ cached' = 0 /\ UNCHANGED <<proc, reserved, dma, fat>>
  BY DEF MInv, GrowHeap
<1>3. HeapStart \in Nat /\ HeapStart + HEAPTABLES * PER = VmStart /\ MaxHeap <= HEAPTABLES * PER
  BY Sizes, HeapPage DEF HeapStart, VmStart
<1>4. heapEnd \in HeapStart .. HeapStart + HEAPTABLES * PER - 1 /\ heapEnd < VmStart
  BY <1>2, <1>3, Sizes
<1>5. heapEnd \div PER \in KernelSlot /\ heapEnd \div PER \in Slot \ {User}
  <2>1. heapEnd \div PER \in KernelSlot
    BY <1>4, HeapPage
  <2> QED BY <2>1, SlotFacts DEF User
<1>6. mem.pd[d][heapEnd \div PER] # 0
  BY <1>1, <1>5 DEF Tabled, Kept, DirectoriesKept
<1>7. Mapped(mem, mem', Directory, Buffer, reserved, d, heapEnd)
  <2> DEFINE v == heapEnd
             n == MapPage(mem, d, v)
  <2>1. v \in Nat /\ v \div PER \in KernelSlot \cup {User} /\ v \div PER \in KernelSlot
    BY <1>2, <1>5
  <2>2. mem.pd[d][v \div PER] # 0
    BY <1>6
  <2> HIDE DEF v
  <2>3. Mapped(mem, n, Directory, Buffer, reserved, d, v)
    BY <1>1, <2>1, <2>2, MapPageFacts
  <2> QED BY <1>2, <2>3 DEF v
<1>8. /\ Kept(mem', Directory, Buffer, reserved) /\ Still(mem, mem')
      /\ \A w \in Nat : w \div PER \in KernelSlot /\ w # heapEnd
            => Phys(mem', mem'.boot, w) = Phys(mem, mem.boot, w)
      /\ Packed(mem, reserved) => Packed(mem', reserved)
  BY <1>7 DEF Mapped
<1>9. \A w \in VmRange : Phys(mem', mem'.boot, w) = Phys(mem, mem.boot, w)
  <2>1. \A w \in VmRange : w \in Nat /\ w \div PER \in KernelSlot /\ w # heapEnd
    <3>1. \A w \in VmRange : w # heapEnd
      BY <1>2, <1>4, VmPageFacts DEF VmRange
    <3> QED BY <3>1, VmPageFacts
  <2> QED BY <1>8, <2>1
<1>10. RangeKept(mem') /\ VmMapped(mem') = VmMapped(mem) /\ Steady(mem, mem')
  BY <1>1, <1>8, <1>9, SameVm DEF Still
<1>11. Directory' = Directory /\ Live' = Live /\ ProcessesKept'
  BY <1>2, <1>8, <1>10, SameProcesses DEF Still
<1>12. Buffer' = Buffer
  BY <1>2 DEF Buffer
<1>13. Tabled(mem') /\ mem'.pd[mem'.boot][User] = 0
  BY <1>8 DEF MInv, Tabled, Still
<1>14. Held(mem'.track) = VmMapped(mem')
  BY <1>8, <1>10 DEF MInv, Still
<1>15. heapEnd' \in Nat /\ heapEnd' >= HeapStart
  BY <1>2, <1>3
<1>16. CacheKept'
  BY <1>2 DEF CacheKept
<1>17. /\ proc' \in [Proc -> {NULL} \cup [dir : Nat, root : Nat, stack : Nat]]
       /\ cached' \in Nat /\ fat' \in Nat /\ (fat' # 0 => dma' # NULL)
       /\ \E map \in Maps : reserved' = PhysInitialized(map).used
       /\ dma' = NULL => Packed(mem', reserved')
  BY <1>2, <1>8 DEF MInv
<1>18. Kept(mem', Directory', Buffer', reserved')
  BY <1>2, <1>8, <1>11, <1>12
<1> QED BY <1>10, <1>11, <1>13, <1>14, <1>15, <1>16, <1>17, <1>18 DEF MInv

LEMMA LoadProgramStep ==
    ASSUME MInv, ~lost, NEW p \in Live, LoadProgram(p)
    PROVE  MInv'
<1> DEFINE d == proc[p].root
<1>1. /\ Kept(mem, Directory, Buffer, reserved) /\ Tabled(mem) /\ RangeKept(mem)
      /\ d \in Directory
  BY DEF MInv, Directory
<1>2. /\ mem' = MapPage(mem, d, UserPage)
      /\ cached' = 0 /\ UNCHANGED <<proc, reserved, heapEnd, dma, fat>>
  BY DEF LoadProgram
<1>3. d # mem.boot
  BY Roots
<1> HIDE DEF d
<1>4. Loaded(mem, mem', Directory, Buffer, reserved, d)
  <2> DEFINE n == MapPage(mem, d, UserPage)
  <2>1. Loaded(mem, n, Directory, Buffer, reserved, d)
    BY <1>1, <1>3, LoadFacts
  <2> QED BY <1>2, <2>1
<1>5. /\ Kept(mem', Directory, Buffer, reserved) /\ SamePages(mem, mem')
      /\ mem'.boot = mem.boot /\ mem'.range = mem.range /\ mem'.track = mem.track
      /\ \A z \in Slot : mem'.pd[mem.boot][z] = mem.pd[mem.boot][z]
      /\ Packed(mem, reserved) => Packed(mem', reserved)
  BY <1>4 DEF Loaded
<1>9. \A w \in VmRange : Phys(mem', mem'.boot, w) = Phys(mem, mem.boot, w)
  BY <1>5, VmPageFacts DEF SamePages
<1>10. RangeKept(mem') /\ VmMapped(mem') = VmMapped(mem) /\ Steady(mem, mem')
  BY <1>1, <1>5, <1>9, SameVm
<1>11. Directory' = Directory /\ Live' = Live /\ ProcessesKept'
  BY <1>2, <1>5, <1>10, SameProcesses
<1>12. Buffer' = Buffer
  BY <1>2 DEF Buffer
<1>13. Tabled(mem') /\ mem'.pd[mem'.boot][User] = 0
  BY <1>5, SlotFacts DEF MInv, Tabled
<1>14. Held(mem'.track) = VmMapped(mem')
  BY <1>5, <1>10 DEF MInv
<1>16. CacheKept'
  BY <1>2 DEF CacheKept
<1>17. /\ proc' \in [Proc -> {NULL} \cup [dir : Nat, root : Nat, stack : Nat]]
       /\ cached' \in Nat /\ fat' \in Nat /\ (fat' # 0 => dma' # NULL)
       /\ heapEnd' \in Nat /\ heapEnd' >= HeapStart
       /\ \E map \in Maps : reserved' = PhysInitialized(map).used
       /\ dma' = NULL => Packed(mem', reserved')
  BY <1>2, <1>5 DEF MInv
<1>18. Kept(mem', Directory', Buffer', reserved')
  BY <1>2, <1>5, <1>11, <1>12
<1> QED BY <1>10, <1>11, <1>13, <1>14, <1>16, <1>17, <1>18 DEF MInv

-----------------------------------------------------------------------------
WithRam(m, b) == [m EXCEPT !.ram = b]

LEMMA RamSet ==
    ASSUME NEW m, Shaped(m), NEW b \in Bitmap, NEW n, n = WithRam(m, b)
    PROVE  /\ Shaped(n) /\ n.ram = b
           /\ n.range = m.range /\ n.track = m.track /\ n.boot = m.boot
           /\ n.pd = m.pd /\ n.pt = m.pt
<1>1. /\ n.ram = b
      /\ n.range = m.range /\ n.track = m.track /\ n.boot = m.boot
      /\ n.pd = m.pd /\ n.pt = m.pt
  BY DEF Shaped, WithRam
<1>2. n \in [ram : Bitmap, range : Bitmap, track : Seq(Node),
            pd : {n.pd}, pt : {n.pt}, boot : Nat]
  BY <1>1 DEF Shaped, WithRam
<1>3. /\ n.pd \in [DOMAIN n.pd -> [Slot -> Nat]]
      /\ n.pt \in [DOMAIN n.pt -> [0 .. PER - 1 -> Nat]]
  BY <1>1 DEF Shaped
<1>4. Shaped(n)
  BY <1>2, <1>3, Zenon DEF Shaped
<1> QED BY <1>1, <1>4

\* The buffer of the floppy takes frames that are free.
LEMMA NewBuffer ==
    ASSUME NEW m, NEW D, NEW R, Kept(m, D, {}, R), NEW F, F \subseteq FreeFrames(m),
           NEW n, n = WithRam(m, SetUsed(m.ram, F))
    PROVE  /\ Kept(n, D, F, R)
           /\ n.range = m.range /\ n.track = m.track /\ n.boot = m.boot
           /\ n.pd = m.pd /\ n.pt = m.pt
<1> DEFINE b == SetUsed(m.ram, F)
<1>1. /\ Shaped(m) /\ FramesKept(m, R) /\ m.ram.used \in SUBSET Int
      /\ m.ram.free \in Int /\ m.ram.busy \in Int
      /\ m.ram.used \subseteq 0 .. TOTAL - 1 /\ R \subseteq m.ram.used
      /\ m.ram.busy = Cardinality(m.ram.used) /\ m.ram.free = TOTAL - m.ram.busy
      /\ IsFiniteSet(m.ram.used)
  <2>1. Shaped(m) /\ FramesKept(m, R)
    BY DEF Kept
  <2>2. IsFiniteSet(m.ram.used)
    BY <2>1, Sizes, CountOfFree DEF FramesKept
  <2> QED BY <2>1, <2>2 DEF Shaped, Bitmap, FramesKept, Counted
<1>2. F \subseteq 0 .. TOTAL - 1 /\ F \cap m.ram.used = {}
  BY DEF FreeFrames
<1>3. IsFiniteSet(F) /\ Cardinality(F) \in Nat
  <2>1. 0 \in Int /\ TOTAL - 1 \in Int
    BY Sizes
  <2>2. IsFiniteSet(0 .. TOTAL - 1)
    BY <2>1, FS_Interval
  <2> QED BY <1>2, <2>2, FS_Subset, FS_CardinalityType
<1>4. Cardinality(m.ram.used \cup F) = Cardinality(m.ram.used) + Cardinality(F)
  <2>1. m.ram.used \cap F = {}
    BY <1>2
  <2>2. Cardinality(m.ram.used \cup F)
          = Cardinality(m.ram.used) + Cardinality(F) - Cardinality(m.ram.used \cap F)
    BY <1>1, <1>3, FS_Union
  <2>3. Cardinality(m.ram.used \cap F) = 0
    BY <2>1, FS_EmptySet
  <2> QED BY <1>1, <1>3, <2>2, <2>3
<1>5. /\ b.used = m.ram.used \cup F
      /\ b.free = m.ram.free - Cardinality(F)
      /\ b.busy = m.ram.busy + Cardinality(F)
  BY DEF SetUsed
<1>6. b \in Bitmap
  <2>1. m.ram.used \cup F \in SUBSET Int
    <3>1. F \subseteq Int
      BY <1>2
    <3>2. m.ram.used \subseteq Int
      BY <1>1
    <3> QED BY <3>1, <3>2
  <2>2. m.ram.free - Cardinality(F) \in Int /\ m.ram.busy + Cardinality(F) \in Int
    BY <1>1, <1>3
  <2> QED BY <2>1, <2>2 DEF SetUsed, Bitmap
<1> HIDE DEF b
<1>7. /\ Shaped(n) /\ n.ram = b
      /\ n.range = m.range /\ n.track = m.track /\ n.boot = m.boot
      /\ n.pd = m.pd /\ n.pt = m.pt
  BY <1>1, <1>6, RamSet DEF b
<1>8. FramesKept(n, R)
  <2>1. Counted(n.ram, n.ram.used, TOTAL)
    <3>1. b.busy = Cardinality(b.used)
      BY <1>1, <1>4, <1>5
    <3>2. b.free = TOTAL - b.busy
      BY <1>1, <1>3, <1>5, Sizes
    <3> QED BY <1>7, <3>1, <3>2 DEF Counted
  <2> QED BY <1>1, <1>2, <1>5, <1>7, <2>1 DEF FramesKept
<1>9. DirectoriesKept(n, D)
  <2>1. PageTables(n, D) = PageTables(m, D)
    BY <1>7, SameTables
  <2> QED BY <1>7, <2>1 DEF Kept, DirectoriesKept
<1>10. ASSUME NEW u \in Uses(n, D, F)
       PROVE  u \in Uses(m, D, {}) \/ \E f \in F : u = Use(f, "dma", 0, f)
  <2>1. PageTables(n, D) = PageTables(m, D)
    BY <1>7, SameTables
  <2>2. \A e : OwnSlots(n, e) = OwnSlots(m, e)
    BY <1>7 DEF OwnSlots
  <2>3. \/ u = Use(n.boot, "cr3", 0, 0)
        \/ \E e \in D, z \in Slot : /\ z \in OwnSlots(n, e) /\ n.pd[e][z] # 0
                                   /\ u = Use(n.pd[e][z], "directory", e, z)
        \/ \E y \in PageTables(n, D), j \in 0 .. PER - 1 :
              n.pt[y][j] # 0 /\ u = Use(n.pt[y][j], "table", y, j)
        \/ \E g \in F : u = Use(g, "dma", 0, g)
    BY <1>10, UsesAre
  <2>4. \/ u = Use(m.boot, "cr3", 0, 0)
        \/ \E e \in D, z \in Slot : /\ z \in OwnSlots(m, e) /\ m.pd[e][z] # 0
                                   /\ u = Use(m.pd[e][z], "directory", e, z)
        \/ \E y \in PageTables(m, D), j \in 0 .. PER - 1 :
              m.pt[y][j] # 0 /\ u = Use(m.pt[y][j], "table", y, j)
        \/ \E g \in F : u = Use(g, "dma", 0, g)
    BY <1>7, <2>1, <2>2, <2>3
  <2> QED BY <2>4, UsesAre
<1>11. OneUse(Uses(n, D, F), n.ram.used \ R)
  <2>1. OneUse(Uses(m, D, {}), m.ram.used \ R)
    BY DEF Kept
  <2>2. ASSUME NEW u \in Uses(m, D, {}) PROVE u.frame \in m.ram.used \ R
    BY <2>1 DEF OneUse
  <2>3. ASSUME NEW f \in F PROVE Use(f, "dma", 0, f).frame = f
    BY DEF Use
  <2>4. ASSUME NEW u \in Uses(n, D, F) PROVE u.frame \in n.ram.used \ R
    BY <1>1, <1>2, <1>5, <1>7, <1>10, <2>2, <2>3
  <2>5. ASSUME NEW u \in Uses(n, D, F), NEW w \in Uses(n, D, F), u.frame = w.frame
        PROVE  u = w
    <3>1. CASE u \in Uses(m, D, {}) /\ w \in Uses(m, D, {})
      BY <2>1, <2>5, <3>1 DEF OneUse
    <3>2. CASE u \notin Uses(m, D, {}) \/ w \notin Uses(m, D, {})
      BY <1>2, <1>10, <2>2, <2>3, <2>5, <3>2
    <3> QED BY <3>1, <3>2
  <2> QED BY <2>4, <2>5 DEF OneUse
<1> QED BY <1>7, <1>8, <1>9, <1>11 DEF Kept

\* The search for the buffer of the floppy looks at one frame less than it
\* takes after the first run, in memory that is still packed.
LEMMA BufferFits ==
    ASSUME NEW m, NEW map, Usable(map), NEW R, R = PhysInitialized(map).used,
           FramesKept(m, R), Packed(m, R)
    PROVE  NextFrames(m, DMABLOCKS) \subseteq FreeFrames(m)
<1> DEFINE F == (0 .. TOTAL - 1) \ m.ram.used
           S == {s \in F : s - 1 \notin F}
           tested(s) == IF s = Min(F) THEN DMABLOCKS ELSE DMABLOCKS - 1
           fits == {s \in S : s .. s + tested(s) - 1 \subseteq F}
           at == FirstFit(m.ram, DMABLOCKS, TOTAL)
<1>1. at = {} \/ (at = {Min(fits)} /\ fits # {})
  <2>1. at = IF DMABLOCKS > m.ram.free \/ fits = {} THEN {} ELSE {Min(fits)}
    BY DEF FirstFit
  <2> HIDE DEF at, fits
  <2> QED BY <2>1
<1>2. CASE at = {}
  BY <1>2 DEF NextFrames
<1>3. CASE at = {Min(fits)} /\ fits # {}
  <2>0. TOTAL \in Nat \ {0} /\ DMABLOCKS \in Nat \ {0}
    BY Sizes
  <2>1. F \subseteq Nat /\ fits \subseteq Nat
    BY <2>0
  <2>2. PICK s \in fits : s = Min(fits)
    BY <1>3, <2>1, MinFacts
  <2>3. NextFrames(m, DMABLOCKS) = s .. s + DMABLOCKS - 1
    <3>1. {s} \subseteq Nat /\ {s} # {}
      BY <2>1, <2>2
    <3>2. Min({s}) = s
      BY <3>1, MinFacts
    <3>3. at = {s}
      BY <1>3, <2>2
    <3> HIDE DEF at
    <3>4. NextFrames(m, DMABLOCKS) = Min(at) .. Min(at) + DMABLOCKS - 1
      BY <3>1, <3>3 DEF NextFrames, at
    <3> QED BY <3>2, <3>3, <3>4
  <2>4. s \in F /\ s - 1 \notin F
    BY <2>2
  <2>5. CASE s = Min(F)
    <3>1. s .. s + DMABLOCKS - 1 \subseteq F
      BY <2>2, <2>5
    <3> QED BY <2>3, <3>1 DEF FreeFrames
  <2>6. CASE s # Min(F)
    <3> DEFINE G == (0 .. TOTAL - 1) \ R
    <3>1. F \subseteq G /\ 0 \in R
      BY DEF FramesKept
    <3>2. PICK y \in F : y < s
      <4>1. Min(F) \in F /\ Min(F) <= s
        BY <2>1, <2>4, MinFacts
      <4>2. Min(F) # s /\ Min(F) \in Nat /\ s \in Nat
        BY <2>1, <2>2, <2>6, <4>1
      <4> HIDE DEF F, fits
      <4>3. Min(F) < s
        BY <4>1, <4>2
      <4> QED BY <4>1, <4>3
    <3>3. s \in G /\ s - 1 \notin G /\ s # Min(G)
      <4>1. s \in G
        BY <2>4, <3>1
      <4>2. s - 1 \notin G
        <5> SUFFICES ASSUME s - 1 \in G PROVE FALSE
          OBVIOUS
        <5>1. s - 1 \in m.ram.used \ R
          BY <2>4
        <5>2. s - 1 < y
          BY <3>2, <5>1 DEF Packed
        <5> QED BY <2>0, <2>4, <3>2, <5>2
      <4>3. s # Min(G)
        <5>1. G \subseteq Nat /\ y \in G
          BY <2>0, <3>1, <3>2
        <5>2. Min(G) <= y /\ Min(G) \in Nat
          BY <5>1, MinFacts
        <5> HIDE DEF G
        <5> QED BY <2>1, <2>4, <3>2, <5>2
      <4> QED BY <4>1, <4>2, <4>3
    <3>4. s .. s + DMABLOCKS - 1 \subseteq G
      BY <3>3 DEF Usable
    <3>5. ASSUME NEW x \in s .. s + DMABLOCKS - 1 PROVE x \in F
      <4> SUFFICES ASSUME x \notin F PROVE FALSE
        OBVIOUS
      <4>1. x \in m.ram.used \ R
        BY <3>4
      <4>2. x < y
        BY <3>2, <4>1 DEF Packed
      <4> QED BY <2>1, <2>4, <3>2, <4>2
    <3> QED BY <2>3, <3>5 DEF FreeFrames
  <2> QED BY <2>5, <2>6
<1> QED BY <1>1, <1>2, <1>3

LEMMA FdcInitializeStep ==
    ASSUME \A map \in Maps : Usable(map), MInv, ~lost, FdcInitialize
    PROVE  MInv'
<1> DEFINE F == NextFrames(mem, DMABLOCKS)
<1>1. /\ dma = NULL /\ dma' = F /\ mem' = WithRam(mem, SetUsed(mem.ram, F))
      /\ UNCHANGED <<cached, proc, reserved, heapEnd, fat>>
  BY DEF FdcInitialize, WithRam
<1>2. F \subseteq FreeFrames(mem)
  <2>1. PICK map \in Maps : reserved = PhysInitialized(map).used
    BY DEF MInv
  <2>2. FramesKept(mem, reserved) /\ Packed(mem, reserved)
    BY <1>1 DEF MInv, Kept
  <2> QED BY <2>1, <2>2, BufferFits
<1>3. F # NULL
  <2>1. F \in {{}} \cup {f .. f + DMABLOCKS - 1 : f \in 0 .. TOTAL - 1}
    <3>1. CASE F = {}
      BY <3>1
    <3>2. CASE F # {}
      <4>1. F = Min(FirstFit(mem.ram, DMABLOCKS, TOTAL)) .. Min(FirstFit(mem.ram, DMABLOCKS, TOTAL)) + DMABLOCKS - 1
        BY <3>2 DEF NextFrames
      <4> DEFINE x == Min(FirstFit(mem.ram, DMABLOCKS, TOTAL))
      <4>2. \E y \in 0 .. TOTAL - 1 : F = y .. y + DMABLOCKS - 1
        <5>1. x \in F
          <6>1. FirstFit(mem.ram, DMABLOCKS, TOTAL) # {}
            BY <3>2 DEF NextFrames
          <6>2. FirstFit(mem.ram, DMABLOCKS, TOTAL) \subseteq Nat
            <7> DEFINE G == (0 .. TOTAL - 1) \ mem.ram.used
                       S == {s \in G : s - 1 \notin G}
                       tested(s) == IF s = Min(G) THEN DMABLOCKS ELSE DMABLOCKS - 1
                       fits == {s \in S : s .. s + tested(s) - 1 \subseteq G}
            <7>1. FirstFit(mem.ram, DMABLOCKS, TOTAL) \subseteq {Min(fits)} /\ fits # {}
              BY <6>1 DEF FirstFit
            <7>2. fits \subseteq Nat
              BY Sizes
            <7> HIDE DEF fits
            <7>3. Min(fits) \in Nat
              BY <7>1, <7>2, MinFacts
            <7> QED BY <7>1, <7>3
          <6>3. x \in Nat
            BY <6>1, <6>2, MinFacts
          <6> HIDE DEF x
          <6> QED BY <4>1, <6>3, Sizes DEF x
        <5>2. x \in 0 .. TOTAL - 1
          BY <1>2, <5>1 DEF FreeFrames
        <5> HIDE DEF x, F
        <5> QED BY <4>1, <5>2 DEF x
      <4> QED BY <4>2
    <3> QED BY <3>1, <3>2
  <2> HIDE DEF F
  <2> QED BY <2>1, MemoryAssumption
<1> HIDE DEF F
<1>4. Buffer = {} /\ Buffer' = F
  BY <1>1, <1>3 DEF Buffer
<1>5. Kept(mem, Directory, {}, reserved) /\ RangeKept(mem)
  BY <1>4 DEF MInv
<1>6. /\ Kept(mem', Directory, F, reserved)
      /\ mem'.range = mem.range /\ mem'.track = mem.track /\ mem'.boot = mem.boot
      /\ mem'.pd = mem.pd /\ mem'.pt = mem.pt
  <2> DEFINE n == WithRam(mem, SetUsed(mem.ram, F))
  <2>1. /\ Kept(n, Directory, F, reserved)
        /\ n.range = mem.range /\ n.track = mem.track /\ n.boot = mem.boot
        /\ n.pd = mem.pd /\ n.pt = mem.pt
    BY <1>2, <1>5, NewBuffer
  <2> QED BY <1>1, <2>1
<1>9. \A w \in VmRange : Phys(mem', mem'.boot, w) = Phys(mem, mem.boot, w)
  BY <1>6 DEF Phys
<1>10. RangeKept(mem') /\ VmMapped(mem') = VmMapped(mem) /\ Steady(mem, mem')
  BY <1>5, <1>6, <1>9, SameVm
<1>11. Directory' = Directory /\ Live' = Live /\ ProcessesKept'
  BY <1>1, <1>6, <1>10, SameProcesses
<1>13. Tabled(mem') /\ mem'.pd[mem'.boot][User] = 0
  BY <1>6 DEF MInv, Tabled
<1>14. Held(mem'.track) = VmMapped(mem')
  BY <1>6, <1>10 DEF MInv
<1>16. CacheKept'
  BY <1>1, <1>6 DEF MInv, CacheKept
<1>17. /\ proc' \in [Proc -> {NULL} \cup [dir : Nat, root : Nat, stack : Nat]]
       /\ cached' \in Nat /\ fat' \in Nat /\ dma' # NULL
       /\ heapEnd' \in Nat /\ heapEnd' >= HeapStart
       /\ \E map \in Maps : reserved' = PhysInitialized(map).used
  BY <1>1, <1>3 DEF MInv
<1>18. Kept(mem', Directory', Buffer', reserved')
  BY <1>1, <1>4, <1>6, <1>11
<1> QED BY <1>10, <1>11, <1>13, <1>14, <1>16, <1>17, <1>18 DEF MInv

-----------------------------------------------------------------------------
LEMMA PhysShared ==
    ASSUME NEW m, NEW D, DirectoriesKept(m, D), NEW d \in D,
           NEW v \in Nat, v \div PER \in KernelSlot
    PROVE  Phys(m, d, v) = Phys(m, m.boot, v)
<1>1. v \div PER \in Slot \ {User}
  BY SlotFacts
<1>2. m.pd[d][v \div PER] = m.pd[m.boot][v \div PER]
  BY <1>1 DEF DirectoriesKept
<1> QED BY <1>2 DEF Phys

LEMMA HeldIn ==
    ASSUME NEW s, NEW t, \A x \in Range(s) : x.page # 0 => x \in Range(t)
    PROVE  Held(s) \subseteq Held(t)
<1> SUFFICES ASSUME NEW w \in Held(s) PROVE w \in Held(t)
  OBVIOUS
<1>1. PICK i \in DOMAIN s : w \in Of(s[i])
  BY HeldAre
<1>2. s[i].page # 0 /\ s[i] \in Range(s)
  BY <1>1 DEF Of, Range
<1>3. s[i] \in Range(t)
  BY <1>2
<1>4. PICK j \in DOMAIN t : t[j] = s[i]
  BY <1>3 DEF Range
<1>5. w \in Of(t[j])
  BY <1>1, <1>4
<1> QED BY <1>5, HeldAre

\* The pages are mapped if the caller sees them so, in its directory.
AllMapped(m, got, D, v, n) ==
    \A d \in D : /\ v # 0 /\ Held(m.track) = VmMapped(m)
                 /\ \A w \in v .. v + n - 1 : Phys(got, d, w) # 0
        => Held(got.track) = VmMapped(got)

LEMMA VmallocSteady ==
    ASSUME NEW m, NEW D, NEW B, NEW R, Shaped(m), RangeKept(m),
           NEW got, NEW v, NEW n \in Nat \ {0},
           Vmalloced(m, got, D, B, R, v, n)
    PROVE  /\ Steady(m, got)
           /\ v # 0 => v \in VmRange /\ v \notin Held(m.track)
           /\ Held(m.track) \subseteq Held(got.track)
           /\ AllMapped(m, got, D, v, n)
<1>1. Held(m.track) \subseteq VmRange
  BY HeldPages
<1>2. ASSUME NEW w \in Held(m.track)
      PROVE  Phys(got, got.boot, w) = Phys(m, m.boot, w)
  <2>1. w \in Nat /\ w \div PER \in KernelSlot
    BY <1>1, <1>2, VmPageFacts
  <2>2. v = 0 \/ w \notin v .. v + n - 1
    BY <1>2 DEF Vmalloced
  <2> QED BY <2>1, <2>2 DEF Vmalloced
<1>3. Steady(m, got)
  BY <1>2 DEF Steady, Vmalloced
<1>4. v # 0 => v \in VmRange /\ v \notin Held(m.track)
  <2> SUFFICES ASSUME v # 0 PROVE v \in VmRange /\ v \notin Held(m.track)
    OBVIOUS
  <2>1. v \in v .. v + n - 1
    BY DEF Vmalloced
  <2> QED BY <2>1 DEF Vmalloced
<1>5. Held(m.track) \subseteq Held(got.track)
  BY DEF Vmalloced
<1>6. ASSUME NEW d \in D, v # 0, Held(m.track) = VmMapped(m),
             \A w \in v .. v + n - 1 : Phys(got, d, w) # 0
      PROVE  Held(got.track) = VmMapped(got)
  <2>1. VmMapped(got) \subseteq Held(got.track)
    BY DEF Vmalloced, RangeKept
  <2>2. ASSUME NEW w \in Held(got.track) PROVE w \in VmMapped(got)
    <3>1. w \in Held(m.track) \/ w \in v .. v + n - 1
      BY <1>6, <2>2 DEF Vmalloced
    <3>2. CASE w \in Held(m.track)
      <4>1. w \in VmRange /\ Phys(m, m.boot, w) # 0
        BY <1>6, <3>2 DEF VmMapped, VmRange
      <4> QED BY <1>2, <3>2, <4>1 DEF VmMapped, VmRange
    <3>3. CASE w \in v .. v + n - 1
      <4>1. w \in VmRange
        BY <1>6, <3>3 DEF Vmalloced
      <4>2. w \in Nat /\ w \div PER \in KernelSlot
        BY <4>1, VmPageFacts
      <4>3. DirectoriesKept(got, D)
        BY DEF Vmalloced, Kept
      <4>4. Phys(got, d, w) = Phys(got, got.boot, w)
        BY <4>2, <4>3, PhysShared
      <4> QED BY <1>6, <3>3, <4>1, <4>4 DEF VmMapped, VmRange
    <3> QED BY <3>1, <3>2, <3>3
  <2> QED BY <2>1, <2>2
<1>7. AllMapped(m, got, D, v, n)
  BY <1>6 DEF AllMapped
<1> QED BY <1>3, <1>4, <1>5, <1>7

\* Giving back pages that were not handed out before is steady as well.
LEMMA VfreeSteady ==
    ASSUME NEW m, NEW D, NEW B, NEW R, Shaped(m), RangeKept(m),
           NEW got, NEW n, NEW v, Steady(m, got), v # 0 => v \notin Held(m.track),
           Vfreed(got, n, D, B, R, v)
    PROVE  Steady(m, n)
<1>0. m.track \in Seq(Node)
  BY DEF Shaped
<1>1. ASSUME NEW x \in Range(m.track), x.page # 0 PROVE x \in Range(n.track)
  <2>1. x \in Range(got.track)
    BY <1>1 DEF Steady
  <2>2. x.page \in Held(m.track)
    BY <1>0, <1>1, OneHeld
  <2>3. x.page # v
    BY <1>1, <2>2
  <2> QED BY <2>1, <2>3 DEF Vfreed
<1>2. Held(m.track) \subseteq Held(n.track)
  BY <1>1, HeldIn
<1>3. ASSUME NEW w \in Held(m.track) PROVE Phys(n, n.boot, w) = Phys(m, m.boot, w)
  BY <1>2, <1>3 DEF Steady, Vfreed
<1> QED BY <1>1, <1>3 DEF Steady

LEMMA MountStep ==
    ASSUME MInv, ~lost, Mount
    PROVE  MInv'
<1>1. PICK p \in Live :
        LET d == proc[p].root
            v == VmPage(mem, FATPAGES)
            got == Vmalloc(mem, d, FATPAGES)
        IN  /\ \/ mem' = got /\ fat' = v
               \/ mem' = Vfree(got, d, v) /\ UNCHANGED fat
            /\ lost' = ~(\A i \in 0 .. FATPAGES - 1 : Safe(got, d, v + i))
  BY DEF Mount
<1>2. /\ dma # NULL /\ fat = 0
      /\ UNCHANGED <<cached, proc, reserved, heapEnd, dma>>
  BY DEF Mount
<1> DEFINE d == proc[p].root
           v == VmPage(mem, FATPAGES)
           got == Vmalloc(mem, d, FATPAGES)
<1>3. /\ \/ mem' = got /\ fat' = v
         \/ mem' = Vfree(got, d, v) /\ UNCHANGED fat
      /\ lost' = ~(\A i \in 0 .. FATPAGES - 1 : Safe(got, d, v + i))
  BY <1>1
<1>4. /\ Kept(mem, Directory, Buffer, reserved) /\ Tabled(mem) /\ RangeKept(mem)
      /\ d \in Directory /\ Shaped(mem)
  BY DEF MInv, Directory, Kept
<1>5. FATPAGES \in 1 .. PER /\ FATPAGES \in Nat \ {0}
  BY Sizes
<1> HIDE DEF d
<1>6. Vmalloced(mem, got, Directory, Buffer, reserved, v, FATPAGES)
  BY <1>4, <1>5, VmallocFacts
<1> HIDE DEF got, v
<1>7. /\ Steady(mem, got)
      /\ v # 0 => v \in VmRange /\ v \notin Held(mem.track)
  BY <1>4, <1>5, <1>6, VmallocSteady
<1>8. ~lost' => Held(got.track) = VmMapped(got)
  <2> SUFFICES ASSUME ~lost' PROVE Held(got.track) = VmMapped(got)
    OBVIOUS
  <2>1. \A i \in 0 .. FATPAGES - 1 : v + i # 0 /\ Phys(got, d, v + i) # 0
    BY <1>3 DEF Safe
  <2>2. v \in Nat
    BY <1>6 DEF Vmalloced
  <2>3. v # 0
    <3>1. 0 \in 0 .. FATPAGES - 1
      BY <1>5
    <3>2. v + 0 # 0
      BY <2>1, <3>1
    <3> QED BY <2>2, <3>2
  <2>4. ASSUME NEW w \in v .. v + FATPAGES - 1 PROVE Phys(got, d, w) # 0
    <3>1. w - v \in 0 .. FATPAGES - 1 /\ v + (w - v) = w
      BY <1>5, <2>2, <2>4
    <3> QED BY <2>1, <3>1
  <2>5. Held(mem.track) = VmMapped(mem)
    BY DEF MInv
  <2>6. AllMapped(mem, got, Directory, v, FATPAGES)
    BY <1>4, <1>5, <1>6, VmallocSteady
  <2> QED BY <1>4, <2>3, <2>4, <2>5, <2>6 DEF AllMapped
<1>9. /\ Kept(mem', Directory, Buffer, reserved) /\ RangeKept(mem')
      /\ mem'.pd = mem.pd /\ mem'.boot = mem.boot /\ Steady(mem, mem')
      /\ ~lost' => Held(mem'.track) = VmMapped(mem')
      /\ fat' \in Nat
  <2>1. CASE mem' = got /\ fat' = v
    <3>1. /\ Kept(got, Directory, Buffer, reserved) /\ RangeKept(got)
          /\ got.pd = mem.pd /\ got.boot = mem.boot /\ v \in Nat
      BY <1>6 DEF Vmalloced
    <3> QED BY <1>7, <1>8, <2>1, <3>1
  <2>2. CASE mem' = Vfree(got, d, v) /\ UNCHANGED fat
    <3> DEFINE n == Vfree(got, d, v)
    <3>1. /\ Kept(got, Directory, Buffer, reserved) /\ RangeKept(got)
          /\ got.pd = mem.pd /\ got.boot = mem.boot
      BY <1>6 DEF Vmalloced
    <3>2. Vfreed(got, n, Directory, Buffer, reserved, v)
      BY <1>4, <3>1, VfreeFacts
    <3>3. mem' = n /\ fat' = fat
      BY <2>2
    <3> HIDE DEF n
    <3>4. Steady(mem, n)
      BY <1>4, <1>7, <3>2, VfreeSteady
    <3>5. /\ Kept(n, Directory, Buffer, reserved) /\ RangeKept(n)
          /\ n.pd = mem.pd /\ n.boot = mem.boot
          /\ ~lost' => Held(n.track) = VmMapped(n)
      BY <1>8, <3>1, <3>2 DEF Vfreed
    <3>6. fat' \in Nat
      BY <3>3 DEF MInv
    <3> QED BY <3>3, <3>4, <3>5, <3>6
  <2> QED BY <1>3, <2>1, <2>2
<1>11. Directory' = Directory /\ Live' = Live /\ ProcessesKept'
  BY <1>2, <1>9, SameProcesses
<1>12. Buffer' = Buffer
  BY <1>2 DEF Buffer
<1>13. Tabled(mem') /\ mem'.pd[mem'.boot][User] = 0
  BY <1>9 DEF MInv, Tabled
<1>16. CacheKept'
  BY <1>2 DEF MInv, CacheKept
<1>17. /\ proc' \in [Proc -> {NULL} \cup [dir : Nat, root : Nat, stack : Nat]]
       /\ cached' \in Nat /\ dma' # NULL
       /\ heapEnd' \in Nat /\ heapEnd' >= HeapStart
       /\ \E map \in Maps : reserved' = PhysInitialized(map).used
  BY <1>2 DEF MInv
<1>18. Kept(mem', Directory', Buffer', reserved')
  BY <1>2, <1>9, <1>11, <1>12
<1> QED BY <1>9, <1>11, <1>13, <1>16, <1>17, <1>18 DEF MInv

-----------------------------------------------------------------------------
CopiedTo(m, d, r) ==
    [m EXCEPT !.pd = [x \in DOMAIN @ \cup {r} |-> IF x = r THEN Copied(m, d) ELSE @[x]]]

\* The directory that create_process writes joins the others.
DirectoryMade(m, n, D, B, R, d, r) ==
    /\ Kept(n, D \cup {r}, B, R) /\ RangeKept(n) /\ Steady(m, n)
    /\ VmMapped(n) = VmMapped(m) /\ Tabled(n)
    /\ n.ram = m.ram /\ n.range = m.range /\ n.track = m.track /\ n.boot = m.boot
    /\ n.pd[n.boot] = m.pd[m.boot]

LEMMA CopiedFacts ==
    ASSUME NEW m, NEW D, NEW B, NEW R, Kept(m, D, B, R), RangeKept(m), Tabled(m),
           NEW d \in D, NEW r \in Nat, r \notin D,
           NEW n, n = CopiedTo(m, d, r)
    PROVE  DirectoryMade(m, n, D, B, R, d, r)
<1> DEFINE pd == [x \in DOMAIN m.pd \cup {r} |-> IF x = r THEN Copied(m, d) ELSE m.pd[x]]
<1>1. /\ Shaped(m) /\ d \in DOMAIN m.pd /\ m.boot \in D /\ m.boot \in DOMAIN m.pd
      /\ m.pd \in [DOMAIN m.pd -> [Slot -> Nat]]
  BY DEF Kept, DirectoriesKept, Shaped
<1>2. Copied(m, d) \in [Slot -> Nat]
  <2>1. m.pd[d] \in [Slot -> Nat]
    BY <1>1
  <2> QED BY <2>1 DEF Copied
<1>3. pd \in [DOMAIN pd -> [Slot -> Nat]]
  BY <1>1, <1>2
<1>4. n = WithPd(m, pd)
  BY DEF WithPd, CopiedTo
<1>5. DOMAIN pd = DOMAIN m.pd \cup {r} /\ pd[m.boot] = m.pd[m.boot]
  BY <1>1
<1>6. Spawned(m, n, d, r) <=>
        /\ n.ram = m.ram /\ n.pt = m.pt /\ n.boot = m.boot /\ n.pd = pd
  BY DEF Spawned
<1> HIDE DEF pd
<1>7. /\ Shaped(n) /\ n.pd = pd
      /\ n.ram = m.ram /\ n.range = m.range /\ n.track = m.track
      /\ n.boot = m.boot /\ n.pt = m.pt
  BY <1>1, <1>3, <1>4, PdSet
<1>8. Kept(n, D \cup {r}, B, R)
  BY <1>6, <1>7, NewDirectory
<1>9. \A w \in VmRange : Phys(n, n.boot, w) = Phys(m, m.boot, w)
  BY <1>5, <1>7 DEF Phys
<1>10. RangeKept(n) /\ VmMapped(n) = VmMapped(m) /\ Steady(m, n)
  BY <1>7, <1>9, SameVm
<1>11. Tabled(n) /\ n.pd[n.boot] = m.pd[m.boot]
  BY <1>5, <1>7 DEF Tabled
<1> QED BY <1>7, <1>8, <1>10, <1>11 DEF DirectoryMade

\* vmalloc of one page.
OneGot(m, got, D, B, R, d, v) ==
    /\ Vmalloced(m, got, D, B, R, v, 1)
    /\ Steady(m, got)
    /\ v # 0 => v \in VmRange /\ v \notin Held(m.track)
    /\ v # 0 /\ Held(m.track) = VmMapped(m) /\ Phys(got, d, v) # 0
          => Held(got.track) = VmMapped(got)

LEMMA OnePage ==
    ASSUME NEW m, NEW D, NEW B, NEW R, Kept(m, D, B, R), Tabled(m), RangeKept(m),
           NEW d \in D
    PROVE  OneGot(m, Vmalloc(m, d, 1), D, B, R, d, VmPage(m, 1))
<1>1. PICK n \in 1 .. PER : n = 1
  BY Sizes
<1> DEFINE got == Vmalloc(m, d, n)
           v == VmPage(m, n)
<1>2. Vmalloced(m, got, D, B, R, v, n)
  BY VmallocFacts
<1>3. n \in Nat \ {0} /\ Shaped(m)
  BY <1>1 DEF Kept
<1> HIDE DEF got, v
<1>4. Steady(m, got) /\ (v # 0 => v \in VmRange /\ v \notin Held(m.track))
  BY <1>2, <1>3, VmallocSteady
<1>5. AllMapped(m, got, D, v, n)
  BY <1>2, <1>3, VmallocSteady
<1>6. v # 0 /\ Held(m.track) = VmMapped(m) /\ Phys(got, d, v) # 0
          => Held(got.track) = VmMapped(got)
  <2>1. v \in Nat
    BY <1>2 DEF Vmalloced
  <2>2. \A y \in v .. v + n - 1 : y = v
    BY <1>1, <2>1
  <2> QED BY <1>5, <2>2 DEF AllMapped
<1>7. OneGot(m, got, D, B, R, d, v)
  BY <1>1, <1>2, <1>4, <1>6 DEF OneGot
<1> QED BY <1>1, <1>7 DEF got, v

\* create_process that finds no page: the kernel is lost.
LEMMA CreateLost ==
    ASSUME MInv, ~lost, NEW d \in Directory, mem' = Vmalloc(mem, d, 1), lost' = TRUE,
           UNCHANGED <<proc, reserved, heapEnd, dma, fat>>, cached' = 0
    PROVE  MInv'
<1> DEFINE v == VmPage(mem, 1)
           one == Vmalloc(mem, d, 1)
<1>1. /\ Kept(mem, Directory, Buffer, reserved) /\ Tabled(mem) /\ RangeKept(mem)
      /\ Shaped(mem)
  BY DEF MInv, Kept
<1>2. Vmalloced(mem, one, Directory, Buffer, reserved, v, 1)
  BY <1>1, OnePage DEF OneGot
<1> HIDE DEF v
<1>3. /\ Kept(one, Directory, Buffer, reserved) /\ RangeKept(one)
      /\ one.pd = mem.pd /\ one.boot = mem.boot
      /\ Packed(mem, reserved) => Packed(one, reserved)
  BY <1>2 DEF Vmalloced
<1>4. mem' = one
  OBVIOUS
<1> HIDE DEF one
<1>5. Directory' = Directory /\ Buffer' = Buffer
  BY <1>3, <1>4 DEF Directory, Live, Buffer
<1>6. Tabled(mem') /\ mem'.pd[mem'.boot][User] = 0
  BY <1>3, <1>4 DEF MInv, Tabled
<1>7. CacheKept'
  BY DEF CacheKept
<1>8. /\ proc' \in [Proc -> {NULL} \cup [dir : Nat, root : Nat, stack : Nat]]
      /\ cached' \in Nat /\ fat' \in Nat /\ (fat' # 0 => dma' # NULL)
      /\ heapEnd' \in Nat /\ heapEnd' >= HeapStart
      /\ \E map \in Maps : reserved' = PhysInitialized(map).used
      /\ dma' = NULL => Packed(mem', reserved')
  BY <1>3, <1>4 DEF MInv
<1>9. Kept(mem', Directory', Buffer', reserved') /\ RangeKept(mem')
  BY <1>3, <1>4, <1>5
<1> QED BY <1>6, <1>7, <1>8, <1>9 DEF MInv

-----------------------------------------------------------------------------
\* create_process that gets its page: the directory's frame is no directory yet.
LEMMA CreateMade ==
    ASSUME MInv, ~lost, NEW p \in Proc, proc[p] = NULL, NEW d \in Directory,
           NEW v, v = VmPage(mem, 1), NEW one, one = Vmalloc(mem, d, 1),
           Safe(one, d, v), NEW r, r = Phys(one, d, v),
           NEW copied, copied = CopiedTo(one, d, r),
           NEW w, w = VmPage(one, 1), mem' = Vmalloc(copied, d, 1),
           lost' = ~Safe(mem', d, w),
           proc' = [proc EXCEPT ![p] = [dir |-> v, root |-> r, stack |-> w]],
           UNCHANGED <<reserved, heapEnd, dma, fat>>, cached' = 0
    PROVE  MInv'
<1> DEFINE two == mem'
           x == [dir |-> v, root |-> r, stack |-> w]
<1>1. /\ Kept(mem, Directory, Buffer, reserved) /\ Tabled(mem) /\ RangeKept(mem)
      /\ Shaped(mem) /\ Held(mem.track) = VmMapped(mem)
      /\ mem.boot \in Directory
  BY DEF MInv, Kept, Directory
<1>2. OneGot(mem, one, Directory, Buffer, reserved, d, v)
  BY <1>1, OnePage
<1>3. /\ Kept(one, Directory, Buffer, reserved) /\ RangeKept(one) /\ Shaped(one)
      /\ one.pd = mem.pd /\ one.boot = mem.boot
      /\ Packed(mem, reserved) => Packed(one, reserved)
      /\ v \in Nat
      /\ Range(one.track) = Range(mem.track) \cup {One(v)}
  BY <1>2 DEF OneGot, Vmalloced, Kept, One
<1>4. /\ Steady(mem, one) /\ Held(mem.track) \subseteq Held(one.track)
      /\ v # 0 => v \in VmRange /\ v \notin Held(mem.track)
  BY <1>2 DEF OneGot, Vmalloced
<1>5. v # 0 /\ r # 0 /\ v \in VmRange /\ v \notin Held(mem.track)
  BY <1>4 DEF Safe
<1>6. v \div PER \in KernelSlot /\ r = Phys(one, one.boot, v)
  <2>1. v \div PER \in KernelSlot
    BY <1>5, VmPageFacts
  <2>2. DirectoriesKept(one, Directory)
    BY <1>3 DEF Kept
  <2> QED BY <1>3, <2>1, <2>2, PhysShared
<1>7. /\ r # one.boot /\ r \in Nat
      /\ \A z \in Nat : z \div PER \in KernelSlot /\ Phys(one, one.boot, z) = r => z = v
  BY <1>3, <1>5, <1>6, PageFrame
<1>8. \A q \in Live : OwnPages(mem, proc[q]) /\ OwnPages(one, proc[q])
  <2>1. \A q \in Live : OwnPages(mem, proc[q])
    BY ProcessesAre DEF MInv
  <2> QED BY <1>1, <1>4, <2>1, OwnSteady
<1>9. \A q \in Live : /\ proc[q].dir \in Held(mem.track) /\ proc[q].dir \in Nat
                     /\ proc[q].stack \in Held(mem.track)
  BY <1>1, <1>8, OwnHeld
<1>10. r \notin Directory
  <2> SUFFICES ASSUME NEW q \in Live, r = proc[q].root PROVE FALSE
    BY <1>3, <1>7 DEF Directory
  <2>1. Phys(one, one.boot, proc[q].dir) = r
    BY <1>8 DEF OwnPages
  <2>2. proc[q].dir \div PER \in KernelSlot
    BY Roots, VmPageFacts
  <2>3. proc[q].dir = v
    BY <1>7, <1>9, <2>1, <2>2
  <2> QED BY <1>5, <1>9, <2>3
<1>11. Tabled(one)
  BY <1>1, <1>3 DEF Tabled
<1>12. DirectoryMade(one, copied, Directory, Buffer, reserved, d, r)
  BY <1>3, <1>7, <1>10, <1>11, CopiedFacts
<1>13. /\ Kept(copied, Directory \cup {r}, Buffer, reserved) /\ Shaped(copied)
       /\ RangeKept(copied) /\ Steady(one, copied)
       /\ VmMapped(copied) = VmMapped(one) /\ Tabled(copied)
       /\ copied.ram = one.ram /\ copied.range = one.range
       /\ copied.track = one.track /\ copied.boot = one.boot
       /\ copied.pd[copied.boot] = one.pd[one.boot]
  BY <1>12 DEF DirectoryMade, Kept
<1>14. w = VmPage(copied, 1)
  BY <1>13 DEF VmPage
<1>15. OneGot(copied, two, Directory \cup {r}, Buffer, reserved, d, w)
  <2> DEFINE D == Directory \cup {r}
  <2>1. d \in D /\ Kept(copied, D, Buffer, reserved)
    BY <1>13
  <2> HIDE DEF D
  <2>2. OneGot(copied, Vmalloc(copied, d, 1), D, Buffer, reserved, d, VmPage(copied, 1))
    BY <1>13, <2>1, OnePage
  <2> QED BY <1>14, <2>2 DEF D
<1>16. /\ Kept(two, Directory \cup {r}, Buffer, reserved) /\ RangeKept(two)
       /\ two.pd = copied.pd /\ two.boot = copied.boot
       /\ Packed(copied, reserved) => Packed(two, reserved)
       /\ w \in Nat
       /\ Range(two.track) = Range(copied.track) \cup {One(w)}
  BY <1>15 DEF OneGot, Vmalloced, One
<1>17. Steady(copied, two) /\ (w # 0 => w \notin Held(copied.track))
  BY <1>15 DEF OneGot
<1> HIDE DEF two
<1>18. x \in [dir : Nat, root : Nat, stack : Nat] /\ x # NULL
  <2>1. x \in [dir : Nat, root : Nat, stack : Nat]
    BY <1>3, <1>7, <1>16
  <2>2. NULL \notin [dir : Int, root : Int, stack : Int]
    BY MemoryAssumption
  <2> QED BY <2>1, <2>2
<1>19. /\ proc' \in [Proc -> {NULL} \cup [dir : Nat, root : Nat, stack : Nat]]
       /\ proc'[p] = x /\ \A q \in Proc : q # p => proc'[q] = proc[q]
  <2>1. proc \in [Proc -> {NULL} \cup [dir : Nat, root : Nat, stack : Nat]]
    BY DEF MInv
  <2>2. proc' = [proc EXCEPT ![p] = x]
    OBVIOUS
  <2> HIDE DEF x
  <2> QED BY <1>18, <2>1, <2>2
<1>20. /\ x.dir = v /\ x.root = r /\ x.stack = w
  OBVIOUS
<1> HIDE DEF x
<1>21. Live' = Live \cup {p} /\ p \notin Live /\ \A q \in Live : q \in Proc /\ proc'[q] = proc[q]
  BY <1>18, <1>19 DEF Live
<1>22. Directory' = Directory \cup {r}
  <2>1. mem'.boot = mem.boot
    BY <1>3, <1>13, <1>16 DEF two
  <2>2. Directory' = {mem'.boot} \cup {proc'[q].root : q \in Live'}
    BY DEF Directory
  <2>3. {proc'[q].root : q \in Live \cup {p}} = {proc[q].root : q \in Live} \cup {r}
    BY <1>19, <1>20, <1>21
  <2> QED BY <1>21, <2>1, <2>2, <2>3 DEF Directory
<1>23. ASSUME ~lost' PROVE w # 0 /\ Held(two.track) = VmMapped(two) /\ ProcessesKept'
  <2>1. w # 0 /\ Phys(two, d, w) # 0
    BY <1>23 DEF Safe, two
  <2>2. Held(one.track) = VmMapped(one)
    BY <1>1, <1>2, <1>5 DEF OneGot
  <2>3. Held(copied.track) = VmMapped(copied)
    BY <1>13, <2>2
  <2>4. Held(two.track) = VmMapped(two)
    BY <1>15, <2>1, <2>3 DEF OneGot
  <2>5. ASSUME NEW q \in Live PROVE OwnPages(two, proc[q])
    <3>1. OwnPages(copied, proc[q])
      BY <1>3, <1>8, <1>13, OwnSteady
    <3> QED BY <1>13, <1>17, <3>1, OwnSteady
  <2>6. v \in Held(one.track) /\ One(v) \in Range(one.track) /\ One(v).page = v
    <3>1. One(v).page = v
      BY DEF One
    <3>2. One(v) \in Range(one.track)
      BY <1>3
    <3>3. one.track \in Seq(Node)
      BY <1>3 DEF Shaped
    <3>4. One(v).page \in Held(one.track)
      BY <1>5, <3>1, <3>2, <3>3, OneHeld
    <3> QED BY <3>1, <3>2, <3>4
  <2>7. OwnPages(two, x)
    <3>1. One(v) \in Range(copied.track)
      BY <1>13, <2>6
    <3>2. One(v) \in Range(two.track) /\ One(w) \in Range(two.track)
      BY <1>16, <3>1
    <3>3. Phys(copied, copied.boot, v) = r
      BY <1>6, <1>13, <2>6 DEF Steady
    <3>4. Phys(two, two.boot, v) = r
      BY <1>13, <1>17, <2>6, <3>3 DEF Steady
    <3> QED BY <1>5, <1>20, <2>1, <3>2, <3>4 DEF OwnPages
  <2>8. v # w /\ \A q \in Live : v # proc[q].dir /\ v # proc[q].stack
                               /\ w # proc[q].dir /\ w # proc[q].stack
    <3>1. w \notin Held(one.track)
      BY <1>13, <1>17, <2>1
    <3> QED BY <1>4, <1>5, <1>9, <2>6, <3>1
  <2>9. Distinct(proc', Live')
    <3>1. Distinct(proc, Live)
      BY ProcessesAre DEF MInv
    <3> QED BY <1>19, <1>20, <1>21, <2>8, <3>1 DEF Distinct
  <2>10. \A q \in Live' : OwnPages(mem', proc'[q])
    BY <1>19, <1>21, <2>5, <2>7 DEF two
  <2>11. ProcessesKept'
    BY <2>9, <2>10 DEF ProcessesKept, OwnPages, Distinct
  <2> QED BY <2>1, <2>4, <2>11
<1>24. Tabled(mem') /\ mem'.pd[mem'.boot][User] = 0
  BY <1>3, <1>13, <1>16 DEF MInv, Tabled, two
<1>25. Buffer' = Buffer
  BY DEF Buffer
<1>26. CacheKept'
  BY DEF CacheKept
<1>27. /\ cached' \in Nat /\ fat' \in Nat /\ (fat' # 0 => dma' # NULL)
       /\ heapEnd' \in Nat /\ heapEnd' >= HeapStart
       /\ \E map \in Maps : reserved' = PhysInitialized(map).used
  BY DEF MInv
<1>28. dma' = NULL => Packed(mem', reserved')
  <2>1. Packed(one, reserved) => Packed(copied, reserved)
    BY <1>13 DEF Packed
  <2> QED BY <1>3, <1>16, <2>1 DEF MInv, two
<1>29. Kept(mem', Directory', Buffer', reserved') /\ RangeKept(mem')
  BY <1>16, <1>22, <1>25 DEF two
<1>30. ~lost' => Held(mem'.track) = VmMapped(mem') /\ ProcessesKept'
  BY <1>23 DEF two
<1> QED BY <1>19, <1>24, <1>26, <1>27, <1>28, <1>29, <1>30 DEF MInv

LEMMA CreateProcessStep ==
    ASSUME MInv, ~lost, NEW p \in Proc, NEW d \in Directory, CreateProcess(p, d)
    PROVE  MInv'
<1>1. PICK v : v = VmPage(mem, 1)
  OBVIOUS
<1>2. PICK one : one = Vmalloc(mem, d, 1)
  OBVIOUS
<1>3. PICK r : r = Phys(one, d, v)
  OBVIOUS
<1>4. PICK copied : copied = CopiedTo(one, d, r)
  OBVIOUS
<1>5. PICK w : w = VmPage(one, 1)
  OBVIOUS
<1>6. /\ proc[p] = NULL /\ cached' = 0
      /\ UNCHANGED <<reserved, heapEnd, dma, fat>>
      /\ IF ~Safe(one, d, v) THEN
             mem' = one /\ lost' = TRUE /\ UNCHANGED proc
         ELSE
             /\ mem' = Vmalloc(copied, d, 1)
             /\ lost' = ~Safe(Vmalloc(copied, d, 1), d, w)
             /\ proc' = [proc EXCEPT ![p] = [dir |-> v, root |-> r, stack |-> w]]
  BY <1>1, <1>2, <1>3, <1>4, <1>5 DEF CreateProcess, CopiedTo
<1>7. CASE ~Safe(one, d, v)
  <2>1. mem' = Vmalloc(mem, d, 1) /\ lost' = TRUE /\ UNCHANGED proc
    BY <1>2, <1>6, <1>7
  <2> QED BY <1>6, <2>1, CreateLost
<1>8. CASE Safe(one, d, v)
  <2>1. /\ mem' = Vmalloc(copied, d, 1)
        /\ lost' = ~Safe(mem', d, w)
        /\ proc' = [proc EXCEPT ![p] = [dir |-> v, root |-> r, stack |-> w]]
    BY <1>6, <1>8
  <2> QED BY <1>1, <1>2, <1>3, <1>4, <1>5, <1>6, <1>8, <2>1, CreateMade
<1> QED BY <1>7, <1>8

-----------------------------------------------------------------------------
\* Entries are cleared, none is set.
Shrunk(m, n) ==
    /\ DOMAIN n.pt = DOMAIN m.pt
    /\ \A y \in DOMAIN m.pt, j \in 0 .. PER - 1 : n.pt[y][j] \in {0, m.pt[y][j]}

\* The part of VIRTMEM_destroyAddressSpace before its vfree: what n keeps of m.
Passed(m, n, D, B, R) ==
    /\ Kept(n, D, B, R) /\ Shrunk(m, n)
    /\ n.range = m.range /\ n.track = m.track /\ n.boot = m.boot
    /\ \A w \in Nat : w \div PER \in KernelSlot
          => Phys(n, n.boot, w) = Phys(m, m.boot, w)
    /\ \A z \in Slot \ {User} : n.pd[n.boot][z] = m.pd[m.boot][z]

LEMMA PassedThen ==
    ASSUME NEW m, NEW n, NEW k, NEW D, NEW B, NEW R, NEW E,
           Passed(m, n, D, B, R), Passed(n, k, E, B, R)
    PROVE  Passed(m, k, E, B, R)
<1>1. Shrunk(m, k)
  BY DEF Passed, Shrunk
<1> QED BY <1>1 DEF Passed

LEMMA SamePhys ==
    ASSUME NEW m, NEW n, n.boot = m.boot, n.pt = m.pt,
           \A z \in Slot \ {User} : n.pd[n.boot][z] = m.pd[m.boot][z]
    PROVE  /\ Shrunk(m, n)
           /\ \A w \in Nat : w \div PER \in KernelSlot
                 => Phys(n, n.boot, w) = Phys(m, m.boot, w)
<1>1. ASSUME NEW w \in Nat, w \div PER \in KernelSlot
      PROVE  Phys(n, n.boot, w) = Phys(m, m.boot, w)
  <2>1. w \div PER \in Slot \ {User}
    BY <1>1, SlotFacts
  <2> QED BY <2>1 DEF Phys
<1>2. Shrunk(m, n)
  BY DEF Shrunk
<1> QED BY <1>1, <1>2

EnteredFrom(m, r) == [m EXCEPT !.pd[m.boot][User] = m.pd[r][User]]

LEMMA EnteredFacts ==
    ASSUME NEW m, NEW D, NEW B, NEW R, Kept(m, D, B, R), NEW r \in D, r # m.boot,
           m.pd[m.boot][User] = 0, NEW n, n = EnteredFrom(m, r)
    PROVE  /\ Passed(m, n, D \ {r}, B, R)
           /\ n.pt = m.pt /\ n.pd[n.boot][User] = m.pd[r][User]
<1>1. /\ Shaped(m) /\ m.boot \in DOMAIN m.pd /\ r \in DOMAIN m.pd
      /\ m.pd \in [DOMAIN m.pd -> [Slot -> Nat]] /\ User \in Slot
  BY SlotFacts DEF Kept, DirectoriesKept, Shaped, User
<1> DEFINE pd == [m.pd EXCEPT ![m.boot][User] = m.pd[r][User]]
<1>2. m.pd[r][User] \in Nat
  BY <1>1
<1>3. /\ pd \in [DOMAIN pd -> [Slot -> Nat]] /\ DOMAIN pd = DOMAIN m.pd
      /\ \A e \in DOMAIN m.pd, z \in Slot :
            pd[e][z] = IF e = m.boot /\ z = User THEN m.pd[r][User] ELSE m.pd[e][z]
  BY <1>1, <1>2, PdEntry
<1>4. n = WithPd(m, pd)
  BY <1>1 DEF WithPd, EnteredFrom, Shaped
<1>5. Entered(m, n, r) <=> n.ram = m.ram /\ n.pt = m.pt /\ n.boot = m.boot /\ n.pd = pd
  BY DEF Entered
<1> HIDE DEF pd
<1>6. /\ Shaped(n) /\ n.pd = pd
      /\ n.ram = m.ram /\ n.range = m.range /\ n.track = m.track
      /\ n.boot = m.boot /\ n.pt = m.pt
  BY <1>1, <1>3, <1>4, PdSet
<1>7. Kept(n, D \ {r}, B, R)
  BY <1>5, <1>6, EnterTable
<1>8. /\ \A z \in Slot \ {User} : n.pd[n.boot][z] = m.pd[m.boot][z]
      /\ n.pd[n.boot][User] = m.pd[r][User]
  BY <1>1, <1>3, <1>6
<1>9. /\ Shrunk(m, n)
      /\ \A w \in Nat : w \div PER \in KernelSlot
            => Phys(n, n.boot, w) = Phys(m, m.boot, w)
  BY <1>6, <1>8, SamePhys
<1> QED BY <1>6, <1>7, <1>8, <1>9 DEF Passed

UserCleared(m, n, D, B, R, t) ==
    /\ Passed(m, n, D, B, R) /\ n.pd = m.pd
    /\ t \in DOMAIN n.pt /\ \A j \in 0 .. PER - 1 : n.pt[t][j] = 0

\* Clearing the user table that has entered the boot directory, which the
\* kernel's pages are not in.
LEMMA ClearedUser ==
    ASSUME NEW m, NEW D, NEW B, NEW R, Kept(m, D, B, R),
           NEW t, t = m.pd[m.boot][User], t # 0, NEW n, n = Cleared(m, t)
    PROVE  UserCleared(m, n, D, B, R, t)
<1>1. m.boot \in D /\ User \in KernelSlot \cup {User} /\ User \in Slot
  BY SlotFacts DEF Kept, DirectoriesKept, User
<1>2. t \in PageTables(m, D) /\ t \in DOMAIN m.pt
  BY <1>1, TablesIn
<1>3. Emptied(m, n, D, B, R, t, 0 .. PER - 1)
  BY <1>2, ClearedFacts
<1>4. /\ Kept(n, D, B, R) /\ n.pd = m.pd /\ n.boot = m.boot
      /\ n.range = m.range /\ n.track = m.track
      /\ DOMAIN n.pt = DOMAIN m.pt
      /\ \A y \in DOMAIN m.pt, j \in 0 .. PER - 1 :
            n.pt[y][j] = IF y = t THEN 0 ELSE m.pt[y][j]
  BY <1>3 DEF Emptied, Still
<1>5. Shrunk(m, n)
  BY <1>4 DEF Shrunk
<1>6. ASSUME NEW w \in Nat, w \div PER \in KernelSlot
      PROVE  Phys(n, n.boot, w) = Phys(m, m.boot, w)
  <2> DEFINE s == w \div PER
             i == w % PER
             y == m.pd[m.boot][s]
  <2>1. s \in KernelSlot /\ s \in Slot /\ s # User /\ s # Identity
    BY <1>6, SlotFacts
  <2>2. i \in 0 .. PER - 1
    BY DivMod, Sizes
  <2>3. /\ Phys(n, n.boot, w) = IF s = Identity THEN w ELSE IF y = 0 THEN 0 ELSE n.pt[y][i]
        /\ Phys(m, m.boot, w) = IF s = Identity THEN w ELSE IF y = 0 THEN 0 ELSE m.pt[y][i]
    BY <1>4 DEF Phys
  <2>4. CASE y = 0
    BY <2>1, <2>3, <2>4
  <2>5. CASE y # 0
    <3>1. s \in KernelSlot \cup {User}
      BY <2>1
    <3>2. y \in DOMAIN m.pt
      <4> HIDE DEF s
      <4> QED BY <1>1, <2>5, <3>1, TablesIn
    <3>3. y # t
      <4>1. User \in OwnSlots(m, m.boot) /\ s \in OwnSlots(m, m.boot)
        BY <1>1, <2>1 DEF OwnSlots
      <4> HIDE DEF s
      <4> QED BY <1>1, <2>1, <2>5, <4>1, TableOnce
    <3> HIDE DEF s, i, y
    <3>4. n.pt[y][i] = m.pt[y][i]
      BY <1>4, <2>2, <3>2, <3>3
    <3> QED BY <2>3, <3>4
  <2> QED BY <2>4, <2>5
<1>7. Passed(m, n, D, B, R)
  BY <1>4, <1>5, <1>6 DEF Passed
<1> QED BY <1>2, <1>4, <1>7 DEF UserCleared

\* VIRTMEM_unMapTable of the user table, if there is one.
LEMMA UnMapTableFacts ==
    ASSUME NEW m, NEW D, NEW B, NEW R, Kept(m, D, B, R),
           NEW n, n = UnMapTable(m, m.boot, User)
    PROVE  /\ Passed(m, n, D, B, R) /\ n.pt = m.pt
           /\ n.pd[n.boot][User] = 0 /\ \A e \in D \ {m.boot} : n.pd[e] = m.pd[e]
<1> DEFINE f == m.pd[m.boot][User]
           k == FreeBlock(m, f)
           pd == [m.pd EXCEPT ![m.boot][User] = 0]
<1>1. /\ Shaped(m) /\ FramesKept(m, R) /\ m.boot \in DOMAIN m.pd /\ m.boot \in D
      /\ D \subseteq DOMAIN m.pd
      /\ m.pd \in [DOMAIN m.pd -> [Slot -> Nat]] /\ User \in Slot
  BY SlotFacts DEF Kept, DirectoriesKept, Shaped, User
<1>2. /\ pd \in [DOMAIN pd -> [Slot -> Nat]] /\ DOMAIN pd = DOMAIN m.pd
      /\ \A e \in DOMAIN m.pd, z \in Slot :
            pd[e][z] = IF e = m.boot /\ z = User THEN 0 ELSE m.pd[e][z]
  <2>1. PICK x \in Nat : x = 0
    OBVIOUS
  <2>2. PICK q : q = [m.pd EXCEPT ![m.boot][User] = x]
    OBVIOUS
  <2>3. /\ q \in [DOMAIN q -> [Slot -> Nat]] /\ DOMAIN q = DOMAIN m.pd
        /\ \A e \in DOMAIN m.pd, z \in Slot :
              q[e][z] = IF e = m.boot /\ z = User THEN x ELSE m.pd[e][z]
    BY <1>1, <2>2, PdEntry
  <2>4. q = pd
    BY <2>1, <2>2
  <2> HIDE DEF pd
  <2> QED BY <2>1, <2>3, <2>4
<1>3. /\ Shaped(k) /\ FramesKept(k, R) /\ k.pd = m.pd /\ k.pt = m.pt
      /\ k.boot = m.boot /\ k.range = m.range /\ k.track = m.track
      /\ f = 0 => k = m
      /\ f # 0 => k.ram.used = m.ram.used \ {f}
  <2>1. CASE f = 0
    <3>1. k = m
      BY <2>1 DEF FreeBlock
    <3> QED BY <1>1, <2>1, <3>1
  <2>2. CASE f # 0
    <3>1. User \in KernelSlot \cup {User}
      OBVIOUS
    <3>2. f \in PageTables(m, D)
      BY <1>1, <2>2, <3>1, TablesIn
    <3>3. f \in m.ram.used \ R
      BY <3>2, UsedFrames
    <3> HIDE DEF f
    <3> QED BY <1>1, <2>2, <3>3, FreeFacts
  <2> QED BY <2>1, <2>2
<1>4. n = WithPd(k, pd)
  BY <1>3 DEF WithPd, UnMapTable, Shaped
<1>5. LostTable(m, n) <=>
        /\ n.ram.used = m.ram.used \ {f} /\ n.boot = m.boot
        /\ n.pd = pd /\ n.pt = m.pt
  BY DEF LostTable
<1>6. \A e \in DOMAIN m.pd : e # m.boot => pd[e] = m.pd[e]
  BY <1>1
<1>7. f = 0 => pd = m.pd
  BY <1>1
<1> HIDE DEF pd, k, f
<1>8. /\ Shaped(n) /\ n.pd = pd
      /\ n.ram = k.ram /\ n.range = m.range /\ n.track = m.track
      /\ n.boot = m.boot /\ n.pt = m.pt
  BY <1>2, <1>3, <1>4, PdSet
<1>9. FramesKept(n, R)
  BY <1>3, <1>8 DEF FramesKept
<1>10. Kept(n, D, B, R)
  <2>1. CASE f = 0
    <3>1. n.ram = m.ram /\ n.pd = m.pd
      BY <1>3, <1>7, <1>8, <2>1
    <3> QED BY <1>1, <1>8, <3>1, SameUses
  <2>2. CASE f # 0
    <3>1. LostTable(m, n)
      BY <1>3, <1>5, <1>8, <2>2
    <3>2. m.pd[m.boot][User] # 0
      BY <2>2 DEF f
    <3> QED BY <1>8, <1>9, <3>1, <3>2, DropTable
  <2> QED BY <2>1, <2>2
<1>11. /\ \A z \in Slot \ {User} : n.pd[n.boot][z] = m.pd[m.boot][z]
       /\ n.pd[n.boot][User] = 0
  BY <1>1, <1>2, <1>8
<1>12. /\ Shrunk(m, n)
       /\ \A w \in Nat : w \div PER \in KernelSlot
             => Phys(n, n.boot, w) = Phys(m, m.boot, w)
  BY <1>8, <1>11, SamePhys
<1> QED BY <1>1, <1>6, <1>8, <1>10, <1>11, <1>12 DEF Passed

\* The directory that is destroyed is no directory any more.
Dropped(m, r) == [m EXCEPT !.pd = Restrict(@, DOMAIN @ \ {r})]

LEMMA DroppedFacts ==
    ASSUME NEW m, NEW D, NEW B, NEW R, Kept(m, D, B, R), NEW r, r \notin D,
           NEW n, n = Dropped(m, r)
    PROVE  /\ Kept(n, D, B, R) /\ n.pt = m.pt
           /\ n.range = m.range /\ n.track = m.track /\ n.boot = m.boot
           /\ n.pd[n.boot] = m.pd[m.boot]
<1> DEFINE pd == Restrict(m.pd, DOMAIN m.pd \ {r})
<1>1. /\ Shaped(m) /\ m.boot \in D /\ D \subseteq DOMAIN m.pd
      /\ m.pd \in [DOMAIN m.pd -> [Slot -> Nat]]
  BY DEF Kept, DirectoriesKept, Shaped
<1>2. /\ DOMAIN pd = DOMAIN m.pd \ {r} /\ \A e \in DOMAIN m.pd \ {r} : pd[e] = m.pd[e]
      /\ pd \in [DOMAIN pd -> [Slot -> Nat]]
  BY <1>1 DEF Restrict
<1>3. n = WithPd(m, pd)
  BY DEF WithPd, Dropped
<1> HIDE DEF pd
<1>4. /\ Shaped(n) /\ n.pd = pd
      /\ n.ram = m.ram /\ n.range = m.range /\ n.track = m.track
      /\ n.boot = m.boot /\ n.pt = m.pt
  BY <1>1, <1>2, <1>3, PdSet
<1>5. D \subseteq DOMAIN n.pd /\ \A e \in D : n.pd[e] = m.pd[e]
  BY <1>1, <1>2, <1>4
<1>6. Kept(n, D, B, R)
  BY <1>1, <1>4, <1>5, SameUses
<1> QED BY <1>1, <1>4, <1>5, <1>6

-----------------------------------------------------------------------------
LEMMA AllZero ==
    ASSUME NEW m, Shaped(m), NEW t \in DOMAIN m.pt, \A j \in 0 .. PER - 1 : m.pt[t][j] = 0
    PROVE  m.pt[t] = NoEntries
<1>1. m.pt[t] \in [0 .. PER - 1 -> Nat]
  BY DEF Shaped
<1> QED BY <1>1 DEF NoEntries

\* A table without entries stays one.
LEMMA StaysEmpty ==
    ASSUME NEW m, NEW n, Shrunk(m, n), Shaped(n), NEW t \in DOMAIN m.pt,
           m.pt[t] = NoEntries
    PROVE  t \in DOMAIN n.pt /\ n.pt[t] = NoEntries
<1>1. t \in DOMAIN n.pt
  BY DEF Shrunk
<1>2. ASSUME NEW j \in 0 .. PER - 1 PROVE n.pt[t][j] = 0
  <2>1. m.pt[t][j] = 0
    BY DEF NoEntries
  <2> QED BY <2>1 DEF Shrunk
<1> QED BY <1>1, <1>2, AllZero

\* What the cleaner does with the table that it reads at the address of the
\* user table: the one that has entered the boot directory, or a stale one.
LEMMA ClearedEither ==
    ASSUME NEW m, NEW D, NEW B, NEW R, Kept(m, D, B, R), NEW seen,
           seen # 0 => seen \in DOMAIN m.pt /\ m.pt[seen] = NoEntries,
           NEW t, t = IF m.pd[m.boot][User] # 0 /\ seen # 0 THEN seen
                      ELSE m.pd[m.boot][User],
           NEW n, n = IF t = 0 THEN m ELSE Cleared(m, t)
    PROVE  /\ Passed(m, n, D, B, R) /\ n.pd = m.pd
           /\ t # 0 => t \in DOMAIN n.pt /\ n.pt[t] = NoEntries
<1>1. Shaped(m) /\ Passed(m, m, D, B, R)
  BY DEF Kept, Passed, Shrunk
<1>2. CASE t = 0
  BY <1>1, <1>2
<1>3. CASE t # 0 /\ t = seen
  <2>1. t \in DOMAIN m.pt /\ m.pt[t] = NoEntries
    BY <1>3
  <2>2. n = m
    BY <1>3, <2>1, ClearedNothing
  <2> QED BY <1>1, <2>1, <2>2
<1>4. CASE t # 0 /\ t = m.pd[m.boot][User]
  <2>1. n = Cleared(m, t)
    BY <1>4
  <2>2. /\ Passed(m, n, D, B, R) /\ n.pd = m.pd
        /\ t \in DOMAIN n.pt /\ \A j \in 0 .. PER - 1 : n.pt[t][j] = 0
    <3>1. UserCleared(m, n, D, B, R, t)
      BY <1>4, <2>1, ClearedUser
    <3> QED BY <3>1 DEF UserCleared
  <2>3. Shaped(n)
    BY <2>2 DEF Passed, Kept
  <2> QED BY <2>2, <2>3, AllZero
<1> QED BY <1>2, <1>3, <1>4

\* VIRTMEM_destroyAddressSpace, of a directory other than the first.
Gone(m, n, D, B, R, v, t) ==
    /\ Kept(n, D, B, R) /\ RangeKept(n) /\ Shrunk(m, n) /\ n.boot = m.boot
    /\ \A z \in Slot \ {User} : n.pd[n.boot][z] = m.pd[m.boot][z]
    /\ n.pd[n.boot][User] = 0
    /\ Held(m.track) = VmMapped(m) => Held(n.track) = VmMapped(n)
    /\ \A x \in Range(m.track) : x.page # v => x \in Range(n.track)
    /\ \A w \in Held(n.track) : Phys(n, n.boot, w) = Phys(m, m.boot, w)
    /\ t # 0 => t \in DOMAIN n.pt /\ n.pt[t] = NoEntries

LEMMA DestroyedFacts ==
    ASSUME NEW m, NEW D, NEW B, NEW R, Kept(m, D, B, R), RangeKept(m),
           m.pd[m.boot][User] = 0, NEW r \in D, r # m.boot, NEW seen,
           seen # 0 => seen \in DOMAIN m.pt /\ m.pt[seen] = NoEntries, NEW v
    PROVE  Gone(m, Destroyed(m, r, v, seen), D \ {r}, B, R, v, Table(m, r, seen))
<1>1. PICK a : a = EnteredFrom(m, r)
  OBVIOUS
<1>2. PICK t : t = Table(m, r, seen)
  OBVIOUS
<1>3. PICK c : c = IF t = 0 THEN a ELSE Cleared(a, t)
  OBVIOUS
<1>4. PICK u : u = UnMapTable(c, c.boot, User)
  OBVIOUS
<1>5. PICK g : g = Vfree(u, u.boot, v)
  OBVIOUS
<1>6. PICK n : n = Dropped(g, r)
  OBVIOUS
<1>7. PICK E : E = D \ {r}
  OBVIOUS
<1>10. /\ Passed(m, a, E, B, R) /\ a.pt = m.pt /\ a.pd[a.boot][User] = m.pd[r][User]
  BY <1>1, <1>7, EnteredFacts
<1>11. /\ Passed(a, c, E, B, R) /\ c.pd = a.pd
       /\ t # 0 => t \in DOMAIN c.pt /\ c.pt[t] = NoEntries
  <2>1. t = IF a.pd[a.boot][User] # 0 /\ seen # 0 THEN seen ELSE a.pd[a.boot][User]
    BY <1>2, <1>10 DEF Table
  <2>2. seen # 0 => seen \in DOMAIN a.pt /\ a.pt[seen] = NoEntries
    BY <1>10
  <2>3. Kept(a, E, B, R)
    BY <1>10 DEF Passed
  <2> QED BY <1>3, <2>1, <2>2, <2>3, ClearedEither
<1>12. Passed(m, c, E, B, R)
  BY <1>10, <1>11, PassedThen
<1>13. /\ Passed(c, u, E, B, R) /\ u.pt = c.pt /\ u.pd[u.boot][User] = 0
  <2>1. Kept(c, E, B, R)
    BY <1>12 DEF Passed
  <2> QED BY <1>4, <2>1, UnMapTableFacts
<1>14. Passed(m, u, E, B, R)
  BY <1>12, <1>13, PassedThen
<1>15. RangeKept(u) /\ VmMapped(u) = VmMapped(m) /\ Steady(m, u)
  <2>1. \A w \in VmRange : Phys(u, u.boot, w) = Phys(m, m.boot, w)
    BY <1>14, VmPageFacts DEF Passed
  <2> QED BY <1>14, <2>1, SameVm DEF Passed
<1>16. Kept(u, E, B, R) /\ u.boot \in E
  BY <1>14 DEF Passed, Kept, DirectoriesKept
<1>17. Vfreed(u, g, E, B, R, v)
  BY <1>5, <1>15, <1>16, VfreeFacts
<1>18. Kept(g, E, B, R) /\ RangeKept(g) /\ g.boot = u.boot /\ g.pd = u.pd
  BY <1>17 DEF Vfreed
<1>19. /\ Kept(n, E, B, R) /\ n.pt = g.pt
       /\ n.range = g.range /\ n.track = g.track /\ n.boot = g.boot
       /\ n.pd[n.boot] = g.pd[g.boot]
  <2>1. r \notin E
    BY <1>7
  <2> QED BY <1>6, <1>18, <2>1, DroppedFacts
<1>20. RangeKept(n) /\ VmMapped(n) = VmMapped(g) /\ Steady(g, n)
  <2>1. \A w \in VmRange : Phys(n, n.boot, w) = Phys(g, g.boot, w)
    BY <1>19 DEF Phys
  <2> QED BY <1>18, <1>19, <2>1, SameVm
<1>21. n = Destroyed(m, r, v, seen)
  <2>1. a.boot = m.boot /\ c.boot = m.boot /\ u.boot = m.boot
    BY <1>10, <1>12, <1>14 DEF Passed
  <2>2. Destroyed(m, r, v, seen)
          = [Vfree(UnMapTable(IF t = 0 THEN a ELSE Cleared(a, t), m.boot, User), m.boot, v)
                EXCEPT !.pd = Restrict(@, DOMAIN @ \ {r})]
    BY <1>1, <1>2 DEF Destroyed, EnteredFrom
  <2>3. Destroyed(m, r, v, seen) = [g EXCEPT !.pd = Restrict(@, DOMAIN @ \ {r})]
    BY <1>3, <1>4, <1>5, <2>1, <2>2
  <2> QED BY <1>6, <2>3 DEF Dropped
<1>22. Shrunk(m, n)
  <2>1. Shrunk(m, u)
    BY <1>14 DEF Passed
  <2>2. Shrunk(u, n)
    BY <1>17, <1>19 DEF Vfreed, Shrunk
  <2> QED BY <2>1, <2>2 DEF Shrunk
<1>23. n.boot = m.boot /\ \A z \in Slot \ {User} : n.pd[n.boot][z] = m.pd[m.boot][z]
  <2>1. /\ u.boot = m.boot
        /\ \A z \in Slot \ {User} : u.pd[u.boot][z] = m.pd[m.boot][z]
    BY <1>14 DEF Passed
  <2> QED BY <1>18, <1>19, <2>1
<1>24. n.pd[n.boot][User] = 0
  BY <1>13, <1>18, <1>19
<1>25. Held(m.track) = VmMapped(m) => Held(n.track) = VmMapped(n)
  <2>1. u.track = m.track
    BY <1>14 DEF Passed
  <2>2. Held(u.track) = VmMapped(u) => Held(g.track) = VmMapped(g)
    BY <1>17 DEF Vfreed
  <2> QED BY <1>15, <1>19, <1>20, <2>1, <2>2
<1>26. \A x \in Range(m.track) : x.page # v => x \in Range(n.track)
  <2>1. u.track = m.track
    BY <1>14 DEF Passed
  <2>2. \A x \in Range(u.track) : x.page # v => x \in Range(g.track)
    BY <1>17 DEF Vfreed
  <2> QED BY <1>19, <2>1, <2>2
<1>27. ASSUME NEW w \in Held(n.track) PROVE Phys(n, n.boot, w) = Phys(m, m.boot, w)
  <2>1. w \in Held(g.track)
    BY <1>19, <1>27
  <2>2. w \in VmRange
    BY <1>18, <2>1, HeldPages
  <2>3. Phys(n, n.boot, w) = Phys(g, g.boot, w)
    BY <1>20, <2>1 DEF Steady
  <2>4. Phys(g, g.boot, w) = Phys(u, u.boot, w)
    BY <1>17, <2>1 DEF Vfreed
  <2>5. Phys(u, u.boot, w) = Phys(m, m.boot, w)
    BY <1>14, <2>2, VmPageFacts DEF Passed
  <2> QED BY <2>3, <2>4, <2>5
<1>28. t # 0 => t \in DOMAIN n.pt /\ n.pt[t] = NoEntries
  <2> SUFFICES ASSUME t # 0 PROVE t \in DOMAIN n.pt /\ n.pt[t] = NoEntries
    OBVIOUS
  <2>1. t \in DOMAIN u.pt /\ u.pt[t] = NoEntries
    BY <1>11, <1>13
  <2>2. Shrunk(u, n)
    BY <1>17, <1>19 DEF Vfreed, Shrunk
  <2>3. Shaped(n)
    BY <1>19 DEF Kept
  <2> QED BY <2>1, <2>2, <2>3, StaysEmpty
<1>29. Gone(m, n, E, B, R, v, t)
  BY <1>19, <1>20, <1>22, <1>23, <1>24, <1>25, <1>26, <1>27, <1>28 DEF Gone
<1> QED BY <1>2, <1>7, <1>21, <1>29

LEMMA DeleteProcessStep ==
    ASSUME MInv, ~lost, NEW p \in Live, fat # 0, DeleteProcess(p)
    PROVE  MInv'
<1>1. PICK seen \in {cached, 0} :
        /\ mem' = Vfree(Destroyed(mem, proc[p].root, proc[p].dir, seen),
                        mem.boot, proc[p].stack)
        /\ cached' = IF Table(mem, proc[p].root, seen) = 0 THEN cached
                     ELSE Table(mem, proc[p].root, seen)
  BY DEF DeleteProcess
<1>2. /\ proc' = [proc EXCEPT ![p] = NULL]
      /\ UNCHANGED <<reserved, heapEnd, dma, fat, lost>>
  BY DEF DeleteProcess
<1>3. PICK r : r = proc[p].root
  OBVIOUS
<1>4. PICK v : v = proc[p].dir
  OBVIOUS
<1>5. PICK s : s = proc[p].stack
  OBVIOUS
<1>6. PICK t : t = Table(mem, r, seen)
  OBVIOUS
<1>7. PICK a : a = Destroyed(mem, r, v, seen)
  OBVIOUS
<1>8. PICK E : E = Directory \ {r}
  OBVIOUS
<1>10. /\ Kept(mem, Directory, Buffer, reserved) /\ Tabled(mem) /\ RangeKept(mem)
       /\ Shaped(mem) /\ Held(mem.track) = VmMapped(mem)
       /\ mem.pd[mem.boot][User] = 0 /\ r \in Directory
       /\ proc \in [Proc -> {NULL} \cup [dir : Nat, root : Nat, stack : Nat]]
       /\ p \in Proc
  BY <1>3 DEF MInv, Kept, Directory, Live
<1>11. r # mem.boot
  BY <1>3, Roots
<1>12. seen # 0 => seen \in DOMAIN mem.pt /\ mem.pt[seen] = NoEntries
  BY DEF MInv, CacheKept
<1>13. Gone(mem, a, E, Buffer, reserved, v, t)
  BY <1>6, <1>7, <1>8, <1>10, <1>11, <1>12, DestroyedFacts
<1>14. Kept(a, E, Buffer, reserved) /\ RangeKept(a) /\ a.boot = mem.boot /\ a.boot \in E
  BY <1>13 DEF Gone, Kept, DirectoriesKept
<1>15. mem' = Vfree(a, a.boot, s)
  BY <1>1, <1>3, <1>4, <1>5, <1>7, <1>14
<1>16. Vfreed(a, mem', E, Buffer, reserved, s)
  BY <1>14, <1>15, VfreeFacts
<1>17. /\ Kept(mem', E, Buffer, reserved) /\ RangeKept(mem') /\ Shaped(mem')
       /\ mem'.pd = a.pd /\ mem'.boot = mem.boot
       /\ Shrunk(a, mem')
  BY <1>14, <1>16 DEF Vfreed, Kept, Shrunk
<1>18. /\ Live' = Live \ {p} /\ \A q \in Live \ {p} : q \in Proc /\ proc'[q] = proc[q]
       /\ proc' \in [Proc -> {NULL} \cup [dir : Nat, root : Nat, stack : Nat]]
  BY <1>2, <1>10 DEF Live
<1>19. Directory' = E
  <2>1. Directory' = {mem'.boot} \cup {proc'[q].root : q \in Live'}
    BY DEF Directory
  <2>2. {proc'[q].root : q \in Live \ {p}} = {proc[q].root : q \in Live} \ {r}
    <3>1. \A q \in Live : proc[q].root = r => q = p
      BY <1>3, Roots
    <3> QED BY <1>3, <1>18, <3>1
  <2> QED BY <1>8, <1>11, <1>17, <1>18, <2>1, <2>2 DEF Directory
<1>20. Held(mem'.track) = VmMapped(mem')
  BY <1>10, <1>13, <1>16 DEF Gone, Vfreed
<1>21. ASSUME NEW q \in Live, q # p PROVE OwnPages(mem', proc[q])
  <2>1. OwnPages(mem, proc[q]) /\ Distinct(proc, Live)
    BY ProcessesAre DEF MInv
  <2>2. /\ proc[q].dir # v /\ proc[q].stack # v /\ proc[q].dir # s /\ proc[q].stack # s
    BY <1>4, <1>5, <1>21, <2>1 DEF Distinct
  <2>3. One(proc[q].dir).page = proc[q].dir /\ One(proc[q].stack).page = proc[q].stack
    BY DEF One
  <2>4. One(proc[q].dir) \in Range(a.track) /\ One(proc[q].stack) \in Range(a.track)
    BY <1>13, <2>1, <2>2, <2>3 DEF OwnPages, Gone
  <2>5. One(proc[q].dir) \in Range(mem'.track) /\ One(proc[q].stack) \in Range(mem'.track)
    BY <1>16, <2>2, <2>3, <2>4 DEF Vfreed
  <2>6. a.track \in Seq(Node) /\ mem'.track \in Seq(Node)
    BY <1>14, <1>17 DEF Kept, Shaped
  <2>7. proc[q].dir # 0 /\ proc[q].stack # 0 /\ Phys(mem, mem.boot, proc[q].dir) = proc[q].root
    BY <2>1 DEF OwnPages
  <2>8. One(proc[q].dir).page \in Held(a.track)
    BY <2>3, <2>4, <2>6, <2>7, OneHeld
  <2>9. One(proc[q].dir).page \in Held(mem'.track)
    <3> DEFINE x == One(proc[q].dir)
               k == mem'.track
    <3>1. x \in Range(k) /\ x.page # 0 /\ k \in Seq(Node)
      BY <2>3, <2>5, <2>6, <2>7
    <3> HIDE DEF x, k
    <3>2. x.page \in Held(k)
      BY <3>1, OneHeld
    <3> QED BY <3>2 DEF x, k
  <2>10. Phys(mem', mem'.boot, proc[q].dir) = Phys(a, a.boot, proc[q].dir)
    BY <1>16, <2>3, <2>9 DEF Vfreed
  <2>11. Phys(a, a.boot, proc[q].dir) = Phys(mem, mem.boot, proc[q].dir)
    BY <1>13, <2>3, <2>8 DEF Gone
  <2> QED BY <2>5, <2>7, <2>10, <2>11 DEF OwnPages
<1>22. ProcessesKept'
  <2>1. Distinct(proc, Live)
    BY ProcessesAre DEF MInv
  <2>2. Distinct(proc', Live')
    BY <1>18, <2>1 DEF Distinct
  <2>3. \A q \in Live' : OwnPages(mem', proc'[q])
    BY <1>18, <1>21
  <2> QED BY <2>2, <2>3 DEF ProcessesKept, OwnPages, Distinct
<1>23. Tabled(mem') /\ mem'.pd[mem'.boot][User] = 0
  BY <1>10, <1>13, <1>14, <1>17 DEF Tabled, Gone
<1>24. CacheKept' /\ cached' \in Nat
  <2>1. t # 0 => t \in DOMAIN a.pt /\ a.pt[t] = NoEntries
    BY <1>13 DEF Gone
  <2>2. cached # 0 => cached \in DOMAIN mem.pt /\ mem.pt[cached] = NoEntries
    BY DEF MInv, CacheKept
  <2>3. cached # 0 => cached \in DOMAIN a.pt /\ a.pt[cached] = NoEntries
    <3>1. Shrunk(mem, a) /\ Shaped(a)
      BY <1>13 DEF Gone, Kept
    <3> QED BY <2>2, <3>1, StaysEmpty
  <2>4. cached' = IF t = 0 THEN cached ELSE t
    BY <1>1, <1>3, <1>6
  <2>5. cached' # 0 => cached' \in DOMAIN a.pt /\ a.pt[cached'] = NoEntries
    BY <2>1, <2>3, <2>4
  <2>6. cached' # 0 => cached' \in DOMAIN mem'.pt /\ mem'.pt[cached'] = NoEntries
    <3> DEFINE n == mem'
               c == cached'
    <3>1. Shrunk(a, n) /\ Shaped(n) /\ (c # 0 => c \in DOMAIN a.pt /\ a.pt[c] = NoEntries)
      BY <1>17, <2>5
    <3> HIDE DEF n, c
    <3>2. c # 0 => c \in DOMAIN n.pt /\ n.pt[c] = NoEntries
      BY <3>1, StaysEmpty
    <3> QED BY <3>2 DEF n, c
  <2>7. t \in Nat
    <3>1. cached \in Nat
      BY DEF MInv
    <3>2. r \in DOMAIN mem.pd /\ User \in Slot
      BY <1>10, SlotFacts DEF Kept, DirectoriesKept, User
    <3>3. mem.pd[r][User] \in Nat
      BY <1>10, <3>2 DEF Shaped
    <3> QED BY <1>6, <3>1, <3>3 DEF Table
  <2>8. cached' \in Nat
    BY <2>4, <2>7 DEF MInv
  <2> QED BY <1>2, <2>6, <2>8 DEF CacheKept
<1>25. Buffer' = Buffer
  BY <1>2 DEF Buffer
<1>26. /\ fat' \in Nat /\ dma' # NULL
       /\ heapEnd' \in Nat /\ heapEnd' >= HeapStart
       /\ \E map \in Maps : reserved' = PhysInitialized(map).used
  BY <1>2 DEF MInv
<1>27. Kept(mem', Directory', Buffer', reserved') /\ RangeKept(mem')
  BY <1>2, <1>17, <1>19, <1>25
<1> QED BY <1>18, <1>20, <1>22, <1>23, <1>24, <1>26, <1>27 DEF MInv

-----------------------------------------------------------------------------
(***************************************************************************)
(* The start                                                               *)
(***************************************************************************)
Blank(map) ==
    [ram |-> PhysInitialized(map), range |-> [used |-> {}, free |-> VmPages, busy |-> 0],
     track |-> <<>>, pd |-> <<>>, pt |-> <<>>, boot |-> 0]

\* Before there is a page directory, frames are taken in order.
Bare(m, R) == Shaped(m) /\ FramesKept(m, R) /\ Packed(m, R)

\* What PHYSMEM_initialize leaves.
Fresh(m, R) ==
    /\ Bare(m, R) /\ m.pt = <<>>
    /\ m.ram.used = R /\ m.ram.free >= 7 + HEAPTABLES + VMTABLES
    /\ m.range = [used |-> {}, free |-> VmPages, busy |-> 0] /\ m.track = <<>>

LEMMA BlankFacts ==
    ASSUME NEW map, Usable(map), NEW R, R = PhysInitialized(map).used,
           NEW m, m = Blank(map)
    PROVE  Fresh(m, R)
<1> DEFINE b == PhysInitialized(map)
           none == [used |-> {}, free |-> VmPages, busy |-> 0]
<1>1. /\ b.used \subseteq 0 .. TOTAL - 1
      /\ b.free = TOTAL - Cardinality(b.used) /\ b.busy = Cardinality(b.used)
      /\ b = [used |-> b.used, free |-> b.free, busy |-> b.busy]
  BY DEF PhysInitialized
<1>2. 0 \in b.used /\ Cardinality((0 .. TOTAL - 1) \ b.used) >= 7 + HEAPTABLES + VMTABLES
  BY DEF Usable
<1> HIDE DEF b
<1>3. Counted(b, b.used, TOTAL)
  BY <1>1 DEF Counted
<1>4. /\ b.free = Cardinality((0 .. TOTAL - 1) \ b.used)
      /\ b.busy \in Nat /\ b.free \in Nat
  BY <1>1, <1>3, Sizes, CountOfFree
<1>5. b \in Bitmap
  <2>1. b.used \subseteq Int
    BY <1>1
  <2>2. b.used \in SUBSET Int /\ b.free \in Int /\ b.busy \in Int
    BY <1>4, <2>1
  <2> QED BY <1>1, <2>2 DEF Bitmap
<1>6. none \in Bitmap
  BY VmPageFacts DEF Bitmap
<1>7. /\ m.ram = b /\ m.range = none /\ m.track = <<>> /\ m.pd = <<>> /\ m.pt = <<>>
      /\ m.boot = 0
      /\ m = [ram |-> b, range |-> none, track |-> <<>>, pd |-> <<>>, pt |-> <<>>, boot |-> 0]
  BY DEF Blank, b
<1> HIDE DEF none
<1>8. <<>> \in Seq(Node) /\ 0 \in Nat
  OBVIOUS
<1>9. m \in [ram : Bitmap, range : Bitmap, track : Seq(Node),
            pd : {m.pd}, pt : {m.pt}, boot : Nat]
  BY <1>5, <1>6, <1>7, <1>8
<1>10. /\ m.pd \in [DOMAIN m.pd -> [Slot -> Nat]]
       /\ m.pt \in [DOMAIN m.pt -> [0 .. PER - 1 -> Nat]]
  <2>1. DOMAIN <<>> = {}
    OBVIOUS
  <2>2. \A S : <<>> \in [{} -> S]
    OBVIOUS
  <2> QED BY <1>7, <2>1, <2>2
<1>11. Shaped(m)
  BY <1>9, <1>10, Zenon DEF Shaped
<1>12. FramesKept(m, R)
  BY <1>1, <1>2, <1>3, <1>7 DEF FramesKept, b
<1>13. Packed(m, R)
  BY <1>7 DEF Packed, b
<1> QED BY <1>2, <1>4, <1>7, <1>11, <1>12, <1>13 DEF Fresh, Bare, b, none

LEMMA BareAlloc ==
    ASSUME NEW m, NEW R, Bare(m, R), m.ram.free > 0
    PROVE  LET n == AllocBlock(m)
           IN  /\ NextFrame(m) \in FreeFrames(m) /\ NextFrame(m) \in Nat \ {0}
               /\ Bare(n, R) /\ n.ram.used = m.ram.used \cup {NextFrame(m)}
               /\ n.ram.free = m.ram.free - 1
               /\ n.range = m.range /\ n.track = m.track
               /\ n.pd = m.pd /\ n.pt = m.pt /\ n.boot = m.boot
<1> DEFINE n == AllocBlock(m)
           f == NextFrame(m)
<1>1. /\ f \in FreeFrames(m) /\ f \in Nat \ {0}
      /\ \A g \in FreeFrames(m) : f <= g
      /\ n = Taken(m, f)
  BY AllocFacts DEF Bare
<1> HIDE DEF n, f
<1>2. /\ Shaped(n) /\ FramesKept(n, R)
      /\ n.ram.used = m.ram.used \cup {f} /\ n.ram.free = m.ram.free - 1
      /\ n.range = m.range /\ n.track = m.track
      /\ n.pd = m.pd /\ n.pt = m.pt /\ n.boot = m.boot
  BY <1>1, TakenFacts DEF Bare
<1>3. Packed(n, R)
  BY <1>1, <1>2, TakenPacked DEF Bare
<1> QED BY <1>1, <1>2, <1>3 DEF Bare, n, f

Directory1(g, h) ==
    [s \in Slot |-> CASE s = Identity -> g [] s = Kernel -> h [] OTHER -> 0]

Booted(m, f, g, h) == [m EXCEPT !.boot = f, !.pd = [d \in {f} |-> Directory1(g, h)]]

LEMMA BootedFacts ==
    ASSUME NEW m, Shaped(m), m.pt = <<>>, NEW f \in Nat, NEW g \in Nat, NEW h \in Nat,
           NEW n, n = Booted(m, f, g, h)
    PROVE  /\ Shaped(n) /\ n.ram = m.ram /\ n.range = m.range /\ n.track = m.track
           /\ n.boot = f /\ DOMAIN n.pd = {f}
           /\ \A s \in Slot : n.pd[f][s] = IF s = Identity THEN g
                                           ELSE IF s = Kernel THEN h ELSE 0
<1> DEFINE d == Directory1(g, h)
           pd == [x \in {f} |-> d]
<1>1. d \in [Slot -> Nat] /\ \A s \in Slot : d[s] = IF s = Identity THEN g
                                                   ELSE IF s = Kernel THEN h ELSE 0
  BY DEF Directory1, Identity, Kernel
<1> HIDE DEF d
<1>2. pd \in [DOMAIN pd -> [Slot -> Nat]] /\ DOMAIN pd = {f} /\ pd[f] = d
  BY <1>1
<1>3. n = [m EXCEPT !.boot = f, !.pd = pd]
  BY DEF Booted, d
<1> HIDE DEF pd
<1>4. /\ n.ram = m.ram /\ n.range = m.range /\ n.track = m.track
      /\ n.boot = f /\ n.pd = pd /\ n.pt = m.pt
  BY <1>3 DEF Shaped
<1>5. n \in [ram : Bitmap, range : Bitmap, track : Seq(Node),
            pd : {n.pd}, pt : {n.pt}, boot : Nat]
  BY <1>3, <1>4 DEF Shaped
<1>6. /\ n.pd \in [DOMAIN n.pd -> [Slot -> Nat]]
      /\ n.pt \in [DOMAIN n.pt -> [0 .. PER - 1 -> Nat]]
  BY <1>2, <1>4 DEF Shaped
<1>7. Shaped(n)
  BY <1>5, <1>6, Zenon DEF Shaped
<1> QED BY <1>1, <1>2, <1>4, <1>7

\* VIRTMEM_initialize: three frames, of the directory and of its two tables.
Ready(n, R, spare) ==
    /\ Kept(n, {n.boot}, {}, R) /\ Packed(n, R)
    /\ n.range = [used |-> {}, free |-> VmPages, busy |-> 0] /\ n.track = <<>>
    /\ n.pd[n.boot][User] = 0
    /\ Zero(n) \subseteq KernelSlot /\ Spare(n) >= spare
    /\ \A w \in VmRange : Phys(n, n.boot, w) = 0

LEMMA PagedFacts ==
    ASSUME NEW m, NEW R, Fresh(m, R)
    PROVE  Ready(Paged(m), R, 4)
<1>0. /\ Bare(m, R) /\ m.pt = <<>>
      /\ m.ram.used = R /\ m.ram.free >= 7 + HEAPTABLES + VMTABLES
      /\ m.range = [used |-> {}, free |-> VmPages, busy |-> 0] /\ m.track = <<>>
  BY DEF Fresh
<1>1. PICK one : one = AllocBlock(m)
  OBVIOUS
<1>2. PICK two : two = AllocBlock(one)
  OBVIOUS
<1>3. PICK three : three = AllocBlock(two)
  OBVIOUS
<1>4. PICK f : f = NextFrame(m)
  OBVIOUS
<1>5. PICK g : g = NextFrame(one)
  OBVIOUS
<1>6. PICK h : h = NextFrame(two)
  OBVIOUS
<1>7. PICK n : n = Paged(m)
  OBVIOUS
<1>8. n = Booted(three, f, g, h)
  <2> DEFINE frame == [x \in 1 .. 3 |-> NextFrame(CASE x = 1 -> m [] x = 2 -> one
                                                   [] x = 3 -> two)]
  <2>1. frame[1] = f /\ frame[2] = g /\ frame[3] = h
    BY <1>4, <1>5, <1>6
  <2>2. n = [three EXCEPT !.boot = frame[1],
                          !.pd = [d \in {frame[1]} |-> Directory1(frame[2], frame[3])]]
    BY <1>1, <1>2, <1>3, <1>7 DEF Paged, Directory1
  <2> HIDE DEF frame
  <2> QED BY <2>1, <2>2 DEF Booted
<1>9. HEAPTABLES \in Nat /\ VMTABLES \in Nat /\ m.ram.free \in Int
  BY <1>0, Sizes DEF Bare, Shaped, Bitmap
<1>10. /\ f \in FreeFrames(m) /\ f \in Nat \ {0} /\ Bare(one, R)
       /\ one.ram.used = m.ram.used \cup {f} /\ one.ram.free = m.ram.free - 1
       /\ one.range = m.range /\ one.track = m.track /\ one.pt = m.pt
  <2>1. m.ram.free > 0
    BY <1>0, <1>9
  <2> QED BY <1>0, <1>1, <1>4, <2>1, BareAlloc
<1>11. /\ g \in FreeFrames(one) /\ g \in Nat \ {0} /\ Bare(two, R)
       /\ two.ram.used = one.ram.used \cup {g} /\ two.ram.free = one.ram.free - 1
       /\ two.range = one.range /\ two.track = one.track /\ two.pt = one.pt
  <2>1. one.ram.free > 0
    BY <1>0, <1>9, <1>10
  <2> QED BY <1>2, <1>5, <1>10, <2>1, BareAlloc
<1>12. /\ h \in FreeFrames(two) /\ h \in Nat \ {0} /\ Bare(three, R)
       /\ three.ram.used = two.ram.used \cup {h} /\ three.ram.free = two.ram.free - 1
       /\ three.range = two.range /\ three.track = two.track /\ three.pt = two.pt
  <2>1. two.ram.free > 0
    BY <1>0, <1>9, <1>10, <1>11
  <2> QED BY <1>3, <1>6, <1>11, <2>1, BareAlloc
<1>13. /\ Shaped(n) /\ n.ram = three.ram /\ n.range = m.range /\ n.track = m.track
       /\ n.boot = f /\ DOMAIN n.pd = {f}
       /\ \A s \in Slot : n.pd[f][s] = IF s = Identity THEN g
                                       ELSE IF s = Kernel THEN h ELSE 0
  <2>1. Shaped(three) /\ three.pt = <<>>
    BY <1>0, <1>10, <1>11, <1>12 DEF Bare
  <2>2. f \in Nat /\ g \in Nat /\ h \in Nat
    BY <1>10, <1>11, <1>12
  <2>3. /\ Shaped(n) /\ n.ram = three.ram /\ n.range = three.range /\ n.track = three.track
        /\ n.boot = f /\ DOMAIN n.pd = {f}
        /\ \A s \in Slot : n.pd[f][s] = IF s = Identity THEN g
                                        ELSE IF s = Kernel THEN h ELSE 0
    BY <1>8, <2>1, <2>2, BootedFacts
  <2> QED BY <1>10, <1>11, <1>12, <2>3
<1>14. FramesKept(n, R) /\ Packed(n, R)
  BY <1>12, <1>13 DEF Bare, FramesKept, Packed
<1>15. /\ f \notin R /\ g \notin R /\ h \notin R /\ f # g /\ f # h /\ g # h
       /\ n.ram.used = R \cup {f, g, h}
  BY <1>0, <1>10, <1>11, <1>12, <1>13 DEF FreeFrames
<1>16. Identity \in Slot /\ Kernel \in Slot /\ User \in Slot /\ Identity # Kernel
       /\ User # Identity /\ User # Kernel
  BY SlotFacts DEF Identity, User, Kernel
<1>17. PageTables(n, {f}) = {}
  <2> SUFFICES ASSUME NEW t, t \in PageTables(n, {f}) PROVE FALSE
    OBVIOUS
  <2>1. PICK d \in {f}, s \in Slot : s \notin {Identity, Kernel} /\ n.pd[d][s] # 0
    BY PageTablesAre
  <2> QED BY <1>13, <2>1
<1>18. DirectoriesKept(n, {n.boot})
  BY <1>13, <1>17 DEF DirectoriesKept
<1>19. ASSUME NEW u \in Uses(n, {f}, {})
       PROVE  \/ u = Use(f, "cr3", 0, 0)
              \/ u = Use(g, "directory", f, Identity)
              \/ u = Use(h, "directory", f, Kernel)
  <2>1. \/ u = Use(f, "cr3", 0, 0)
        \/ \E d \in {f}, s \in Slot : n.pd[d][s] # 0 /\ u = Use(n.pd[d][s], "directory", d, s)
    <3>1. \/ u = Use(n.boot, "cr3", 0, 0)
          \/ \E d \in {f}, s \in Slot : /\ s \in OwnSlots(n, d) /\ n.pd[d][s] # 0
                                       /\ u = Use(n.pd[d][s], "directory", d, s)
          \/ \E t \in PageTables(n, {f}), i \in 0 .. PER - 1 :
                n.pt[t][i] # 0 /\ u = Use(n.pt[t][i], "table", t, i)
          \/ \E x \in {} : u = Use(x, "dma", 0, x)
      BY <1>19, UsesAre
    <3> QED BY <1>13, <1>17, <3>1
  <2> QED BY <1>13, <2>1
<1>20. OneUse(Uses(n, {f}, {}), n.ram.used \ R)
  <2>1. /\ Use(f, "cr3", 0, 0).frame = f
        /\ Use(g, "directory", f, Identity).frame = g
        /\ Use(h, "directory", f, Kernel).frame = h
    BY DEF Use
  <2>2. \A u \in Uses(n, {f}, {}) : u.frame \in n.ram.used \ R
    BY <1>15, <1>19, <2>1
  <2>3. ASSUME NEW u \in Uses(n, {f}, {}), NEW w \in Uses(n, {f}, {}), u.frame = w.frame
        PROVE  u = w
    BY <1>15, <1>19, <2>1, <2>3
  <2> QED BY <2>2, <2>3 DEF OneUse
<1>21. Kept(n, {n.boot}, {}, R)
  BY <1>13, <1>14, <1>18, <1>20 DEF Kept
<1>22. Zero(n) = KernelSlot
  <2>1. ASSUME NEW s \in Slot
        PROVE  s \in KernelSlot <=> s # User /\ s # Identity /\ s # Kernel
    BY SlotFacts
  <2>2. g # 0 /\ h # 0
    BY <1>11, <1>12
  <2>3. ASSUME NEW s \in Slot \ {User} PROVE n.pd[n.boot][s] = 0 <=> s \in KernelSlot
    BY <1>13, <2>1, <2>2
  <2>4. KernelSlot \subseteq Slot \ {User}
    BY SlotFacts
  <2> QED BY <2>3, <2>4 DEF Zero
<1>23. Cardinality(KernelSlot) = HEAPTABLES + VMTABLES
  <2>1. 3 \in Int /\ HEAPTABLES + VMTABLES \in Nat
    BY <1>9
  <2>2. Cardinality(3 .. 3 + (HEAPTABLES + VMTABLES) - 1) = HEAPTABLES + VMTABLES
    BY <2>1, IntervalCount
  <2>3. 3 + (HEAPTABLES + VMTABLES) - 1 = 2 + HEAPTABLES + VMTABLES
    BY <1>9
  <2> QED BY <2>2, <2>3 DEF KernelSlot
<1>24. Spare(n) >= 4
  <2>1. n.ram.free = m.ram.free - 3
    BY <1>9, <1>10, <1>11, <1>12, <1>13
  <2>2. Spare(n) = m.ram.free - 3 - (HEAPTABLES + VMTABLES)
    BY <1>22, <1>23, <2>1 DEF Spare
  <2> QED BY <1>0, <1>9, <2>2
<1>25. ASSUME NEW w \in VmRange PROVE Phys(n, n.boot, w) = 0
  <2>1. w \div PER \in KernelSlot /\ w \div PER \in Slot
    BY VmPageFacts, SlotFacts
  <2>2. n.pd[n.boot][w \div PER] = 0
    BY <1>22, <2>1 DEF Zero
  <2>3. w \div PER # Identity
    BY <2>1, SlotFacts
  <2> QED BY <2>2, <2>3 DEF Phys
<1>26. n.pd[n.boot][User] = 0
  BY <1>13, <1>16
<1>27. Ready(n, R, 4)
  BY <1>0, <1>13, <1>14, <1>21, <1>22, <1>24, <1>25, <1>26 DEF Ready
<1> QED BY <1>7, <1>27

-----------------------------------------------------------------------------
LEMMA MapPagesOne ==
    ASSUME NEW m, NEW d, NEW v \in Nat
    PROVE  MapPages(m, d, v, 1) = MapPage(m, d, v)
<1>1. PICK n \in Nat : n = 1
  OBVIOUS
<1>2. PICK f : MapTurns(f, m, d, v, n)
  BY MapPagesLoop
<1>3. n \in 1 .. n /\ n - 1 = 0 /\ v + n - 1 = v
  BY <1>1
<1>4. f[n] = MapPage(f[n - 1], d, v + n - 1) /\ f[0] = m /\ f[n] = MapPages(m, d, v, n)
  BY <1>2, <1>3 DEF MapTurns
<1>5. MapPages(m, d, v, n) = MapPage(m, d, v)
  BY <1>3, <1>4
<1> QED BY <1>1, <1>5

LEMMA MapPagesTwo ==
    ASSUME NEW m, NEW d, NEW v \in Nat
    PROVE  MapPages(m, d, v, 2) = MapPage(MapPage(m, d, v), d, v + 1)
<1>1. PICK n \in Nat : n = 2
  OBVIOUS
<1>2. PICK f : MapTurns(f, m, d, v, n)
  BY MapPagesLoop
<1>3. PICK i \in 1 .. n : i = 1
  BY <1>1
<1>4. n \in 1 .. n /\ n - 1 = i /\ i - 1 = 0 /\ v + n - 1 = v + 1 /\ v + i - 1 = v
  BY <1>1, <1>3
<1>5. /\ f[n] = MapPage(f[n - 1], d, v + n - 1) /\ f[i] = MapPage(f[i - 1], d, v + i - 1)
      /\ f[0] = m /\ f[n] = MapPages(m, d, v, n)
  BY <1>2, <1>4 DEF MapTurns
<1>6. f[i] = MapPage(m, d, v)
  BY <1>4, <1>5
<1>7. MapPages(m, d, v, n) = MapPage(f[i], d, v + 1)
  BY <1>4, <1>5
<1> QED BY <1>1, <1>6, <1>7

LEMMA ReadyRange ==
    ASSUME NEW m, NEW R, NEW k \in Nat, Ready(m, R, k),
           NEW a \in Nat, NEW tables \in Nat \ {0},
           NEW S, S = a .. a + tables - 1, S \subseteq KernelSlot,
           NEW v, v = a * PER, NEW n, n = MapRange(m, v, tables)
    PROVE  /\ Ready(n, R, k) /\ Zero(n) \subseteq Zero(m) /\ Zero(n) \cap S = {}
           /\ n.boot = m.boot
<1>1. /\ Kept(m, {m.boot}, {}, R) /\ Packed(m, R) /\ Spare(m) >= k /\ Spare(m) \in Int
      /\ m.pd[m.boot][User] = 0 /\ Zero(m) \subseteq KernelSlot
      /\ m.range = [used |-> {}, free |-> VmPages, busy |-> 0] /\ m.track = <<>>
      /\ \A w \in VmRange : Phys(m, m.boot, w) = 0
  <2>1. m.ram.free \in Int
    BY DEF Ready, Kept, Shaped, Bitmap
  <2> QED BY <2>1, ZeroFinite DEF Ready, Spare
<1>2. Spare(m) >= 0
  BY <1>1
<1>3. Growing(m, n, R) /\ Zero(n) \cap S = {}
  BY <1>1, <1>2, MapRangeFacts
<1>4. /\ Kept(n, {n.boot}, {}, R) /\ Packed(n, R) /\ SamePages(m, n)
      /\ n.boot = m.boot /\ n.range = m.range /\ n.track = m.track
      /\ n.pd[n.boot][User] = m.pd[m.boot][User]
      /\ Zero(n) \subseteq Zero(m) /\ Spare(n) = Spare(m)
  BY <1>3 DEF Growing
<1>5. \A w \in VmRange : Phys(n, n.boot, w) = 0
  BY <1>1, <1>4, VmPageFacts DEF SamePages
<1>6. Ready(n, R, k)
  BY <1>1, <1>4, <1>5 DEF Ready
<1> QED BY <1>3, <1>4, <1>6

HeapSlot == 3 .. 3 + HEAPTABLES - 1

LEMMA HeapSlots ==
    /\ HeapSlot \subseteq KernelSlot
    /\ \A v \in HeapStart .. HeapStart + HEAPTABLES * PER - 1 : v \div PER \in HeapSlot
<1>1. HEAPTABLES \in Nat \ {0} /\ VMTABLES \in Nat \ {0} /\ PER \in Nat \ {0}
  BY Sizes
<1>2. HeapSlot \subseteq KernelSlot
  BY <1>1 DEF HeapSlot, KernelSlot
<1>3. ASSUME NEW v \in HeapStart .. HeapStart + HEAPTABLES * PER - 1
      PROVE  v \div PER \in HeapSlot
  <2>1. v \in Nat /\ HeapStart \in Nat
    BY <1>3, HeapPage
  <2>2. HEAPTABLES * PER \in Nat
    BY Sizes
  <2>3. HeapStart = 3 * PER /\ HeapStart + HEAPTABLES * PER = (3 + HEAPTABLES) * PER
    BY <1>1 DEF HeapStart
  <2>4. 3 * PER <= v /\ v < (3 + HEAPTABLES) * PER
    BY <1>3, <2>1, <2>2, <2>3
  <2>5. PICK j \in Nat : j = 3
    OBVIOUS
  <2>6. PICK k \in Nat : k = 3 + HEAPTABLES
    BY <1>1
  <2>7. j * PER <= v /\ v < k * PER
    BY <2>4, <2>5, <2>6
  <2>8. j <= v \div PER /\ v \div PER < k
    BY <1>1, <2>1, <2>7, DivBetween
  <2>9. v \div PER \in Nat
    BY <1>1, <2>1, DivMod
  <2> QED BY <1>1, <2>5, <2>6, <2>8, <2>9 DEF HeapSlot
<1> QED BY <1>2, <1>3

LEMMA ReadyPage ==
    ASSUME NEW m, NEW R, NEW k \in Nat, Ready(m, R, k + 1), Zero(m) \cap HeapSlot = {},
           NEW v \in HeapStart .. HeapStart + HEAPTABLES * PER - 1,
           NEW n, n = MapPage(m, m.boot, v)
    PROVE  Ready(n, R, k) /\ Zero(n) = Zero(m) /\ n.boot = m.boot
<1>1. /\ v \in Nat /\ v \div PER \in KernelSlot \cup {User} /\ v \div PER \in KernelSlot
      /\ v \div PER \in Slot \ {User} /\ v \div PER \in HeapSlot
  BY HeapPage, HeapSlots, SlotFacts
<1>2. m.pd[m.boot][v \div PER] # 0
  BY <1>1 DEF Zero
<1>3. /\ Kept(m, {m.boot}, {}, R) /\ Packed(m, R) /\ m.ram.free \in Int
      /\ Spare(m) >= k + 1 /\ Cardinality(Zero(m)) \in Nat
      /\ m.pd[m.boot][User] = 0 /\ Zero(m) \subseteq KernelSlot
      /\ m.range = [used |-> {}, free |-> VmPages, busy |-> 0] /\ m.track = <<>>
      /\ \A w \in VmRange : Phys(m, m.boot, w) = 0
  BY ZeroFinite DEF Ready, Kept, Shaped, Bitmap
<1>4. Mapped(m, n, {m.boot}, {}, R, m.boot, v)
  <2> DEFINE D == {m.boot}
             B == {}
  <2>1. Kept(m, D, B, R) /\ m.boot \in D
    BY <1>3
  <2> HIDE DEF D, B
  <2>2. Mapped(m, n, D, B, R, m.boot, v)
    BY <1>1, <1>2, <2>1, MapPageFacts
  <2> QED BY <2>2 DEF D, B
<1>5. /\ Kept(n, {m.boot}, {}, R) /\ n.ram.free >= m.ram.free - 1
      /\ Packed(n, R) /\ n.pd = m.pd /\ n.boot = m.boot
      /\ n.range = m.range /\ n.track = m.track
      /\ \A w \in Nat : w \div PER \in KernelSlot /\ w # v
            => Phys(n, n.boot, w) = Phys(m, m.boot, w)
  BY <1>3, <1>4 DEF Mapped, Still
<1>6. Zero(n) = Zero(m)
  BY <1>5 DEF Zero
<1>7. Spare(n) >= k
  <2>1. n.ram.free \in Int
    BY <1>5 DEF Kept, Shaped, Bitmap
  <2>2. Spare(m) = m.ram.free - Cardinality(Zero(m))
    BY DEF Spare
  <2>3. Spare(n) = n.ram.free - Cardinality(Zero(m))
    BY <1>6 DEF Spare
  <2> QED BY <1>3, <1>5, <2>1, <2>2, <2>3
<1>8. ASSUME NEW w \in VmRange PROVE Phys(n, n.boot, w) = 0
  <2>1. HeapStart \in Nat /\ HeapStart + HEAPTABLES * PER = VmStart /\ HEAPTABLES * PER \in Nat
    BY Sizes, HeapPage DEF HeapStart, VmStart
  <2>2. w # v
    BY <1>1, <2>1, VmPageFacts DEF VmRange
  <2> QED BY <1>3, <1>5, <2>2, VmPageFacts
<1>9. Ready(n, R, k)
  BY <1>3, <1>5, <1>6, <1>7, <1>8 DEF Ready
<1> QED BY <1>5, <1>6, <1>9

\* heap_initialize and VMALLOC_initialize: the tables of both ranges, and the
\* pages of the heap that they need.
LEMMA StartFacts ==
    ASSUME NEW m, NEW R, Ready(m, R, 4)
    PROVE  LET n == VmInitialized(HeapInitialized(m))
           IN  Ready(n, R, 1) /\ Zero(n) = {}
<1>1. PICK four \in Nat : four = 4
  OBVIOUS
<1>2. PICK three \in Nat : three = 3
  OBVIOUS
<1>3. PICK two \in Nat : two = 2
  OBVIOUS
<1>4. PICK one \in Nat : one = 1
  OBVIOUS
<1>5. four = three + 1 /\ three = two + 1 /\ two = one + 1
  BY <1>1, <1>2, <1>3, <1>4
<1>6. HEAPTABLES \in Nat \ {0} /\ VMTABLES \in Nat \ {0} /\ 3 <= HEAPTABLES * PER
      /\ HEAPTABLES * PER \in Nat
  BY Sizes
<1>7. PICK a : a = MapRange(m, HeapStart, HEAPTABLES)
  OBVIOUS
<1>8. PICK b : b = MapPage(a, a.boot, HeapStart)
  OBVIOUS
<1>9. PICK c : c = MapPage(b, b.boot, HeapStart + 1)
  OBVIOUS
<1>10. PICK d : d = MapPage(c, c.boot, HeapStart + 2)
  OBVIOUS
<1>11. PICK n : n = MapRange(d, VmStart, VMTABLES)
  OBVIOUS
<1>12. Ready(a, R, four) /\ Zero(a) \subseteq Zero(m) /\ Zero(a) \cap HeapSlot = {} /\ a.boot = m.boot
  <2>1. Ready(m, R, four)
    BY <1>1
  <2>2. HeapStart = three * PER /\ HeapSlot = three .. three + HEAPTABLES - 1
    BY <1>2 DEF HeapStart, HeapSlot
  <2>3. HeapSlot \subseteq KernelSlot
    BY HeapSlots
  <2> QED BY <1>6, <1>7, <2>1, <2>2, <2>3, ReadyRange
<1>13. /\ HeapStart \in Nat
       /\ {HeapStart, HeapStart + 1, HeapStart + 2}
            \subseteq HeapStart .. HeapStart + HEAPTABLES * PER - 1
  <2>1. HeapStart \in Nat
    BY HeapPage
  <2> QED BY <1>6, <2>1
<1>14. Ready(b, R, three) /\ Zero(b) = Zero(a) /\ b.boot = a.boot
  <2>1. Ready(a, R, three + 1)
    BY <1>5, <1>12
  <2> QED BY <1>8, <1>12, <1>13, <2>1, ReadyPage
<1>15. Ready(c, R, two) /\ Zero(c) = Zero(b) /\ c.boot = b.boot
  <2>1. Ready(b, R, two + 1) /\ Zero(b) \cap HeapSlot = {}
    BY <1>5, <1>12, <1>14
  <2>2. PICK v \in HeapStart .. HeapStart + HEAPTABLES * PER - 1 : v = HeapStart + 1
    BY <1>13
  <2>3. c = MapPage(b, b.boot, v)
    BY <1>9, <2>2
  <2> QED BY <2>1, <2>3, ReadyPage
<1>16. Ready(d, R, one) /\ Zero(d) = Zero(c) /\ d.boot = c.boot
  <2>1. Ready(c, R, one + 1) /\ Zero(c) \cap HeapSlot = {}
    BY <1>5, <1>12, <1>14, <1>15
  <2>2. PICK v \in HeapStart .. HeapStart + HEAPTABLES * PER - 1 : v = HeapStart + 2
    BY <1>13
  <2>3. d = MapPage(c, c.boot, v)
    BY <1>10, <2>2
  <2> QED BY <2>1, <2>3, ReadyPage
<1>17. /\ Ready(n, R, one) /\ Zero(n) \subseteq Zero(d)
       /\ Zero(n) \cap (3 + HEAPTABLES .. 3 + HEAPTABLES + VMTABLES - 1) = {}
  <2>1. PICK s \in Nat : s = 3 + HEAPTABLES
    BY <1>6
  <2>2. VmStart = s * PER
    BY <2>1 DEF VmStart
  <2>3. PICK S : S = s .. s + VMTABLES - 1
    OBVIOUS
  <2>4. S \subseteq KernelSlot
    BY <1>6, <2>1, <2>3 DEF KernelSlot
  <2>5. Ready(n, R, one) /\ Zero(n) \subseteq Zero(d) /\ Zero(n) \cap S = {}
    BY <1>6, <1>11, <1>16, <2>2, <2>3, <2>4, ReadyRange
  <2> QED BY <2>1, <2>3, <2>5
<1>18. Zero(n) = {}
  <2> SUFFICES ASSUME NEW s \in Zero(n) PROVE FALSE
    OBVIOUS
  <2>1. s \in KernelSlot
    BY <1>17 DEF Ready
  <2>2. s \notin HeapSlot
    BY <1>12, <1>14, <1>15, <1>16, <1>17
  <2>3. s \in 3 + HEAPTABLES .. 3 + HEAPTABLES + VMTABLES - 1
    BY <1>6, <2>1, <2>2 DEF KernelSlot, HeapSlot
  <2> QED BY <1>17, <2>3
<1>19. HeapInitialized(m) = c
  <2>1. MapPages(a, a.boot, HeapStart, 2) = c
    BY <1>8, <1>9, <1>13, <1>14, MapPagesTwo
  <2> QED BY <1>7, <1>12, <2>1 DEF HeapInitialized
<1>20. VmInitialized(c) = n
  <2>1. HeapStart + 2 \in Nat
    BY <1>13
  <2>2. MapPages(c, c.boot, HeapStart + 2, 1) = d
    BY <1>10, <2>1, MapPagesOne
  <2> QED BY <1>11, <2>2 DEF VmInitialized
<1> QED BY <1>4, <1>17, <1>18, <1>19, <1>20

-----------------------------------------------------------------------------
\* While there are frames, vmalloc gets a page that is mapped.
LEMMA VmallocMapped ==
    ASSUME NEW m, NEW D, NEW B, NEW R, Kept(m, D, B, R), Tabled(m), RangeKept(m),
           NEW d \in D, m.ram.free > 0, NEW v, v = VmPage(m, 1), v # 0
    PROVE  Phys(Vmalloc(m, d, 1), d, v) # 0
<1>1. PICK one \in Nat : one = 1
  OBVIOUS
<1>2. PICK got : got = Vmalloc(m, d, one)
  OBVIOUS
<1>3. PICK blocks : blocks = v - VmStart .. v - VmStart + one - 1
  OBVIOUS
<1>4. PICK b : b = SetUsed(m.range, blocks)
  OBVIOUS
<1>5. PICK found : found = WithRange(m, b)
  OBVIOUS
<1>6. PICK mp : mp = MapPages(found, d, v, one)
  OBVIOUS
<1>7. OneGot(m, Vmalloc(m, d, 1), D, B, R, d, v)
  BY OnePage
<1>8. v \in VmRange /\ v \in Nat /\ v \div PER \in KernelSlot /\ VmStart \in Nat
  BY <1>7, VmPageFacts DEF OneGot
<1>9. b \in Bitmap
  <2>1. m.range.used \subseteq Int /\ m.range.free \in Int /\ m.range.busy \in Int
    BY DEF Kept, Shaped, Bitmap
  <2>2. v - VmStart \in Int
    BY <1>8
  <2>3. Cardinality(blocks) = one
    BY <1>3, <2>2, IntervalCount
  <2>4. blocks \subseteq Int
    BY <1>3, <2>2
  <2>5. m.range.used \cup blocks \in SUBSET Int
    BY <2>1, <2>4
  <2>6. m.range.free - Cardinality(blocks) \in Int /\ m.range.busy + Cardinality(blocks) \in Int
    BY <2>1, <2>3
  <2> QED BY <1>4, <2>5, <2>6 DEF SetUsed, Bitmap
<1>10. /\ Kept(found, D, B, R) /\ found.ram = m.ram /\ found.boot = m.boot
       /\ found.pd = m.pd /\ found.pt = m.pt
  BY <1>5, <1>9, RangeSet
<1>11. found.pd[d][v \div PER] # 0
  <2>1. v \div PER \in Slot \ {User}
    BY <1>8, SlotFacts
  <2> QED BY <1>10, <2>1 DEF Tabled, Kept, DirectoriesKept
<1>12. mp = MapPage(found, d, v)
  BY <1>1, <1>6, <1>8, MapPagesOne
<1>13. Mapped(found, mp, D, B, R, d, v)
  <2>1. v \div PER \in KernelSlot \cup {User}
    BY <1>8
  <2> QED BY <1>8, <1>10, <1>11, <1>12, <2>1, MapPageFacts
<1>14. Phys(mp, d, v) # 0 /\ Shaped(mp)
  BY <1>10, <1>13 DEF Mapped, Kept
<1>15. \E s : got = WithTrack(mp, s)
  <2> DEFINE node == [page |-> v, size |-> one]
  <2>1. got = [mp EXCEPT !.track = IF @ = <<>> THEN <<node>> ELSE InsertAt(@, 2, node)]
    BY <1>1, <1>2, <1>3, <1>4, <1>5, <1>6 DEF Vmalloc, WithRange
  <2>2. got = WithTrack(mp, IF mp.track = <<>> THEN <<node>> ELSE InsertAt(mp.track, 2, node))
    BY <2>1 DEF WithTrack
  <2> QED BY <2>2
<1>16. got.pd = mp.pd /\ got.pt = mp.pt
  BY <1>14, <1>15 DEF WithTrack, Shaped
<1>17. Phys(got, d, v) = Phys(mp, d, v)
  BY <1>16 DEF Phys
<1> QED BY <1>1, <1>2, <1>14, <1>17

LEMMA InitKept ==
    ASSUME \A map \in Maps : Usable(map), MemInit
    PROVE  MInv
<1>1. PICK map \in Maps :
        /\ mem = Vmalloc(VmInitialized(HeapInitialized(Paged(Blank(map)))),
                         VmInitialized(HeapInitialized(Paged(Blank(map)))).boot, 1)
        /\ reserved = PhysInitialized(map).used
  BY DEF MemInit, Blank
<1>2. /\ cached = 0 /\ proc = [p \in Proc |-> NULL] /\ heapEnd = HeapStart + 3
      /\ dma = NULL /\ fat = 0 /\ lost = FALSE
  BY DEF MemInit
<1>3. PICK blank : blank = Blank(map)
  OBVIOUS
<1>4. PICK paged : paged = Paged(blank)
  OBVIOUS
<1>5. PICK m : m = VmInitialized(HeapInitialized(paged))
  OBVIOUS
<1>6. PICK R : R = reserved
  OBVIOUS
<1>7. Fresh(blank, R)
  <2>1. Usable(map) /\ R = PhysInitialized(map).used
    BY <1>1, <1>6
  <2> QED BY <1>3, <2>1, BlankFacts
<1>8. Ready(paged, R, 4)
  BY <1>4, <1>7, PagedFacts
<1>9. Ready(m, R, 1) /\ Zero(m) = {}
  BY <1>5, <1>8, StartFacts
<1>10. /\ Kept(m, {m.boot}, {}, R) /\ Packed(m, R) /\ m.pd[m.boot][User] = 0
       /\ m.range = [used |-> {}, free |-> VmPages, busy |-> 0] /\ m.track = <<>>
       /\ \A w \in VmRange : Phys(m, m.boot, w) = 0
       /\ Spare(m) >= 1
  BY <1>9 DEF Ready
<1>11. Tabled(m)
  BY <1>9 DEF Tabled, Zero
<1>12. m.ram.free > 0
  <2>1. Cardinality({}) = 0 /\ m.ram.free \in Int
    BY <1>10, FS_EmptySet DEF Kept, Shaped, Bitmap
  <2> QED BY <1>9, <1>10, <2>1 DEF Spare
<1>13. Held(m.track) = {} /\ Nodes(m.track) = {}
  BY <1>10 DEF Held, Nodes
<1>14. VmMapped(m) = {}
  BY <1>10 DEF VmMapped, VmRange
<1>15. RangeKept(m)
  <2>1. VmPages \in Nat
    BY VmPageFacts
  <2>2. PICK k \in 0 .. VmPages : k = 0
    BY <2>1
  <2>3. m.range.used = 0 .. k - 1 /\ Held(m.track) \subseteq VmStart .. VmStart + k - 1
    BY <1>10, <1>13, <2>2
  <2>4. Counted(m.range, Held(m.track), VmPages)
    <3>1. Cardinality({}) = 0
      BY FS_EmptySet
    <3>2. m.range.busy = 0 /\ m.range.free = VmPages
      BY <1>10
    <3>3. Cardinality(Held(m.track)) = 0
      BY <1>13, <3>1
    <3> QED BY <2>1, <3>2, <3>3 DEF Counted
  <2> QED BY <1>13, <1>14, <2>3, <2>4 DEF RangeKept
<1>16. mem = Vmalloc(m, m.boot, 1)
  BY <1>1, <1>3, <1>4, <1>5
<1>17. PICK v : v = VmPage(m, 1)
  OBVIOUS
<1>18. OneGot(m, mem, {m.boot}, {}, R, m.boot, v)
  <2> DEFINE D == {m.boot}
             B == {}
  <2>1. Kept(m, D, B, R) /\ m.boot \in D
    BY <1>10
  <2> HIDE DEF D, B
  <2>2. OneGot(m, Vmalloc(m, m.boot, 1), D, B, R, m.boot, VmPage(m, 1))
    BY <1>11, <1>15, <2>1, OnePage
  <2> QED BY <1>16, <1>17, <2>2 DEF D, B
<1>19. /\ Kept(mem, {m.boot}, {}, R) /\ mem.pd = m.pd /\ mem.boot = m.boot
       /\ RangeKept(mem) /\ Packed(mem, R)
       /\ Held(mem.track) = Held(m.track) \cup (IF v = 0 THEN {} ELSE v .. v + 1 - 1)
  BY <1>10, <1>18 DEF OneGot, Vmalloced
<1>20. Held(mem.track) = VmMapped(mem)
  <2>1. CASE v = 0
    <3>1. VmMapped(mem) \subseteq Held(mem.track)
      BY <1>19 DEF RangeKept
    <3> QED BY <1>13, <1>19, <2>1, <3>1
  <2>2. CASE v # 0
    <3> DEFINE D == {m.boot}
               B == {}
    <3>1. Kept(m, D, B, R) /\ m.boot \in D
      BY <1>10
    <3> HIDE DEF D, B
    <3>2. Phys(Vmalloc(m, m.boot, 1), m.boot, v) # 0
      BY <1>11, <1>12, <1>15, <1>17, <2>2, <3>1, VmallocMapped
    <3> QED BY <1>13, <1>14, <1>16, <1>18, <2>2, <3>2 DEF OneGot
  <2> QED BY <2>1, <2>2
<1>21. Live = {} /\ Directory = {m.boot} /\ Buffer = {}
  BY <1>2, <1>19 DEF Live, Directory, Buffer
<1>22. ProcessesKept
  BY <1>21 DEF ProcessesKept
<1>23. CacheKept
  BY <1>2 DEF CacheKept
<1>24. Tabled(mem) /\ mem.pd[mem.boot][User] = 0
  BY <1>10, <1>11, <1>19 DEF Tabled
<1>25. /\ proc \in [Proc -> {NULL} \cup [dir : Nat, root : Nat, stack : Nat]]
       /\ heapEnd \in Nat /\ heapEnd >= HeapStart
       /\ cached \in Nat /\ fat \in Nat
       /\ \E x \in Maps : reserved = PhysInitialized(x).used
       /\ fat # 0 => dma # NULL
  BY <1>1, <1>2, HeapPage
<1>26. Kept(mem, Directory, Buffer, reserved) /\ Packed(mem, reserved)
  BY <1>6, <1>19, <1>21
<1> QED BY <1>19, <1>20, <1>22, <1>23, <1>24, <1>25, <1>26 DEF MInv

LEMMA NextKept ==
    ASSUME \A map \in Maps : Usable(map), MInv, [MemNext]_memVars
    PROVE  MInv'
<1>1. CASE MemNext
  <2>0. ~lost
    BY <1>1 DEF MemNext
  <2>1. CASE FdcInitialize
    BY <2>0, <2>1, FdcInitializeStep
  <2>2. CASE Mount
    BY <2>0, <2>2, MountStep
  <2>3. ASSUME NEW d \in Directory, GrowHeap(d) PROVE MInv'
    BY <2>0, <2>3, GrowHeapStep
  <2>4. ASSUME NEW d \in Directory, NEW p \in Proc, CreateProcess(p, d) PROVE MInv'
    BY <2>0, <2>4, CreateProcessStep
  <2>5. ASSUME NEW p \in Live, LoadProgram(p) PROVE MInv'
    BY <2>0, <2>5, LoadProgramStep
  <2>6. ASSUME NEW p \in Live, fat # 0, DeleteProcess(p) PROVE MInv'
    BY <2>0, <2>6, DeleteProcessStep
  <2>7. CASE SwitchAway
    BY <2>0, <2>7, SwitchAwayStep
  <2> QED BY <1>1, <2>1, <2>2, <2>3, <2>4, <2>5, <2>6, <2>7 DEF MemNext
<1>2. CASE UNCHANGED memVars
  <2>1. /\ mem' = mem /\ cached' = cached /\ proc' = proc /\ reserved' = reserved
        /\ heapEnd' = heapEnd /\ dma' = dma /\ fat' = fat /\ lost' = lost
    BY <1>2 DEF memVars
  <2>2. Live' = Live /\ Directory' = Directory /\ Buffer' = Buffer
    BY <2>1 DEF Live, Directory, Buffer
  <2>3. ProcessesKept' <=> ProcessesKept
    BY <2>1, <2>2 DEF ProcessesKept
  <2>4. CacheKept' <=> CacheKept
    BY <2>1 DEF CacheKept
  <2> QED BY <2>1, <2>2, <2>3, <2>4 DEF MInv
<1> QED BY <1>1, <1>2

-----------------------------------------------------------------------------
\* The invariant, for machines whose memory maps the kernel can start with:
\* what the bitmaps, the tables, the list of vmalloc and the processes say of
\* each other, through every call of the three files.
THEOREM MemoryInvariance ==
    ASSUME \A map \in Maps : Usable(map)
    PROVE  MemSpec => []MInv
<1>1. MemInit => MInv
  BY InitKept
<1>2. MInv /\ [MemNext]_memVars => MInv'
  BY NextKept
<1> QED BY <1>1, <1>2, PTL DEF MemSpec

\* No frame that an address space still reaches, and none of the floppy's
\* buffer, is given back, given out twice or in use twice (PHYSMEM_AllocBlock,
\* VIRTMEM_mapPage, VIRTMEM_destroyAddressSpace): for every machine.
THEOREM FramesHaveOneUse ==
    ASSUME \A map \in Maps : Usable(map)
    PROVE  MemSpec => []FrameHasOneUse
<1>1. MInv => FrameHasOneUse
  BY DEF MInv, Kept, FrameHasOneUse
<1> QED BY <1>1, MemoryInvariance, PTL

\* Every directory has the kernel's tables, and the pages that create_process
\* got are mapped where the process_t says, in the process' own address space.
THEOREM KernelIsShared ==
    ASSUME \A map \in Maps : Usable(map)
    PROVE  MemSpec => []KernelShared
<1>1. ASSUME MInv PROVE KernelShared
  <2>1. mem.pd[mem.boot][User] = 0
    BY <1>1 DEF MInv
  <2>2. \A d \in Directory, s \in Slot \ {User} :
          mem.pd[d][s] # 0 /\ mem.pd[d][s] = mem.pd[mem.boot][s]
    BY <1>1 DEF MInv, Tabled, Kept, DirectoriesKept
  <2>3. ASSUME ~lost, NEW p \in Live
        PROVE  /\ Phys(mem, proc[p].root, proc[p].dir) = proc[p].root
               /\ Phys(mem, proc[p].root, proc[p].stack) # 0
    <3>1. /\ DirectoriesKept(mem, Directory) /\ Shaped(mem)
          /\ Held(mem.track) = VmMapped(mem) /\ OwnPages(mem, proc[p])
      BY <1>1, <2>3, ProcessesAre DEF MInv, Kept
    <3>2. proc[p].root \in Directory
      BY DEF Directory
    <3>3. proc[p].dir \in VmRange /\ proc[p].stack \in VmRange
      BY <1>1, <2>3, Roots
    <3>4. \A w \in VmRange : Phys(mem, proc[p].root, w) = Phys(mem, mem.boot, w)
      BY <3>1, <3>2, VmPageFacts, PhysShared
    <3>5. proc[p].stack \in Held(mem.track)
      BY <3>1, OwnHeld
    <3>6. Phys(mem, mem.boot, proc[p].stack) # 0
      BY <3>1, <3>5 DEF VmMapped
    <3> QED BY <3>1, <3>3, <3>4, <3>6 DEF OwnPages
  <2> QED BY <2>1, <2>2, <2>3 DEF KernelShared
<1> QED BY <1>1, MemoryInvariance, PTL

\* The counters of PHYSMEM and of vmalloc say what the bitmap of frames and
\* the list of vmalloc say, and the list says which pages are mapped: through
\* failures of vmalloc, and through a vfree that never clears its bitmap.
THEOREM CountersAreRight ==
    ASSUME \A map \in Maps : Usable(map)
    PROVE  MemSpec => []CountersMatch
<1>1. MInv => CountersMatch
  BY DEF MInv, Kept, FramesKept, RangeKept, CountersMatch
<1> QED BY <1>1, MemoryInvariance, PTL
=============================================================================

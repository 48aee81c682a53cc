------------------------------ MODULE HeapProofs ------------------------------
(***************************************************************************)
(* Proofs about the Heap, for any sizes of headers, pages, requests and    *)
(* heaps.                                                                  *)
(***************************************************************************)
EXTENDS HeapInvariant, ListLemmas

-----------------------------------------------------------------------------
(***************************************************************************)
(* What the operations on the array of free blocks and on the list of      *)
(* blocks do to the parts of the invariant.                                *)
(***************************************************************************)

(***************************************************************************)
(* The array.                                                              *)
(***************************************************************************)

\* What leaves the array is its first entry a; the rest keeps its order.
LEMMA RemovedFacts ==
    ASSUME NEW S, NEW s \in Seq(S), NEW a
    PROVE  LET r == Removed(s, a)
           IN  /\ r \in Seq(S) /\ Len(r) <= Len(s)
               /\ \A i \in DOMAIN r : \E k \in DOMAIN s : r[i] = s[k]
               /\ \A i, j \in DOMAIN r : i < j =>
                      \E k, l \in DOMAIN s : k < l /\ r[i] = s[k] /\ r[j] = s[l]
               /\ \A j \in DOMAIN r : r[j] = a =>
                      \E k, l \in DOMAIN s : k < l /\ s[k] = a /\ s[l] = a
<1> DEFINE I == {i \in 1 .. Len(s) : s[i] = a}
           at == IF I # {} THEN Min(I) ELSE 0
           r == IF at = 0 THEN s ELSE RemoveAt(s, at)
<1>1. Removed(s, a) = r
  BY DEF Removed, SelectInSeq
<1>2. Len(s) \in Nat /\ DOMAIN s = 1 .. Len(s)
  BY LenProperties
<1>3. CASE I = {}
  <2>1. r = s
    BY <1>3
  <2>2. \A i \in DOMAIN s : s[i] # a
    BY <1>2, <1>3
  <2> QED BY <1>1, <1>2, <2>1, <2>2
<1>4. CASE I # {}
  <2>1. Min(I) \in I /\ \A j \in I : Min(I) <= j
    <3>1. I \subseteq Nat
      BY <1>2
    <3> HIDE DEF I
    <3> QED BY <3>1, <1>4, MinFacts
  <2>2. /\ at \in 1 .. Len(s) /\ s[at] = a
        /\ \A j \in 1 .. Len(s) : s[j] = a => at <= j
    BY <2>1, <1>4
  <2> HIDE DEF I
  <2>3. /\ r \in Seq(S) /\ Len(r) = Len(s) - 1
        /\ \A k \in 1 .. Len(s) - 1 : r[k] = IF k < at THEN s[k] ELSE s[k + 1]
    <3>1. r = RemoveAt(s, at)
      BY <2>2, <1>2
    <3> HIDE DEF r, at
    <3> QED BY <3>1, <2>2, RemoveAtItems
  <2> HIDE DEF at, r
  <2>4. DOMAIN r = 1 .. Len(s) - 1
    BY <2>3, LenProperties
  <2> DEFINE from(i) == IF i < at THEN i ELSE i + 1
  <2>5. ASSUME NEW i \in DOMAIN r
        PROVE  from(i) \in DOMAIN s /\ r[i] = s[from(i)] /\ from(i) # at
    BY <1>2, <2>2, <2>3, <2>4
  <2>6. ASSUME NEW i \in DOMAIN r, NEW j \in DOMAIN r, i < j
        PROVE  from(i) < from(j)
    BY <2>6, <1>2, <2>2, <2>4
  <2>7. ASSUME NEW j \in DOMAIN r, r[j] = a
        PROVE  \E k, l \in DOMAIN s : k < l /\ s[k] = a /\ s[l] = a
    <3>1. at <= from(j) /\ at # from(j) /\ s[from(j)] = a
      BY <2>2, <2>5, <2>7, <1>2
    <3>2. at < from(j) /\ from(j) \in DOMAIN s /\ at \in DOMAIN s
      BY <3>1, <2>5, <2>2, <1>2
    <3> QED BY <3>1, <3>2, <2>2
  <2>8. ASSUME NEW i \in DOMAIN r
        PROVE  \E k \in DOMAIN s : r[i] = s[k]
    BY <2>5
  <2>9. ASSUME NEW i \in DOMAIN r, NEW j \in DOMAIN r, i < j
        PROVE  \E k, l \in DOMAIN s : k < l /\ r[i] = s[k] /\ r[j] = s[l]
    <3> HIDE DEF from
    <3> QED BY <2>5, <2>6, <2>9
  <2>10. Len(r) <= Len(s)
    BY <2>3, <1>2
  <2> QED BY <1>1, <2>3, <2>7, <2>8, <2>9, <2>10
<1> QED BY <1>3, <1>4

\* r is the array of h with one more entry a, after smaller entries only and
\* before none; the word beyond the end may be in the last place.
Entered(r, h, S, a) ==
    LET Small(k) == Read(h, h.free[k]).size < h.hdr[a].size
    IN  /\ r \in Seq(S) /\ Len(r) <= MaxEntries
        /\ \A i \in DOMAIN r :
               r[i] \in {a, h.beyond} \/ \E k \in DOMAIN h.free : r[i] = h.free[k]
        /\ \A i, j \in DOMAIN r : i < j /\ r[j] \notin Low =>
            \/ \E k, l \in DOMAIN h.free :
                   k < l /\ r[i] = h.free[k] /\ r[j] = h.free[l]
            \/ /\ r[i] = a
               /\ \E k, l \in DOMAIN h.free :
                      k <= l /\ ~Small(k) /\ r[j] = h.free[l]
            \/ /\ r[j] = a
               /\ \E k \in DOMAIN h.free : r[i] = h.free[k] /\ Small(k)

\* That is what the insertion makes of it.
LEMMA InsertedFacts ==
    ASSUME NEW S, NEW h, h.free \in Seq(S), Len(h.free) <= MaxEntries,
           h.beyond \in S, h.beyond \in Low, NEW a \in S
    PROVE  Entered(Inserted(h, a), h, S, a)
<1> DEFINE s == h.free
           Small(k) == Read(h, h.free[k]).size < h.hdr[a].size
           I == {k \in 1 .. Len(s) : ~Small(k)}
           at == IF I # {} THEN Min(I) ELSE 0
           shifted == InsertAt(s, at, a)
           r == IF Len(s) >= MaxEntries THEN s
                ELSE IF at = 0 THEN Append(s, a)
                ELSE [shifted EXCEPT ![Len(shifted)] = h.beyond]
<1>1. Inserted(h, a) = r
  BY DEF Inserted, SelectInSeq
<1>2. s \in Seq(S) /\ Len(s) \in Nat /\ DOMAIN s = 1 .. Len(s) /\ MaxEntries \in Nat
  BY LenProperties, HeapAssumption
<1>3. CASE Len(s) >= MaxEntries
  <2>1. r = s
    BY <1>3
  <2> QED BY <1>1, <1>2, <2>1 DEF Entered
<1>4. CASE Len(s) < MaxEntries /\ I = {}
  <2>1. r = Append(s, a)
    BY <1>2, <1>4
  <2> HIDE DEF r
  <2>2. \A k \in 1 .. Len(s) : Small(k)
    BY <1>4
  <2> HIDE DEF Small, I
  <2>3. /\ r \in Seq(S) /\ Len(r) = Len(s) + 1
        /\ \A k \in 1 .. Len(s) : r[k] = s[k]
        /\ r[Len(s) + 1] = a
    <3>1. s \in Seq(S)
      BY <1>2
    <3> HIDE DEF s
    <3> QED BY <2>1, <3>1, AppendProperties
  <2>4. DOMAIN r = 1 .. Len(s) + 1
    BY <2>3, LenProperties
  <2>5. ASSUME NEW i \in DOMAIN r
        PROVE  r[i] = a \/ (i \in DOMAIN s /\ r[i] = s[i])
    <3>1. i = Len(s) + 1 \/ i \in 1 .. Len(s)
      BY <1>2, <2>4
    <3> QED BY <3>1, <1>2, <2>3
  <2>6. ASSUME NEW i \in DOMAIN r, NEW j \in DOMAIN r, i < j
        PROVE  \/ i \in DOMAIN s /\ j \in DOMAIN s /\ r[i] = s[i] /\ r[j] = s[j]
               \/ r[j] = a /\ i \in DOMAIN s /\ r[i] = s[i] /\ Small(i)
    <3>1. i \in 1 .. Len(s) /\ j \in 1 .. Len(s) + 1
      BY <2>4, <2>6, <1>2
    <3> QED BY <3>1, <1>2, <2>2, <2>3
  <2>7. Len(r) <= MaxEntries
    BY <1>2, <1>4, <2>3
  <2> HIDE DEF s
  <2>8. /\ \A i \in DOMAIN r :
             r[i] \in {a, h.beyond} \/ \E k \in DOMAIN s : r[i] = s[k]
        /\ \A i, j \in DOMAIN r : i < j /\ r[j] \notin Low =>
             \/ \E k, l \in DOMAIN s : k < l /\ r[i] = s[k] /\ r[j] = s[l]
             \/ r[j] = a /\ \E k \in DOMAIN s : r[i] = s[k] /\ Small(k)
    BY <2>5, <2>6
  <2> QED BY <1>1, <2>3, <2>7, <2>8 DEF s, Small, Entered
<1>5. CASE Len(s) < MaxEntries /\ I # {}
  <2>1. Min(I) \in I /\ \A j \in I : Min(I) <= j
    <3>1. I \subseteq Nat
      BY <1>2
    <3> HIDE DEF I
    <3> QED BY <3>1, <1>5, MinFacts
  <2>2. /\ at \in 1 .. Len(s) /\ ~Small(at)
        /\ \A j \in 1 .. Len(s) : j < at => Small(j)
    <3>1. at = Min(I)
      BY <1>5
    <3>2. at \in I /\ \A j \in I : at <= j
      BY <3>1, <2>1
    <3> HIDE DEF at, Small
    <3>3. ASSUME NEW j \in 1 .. Len(s), j < at, ~Small(j) PROVE FALSE
      <4>1. j \in I
        BY <3>3
      <4>2. at <= j /\ at \in Nat /\ j \in Nat
        BY <4>1, <3>2, <1>2
      <4> QED BY <4>2, <3>3
    <3> QED BY <3>2, <3>3
  <2>3. r = [shifted EXCEPT ![Len(shifted)] = h.beyond]
    <3>1. ~(Len(s) >= MaxEntries) /\ at # 0
      <4> HIDE DEF at
      <4> QED BY <1>2, <1>5, <2>2
    <3> HIDE DEF at, I, shifted
    <3> QED BY <3>1
  <2> HIDE DEF I, at, r
  <2>4. /\ shifted \in Seq(S) /\ Len(shifted) = Len(s) + 1
        /\ \A k \in 1 .. Len(s) + 1 :
               shifted[k] = IF k < at THEN s[k] ELSE IF k = at THEN a ELSE s[k - 1]
    <3>1. s \in Seq(S) /\ at \in 1 .. Len(s)
      BY <1>2, <2>2
    <3> HIDE DEF s
    <3>2. shifted \in Seq(S) /\ Widened(shifted, s, at, a)
      BY <3>1, InsertAtItems
    <3> QED BY <3>2 DEF Widened
  <2> HIDE DEF shifted, Small, s
  <2>5. /\ r \in Seq(S) /\ Len(r) = Len(s) + 1
        /\ \A k \in 1 .. Len(s) + 1 :
               r[k] = IF k = Len(s) + 1 THEN h.beyond ELSE shifted[k]
    <3>1. Len(shifted) \in 1 .. Len(shifted)
      BY <1>2, <2>4
    <3> QED BY <3>1, <2>3, <2>4, ExceptSeq
  <2>6. DOMAIN r = 1 .. Len(s) + 1
    BY <2>5, LenProperties
  <2>7. ASSUME NEW i \in DOMAIN r
        PROVE  \/ i = Len(s) + 1 /\ r[i] = h.beyond
               \/ i < at /\ i \in DOMAIN s /\ r[i] = s[i]
               \/ i = at /\ r[i] = a
               \/ i > at /\ i - 1 \in DOMAIN s /\ r[i] = s[i - 1]
    BY <1>2, <2>2, <2>4, <2>5, <2>6
  <2>8. ASSUME NEW i \in DOMAIN r, NEW j \in DOMAIN r, i < j, r[j] \notin Low
        PROVE  \/ \E k, l \in DOMAIN s : k < l /\ r[i] = s[k] /\ r[j] = s[l]
               \/ /\ r[i] = a
                  /\ \E k, l \in DOMAIN s : k <= l /\ ~Small(k) /\ r[j] = s[l]
               \/ r[j] = a /\ \E k \in DOMAIN s : r[i] = s[k] /\ Small(k)
    <3>0. /\ i \in Nat /\ j \in Nat /\ at \in Nat /\ i # Len(s) + 1
          /\ at \in DOMAIN s
      BY <1>2, <2>2, <2>6, <2>8
    <3>1. CASE i < at /\ i \in DOMAIN s /\ r[i] = s[i]
      <4>1. CASE j < at /\ j \in DOMAIN s /\ r[j] = s[j]
        BY <3>1, <4>1, <2>8, Zenon
      <4>2. CASE j = at /\ r[j] = a
        BY <3>1, <4>2, <2>2, <1>2
      <4>3. CASE j > at /\ j - 1 \in DOMAIN s /\ r[j] = s[j - 1]
        <5>1. i < j - 1
          BY <3>0, <3>1, <4>3
        <5> QED BY <5>1, <3>1, <4>3
      <4> QED BY <4>1, <4>2, <4>3, <2>7, <2>8
    <3>2. CASE i = at /\ r[i] = a
      <4>1. j > at /\ j - 1 \in DOMAIN s /\ r[j] = s[j - 1]
        BY <3>0, <3>2, <2>7, <2>8
      <4>2. at <= j - 1
        BY <3>0, <4>1
      <4> QED BY <3>0, <3>2, <4>1, <4>2, <2>2
    <3>3. CASE i > at /\ i - 1 \in DOMAIN s /\ r[i] = s[i - 1]
      <4>1. j > at /\ j - 1 \in DOMAIN s /\ r[j] = s[j - 1]
        BY <3>0, <3>3, <2>7, <2>8
      <4>2. i - 1 < j - 1
        BY <3>0, <2>8
      <4> QED BY <3>3, <4>1, <4>2
    <3> QED BY <3>0, <3>1, <3>2, <3>3, <2>7
  <2>9. Len(r) <= MaxEntries
    BY <1>2, <1>5, <2>5
  <2>10. \A i \in DOMAIN r :
            r[i] \in {a, h.beyond} \/ \E k \in DOMAIN s : r[i] = s[k]
    BY <2>7
  <2> QED BY <1>1, <2>5, <2>8, <2>9, <2>10 DEF s, Small, Entered
<1> QED BY <1>2, <1>3, <1>4, <1>5

-----------------------------------------------------------------------------
\* A header in the heap is not at a low address.
LEMMA LowFacts ==
    /\ NULL \in Low /\ NULL \notin Stray /\ Stray \subseteq Low
    /\ \A n \in Nat : n \notin Low
<1>1. Stray \subseteq Int /\ \A n \in Stray : n < 0
  BY HeapAssumption DEF Stray
<1>2. NULL \notin Int
  BY HeapAssumption
<1>3. \A n \in Nat : n \notin Stray /\ n # NULL
  BY <1>1, <1>2
<1> QED BY <1>1, <1>2, <1>3 DEF Low

\* The word behind the array of g is that of h, or a stray one.
Overrun(g, h) == g.beyond \in {h.beyond} \cup Stray

\* What a removal leaves behind the array is a size of the first block.
LEMMA BehindFacts ==
    ASSUME NEW h, Shape(h), NEW e \in Blocks(h)
    PROVE  Behind(h, e) \in {h.beyond} \cup Stray
<1>1. 0 \in Blocks(h)
  BY DEF Shape, Tiled
<1>2. EndIn(h, 0) <= h.brk /\ h.brk \in 0 .. HEAPEND /\ h.hdr[0].size \in Nat \ {0}
  BY <1>1 DEF Shape, Spaced, Formed, Block
<1>3. h.hdr[0].size \in 1 .. HEAPEND
  BY <1>2, HeapAssumption DEF EndIn
<1> QED BY <1>3 DEF Behind, Stray

\* The list of free blocks outlives a change of the heap that keeps the free
\* blocks other than x, and takes e out of the array.
LEMMA ListingKept ==
    ASSUME NEW h, NEW g, NEW x, NEW e \in Blocks(h), Formed(h), Listing(h, x),
           g.free = Removed(h.free, e), Overrun(g, h),
           \A c \in Blocks(h) \ {x, e} : h.hdr[c].isFree =>
               c \in Blocks(g) /\ g.hdr[c].isFree /\ g.hdr[c].size = h.hdr[c].size
    PROVE  Listing(g, x) /\ Listing(g, e)
<1> DEFINE S == Blocks(h) \cup Low
           s == h.free
           r == g.free
<1>1. /\ s \in Seq(S) /\ Len(s) <= MaxEntries /\ Len(s) \in Nat
      /\ MaxEntries \in Nat
  BY LenProperties, HeapAssumption DEF Listing
<1>2. /\ r \in Seq(S) /\ Len(r) <= Len(s)
      /\ \A i \in DOMAIN r : \E k \in DOMAIN s : r[i] = s[k]
      /\ \A i, j \in DOMAIN r : i < j =>
             \E k, l \in DOMAIN s : k < l /\ r[i] = s[k] /\ r[j] = s[l]
      /\ \A j \in DOMAIN r : r[j] = e =>
             \E k, l \in DOMAIN s : k < l /\ s[k] = e /\ s[l] = e
  <2>1. s \in Seq(S) /\ r = Removed(s, e)
    BY <1>1
  <2> HIDE DEF S, s, r
  <2> QED BY <2>1, RemovedFacts
<1>3. e \notin Low
  BY LowFacts DEF Formed
<1>4. \A k, l \in DOMAIN s : k < l /\ s[l] \notin Low =>
          s[k] # s[l] /\ Key(h, s[k]) <= Key(h, s[l])
  BY DEF Listing
<1>5. \A k \in DOMAIN s : s[k] \notin Low =>
          s[k] # x /\ h.hdr[s[k]].isFree /\ s[k] \in Blocks(h)
  BY <1>1, ElementOfSeq, LenProperties DEF Listing
<1>6. ASSUME NEW i \in DOMAIN r, r[i] \notin Low
      PROVE  /\ r[i] \notin {x, e}
             /\ r[i] \in Blocks(g) /\ g.hdr[r[i]].isFree
             /\ Key(g, r[i]) = Key(h, r[i])
  <2>1. r[i] # e
    BY <1>2, <1>3, <1>4
  <2>2. r[i] \in Blocks(h) \ {x, e} /\ h.hdr[r[i]].isFree
    BY <1>2, <1>5, <1>6, <2>1
  <2> QED BY <2>2, <1>6 DEF Key, Read
<1>7. \A n \in Low : Key(g, n) = Key(h, n)
  BY DEF Key, Read
<1>8. ASSUME NEW i \in DOMAIN r, NEW j \in DOMAIN r, i < j, r[j] \notin Low
      PROVE  r[i] # r[j] /\ Key(g, r[i]) <= Key(g, r[j])
  <2>1. PICK k \in DOMAIN s, l \in DOMAIN s : k < l /\ r[i] = s[k] /\ r[j] = s[l]
    BY <1>2, <1>8
  <2>2. r[i] # r[j] /\ Key(h, r[i]) <= Key(h, r[j])
    BY <1>4, <1>8, <2>1
  <2>3. Key(g, r[i]) = Key(h, r[i]) /\ Key(g, r[j]) = Key(h, r[j])
    <3>1. CASE r[i] \in Low
      BY <3>1, <1>6, <1>7, <1>8
    <3>2. CASE r[i] \notin Low
      BY <3>2, <1>6, <1>8
    <3> QED BY <3>1, <3>2
  <2> QED BY <2>2, <2>3
<1>9. r \in Seq(Blocks(g) \cup Low)
  <2>1. \A i \in 1 .. Len(r) : r[i] \in Blocks(g) \cup Low
    BY <1>2, <1>6, LenProperties
  <2>2. r \in [1 .. Len(r) -> Blocks(g) \cup Low] /\ Len(r) \in Nat
    BY <2>1, <1>2, LenProperties
  <2> QED BY <2>2, SeqDef
<1>10. Len(r) <= MaxEntries
  BY <1>1, <1>2, LenProperties
<1>11. g.beyond \in Low /\ (h.beyond # NULL => g.beyond # NULL)
  BY LowFacts DEF Listing, Overrun
<1>12. \A i \in DOMAIN r : r[i] \in Stray => g.beyond # NULL
  BY <1>2, <1>11 DEF Listing
<1> QED BY <1>6, <1>8, <1>9, <1>10, <1>11, <1>12 DEF Listing

\* It outlives a change that keeps the free blocks and the array.
LEMMA ListingSame ==
    ASSUME NEW h, NEW g, NEW x, Listing(h, x),
           g.free = h.free, g.beyond = h.beyond,
           \A c \in Blocks(h) \ {x} : h.hdr[c].isFree =>
               c \in Blocks(g) /\ g.hdr[c].isFree /\ g.hdr[c].size = h.hdr[c].size
    PROVE  Listing(g, x)
<1> DEFINE s == h.free
<1>1. /\ s \in Seq(Blocks(h) \cup Low) /\ Len(s) <= MaxEntries
      /\ Len(s) \in Nat /\ DOMAIN s = 1 .. Len(s)
  BY LenProperties DEF Listing
<1>2. ASSUME NEW i \in DOMAIN s
      PROVE  /\ s[i] \notin Low => /\ s[i] # x
                                   /\ s[i] \in Blocks(g) /\ g.hdr[s[i]].isFree
             /\ Key(g, s[i]) = Key(h, s[i])
  <2>1. CASE s[i] \in Low
    BY <2>1 DEF Key, Read
  <2>2. CASE s[i] \notin Low
    <3>1. s[i] \in Blocks(h) \ {x} /\ h.hdr[s[i]].isFree
      BY <2>2, <1>1, ElementOfSeq DEF Listing
    <3> QED BY <2>2, <3>1 DEF Key, Read
  <2> QED BY <2>1, <2>2
<1>3. s \in Seq(Blocks(g) \cup Low)
  <2>1. s \in [1 .. Len(s) -> Blocks(g) \cup Low]
    BY <1>1, <1>2, LenProperties
  <2> QED BY <2>1, <1>1, SeqDef
<1>4. ASSUME NEW i \in DOMAIN s, NEW j \in DOMAIN s, i < j, s[j] \notin Low
      PROVE  s[i] # s[j] /\ Key(g, s[i]) <= Key(g, s[j])
  BY <1>2, <1>4 DEF Listing
<1> QED BY <1>1, <1>2, <1>3, <1>4 DEF Listing

\* A block enters the list of free blocks and changes in nothing else.
LEMMA ListedFacts ==
    ASSUME NEW h, Formed(h), low \in AtLow, NEW a \in Blocks(h), Listing(h, a)
    PROVE  LET g == Listed(h, a)
           IN  /\ DOMAIN g = DOMAIN h
               /\ g.hdr = [h.hdr EXCEPT ![a] = [@ EXCEPT !.isFree = TRUE]]
               /\ g.head = h.head /\ g.tail = h.tail
               /\ g.beyond = h.beyond /\ g.brk = h.brk /\ g.mapped = h.mapped
               /\ Listing(g, NULL)
<1> DEFINE m == [h EXCEPT !.hdr[a].isFree = TRUE]
           g == [m EXCEPT !.free = Inserted(m, a)]
           s == h.free
           r == g.free
           S == Blocks(h) \cup Low
<1>1. Listed(h, a) = g
  BY DEF Listed
<1>2. /\ DOMAIN m = DOMAIN h
      /\ m.hdr = [h.hdr EXCEPT ![a] = [@ EXCEPT !.isFree = TRUE]]
      /\ m.head = h.head /\ m.tail = h.tail
      /\ m.brk = h.brk /\ m.mapped = h.mapped
      /\ m.free = h.free /\ m.beyond = h.beyond
  BY DEF Formed
<1> HIDE DEF m
<1>3. /\ DOMAIN g = DOMAIN h /\ g.hdr = m.hdr
      /\ g.head = h.head /\ g.tail = h.tail
      /\ g.beyond = h.beyond /\ g.brk = h.brk /\ g.mapped = h.mapped /\ r = Inserted(m, a)
  BY <1>2 DEF Formed
<1> HIDE DEF g
<1>4. /\ Blocks(g) = Blocks(h) /\ g.hdr[a].isFree
      /\ \A c \in Blocks(h) : g.hdr[c].size = h.hdr[c].size
      /\ \A c \in Blocks(h) \ {a} : g.hdr[c].isFree = h.hdr[c].isFree
  BY <1>2, <1>3 DEF Formed, Block, Blocks
<1>5. Blocks(h) \cap Low = {} /\ a \notin Low
  BY LowFacts DEF Formed
<1>6. \A c \in S : Key(g, c) = Key(h, c) /\ Read(m, c).size = Key(h, c) /\ Key(h, c) \in Nat
  BY <1>3, <1>4, <1>5, HeapAssumption DEF Key, Read, Formed, Block, Blocks
<1>7. /\ s \in Seq(S) /\ Len(s) <= MaxEntries
      /\ \A k \in DOMAIN s : s[k] \in S
      /\ \A k \in DOMAIN s : s[k] \notin Low => s[k] # a /\ h.hdr[s[k]].isFree
      /\ \A k, l \in DOMAIN s : k < l /\ s[l] \notin Low =>
             s[k] # s[l] /\ Key(h, s[k]) <= Key(h, s[l])
  BY ElementOfSeq, LenProperties DEF Listing
<1>8. m.hdr[a].size = Key(h, a)
  BY <1>3, <1>4, <1>5 DEF Key, Read
<1> DEFINE Small(k) == Key(h, s[k]) < Key(h, a)
<1>9. /\ r \in Seq(S) /\ Len(r) <= MaxEntries
      /\ \A i \in DOMAIN r :
             r[i] \in {a, h.beyond} \/ \E k \in DOMAIN s : r[i] = s[k]
      /\ \A i, j \in DOMAIN r : i < j /\ r[j] \notin Low =>
          \/ \E k, l \in DOMAIN s : k < l /\ r[i] = s[k] /\ r[j] = s[l]
          \/ /\ r[i] = a
             /\ \E k, l \in DOMAIN s : k <= l /\ ~Small(k) /\ r[j] = s[l]
          \/ /\ r[j] = a
             /\ \E k \in DOMAIN s : r[i] = s[k] /\ Small(k)
  <2> DEFINE Less(k) == Read(m, m.free[k]).size < m.hdr[a].size
  <2>1. /\ r \in Seq(S) /\ Len(r) <= MaxEntries
        /\ \A i \in DOMAIN r :
               r[i] \in {a, m.beyond} \/ \E k \in DOMAIN m.free : r[i] = m.free[k]
        /\ \A i, j \in DOMAIN r : i < j /\ r[j] \notin Low =>
            \/ \E k, l \in DOMAIN m.free :
                   k < l /\ r[i] = m.free[k] /\ r[j] = m.free[l]
            \/ /\ r[i] = a
               /\ \E k, l \in DOMAIN m.free : k <= l /\ ~Less(k) /\ r[j] = m.free[l]
            \/ /\ r[j] = a
               /\ \E k \in DOMAIN m.free : r[i] = m.free[k] /\ Less(k)
    <3>1. /\ m.free \in Seq(S) /\ Len(m.free) <= MaxEntries
          /\ m.beyond \in S /\ m.beyond \in Low /\ a \in S /\ r = Inserted(m, a)
      BY <1>2, <1>3, <1>7 DEF Listing
    <3> HIDE DEF S, r, s
    <3>2. Entered(r, m, S, a)
      BY <3>1, InsertedFacts
    <3> QED BY <3>2 DEF Entered
  <2>2. m.free = s /\ m.beyond = h.beyond
    BY <1>2
  <2>3. ASSUME NEW k \in DOMAIN s PROVE Less(k) <=> Small(k)
    BY <2>2, <1>6, <1>7, <1>8
  <2>4. \A i \in DOMAIN r :
            r[i] \in {a, h.beyond} \/ \E k \in DOMAIN s : r[i] = s[k]
    BY <2>1, <2>2
  <2> HIDE DEF Less, Small
  <2>5. ASSUME NEW i \in DOMAIN r, NEW j \in DOMAIN r, i < j, r[j] \notin Low
        PROVE  \/ \E k, l \in DOMAIN s : k < l /\ r[i] = s[k] /\ r[j] = s[l]
               \/ /\ r[i] = a
                  /\ \E k, l \in DOMAIN s : k <= l /\ ~Small(k) /\ r[j] = s[l]
               \/ /\ r[j] = a
                  /\ \E k \in DOMAIN s : r[i] = s[k] /\ Small(k)
    <3>1. \/ \E k, l \in DOMAIN s : k < l /\ r[i] = s[k] /\ r[j] = s[l]
          \/ /\ r[i] = a
             /\ \E k, l \in DOMAIN s : k <= l /\ ~Less(k) /\ r[j] = s[l]
          \/ /\ r[j] = a
             /\ \E k \in DOMAIN s : r[i] = s[k] /\ Less(k)
      <4> HIDE DEF s, r
      <4> QED BY <2>1, <2>2, <2>5
    <3> HIDE DEF s, r
    <3> QED BY <3>1, <2>3
  <2>6. r \in Seq(S) /\ Len(r) <= MaxEntries
    BY <2>1
  <2> HIDE DEF s, r, S
  <2> QED BY <2>4, <2>5, <2>6, Zenon
<1>10. ASSUME NEW i \in DOMAIN r, r[i] \notin Low PROVE g.hdr[r[i]].isFree
  <2>1. h.beyond \in Low
    BY DEF Listing
  <2> QED BY <2>1, <1>4, <1>7, <1>9, <1>10
<1>11. ASSUME NEW i \in DOMAIN r, NEW j \in DOMAIN r, i < j, r[j] \notin Low
       PROVE  r[i] # r[j] /\ Key(g, r[i]) <= Key(g, r[j])
  <2>1. r[i] \in S /\ r[j] \in S
    BY <1>9, ElementOfSeq, LenProperties
  <2>2. r[i] # r[j] /\ Key(h, r[i]) <= Key(h, r[j])
    <3>1. CASE \E k, l \in DOMAIN s : k < l /\ r[i] = s[k] /\ r[j] = s[l]
      BY <3>1, <1>7, <1>11
    <3>2. CASE /\ r[i] = a
               /\ \E k, l \in DOMAIN s : k <= l /\ ~Small(k) /\ r[j] = s[l]
      <4>1. PICK k \in DOMAIN s, l \in DOMAIN s : k <= l /\ ~Small(k) /\ r[j] = s[l]
        BY <3>2
      <4>2. k = l \/ Key(h, s[k]) <= Key(h, s[l])
        <5>1. k \in Int /\ l \in Int
          BY <1>7, LenProperties
        <5>2. k = l \/ k < l
          BY <4>1, <5>1
        <5> QED BY <5>2, <4>1, <1>7, <1>11
      <4>3. Key(h, s[k]) \in Nat /\ Key(h, s[l]) \in Nat /\ Key(h, a) \in Nat
        BY <1>6, <1>7
      <4>4. Key(h, a) <= Key(h, s[k])
        BY <4>1, <4>3
      <4> HIDE DEF Small
      <4>5. Key(h, a) <= Key(h, r[j])
        BY <4>1, <4>2, <4>3, <4>4
      <4>6. r[j] # a
        BY <4>1, <1>7, <1>11
      <4> QED BY <3>2, <4>5, <4>6
    <3>3. CASE /\ r[j] = a
               /\ \E k \in DOMAIN s : r[i] = s[k] /\ Small(k)
      <4>1. PICK k \in DOMAIN s : r[i] = s[k] /\ Small(k)
        BY <3>3
      <4>2. Key(h, s[k]) \in Nat /\ Key(h, a) \in Nat
        BY <1>6, <1>7
      <4> QED BY <3>3, <4>1, <4>2, <1>5, <1>7
    <3> HIDE DEF Small
    <3> QED BY <3>1, <3>2, <3>3, <1>9, <1>11
  <2> QED BY <2>1, <2>2, <1>6
<1>12. h.beyond \in Low /\ \A k \in DOMAIN s : s[k] \in Stray => h.beyond # NULL
  BY DEF Listing
<1>13. ASSUME NEW i \in DOMAIN r, r[i] \in Stray PROVE h.beyond # NULL
  BY <1>5, <1>9, <1>12, <1>13, LowFacts
<1>14. Listing(g, NULL)
  BY <1>3, <1>4, <1>9, <1>10, <1>11, <1>12, <1>13, LowFacts DEF Listing
<1> QED BY <1>1, <1>2, <1>3, <1>14

-----------------------------------------------------------------------------
(***************************************************************************)
(* What the functions of heap.c do to a heap in which all is well.         *)
(***************************************************************************)

\* What the shape of a heap says of one block a and of its two neighbours.
LEMMA NeighbourFacts ==
    ASSUME NEW h, Shape(h), NEW a \in Blocks(h)
    PROVE  /\ a \in Nat /\ h.hdr[a] \in Block /\ a < EndIn(h, a) /\ EndIn(h, a) \in Nat
           /\ EndIn(h, a) <= h.brk
           /\ h.hdr[a].next = NULL <=> a = h.tail
           /\ h.hdr[a].next # NULL =>
                  /\ h.hdr[a].next = EndIn(h, a)
                  /\ h.hdr[a].next \in Blocks(h) /\ h.hdr[a].next > a
                  /\ h.hdr[h.hdr[a].next].back = a
           /\ h.hdr[a].back # NULL =>
                  /\ h.hdr[a].back \in Blocks(h) /\ h.hdr[a].back < a
                  /\ h.hdr[h.hdr[a].back].next = a
           /\ h.hdr[a].back = NULL <=> a = 0
<1>1. /\ a \in Nat /\ h.hdr[a] \in Block /\ HEADER \in Nat \ {0}
      /\ NULL \notin Blocks(h) /\ NULL \notin Nat
  BY HeapAssumption DEF Shape, Formed
<1>2. h.hdr[a].size \in Nat \ {0}
  BY <1>1 DEF Block
<1>3. EndIn(h, a) \in Nat /\ a < EndIn(h, a)
  BY <1>1, <1>2 DEF EndIn
<1>4. EndIn(h, a) <= h.brk
  BY DEF Shape, Spaced
<1>5. /\ a = h.tail => h.hdr[a].next = NULL /\ EndIn(h, a) = h.brk
      /\ a # h.tail => /\ h.hdr[a].next = EndIn(h, a)
                       /\ EndIn(h, a) \in Blocks(h)
                       /\ h.hdr[EndIn(h, a)].back = a
      /\ a = 0 => h.hdr[a].back = NULL
      /\ a # 0 => h.hdr[a].back \in Blocks(h) /\ h.hdr[h.hdr[a].back].next = a
  BY DEF Shape, Tiled
<1>6. ASSUME a # 0 PROVE h.hdr[a].back < a
  <2> DEFINE l == h.hdr[a].back
  <2>1. l \in Blocks(h) /\ h.hdr[l].next = a
    BY <1>5, <1>6
  <2> HIDE DEF l
  <2>2. l # h.tail
    BY <1>1, <2>1 DEF Shape, Tiled
  <2>3. a = EndIn(h, l)
    BY <2>1, <2>2 DEF Shape, Tiled
  <2>4. l \in Nat /\ h.hdr[l].size \in Nat \ {0}
    BY <2>1 DEF Shape, Formed, Block
  <2>5. l < a
    BY <1>1, <2>3, <2>4 DEF EndIn
  <2> QED BY <2>5 DEF l
<1> QED BY <1>1, <1>3, <1>4, <1>5, <1>6

\* q is the header r with another `back`.
Backed(q, r, v) ==
    /\ q \in Block /\ q.back = v
    /\ q.size = r.size /\ q.isFree = r.isFree /\ q.next = r.next

\* A header whose `back` is set keeps its other fields.
LEMMA BackFacts ==
    ASSUME NEW r \in Block, NEW v \in Nat
    PROVE  Backed([r EXCEPT !.back = v], r, v)
BY DEF Block, Backed

\* q is the header r with another size and another next block.
Resized(q, r, n, v) ==
    /\ q \in Block /\ q.size = n /\ q.next = v
    /\ q.isFree = r.isFree /\ q.back = r.back

\* A header that gets another size and another next block keeps the rest.
LEMMA ResizedFacts ==
    ASSUME NEW r \in Block, NEW n \in Nat \ {0}, NEW v \in Nat \cup {NULL}
    PROVE  Resized([r EXCEPT !.size = n, !.next = v], r, n, v)
BY DEF Block, Resized

\* The fields of the heap after a merge.
LEMMA AbsorbFields ==
    ASSUME NEW h, Formed(h), NEW a \in Blocks(h), NEW b \in Blocks(h),
           a # b, a # h.hdr[b].next
    PROVE  LET g == Absorb(h, a, b)
               after == h.hdr[b].next
           IN  /\ DOMAIN g = DOMAIN h
               /\ Blocks(g) = Blocks(h) \ {b}
               /\ g.hdr \in [Blocks(g) -> Block]
               /\ g.hdr[a].size = h.hdr[a].size + h.hdr[b].size + HEADER
               /\ g.hdr[a].isFree = h.hdr[a].isFree
               /\ g.hdr[a].next = after
               /\ g.hdr[a].back = h.hdr[a].back
               /\ \A c \in Blocks(h) \ {a, b} :
                      /\ g.hdr[c].size = h.hdr[c].size
                      /\ g.hdr[c].isFree = h.hdr[c].isFree
                      /\ g.hdr[c].next = h.hdr[c].next
                      /\ g.hdr[c].back = IF c = after THEN a ELSE h.hdr[c].back
               /\ g.tail = IF h.tail = b THEN a ELSE h.tail
               /\ g.head = h.head /\ g.free = h.free /\ g.beyond = h.beyond
               /\ g.brk = h.brk /\ g.mapped = h.mapped
<1> DEFINE after == h.hdr[b].next
           f == [x \in DOMAIN h.hdr \ {b} |->
                        CASE x = a -> [h.hdr[a] EXCEPT
                                          !.size = @ + h.hdr[b].size + HEADER,
                                          !.next = after]
                          [] x = after -> [h.hdr[x] EXCEPT !.back = a]
                          [] OTHER -> h.hdr[x]]
           t == IF h.tail = b THEN a ELSE h.tail
           g == [h EXCEPT !.hdr = f, !.tail = t]
<1>1. Absorb(h, a, b) = g
  BY DEF Absorb
<1>2. /\ \A c \in Blocks(h) : h.hdr[c] \in Block
      /\ Blocks(h) \subseteq Nat /\ HEADER \in Nat
  BY HeapAssumption DEF Formed
<1>3. /\ h.hdr[a] \in Block /\ h.hdr[b] \in Block /\ a \in Nat
      /\ after \in Nat \cup {NULL}
  BY <1>2 DEF Block
<1>4. f[a] = [h.hdr[a] EXCEPT !.size = @ + h.hdr[b].size + HEADER, !.next = after]
  <2>1. a \in DOMAIN h.hdr \ {b} /\ a # after
    BY DEF Blocks
  <2>2. f[a] = CASE a = a -> [h.hdr[a] EXCEPT !.size = @ + h.hdr[b].size + HEADER,
                                              !.next = after]
                 [] a = after -> [h.hdr[a] EXCEPT !.back = a]
                 [] OTHER -> h.hdr[a]
    BY <2>1
  <2> HIDE DEF f, after
  <2> QED BY <2>1, <2>2
<1>5. ASSUME NEW c \in Blocks(h) \ {a, b}
      PROVE  f[c] = IF c = after THEN [h.hdr[c] EXCEPT !.back = a] ELSE h.hdr[c]
  <2>1. c \in DOMAIN h.hdr \ {b} /\ c # a
    BY DEF Blocks
  <2>2. f[c] = CASE c = a -> [h.hdr[a] EXCEPT !.size = @ + h.hdr[b].size + HEADER,
                                              !.next = after]
                 [] c = after -> [h.hdr[c] EXCEPT !.back = a]
                 [] OTHER -> h.hdr[c]
    BY <2>1
  <2> HIDE DEF f, after
  <2> QED BY <2>1, <2>2
<1>6. DOMAIN f = Blocks(h) \ {b}
  BY DEF Blocks
<1> HIDE DEF after
<1>7. /\ f[a] \in Block
      /\ f[a].size = h.hdr[a].size + h.hdr[b].size + HEADER
      /\ f[a].isFree = h.hdr[a].isFree /\ f[a].next = after
      /\ f[a].back = h.hdr[a].back
  <2> HIDE DEF f
  <2> DEFINE n == h.hdr[a].size + h.hdr[b].size + HEADER
  <2>1. n \in Nat \ {0}
    BY <1>2, <1>3 DEF Block
  <2>2. f[a] = [h.hdr[a] EXCEPT !.size = n, !.next = after]
    BY <1>4
  <2> HIDE DEF n
  <2>3. /\ f[a] \in Block /\ f[a].size = n /\ f[a].next = after
        /\ f[a].isFree = h.hdr[a].isFree /\ f[a].back = h.hdr[a].back
    BY <1>3, <2>1, <2>2 DEF Block
  <2> QED BY <2>3 DEF n
<1>8. ASSUME NEW c \in Blocks(h) \ {a, b}
      PROVE  /\ f[c] \in Block
             /\ f[c].size = h.hdr[c].size /\ f[c].isFree = h.hdr[c].isFree
             /\ f[c].next = h.hdr[c].next
             /\ f[c].back = IF c = after THEN a ELSE h.hdr[c].back
  <2>1. h.hdr[c] \in Block
    BY <1>2
  <2> HIDE DEF f
  <2>2. CASE c = after
    <3>1. Backed([h.hdr[c] EXCEPT !.back = a], h.hdr[c], a)
      BY <2>1, <1>3, BackFacts
    <3> QED BY <2>2, <3>1, <1>5 DEF Backed
  <2>3. CASE c # after
    BY <2>3, <1>3, <1>5, <2>1 DEF Block
  <2> QED BY <2>2, <2>3
<1>9. f \in [Blocks(h) \ {b} -> Block]
  <2>1. f = [x \in DOMAIN f |-> f[x]]
    OBVIOUS
  <2> HIDE DEF f
  <2> QED BY <1>6, <1>7, <1>8, <2>1
<1> HIDE DEF f, t
<1>10. /\ DOMAIN g = DOMAIN h /\ g.hdr = f /\ g.tail = t
       /\ g.head = h.head /\ g.free = h.free /\ g.beyond = h.beyond
       /\ g.brk = h.brk /\ g.mapped = h.mapped
  BY DEF Formed
<1> HIDE DEF g
<1>11. Blocks(g) = Blocks(h) \ {b}
  BY <1>6, <1>10 DEF Blocks
<1> QED BY <1>1, <1>7, <1>8, <1>9, <1>10, <1>11 DEF after, t

\* A merge with the right neighbour keeps the shape of the heap.
LEMMA AbsorbShape ==
    ASSUME NEW h, Shape(h), NEW a \in Blocks(h), NEW b, b = h.hdr[a].next, b # NULL
    PROVE  /\ Shape(Absorb(h, a, b))
           /\ b \in Blocks(h) /\ b # a
<1> DEFINE g == Absorb(h, a, b)
           after == h.hdr[b].next
<1>1. b \in Blocks(h) /\ a # b /\ b = EndIn(h, a) /\ h.hdr[b].back = a
  BY NeighbourFacts
<1>2. /\ DOMAIN g = DOMAIN h
      /\ Blocks(g) = Blocks(h) \ {b}
      /\ g.hdr \in [Blocks(g) -> Block]
      /\ g.hdr[a].size = h.hdr[a].size + h.hdr[b].size + HEADER
      /\ g.hdr[a].next = after
      /\ g.hdr[a].back = h.hdr[a].back
      /\ \A c \in Blocks(h) \ {a, b} :
             /\ g.hdr[c].size = h.hdr[c].size
             /\ g.hdr[c].next = h.hdr[c].next
             /\ g.hdr[c].back = IF c = after THEN a ELSE h.hdr[c].back
      /\ g.tail = IF h.tail = b THEN a ELSE h.tail
      /\ g.head = h.head /\ g.brk = h.brk /\ g.mapped = h.mapped
  <2>1. Formed(h) /\ a # after
    BY <1>1, NeighbourFacts DEF Shape
  <2> QED BY <1>1, <2>1, AbsorbFields
<1> HIDE DEF g
<1>3. /\ HEADER \in Nat /\ h.hdr[a].size \in Nat /\ h.hdr[b].size \in Nat
      /\ a \in Nat /\ b \in Nat /\ NULL \notin Nat
  BY <1>1, HeapAssumption, NeighbourFacts DEF Block
<1>4. EndIn(g, a) = EndIn(h, b)
  BY <1>1, <1>2, <1>3 DEF EndIn
<1>5. \A c \in Blocks(h) \ {a, b} : EndIn(g, c) = EndIn(h, c)
  BY <1>2 DEF EndIn
<1>6. Formed(g)
  BY <1>2 DEF Shape, Formed
<1>7. /\ \A c, d \in Blocks(h) : c < d => EndIn(h, c) <= d
      /\ \A c \in Blocks(h) : EndIn(h, c) <= h.brk
      /\ Blocks(h) \subseteq Nat
  BY DEF Shape, Spaced, Formed
<1>8. Spaced(g)
  <2>1. ASSUME NEW c \in Blocks(g), NEW d \in Blocks(g), c < d
        PROVE  EndIn(g, c) <= d
    <3>1. CASE c = a
      <4>1. b <= d /\ b # d
        BY <1>1, <1>2, <1>7, <2>1, <3>1
      <4>2. b < d
        BY <4>1, <1>2, <1>3, <1>7, <2>1
      <4> QED BY <4>2, <1>1, <1>2, <1>4, <1>7, <3>1
    <3>2. CASE c # a
      BY <3>2, <1>2, <1>5, <1>7, <2>1
    <3> QED BY <3>1, <3>2
  <2>2. ASSUME NEW c \in Blocks(g) PROVE EndIn(g, c) <= g.brk
    BY <1>1, <1>2, <1>4, <1>5, <1>7
  <2> QED BY <2>1, <2>2 DEF Spaced
<1>9. /\ after = NULL <=> b = h.tail
      /\ b = h.tail => EndIn(h, b) = h.brk
      /\ after # NULL => /\ after = EndIn(h, b) /\ after \in Blocks(h)
                         /\ after > b /\ h.hdr[after].back = b
  BY <1>1, NeighbourFacts DEF Shape, Tiled
<1>10. b > a
  BY <1>1, NeighbourFacts
<1>11. /\ Blocks(g) # {} /\ g.head = 0 /\ {0, g.tail} \subseteq Blocks(g)
  <2>1. h.head = 0 /\ 0 \in Blocks(h) /\ h.tail \in Blocks(h)
    BY DEF Shape, Tiled
  <2> QED BY <2>1, <1>1, <1>2, <1>3, <1>10
<1>12. ASSUME NEW c \in Blocks(g), c = g.tail
       PROVE  g.hdr[c].next = NULL /\ EndIn(g, c) = g.brk
  <2>1. CASE h.tail = b
    BY <2>1, <1>2, <1>4, <1>9, <1>12
  <2>2. CASE h.tail # b
    <3>1. c # a
      BY <2>2, <1>2, <1>12, NeighbourFacts
    <3>2. h.hdr[c].next = NULL /\ EndIn(h, c) = h.brk
      BY <2>2, <1>2, <1>12 DEF Shape, Tiled
    <3> QED BY <3>1, <3>2, <1>2, <1>5
  <2> QED BY <2>1, <2>2
<1>13. ASSUME NEW c \in Blocks(g), c # g.tail
       PROVE  /\ g.hdr[c].next = EndIn(g, c)
              /\ EndIn(g, c) \in Blocks(g)
              /\ g.hdr[EndIn(g, c)].back = c
  <2>1. CASE c = a
    <3>1. after # NULL
      BY <2>1, <1>2, <1>9, <1>13
    <3>2. after \in Blocks(h) \ {a, b}
      BY <3>1, <1>3, <1>9, <1>10
    <3>3. after = EndIn(g, a)
      BY <3>1, <1>4, <1>9
    <3>4. g.hdr[a].next = after
      BY <1>2
    <3>5. after \in Blocks(g) /\ g.hdr[after].back = a
      BY <3>2, <1>2
    <3> QED BY <2>1, <3>3, <3>4, <3>5
  <2>2. CASE c # a
    <3> DEFINE d == EndIn(h, c)
    <3>1. c # h.tail
      BY <2>2, <1>2, <1>13
    <3>2. h.hdr[c].next = d /\ d \in Blocks(h) /\ h.hdr[d].back = c
      BY <3>1, <1>2 DEF Shape, Tiled
    <3>3. d # b
      BY <2>2, <3>2, <1>1
    <3>4. d # after
      BY <3>2, <1>2, <1>3, <1>9, HeapAssumption DEF Shape, Formed
    <3>5. g.hdr[d].back = c
      <4> HIDE DEF d
      <4>1. CASE d = a
        BY <4>1, <3>2, <1>2
      <4>2. CASE d # a
        BY <4>2, <3>2, <3>3, <3>4, <1>2
      <4> QED BY <4>1, <4>2
    <3> QED BY <2>2, <3>2, <3>3, <3>5, <1>2, <1>5
  <2> QED BY <2>1, <2>2
<1>14. ASSUME NEW c \in Blocks(g), c = 0 PROVE g.hdr[c].back = NULL
  <2>1. h.hdr[c].back = NULL
    BY <1>2, <1>14 DEF Shape, Tiled
  <2>2. c # after
    BY <1>3, <1>9, <1>14, HeapAssumption
  <2>3. CASE c = a
    BY <2>1, <2>3, <1>2
  <2>4. CASE c # a
    BY <2>1, <2>2, <2>4, <1>2
  <2> QED BY <2>3, <2>4
<1>15. ASSUME NEW c \in Blocks(g), c # 0
       PROVE  g.hdr[c].back \in Blocks(g) /\ g.hdr[g.hdr[c].back].next = c
  <2>1. /\ h.hdr[c].back \in Blocks(h) /\ h.hdr[h.hdr[c].back].next = c
        /\ h.hdr[c].back < c
    BY <1>2, <1>15, NeighbourFacts, HeapAssumption DEF Shape, Formed
  <2>2. CASE c = a
    <3>1. h.hdr[c].back \notin {a, b}
      BY <2>1, <2>2, <1>3, <1>10
    <3> QED BY <2>1, <2>2, <3>1, <1>2
  <2>3. CASE c # a /\ c = after
    BY <2>3, <1>1, <1>2
  <2>4. CASE c # a /\ c # after
    <3>1. h.hdr[c].back # b
      BY <2>1, <2>4
    <3>2. h.hdr[c].back # a
      BY <2>1, <1>2
    <3> QED BY <2>1, <2>4, <3>1, <3>2, <1>2
  <2> QED BY <2>2, <2>3, <2>4
<1>16. Tiled(g)
  BY <1>11, <1>12, <1>13, <1>14, <1>15 DEF Tiled
<1> QED BY <1>1, <1>6, <1>8, <1>16 DEF Shape, g

\* The shape of a heap is a matter of the links and sizes of its blocks.
LEMMA ShapeSame ==
    ASSUME NEW h, NEW g, Shape(h), DOMAIN g = DOMAIN h, Blocks(g) = Blocks(h),
           g.hdr \in [Blocks(h) -> Block],
           \A c \in Blocks(h) : /\ g.hdr[c].size = h.hdr[c].size
                                /\ g.hdr[c].next = h.hdr[c].next
                                /\ g.hdr[c].back = h.hdr[c].back,
           g.head = h.head, g.tail = h.tail, g.brk = h.brk, g.mapped = h.mapped
    PROVE  Shape(g)
<1>1. \A c \in Blocks(h) : EndIn(g, c) = EndIn(h, c)
  BY DEF EndIn
<1>2. Formed(g)
  BY DEF Shape, Formed
<1>3. Tiled(g)
  BY <1>1 DEF Shape, Tiled
<1>4. Spaced(g)
  BY <1>1 DEF Shape, Spaced
<1> QED BY <1>2, <1>3, <1>4 DEF Shape

\* g is h with its block b made part of a, and e out of the array.
Joined(g, h, a, b, e) ==
    /\ Shape(g) /\ g.free = Removed(h.free, e) /\ Overrun(g, h)
    /\ b \in Blocks(h) /\ a # b /\ Blocks(g) = Blocks(h) \ {b}
    /\ g.hdr[a].next = h.hdr[b].next /\ g.hdr[a].back = h.hdr[a].back
    /\ g.tail = IF h.tail = b THEN a ELSE h.tail
    /\ g.hdr[a].isFree = h.hdr[a].isFree
    /\ \A c \in Blocks(h) \ {a, b} :
           /\ g.hdr[c].isFree = h.hdr[c].isFree
           /\ g.hdr[c].size = h.hdr[c].size
           /\ g.hdr[c].next = h.hdr[c].next

\* What a merge does to the fields of the heap.
LEMMA MergeFields ==
    ASSUME NEW h, Shape(h), NEW e \in Blocks(h), NEW a \in Blocks(h), NEW b,
           b = h.hdr[a].next, b # NULL
    PROVE  Joined(Absorb(Unlisted(h, e), a, b), h, a, b, e)
<1> DEFINE m == Unlisted(h, e)
           g == Absorb(m, a, b)
<1>1. /\ DOMAIN m = DOMAIN h /\ m.hdr = h.hdr /\ m.free = Removed(h.free, e)
      /\ m.head = h.head /\ m.tail = h.tail
      /\ m.brk = h.brk /\ m.mapped = h.mapped /\ m.beyond = Behind(h, e)
  BY DEF Shape, Formed, Unlisted
<1> HIDE DEF m
<1>2. Blocks(m) = Blocks(h) /\ h.hdr \in [Blocks(h) -> Block]
  BY <1>1 DEF Blocks, Shape, Formed
<1>3. Shape(m)
  BY <1>1, <1>2, ShapeSame
<1>4. Shape(g) /\ b \in Blocks(h) /\ a # b
  BY <1>1, <1>2, <1>3, AbsorbShape
<1>5. Formed(m) /\ a # m.hdr[b].next
  BY <1>1, <1>2, <1>3, <1>4, NeighbourFacts DEF Shape
<1>6. /\ Blocks(g) = Blocks(h) \ {b}
      /\ g.hdr[a].next = h.hdr[b].next /\ g.hdr[a].back = h.hdr[a].back
      /\ g.tail = IF h.tail = b THEN a ELSE h.tail
      /\ g.hdr[a].isFree = h.hdr[a].isFree
      /\ \A c \in Blocks(h) \ {a, b} :
             /\ g.hdr[c].isFree = h.hdr[c].isFree
             /\ g.hdr[c].size = h.hdr[c].size
             /\ g.hdr[c].next = h.hdr[c].next
      /\ g.free = Removed(h.free, e) /\ g.beyond = m.beyond
  BY <1>1, <1>2, <1>4, <1>5, AbsorbFields
<1>7. Overrun(g, h)
  BY <1>1, <1>6, BehindFacts DEF Overrun
<1> QED BY <1>4, <1>6, <1>7 DEF g, m, Joined

\* A used block that is being freed becomes part of a free left neighbour;
\* no free block is on the left of what it is part of then.
LEMMA MergeLeftStep ==
    ASSUME NEW h, NEW x, Pending(h, x), ~h.hdr[x].isFree
    PROVE  LET g == MergeLeft(h, x)
               l == LeftOf(h, x)
           IN  /\ Pending(g, l)
               /\ g.hdr[l].back # NULL => ~g.hdr[g.hdr[l].back].isFree
               /\ Used(g) \ {l} = Used(h) \ {x}
               /\ \A c \in Used(h) \ {x} : g.hdr[c].size = h.hdr[c].size
<1> DEFINE g == MergeLeft(h, x)
           l == LeftOf(h, x)
<1>1. Shape(h) /\ x \in Blocks(h) /\ Listing(h, x) /\ Merged(h, x)
  BY DEF Pending
<1>2. CASE l = x
  <2>1. g = h
    BY <1>2 DEF MergeLeft
  <2>2. h.hdr[x].back # NULL => ~h.hdr[h.hdr[x].back].isFree
    <3>1. SUFFICES ASSUME h.hdr[x].back # NULL, h.hdr[h.hdr[x].back].isFree
                   PROVE  FALSE
      OBVIOUS
    <3>2. l = h.hdr[x].back
      BY <3>1 DEF LeftOf
    <3>3. h.hdr[x].back < x /\ x \in Nat /\ h.hdr[x].back \in Nat
      BY <3>1, <1>1, NeighbourFacts
    <3> QED BY <3>2, <3>3, <1>2
  <2> QED BY <1>1, <1>2, <2>1, <2>2
<1>3. CASE l # x
  <2> DEFINE left == h.hdr[x].back
  <2>1. l = left /\ left # NULL /\ h.hdr[left].isFree
    BY <1>3 DEF LeftOf
  <2>2. g = Absorb(Unlisted(h, left), left, x)
    BY <1>3, <2>1 DEF MergeLeft
  <2> HIDE DEF g, l
  <2>3. left \in Blocks(h) /\ h.hdr[left].next = x /\ x # NULL
    BY <1>1, <2>1, NeighbourFacts, HeapAssumption
  <2> DEFINE after == h.hdr[x].next
  <2>4. /\ Shape(g) /\ g.free = Removed(h.free, left) /\ Overrun(g, h)
        /\ Blocks(g) = Blocks(h) \ {x}
        /\ g.hdr[left].next = after /\ g.hdr[left].back = h.hdr[left].back
        /\ g.tail = IF h.tail = x THEN left ELSE h.tail
        /\ g.hdr[left].isFree = h.hdr[left].isFree
        /\ \A c \in Blocks(h) \ {left, x} :
               /\ g.hdr[c].isFree = h.hdr[c].isFree
               /\ g.hdr[c].size = h.hdr[c].size
               /\ g.hdr[c].next = h.hdr[c].next
    <3>1. Joined(g, h, left, x, left)
      BY <1>1, <2>2, <2>3, MergeFields
    <3> QED BY <3>1 DEF Joined
  <2>5. Listing(g, left)
    <3>1. Formed(h)
      BY <1>1 DEF Shape
    <3> QED BY <1>1, <2>3, <2>4, <3>1, ListingKept
  <2>6. Merged(g, left)
    <3>1. SUFFICES ASSUME NEW c \in Blocks(g), c # left, g.hdr[c].isFree
                   PROVE  /\ c # g.tail
                          /\ g.hdr[c].next # left => ~g.hdr[g.hdr[c].next].isFree
      BY DEF Merged
    <3>2. c \in Blocks(h) /\ c # x /\ h.hdr[c].isFree /\ g.hdr[c].next = h.hdr[c].next
      BY <3>1, <2>4
    <3> DEFINE d == h.hdr[c].next
    <3>3. c # h.tail /\ (d # x => ~h.hdr[d].isFree)
      BY <1>1, <3>2 DEF Merged
    <3>4. d \in Blocks(h) /\ h.hdr[d].back = c
      BY <1>1, <3>2, <3>3, NeighbourFacts
    <3>5. d # x
      BY <3>1, <3>4, <2>1
    <3> QED BY <3>1, <3>2, <3>3, <3>4, <3>5, <2>4
  <2>7. ASSUME g.hdr[left].back # NULL PROVE ~g.hdr[g.hdr[left].back].isFree
    <3> DEFINE k == h.hdr[left].back
    <3>1. k # NULL
      BY <2>4, <2>7
    <3>2. k \in Blocks(h) /\ h.hdr[k].next = left /\ k < left /\ k \in Nat /\ left \in Nat
      BY <1>1, <2>3, <3>1, NeighbourFacts
    <3>3. left < x /\ x \in Nat
      BY <1>1, <2>1, NeighbourFacts
    <3>4. k # x /\ k # left /\ left # x
      BY <3>2, <3>3
    <3>5. ~h.hdr[k].isFree
      BY <1>1, <2>1, <3>2, <3>4 DEF Merged
    <3> QED BY <2>4, <3>2, <3>4, <3>5
  <2>8. Used(g) = Used(h) \ {x} /\ left \notin Used(h) \ {x}
    BY <2>1, <2>3, <2>4 DEF Used
  <2>9. ASSUME NEW c \in Used(h) \ {x} PROVE g.hdr[c].size = h.hdr[c].size
    BY <2>4, <2>8 DEF Used
  <2>10. left \in Blocks(g)
    BY <1>3, <2>1, <2>3, <2>4
  <2>11. /\ Pending(g, left)
         /\ g.hdr[left].back # NULL => ~g.hdr[g.hdr[left].back].isFree
    BY <2>4, <2>5, <2>6, <2>7, <2>10 DEF Pending
  <2> QED BY <2>1, <2>8, <2>9, <2>11 DEF g, l
<1> QED BY <1>2, <1>3

\* A block that is being freed takes in a free right neighbour; no free
\* block is on either side of it then.
LEMMA MergeRightStep ==
    ASSUME NEW h, NEW x, Pending(h, x),
           h.hdr[x].back # NULL => ~h.hdr[h.hdr[x].back].isFree
    PROVE  LET g == MergeRight(h, x)
           IN  /\ Pending(g, x)
               /\ g.hdr[x].back # NULL => ~g.hdr[g.hdr[x].back].isFree
               /\ g.hdr[x].next # NULL => ~g.hdr[g.hdr[x].next].isFree
               /\ Used(g) \ {x} = Used(h) \ {x}
               /\ \A c \in Used(h) \ {x} : g.hdr[c].size = h.hdr[c].size
<1> DEFINE g == MergeRight(h, x)
           r == h.hdr[x].next
<1>1. Shape(h) /\ x \in Blocks(h) /\ Listing(h, x) /\ Merged(h, x)
  BY DEF Pending
<1>2. CASE ~(r # NULL /\ h.hdr[r].isFree)
  <2>1. g = h
    BY <1>2 DEF MergeRight
  <2> QED BY <1>1, <1>2, <2>1
<1>3. CASE r # NULL /\ h.hdr[r].isFree
  <2>1. g = Absorb(Unlisted(h, r), x, r)
    BY <1>3 DEF MergeRight
  <2> HIDE DEF g
  <2>2. r \in Blocks(h) /\ h.hdr[r].back = x /\ r > x /\ r \in Nat /\ x \in Nat
    BY <1>1, <1>3, NeighbourFacts
  <2> DEFINE after == h.hdr[r].next
  <2>3. /\ Shape(g) /\ g.free = Removed(h.free, r) /\ Overrun(g, h)
        /\ Blocks(g) = Blocks(h) \ {r} /\ x # r
        /\ g.hdr[x].next = after /\ g.hdr[x].back = h.hdr[x].back
        /\ g.tail = IF h.tail = r THEN x ELSE h.tail
        /\ g.hdr[x].isFree = h.hdr[x].isFree
        /\ \A c \in Blocks(h) \ {x, r} :
               /\ g.hdr[c].isFree = h.hdr[c].isFree
               /\ g.hdr[c].size = h.hdr[c].size
               /\ g.hdr[c].next = h.hdr[c].next
    <3>1. Joined(g, h, x, r, r)
      BY <1>1, <1>3, <2>1, <2>2, MergeFields
    <3> QED BY <3>1 DEF Joined
  <2>4. r # h.tail /\ (after # x => ~h.hdr[after].isFree)
    BY <1>1, <1>3, <2>2, <2>3 DEF Merged
  <2>5. after \in Blocks(h) /\ after > r /\ after \in Nat
    BY <1>1, <2>2, <2>4, NeighbourFacts
  <2>6. Listing(g, x)
    <3>1. Formed(h)
      BY <1>1 DEF Shape
    <3> HIDE DEF r, after
    <3> QED BY <1>1, <2>2, <2>3, <3>1, ListingKept
  <2>7. Merged(g, x)
    <3>1. SUFFICES ASSUME NEW c \in Blocks(g), c # x, g.hdr[c].isFree
                   PROVE  /\ c # g.tail
                          /\ g.hdr[c].next # x => ~g.hdr[g.hdr[c].next].isFree
      BY DEF Merged
    <3>2. c \in Blocks(h) /\ c # r /\ h.hdr[c].isFree /\ g.hdr[c].next = h.hdr[c].next
      BY <3>1, <2>3
    <3> DEFINE d == h.hdr[c].next
    <3>3. c # h.tail /\ (d # x => ~h.hdr[d].isFree)
      BY <1>1, <3>1, <3>2 DEF Merged
    <3>4. d \in Blocks(h) /\ h.hdr[d].back = c
      BY <1>1, <3>2, <3>3, NeighbourFacts
    <3>5. d # r
      BY <3>1, <3>4, <2>2
    <3> QED BY <3>1, <3>2, <3>3, <3>4, <3>5, <2>3, <2>4
  <2>8. ASSUME g.hdr[x].back # NULL PROVE ~g.hdr[g.hdr[x].back].isFree
    <3> DEFINE k == h.hdr[x].back
    <3>1. k # NULL
      BY <2>3, <2>8
    <3>2. k \in Blocks(h) /\ k < x /\ k \in Nat
      BY <1>1, <3>1, NeighbourFacts
    <3>3. k # x /\ k # r
      BY <3>2, <2>2
    <3> QED BY <2>3, <3>1, <3>2, <3>3
  <2>9. ~g.hdr[after].isFree
    <3>1. after # x /\ after # r
      BY <2>2, <2>5
    <3> QED BY <2>3, <2>4, <2>5, <3>1
  <2>10. Used(g) \ {x} = Used(h) \ {x}
    BY <1>3, <2>3 DEF Used
  <2>11. ASSUME NEW c \in Used(h) \ {x} PROVE g.hdr[c].size = h.hdr[c].size
    BY <1>3, <2>3 DEF Used
  <2>12. x \in Blocks(g)
    BY <1>1, <2>3
  <2> QED BY <2>3, <2>6, <2>7, <2>8, <2>9, <2>10, <2>11, <2>12 DEF Pending, g
<1> QED BY <1>2, <1>3

\* No free block is on either side of x.
Alone(h, x) ==
    /\ h.hdr[x].back # NULL => ~h.hdr[h.hdr[x].back].isFree
    /\ h.hdr[x].next # NULL => ~h.hdr[h.hdr[x].next].isFree

\* The headers f are those of h but for the flag of block x, which is v.
Flagged(f, h, x, v) ==
    /\ DOMAIN f = Blocks(h) /\ f \in [Blocks(h) -> Block]
    /\ \A c \in Blocks(h) : /\ f[c].size = h.hdr[c].size
                            /\ f[c].next = h.hdr[c].next
                            /\ f[c].back = h.hdr[c].back
    /\ f[x].isFree = v
    /\ \A c \in Blocks(h) \ {x} : f[c].isFree = h.hdr[c].isFree

\* An assignment to the flag of a block changes nothing else.
LEMMA FlagFacts ==
    ASSUME NEW h, Formed(h), NEW x \in Blocks(h), NEW v \in BOOLEAN
    PROVE  Flagged([h.hdr EXCEPT ![x] = [@ EXCEPT !.isFree = v]], h, x, v)
<1> DEFINE f == [h.hdr EXCEPT ![x] = [@ EXCEPT !.isFree = v]]
<1> DEFINE r == [h.hdr[x] EXCEPT !.isFree = v]
<1>1. h.hdr \in [Blocks(h) -> Block] /\ h.hdr[x] \in Block
  BY DEF Formed
<1>2. /\ r \in Block /\ r.isFree = v /\ r.size = h.hdr[x].size
      /\ r.next = h.hdr[x].next /\ r.back = h.hdr[x].back
  BY <1>1 DEF Block
<1>3. f = [h.hdr EXCEPT ![x] = r]
  OBVIOUS
<1> HIDE DEF r
<1>4. /\ DOMAIN f = Blocks(h) /\ f \in [Blocks(h) -> Block]
      /\ \A c \in Blocks(h) : f[c] = IF c = x THEN r ELSE h.hdr[c]
  BY <1>1, <1>2, <1>3
<1> QED BY <1>2, <1>4 DEF Flagged

\* A block that no free block touches is listed as free: all is well in the
\* heap unless it is the last one.
LEMMA ListedStep ==
    ASSUME NEW h, NEW x, Pending(h, x), Alone(h, x), low \in AtLow
    PROVE  LET g == Listed(h, x)
           IN  /\ Shape(g) /\ Listing(g, NULL) /\ Blocks(g) = Blocks(h)
               /\ g.tail = h.tail /\ g.hdr[x].isFree /\ Alone(g, x)
               /\ \A c \in Blocks(g) : g.hdr[c].isFree =>
                      /\ c = g.tail => c = x
                      /\ g.hdr[c].next # NULL => ~g.hdr[g.hdr[c].next].isFree
               /\ Used(g) = Used(h) \ {x}
               /\ \A c \in Blocks(h) : g.hdr[c].size = h.hdr[c].size
<1> DEFINE g == Listed(h, x)
<1>1. Shape(h) /\ Formed(h) /\ x \in Blocks(h) /\ Listing(h, x) /\ Merged(h, x)
  BY DEF Pending, Shape
<1>2. /\ DOMAIN g = DOMAIN h
      /\ g.hdr = [h.hdr EXCEPT ![x] = [@ EXCEPT !.isFree = TRUE]]
      /\ g.head = h.head /\ g.tail = h.tail
      /\ g.brk = h.brk /\ g.mapped = h.mapped
      /\ Listing(g, NULL)
  BY <1>1, ListedFacts
<1> HIDE DEF g
<1>4. /\ Blocks(g) = Blocks(h) /\ g.hdr \in [Blocks(h) -> Block]
      /\ \A c \in Blocks(h) : /\ g.hdr[c].size = h.hdr[c].size
                              /\ g.hdr[c].next = h.hdr[c].next
                              /\ g.hdr[c].back = h.hdr[c].back
      /\ g.hdr[x].isFree
      /\ \A c \in Blocks(h) \ {x} : g.hdr[c].isFree = h.hdr[c].isFree
  <2>1. Flagged(g.hdr, h, x, TRUE)
    BY <1>1, <1>2, FlagFacts
  <2> QED BY <2>1 DEF Flagged, Blocks
<1>5. Shape(g)
  BY <1>1, <1>2, <1>4, ShapeSame
<1>6. Used(g) = Used(h) \ {x}
  BY <1>4 DEF Used
<1>7. Alone(g, x)
  <2>1. ASSUME h.hdr[x].back # NULL PROVE ~g.hdr[h.hdr[x].back].isFree
    <3>1. h.hdr[x].back \in Blocks(h) \ {x}
      BY <1>1, <2>1, NeighbourFacts
    <3> QED BY <2>1, <3>1, <1>4 DEF Alone
  <2>2. ASSUME h.hdr[x].next # NULL PROVE ~g.hdr[h.hdr[x].next].isFree
    <3>1. h.hdr[x].next \in Blocks(h) \ {x}
      BY <1>1, <2>2, NeighbourFacts
    <3> QED BY <2>2, <3>1, <1>4 DEF Alone
  <2> QED BY <2>1, <2>2, <1>1, <1>4 DEF Alone
<1>8. ASSUME NEW c \in Blocks(g), g.hdr[c].isFree
      PROVE  /\ c = g.tail => c = x
             /\ g.hdr[c].next # NULL => ~g.hdr[g.hdr[c].next].isFree
  <2>1. CASE c = x
    BY <2>1, <1>7 DEF Alone
  <2>2. CASE c # x
    <3> DEFINE d == h.hdr[c].next
    <3>1. c \in Blocks(h) /\ h.hdr[c].isFree /\ g.hdr[c].next = d
      BY <2>2, <1>4, <1>8
    <3>2. c # h.tail /\ (d # x => ~h.hdr[d].isFree)
      BY <2>2, <3>1, <1>1 DEF Merged
    <3>3. d \in Blocks(h) /\ h.hdr[d].back = c /\ c # NULL
      BY <3>1, <3>2, <1>1, NeighbourFacts, HeapAssumption
    <3>4. d # x
      BY <3>1, <3>3 DEF Alone
    <3> QED BY <2>2, <3>1, <3>2, <3>3, <3>4, <1>2, <1>4
  <2> QED BY <2>1, <2>2
<1> QED BY <1>2, <1>4, <1>5, <1>6, <1>7, <1>8 DEF g

\* What the heap is once its last block, x, has gone back to the break.
LEMMA ReleasedFields ==
    ASSUME NEW h, NEW x \in Blocks(h), Shape(h), x = h.tail
    PROVE  LET g == Released(h, x)
           IN  /\ DOMAIN g = DOMAIN h /\ Blocks(g) = Blocks(h) \ {x}
               /\ g.hdr \in [Blocks(g) -> Block]
               /\ \A c \in Blocks(g) :
                      /\ g.hdr[c].size = h.hdr[c].size
                      /\ g.hdr[c].isFree = h.hdr[c].isFree
                      /\ g.hdr[c].back = h.hdr[c].back
                      /\ g.hdr[c].next = IF c = h.hdr[x].back THEN NULL
                                                              ELSE h.hdr[c].next
               /\ g.head = IF x = h.head THEN NULL ELSE h.head
               /\ g.tail = IF x = h.head THEN NULL ELSE h.hdr[x].back
               /\ g.brk = x /\ g.mapped = h.mapped
               /\ g.free = Removed(h.free, x) /\ Overrun(g, h)
<1> DEFINE left == h.hdr[x].back
           down == h.brk - (HEADER + h.hdr[x].size)
           f == [c \in DOMAIN h.hdr \ {x} |->
                    IF c = left THEN [h.hdr[c] EXCEPT !.next = NULL] ELSE h.hdr[c]]
           hd == IF x = h.head THEN NULL ELSE h.head
           tl == IF x = h.head THEN NULL ELSE left
           bk == IF down < 0 THEN h.brk ELSE down
           fr == Removed(h.free, x)
           by == Behind(h, x)
           g == [h EXCEPT !.hdr = f, !.head = hd, !.tail = tl, !.brk = bk,
                          !.free = fr, !.beyond = by]
<1>1. Released(h, x) = g
  BY DEF Released
<1>2. /\ DOMAIN h = {"hdr", "head", "tail", "free", "beyond", "brk", "mapped"}
      /\ h.hdr \in [Blocks(h) -> Block]
      /\ \A c \in Blocks(h) : h.hdr[c] \in Block
  BY DEF Shape, Formed
<1>3. bk = x
  <2>1. EndIn(h, x) = h.brk
    BY DEF Shape, Tiled
  <2>2. x \in Nat /\ h.hdr[x].size \in Nat /\ HEADER \in Nat
    BY <1>2, NeighbourFacts, HeapAssumption DEF Block
  <2>3. down = x
    BY <2>1, <2>2 DEF EndIn
  <2> QED BY <2>2, <2>3
<1>4. DOMAIN f = Blocks(h) \ {x}
  BY DEF Blocks
<1>5. ASSUME NEW c \in Blocks(h) \ {x}
      PROVE  /\ f[c] \in Block
             /\ f[c].size = h.hdr[c].size /\ f[c].isFree = h.hdr[c].isFree
             /\ f[c].back = h.hdr[c].back
             /\ f[c].next = IF c = left THEN NULL ELSE h.hdr[c].next
  <2>1. f[c] = IF c = left THEN [h.hdr[c] EXCEPT !.next = NULL] ELSE h.hdr[c]
    BY DEF Blocks
  <2>2. h.hdr[c] \in Block
    BY <1>2
  <2> HIDE DEF f, left
  <2>3. CASE c = left
    BY <2>1, <2>2, <2>3 DEF Block
  <2>4. CASE c # left
    BY <2>1, <2>2, <2>4 DEF Block
  <2> QED BY <2>3, <2>4
<1>6. f \in [Blocks(h) \ {x} -> Block]
  <2>1. f = [c \in DOMAIN f |-> f[c]]
    OBVIOUS
  <2> HIDE DEF f
  <2> QED BY <2>1, <1>4, <1>5
<1> HIDE DEF f, hd, tl, bk, fr, by
<1>7. /\ DOMAIN g = DOMAIN h /\ g.hdr = f /\ g.head = hd /\ g.tail = tl
      /\ g.brk = bk /\ g.free = fr /\ g.mapped = h.mapped /\ g.beyond = by
  BY <1>2
<1> HIDE DEF g
<1>8. Blocks(g) = Blocks(h) \ {x}
  BY <1>4, <1>7 DEF Blocks
<1>9. Overrun(g, h)
  BY <1>7, BehindFacts DEF Overrun, by
<1> QED BY <1>1, <1>3, <1>5, <1>6, <1>7, <1>8, <1>9 DEF hd, tl, fr

\* The shape survives.
LEMMA ReleasedShape ==
    ASSUME NEW h, NEW x \in Blocks(h), Shape(h), x = h.tail
    PROVE  Shape(Released(h, x))
<1> DEFINE g == Released(h, x)
           left == h.hdr[x].back
<1>1. /\ DOMAIN g = DOMAIN h /\ Blocks(g) = Blocks(h) \ {x}
      /\ g.hdr \in [Blocks(g) -> Block]
      /\ \A c \in Blocks(g) :
             /\ g.hdr[c].size = h.hdr[c].size
             /\ g.hdr[c].isFree = h.hdr[c].isFree
             /\ g.hdr[c].back = h.hdr[c].back
             /\ g.hdr[c].next = IF c = left THEN NULL ELSE h.hdr[c].next
      /\ g.head = IF x = h.head THEN NULL ELSE h.head
      /\ g.tail = IF x = h.head THEN NULL ELSE left
      /\ g.brk = x /\ g.mapped = h.mapped
  BY ReleasedFields
<1> HIDE DEF g
<1>2. /\ h.head = 0 /\ 0 \in Blocks(h) /\ EndIn(h, x) = h.brk
      /\ x \in Nat /\ Blocks(h) \subseteq Nat /\ NULL \notin Nat
      /\ h.brk \in 0 .. HEAPEND /\ h.mapped \in Nat /\ h.brk <= h.mapped
      /\ HEAPEND \in Nat
  BY HeapAssumption DEF Shape, Tiled, Formed
<1>3. \A c \in Blocks(g) : EndIn(g, c) = EndIn(h, c) /\ EndIn(h, c) \in Nat
  BY <1>1, NeighbourFacts DEF EndIn
<1>4. x < h.brk
  BY <1>2, NeighbourFacts
<1>5. ASSUME NEW c \in Blocks(g) PROVE c < x /\ EndIn(h, c) <= x
  <2>1. c \in Blocks(h) /\ c # x /\ c \in Nat
    BY <1>1, <1>2
  <2>2. ~(x < c)
    <3>1. SUFFICES ASSUME x < c PROVE FALSE
      OBVIOUS
    <3>2. h.brk <= c /\ c < EndIn(h, c) /\ EndIn(h, c) <= h.brk
      BY <3>1, <2>1, <1>2, NeighbourFacts DEF Shape, Spaced
    <3>3. EndIn(h, c) \in Nat /\ h.brk \in Nat
      BY <1>2, <1>3
    <3> QED BY <3>2, <3>3, <2>1
  <2>3. c < x
    BY <2>1, <2>2, <1>2
  <2> QED BY <2>1, <2>3 DEF Shape, Spaced
<1>6. Formed(g)
  <2>1. g.brk \in 0 .. HEAPEND /\ g.brk <= g.mapped
    BY <1>1, <1>2, <1>4
  <2> QED BY <2>1, <1>1, <1>2 DEF Shape, Formed
<1>7. Spaced(g)
  <2>1. ASSUME NEW c \in Blocks(g), NEW d \in Blocks(g), c < d
        PROVE  EndIn(g, c) <= d
    BY <2>1, <1>1, <1>3 DEF Shape, Spaced
  <2> QED BY <2>1, <1>1, <1>3, <1>5 DEF Spaced
<1>8. CASE x = 0
  <2>1. Blocks(g) = {}
    BY <1>1, <1>2, <1>5, <1>8
  <2> QED BY <2>1, <1>1, <1>2, <1>6, <1>7, <1>8 DEF Shape, Tiled, g
<1>9. CASE x # 0
  <2>1. left \in Blocks(h) /\ left # x /\ h.hdr[left].next = x /\ left # NULL
    BY <1>2, <1>9, NeighbourFacts
  <2>2. /\ g.head = 0 /\ g.tail = left /\ {0, left} \subseteq Blocks(g)
    BY <2>1, <1>1, <1>2, <1>9
  <2>3. left # h.tail
    BY <2>1
  <2>4. EndIn(g, left) = g.brk /\ g.hdr[left].next = NULL
    BY <2>1, <2>2, <2>3, <1>1, <1>3 DEF Shape, Tiled
  <2>5. ASSUME NEW c \in Blocks(g), c # left
        PROVE  /\ g.hdr[c].next = EndIn(g, c)
               /\ EndIn(g, c) \in Blocks(g)
               /\ g.hdr[EndIn(g, c)].back = c
    <3> DEFINE d == EndIn(h, c)
    <3>1. h.hdr[c].next = d /\ d \in Blocks(h) /\ h.hdr[d].back = c
      BY <2>5, <1>1 DEF Shape, Tiled
    <3>2. d # x
      BY <3>1, <2>5
    <3> HIDE DEF d
    <3>3. g.hdr[c].next = d /\ d \in Blocks(g) /\ g.hdr[d].back = c
      BY <3>1, <3>2, <2>5, <1>1
    <3> QED BY <3>3, <1>3 DEF d
  <2>6. ASSUME NEW c \in Blocks(g), c = 0 PROVE g.hdr[c].back = NULL
    BY <2>6, <1>1 DEF Shape, Tiled
  <2>7. ASSUME NEW c \in Blocks(g), c # 0
        PROVE  g.hdr[c].back \in Blocks(g) /\ g.hdr[g.hdr[c].back].next = c
    <3> DEFINE d == h.hdr[c].back
    <3>1. d \in Blocks(h) /\ h.hdr[d].next = c
      BY <2>7, <1>1 DEF Shape, Tiled
    <3>2. c # NULL /\ h.hdr[x].next = NULL /\ c # x
      BY <1>1, <1>2 DEF Shape, Tiled
    <3>3. d # x /\ d # left
      BY <3>1, <3>2, <2>1
    <3> QED BY <3>1, <3>3, <1>1
  <2>8. Tiled(g)
    BY <2>2, <2>4, <2>5, <2>6, <2>7 DEF Tiled
  <2> QED BY <2>8, <1>6, <1>7 DEF Shape, g
<1> QED BY <1>8, <1>9

\* A listed block that ends the heap goes back to the break; if another one
\* does, nothing happens.  All is well in the heap after that.
LEMMA ReleasedStep ==
    ASSUME NEW h, NEW x \in Blocks(h), Shape(h), Listing(h, NULL),
           h.hdr[x].isFree, Alone(h, x),
           \A c \in Blocks(h) : h.hdr[c].isFree =>
               /\ c = h.tail => c = x
               /\ h.hdr[c].next # NULL => ~h.hdr[h.hdr[c].next].isFree
    PROVE  LET g == Released(h, x)
           IN  /\ Good(g) /\ Used(g) = Used(h)
               /\ \A c \in Used(h) : g.hdr[c].size = h.hdr[c].size
<1> DEFINE g == Released(h, x)
           left == h.hdr[x].back
<1>1. CASE x # h.tail
  <2>1. g = h
    BY <1>1 DEF Released
  <2>2. Merged(h, NULL)
    BY <1>1 DEF Merged
  <2> QED BY <2>1, <2>2 DEF Good
<1>2. CASE x = h.tail
  <2>1. /\ Blocks(g) = Blocks(h) \ {x}
        /\ \A c \in Blocks(g) :
               /\ g.hdr[c].size = h.hdr[c].size
               /\ g.hdr[c].isFree = h.hdr[c].isFree
               /\ g.hdr[c].next = IF c = left THEN NULL ELSE h.hdr[c].next
        /\ g.tail = IF x = h.head THEN NULL ELSE left
        /\ g.free = Removed(h.free, x) /\ Overrun(g, h)
    BY <1>2, ReleasedFields, SMTT(30)
  <2>2. Shape(g)
    BY <1>2, ReleasedShape
  <2> HIDE DEF g
  <2>3. Listing(g, NULL)
    <3>1. Formed(h)
      BY DEF Shape
    <3> QED BY <2>1, <3>1, ListingKept, SMTT(30)
  <2>4. Merged(g, NULL)
    <3>1. SUFFICES ASSUME NEW c \in Blocks(g), g.hdr[c].isFree
                   PROVE  /\ c # g.tail
                          /\ g.hdr[c].next # NULL => ~g.hdr[g.hdr[c].next].isFree
      BY DEF Merged
    <3>2. c \in Blocks(h) /\ c # x /\ h.hdr[c].isFree /\ c # NULL
      BY <3>1, <2>1, HeapAssumption DEF Shape, Formed
    <3>3. c # left
      BY <3>2 DEF Alone
    <3>4. c # g.tail
      BY <3>2, <3>3, <2>1
    <3> DEFINE d == h.hdr[c].next
    <3>5. c # h.tail
      BY <3>2, <1>2
    <3>6. d \in Blocks(h) /\ h.hdr[d].back = c /\ ~h.hdr[d].isFree
      BY <3>2, <3>5, NeighbourFacts
    <3>7. d # x
      BY <3>6
    <3> QED BY <3>1, <3>3, <3>4, <3>6, <3>7, <2>1
  <2>5. Used(g) = Used(h)
    BY <2>1 DEF Used
  <2>6. \A c \in Used(h) : g.hdr[c].size = h.hdr[c].size
    BY <2>1 DEF Used
  <2> QED BY <2>2, <2>3, <2>4, <2>5, <2>6 DEF Good, g
<1> QED BY <1>1, <1>2

\* kfree of a block in use: all is well in the heap after it, that block is
\* in use no more, and no other block that is has changed.
LEMMA FreedStep ==
    ASSUME NEW h, NEW a \in Used(h), Good(h), low \in AtLow
    PROVE  LET g == Freed(h, a)
           IN  /\ Good(g) /\ Used(g) = Used(h) \ {a}
               /\ \A c \in Used(h) \ {a} : g.hdr[c].size = h.hdr[c].size
<1> DEFINE l == LeftOf(h, a)
           h1 == MergeLeft(h, a)
           h2 == MergeRight(h1, l)
           h3 == Listed(h2, l)
           h4 == Released(h3, l)
<1>1. Freed(h, a) = h4
  BY DEF Freed
<1>2. Pending(h, a) /\ ~h.hdr[a].isFree
  <2>1. a \in Blocks(h) /\ ~h.hdr[a].isFree
    BY DEF Used
  <2>2. Listing(h, a)
    BY <2>1 DEF Good, Listing
  <2>3. Merged(h, a)
    <3>1. SUFFICES ASSUME NEW c \in Blocks(h), c # a, h.hdr[c].isFree
                   PROVE  /\ c # h.tail
                          /\ h.hdr[c].next # a => ~h.hdr[h.hdr[c].next].isFree
      BY DEF Merged
    <3>2. Shape(h) /\ c # NULL
      BY HeapAssumption DEF Good, Shape, Formed
    <3>3. c # h.tail
      BY <3>1, <3>2 DEF Good, Merged
    <3>4. h.hdr[c].next # NULL
      BY <3>2, <3>3, NeighbourFacts
    <3> QED BY <3>1, <3>2, <3>3, <3>4 DEF Good, Merged
  <2> QED BY <2>1, <2>2, <2>3 DEF Pending, Good
<1>3. /\ Pending(h1, l)
      /\ h1.hdr[l].back # NULL => ~h1.hdr[h1.hdr[l].back].isFree
      /\ Used(h1) \ {l} = Used(h) \ {a}
      /\ \A c \in Used(h) \ {a} : h1.hdr[c].size = h.hdr[c].size
  BY <1>2, MergeLeftStep
<1> HIDE DEF h1, l
<1>4. /\ Pending(h2, l)
      /\ h2.hdr[l].back # NULL => ~h2.hdr[h2.hdr[l].back].isFree
      /\ h2.hdr[l].next # NULL => ~h2.hdr[h2.hdr[l].next].isFree
      /\ Used(h2) \ {l} = Used(h1) \ {l}
      /\ \A c \in Used(h1) \ {l} : h2.hdr[c].size = h1.hdr[c].size
  BY <1>3, MergeRightStep
<1> HIDE DEF h2
<1>5. Alone(h2, l) /\ l \in Blocks(h2)
  BY <1>4 DEF Alone, Pending
<1>6. /\ Shape(h3) /\ Listing(h3, NULL) /\ Blocks(h3) = Blocks(h2)
      /\ h3.hdr[l].isFree /\ Alone(h3, l)
      /\ \A c \in Blocks(h3) : h3.hdr[c].isFree =>
             /\ c = h3.tail => c = l
             /\ h3.hdr[c].next # NULL => ~h3.hdr[h3.hdr[c].next].isFree
      /\ Used(h3) = Used(h2) \ {l}
      /\ \A c \in Blocks(h2) : h3.hdr[c].size = h2.hdr[c].size
  BY <1>4, <1>5, ListedStep
<1> HIDE DEF h3
<1>7. /\ Good(h4) /\ Used(h4) = Used(h3)
      /\ \A c \in Used(h3) : h4.hdr[c].size = h3.hdr[c].size
  BY <1>5, <1>6, ReleasedStep
<1> HIDE DEF h4
<1>8. Used(h4) = Used(h) \ {a}
  BY <1>3, <1>4, <1>6, <1>7
<1>9. ASSUME NEW c \in Used(h) \ {a} PROVE h4.hdr[c].size = h.hdr[c].size
  BY <1>3, <1>4, <1>6, <1>7, <1>9 DEF Used
<1> QED BY <1>1, <1>7, <1>8, <1>9

-----------------------------------------------------------------------------
\* search_freeBlock returns an entry of the array that reads as a header of
\* the size it looks for, or NULL.
LEMMA FoundEntry ==
    ASSUME NEW h, NEW size, NEW x, Listing(h, x), Found(h, size) # NULL
    PROVE  \E i \in DOMAIN h.free :
               Found(h, size) = h.free[i] /\ Read(h, h.free[i]).size >= size
<1> DEFINE s == h.free
           I == {i \in 1 .. Len(s) : Read(h, s[i]).size >= size /\ Read(h, s[i]).isFree}
           at == IF I # {} THEN Min(I) ELSE 0
<1>1. Found(h, size) = IF at = 0 THEN NULL ELSE s[at]
  BY DEF Found, SelectInSeq
<1>2. Len(s) \in Nat /\ DOMAIN s = 1 .. Len(s)
  BY LenProperties DEF Listing
<1>3. I # {} /\ at = Min(I)
  BY <1>1
<1>4. at \in I
  <2>1. I \subseteq Nat
    BY <1>2
  <2> HIDE DEF I, at
  <2> QED BY <2>1, <1>3, MinFacts
<1>5. at \in DOMAIN s /\ at # 0 /\ Read(h, s[at]).size >= size
  BY <1>2, <1>4
<1> HIDE DEF I, at
<1> QED BY <1>1, <1>5

\* That is a free block of the list, unless a stray word is in the array.
LEMMA FoundFacts ==
    ASSUME NEW h, NEW size, Listing(h, NULL),
           Found(h, size) # NULL, Found(h, size) \notin Stray
    PROVE  LET a == Found(h, size)
           IN  a \in Blocks(h) /\ h.hdr[a].isFree /\ h.hdr[a].size >= size
<1>1. PICK i \in DOMAIN h.free :
          Found(h, size) = h.free[i] /\ Read(h, h.free[i]).size >= size
  BY FoundEntry
<1>2. h.free[i] \notin Low
  BY <1>1 DEF Low
<1>3. h.free[i] \in Blocks(h) /\ h.hdr[h.free[i]].isFree
  BY <1>1, <1>2, ElementOfSeq, LenProperties DEF Listing
<1> QED BY <1>1, <1>2, <1>3 DEF Read

\* It finds a stray word only after one has entered the page of the array.
LEMMA StrayFacts ==
    ASSUME NEW h, NEW size, Listing(h, NULL), Found(h, size) \in Stray
    PROVE  h.beyond # NULL
<1>1. Found(h, size) # NULL
  BY LowFacts
<1>2. PICK i \in DOMAIN h.free : Found(h, size) = h.free[i]
  BY <1>1, FoundEntry
<1> QED BY <1>2 DEF Listing

\* The free block a is in use, and out of the array.
Whole(h, a) == [Unlisted(h, a) EXCEPT !.hdr[a].isFree = FALSE]

\* All is well after that when nothing is cut from the block.
LEMMA WholeStep ==
    ASSUME NEW h, NEW a \in Blocks(h), Good(h), h.hdr[a].isFree
    PROVE  LET g == Whole(h, a)
           IN  /\ Good(g) /\ Used(g) = Used(h) \cup {a}
               /\ \A c \in Blocks(h) : g.hdr[c].size = h.hdr[c].size
<1> DEFINE g == Whole(h, a)
<1>1. Shape(h) /\ Formed(h) /\ Listing(h, NULL) /\ Merged(h, NULL)
  BY DEF Good, Shape
<1>2. /\ DOMAIN g = DOMAIN h
      /\ g.hdr = [h.hdr EXCEPT ![a] = [@ EXCEPT !.isFree = FALSE]]
      /\ g.free = Removed(h.free, a) /\ g.beyond = Behind(h, a)
      /\ g.head = h.head /\ g.tail = h.tail
      /\ g.brk = h.brk /\ g.mapped = h.mapped
  BY <1>1 DEF Formed, Whole, Unlisted
<1> HIDE DEF g
<1>3. Flagged(g.hdr, h, a, FALSE)
  <2>1. \A v \in BOOLEAN :
            Flagged([h.hdr EXCEPT ![a] = [@ EXCEPT !.isFree = v]], h, a, v)
    BY <1>1, FlagFacts
  <2>2. Flagged([h.hdr EXCEPT ![a] = [@ EXCEPT !.isFree = FALSE]], h, a, FALSE)
    BY <2>1, Zenon
  <2> QED BY <2>2, <1>2
<1>4. /\ Blocks(g) = Blocks(h) /\ g.hdr \in [Blocks(h) -> Block]
      /\ \A c \in Blocks(h) : /\ g.hdr[c].size = h.hdr[c].size
                              /\ g.hdr[c].next = h.hdr[c].next
                              /\ g.hdr[c].back = h.hdr[c].back
      /\ ~g.hdr[a].isFree
      /\ \A c \in Blocks(h) \ {a} : g.hdr[c].isFree = h.hdr[c].isFree
  BY <1>3 DEF Flagged, Blocks
<1>5. Shape(g)
  BY <1>1, <1>2, <1>4, ShapeSame
<1>6. Listing(g, NULL)
  <2>1. Overrun(g, h)
    BY <1>1, <1>2, BehindFacts DEF Overrun
  <2>2. g.free = Removed(h.free, a)
    BY <1>2
  <2> QED BY <1>1, <1>4, <2>1, <2>2, ListingKept, SMTT(30)
<1>7. Merged(g, NULL)
  <2>1. SUFFICES ASSUME NEW c \in Blocks(g), c # NULL, g.hdr[c].isFree
                 PROVE  /\ c # g.tail
                        /\ g.hdr[c].next # NULL => ~g.hdr[g.hdr[c].next].isFree
    BY DEF Merged
  <2>2. c \in Blocks(h) /\ h.hdr[c].isFree /\ g.hdr[c].next = h.hdr[c].next
    BY <2>1, <1>4
  <2>3. c # h.tail /\ (h.hdr[c].next # NULL => ~h.hdr[h.hdr[c].next].isFree)
    BY <2>1, <2>2, <1>1 DEF Merged
  <2>4. h.hdr[c].next # NULL => h.hdr[c].next \in Blocks(h)
    BY <2>2, <1>1, NeighbourFacts
  <2> QED BY <2>2, <2>3, <2>4, <1>2, <1>4
<1>8. Used(g) = Used(h) \cup {a}
  BY <1>4 DEF Used
<1> QED BY <1>4, <1>5, <1>6, <1>7, <1>8 DEF Good, g

\* The block b that is cut from a free block a of the heap h.
Cut(h, a, size) ==
    LET b == a + size + HEADER
        after == h.hdr[a].next
        used == Whole(h, a)
    IN  [used EXCEPT
            !.hdr = [x \in DOMAIN h.hdr \cup {b} |->
                CASE x = a -> [used.hdr[a] EXCEPT !.size = size, !.next = b]
                  [] x = b -> [size |-> Rest(h, a, size), isFree |-> FALSE,
                               next |-> after, back |-> a]
                  [] x = after -> [used.hdr[x] EXCEPT !.back = b]
                  [] OTHER -> used.hdr[x]]]

\* Where the cut lies.
LEMMA CutPlace ==
    ASSUME NEW h, NEW a \in Blocks(h), Good(h), h.hdr[a].isFree,
           NEW size \in Nat \ {0}, h.hdr[a].size - size >= HEADER + MINSPLIT
    PROVE  LET b == a + size + HEADER
               after == h.hdr[a].next
           IN  /\ a \in Nat /\ b \in Nat /\ a < b /\ b \notin Blocks(h)
               /\ a # h.tail /\ b # h.tail
               /\ after \in Blocks(h) /\ after \in Nat /\ b < after
               /\ after = EndIn(h, a) /\ h.hdr[after].back = a
               /\ ~h.hdr[after].isFree
               /\ Rest(h, a, size) \in Nat \ {0}
               /\ b + HEADER + Rest(h, a, size) = after
<1> DEFINE b == a + size + HEADER
           after == h.hdr[a].next
<1>1. Shape(h) /\ Merged(h, NULL)
  BY DEF Good
<1>2. a \in Nat /\ NULL \notin Nat /\ HEADER \in Nat \ {0} /\ MINSPLIT \in Nat \ {0}
  BY <1>1, NeighbourFacts, HeapAssumption
<1>3. h.hdr[a].size \in Nat
  BY <1>1, NeighbourFacts DEF Block
<1>4. a # h.tail
  BY <1>1, <1>2 DEF Merged
<1>5. /\ after # NULL /\ after \in Blocks(h) /\ after = EndIn(h, a)
      /\ h.hdr[after].back = a
  BY <1>1, <1>4, NeighbourFacts
<1>6. ~h.hdr[after].isFree
  BY <1>1, <1>2, <1>5 DEF Merged
<1>7. Rest(h, a, size) \in Nat \ {0} /\ b + HEADER + Rest(h, a, size) = after
  BY <1>2, <1>3, <1>5 DEF Rest, EndIn
<1>8. b \in Nat /\ a < b /\ after \in Nat /\ b < after
  BY <1>1, <1>2, <1>5, <1>7, NeighbourFacts
<1>9. b \notin Blocks(h)
  <2>1. SUFFICES ASSUME b \in Blocks(h) PROVE FALSE
    OBVIOUS
  <2>2. EndIn(h, a) <= b
    BY <2>1, <1>1, <1>8 DEF Shape, Spaced
  <2> HIDE DEF b, after
  <2> QED BY <2>2, <1>5, <1>8
<1>10. h.tail \in Blocks(h)
  BY <1>1 DEF Shape, Tiled
<1> QED BY <1>2, <1>4, <1>5, <1>6, <1>7, <1>8, <1>9, <1>10

\* The fields after the cut.
LEMMA CutFields ==
    ASSUME NEW h, NEW a \in Blocks(h), Good(h), h.hdr[a].isFree,
           NEW size \in Nat \ {0}, h.hdr[a].size - size >= HEADER + MINSPLIT
    PROVE  LET b == a + size + HEADER
               after == h.hdr[a].next
               g == Cut(h, a, size)
           IN  /\ DOMAIN g = DOMAIN h /\ Blocks(g) = Blocks(h) \cup {b}
               /\ g.hdr \in [Blocks(g) -> Block]
               /\ g.hdr[a].size = size /\ ~g.hdr[a].isFree
               /\ g.hdr[a].next = b /\ g.hdr[a].back = h.hdr[a].back
               /\ g.hdr[b].size = Rest(h, a, size) /\ ~g.hdr[b].isFree
               /\ g.hdr[b].next = after /\ g.hdr[b].back = a
               /\ \A c \in Blocks(h) \ {a} :
                      /\ g.hdr[c].size = h.hdr[c].size
                      /\ g.hdr[c].isFree = h.hdr[c].isFree
                      /\ g.hdr[c].next = h.hdr[c].next
                      /\ g.hdr[c].back = IF c = after THEN b ELSE h.hdr[c].back
               /\ g.free = Removed(h.free, a) /\ Overrun(g, h)
               /\ g.head = h.head /\ g.tail = h.tail
               /\ g.brk = h.brk /\ g.mapped = h.mapped
<1> DEFINE b == a + size + HEADER
           after == h.hdr[a].next
           rest == Rest(h, a, size)
           used == Whole(h, a)
           new == [size |-> rest, isFree |-> FALSE, next |-> after, back |-> a]
           f == [x \in DOMAIN h.hdr \cup {b} |->
                    CASE x = a -> [used.hdr[a] EXCEPT !.size = size, !.next = b]
                      [] x = b -> new
                      [] x = after -> [used.hdr[x] EXCEPT !.back = b]
                      [] OTHER -> used.hdr[x]]
           g == [used EXCEPT !.hdr = f]
<1>1. Cut(h, a, size) = g
  BY DEF Cut
<1>2. Formed(h) /\ \A c \in Blocks(h) : h.hdr[c] \in Block
  BY DEF Good, Shape, Formed
<1>3. /\ a \in Nat /\ b \in Nat /\ a # b /\ b \notin Blocks(h) /\ after # a
      /\ after \in Blocks(h) /\ after \in Nat /\ after # b
      /\ rest \in Nat \ {0}
  <2>1. /\ a \in Nat /\ b \in Nat /\ a < b /\ b \notin Blocks(h)
        /\ after \in Blocks(h) /\ after \in Nat /\ b < after
        /\ rest \in Nat \ {0}
    BY CutPlace
  <2> HIDE DEF b, after, rest
  <2> QED BY <2>1
<1>4. new \in Block
  <2> HIDE DEF rest, after
  <2> QED BY <1>3 DEF Block
<1>5. /\ DOMAIN used = DOMAIN h
      /\ used.hdr = [h.hdr EXCEPT ![a] = [@ EXCEPT !.isFree = FALSE]]
      /\ used.free = Removed(h.free, a) /\ used.beyond = Behind(h, a)
      /\ used.head = h.head /\ used.tail = h.tail
      /\ used.brk = h.brk /\ used.mapped = h.mapped
  BY <1>2 DEF Formed, Whole, Unlisted
<1> HIDE DEF used
<1>6. Flagged(used.hdr, h, a, FALSE)
  <2>1. \A v \in BOOLEAN :
            Flagged([h.hdr EXCEPT ![a] = [@ EXCEPT !.isFree = v]], h, a, v)
    BY <1>2, FlagFacts
  <2>2. Flagged([h.hdr EXCEPT ![a] = [@ EXCEPT !.isFree = FALSE]], h, a, FALSE)
    BY <2>1, Zenon
  <2> QED BY <2>2, <1>5
<1>7. /\ \A c \in Blocks(h) : used.hdr[c] \in Block
      /\ \A c \in Blocks(h) : /\ used.hdr[c].size = h.hdr[c].size
                              /\ used.hdr[c].next = h.hdr[c].next
                              /\ used.hdr[c].back = h.hdr[c].back
      /\ used.hdr[a].isFree = FALSE
      /\ \A c \in Blocks(h) \ {a} : used.hdr[c].isFree = h.hdr[c].isFree
  BY <1>6 DEF Flagged
<1>8. DOMAIN f = Blocks(h) \cup {b}
  BY DEF Blocks
<1>9. /\ f[a] = [used.hdr[a] EXCEPT !.size = size, !.next = b]
      /\ f[b] = new
  <2> HIDE DEF b, new, after
  <2>1. f[a] = CASE a = a -> [used.hdr[a] EXCEPT !.size = size, !.next = b]
                 [] a = b -> new
                 [] a = after -> [used.hdr[a] EXCEPT !.back = b]
                 [] OTHER -> used.hdr[a]
    BY DEF Blocks
  <2>2. f[b] = CASE b = a -> [used.hdr[a] EXCEPT !.size = size, !.next = b]
                 [] b = b -> new
                 [] b = after -> [used.hdr[b] EXCEPT !.back = b]
                 [] OTHER -> used.hdr[b]
    BY DEF Blocks
  <2> HIDE DEF f
  <2> QED BY <2>1, <2>2, <1>3
<1>10. ASSUME NEW c \in Blocks(h) \ {a}
       PROVE  f[c] = IF c = after THEN [used.hdr[c] EXCEPT !.back = b] ELSE used.hdr[c]
  <2> HIDE DEF b, new, after
  <2>1. f[c] = CASE c = a -> [used.hdr[a] EXCEPT !.size = size, !.next = b]
                 [] c = b -> new
                 [] c = after -> [used.hdr[c] EXCEPT !.back = b]
                 [] OTHER -> used.hdr[c]
    BY DEF Blocks
  <2> HIDE DEF f
  <2> QED BY <2>1, <1>3
<1> HIDE DEF b, after, rest
<1>11. /\ f[a] \in Block /\ f[a].size = size /\ f[a].isFree = FALSE
       /\ f[a].next = b /\ f[a].back = h.hdr[a].back
  <2> HIDE DEF f
  <2>1. used.hdr[a] \in Block
    BY <1>7
  <2>2. size \in Nat \ {0} /\ b \in Nat
    BY <1>3, HeapAssumption
  <2>3. Resized(f[a], used.hdr[a], size, b)
    BY <2>1, <2>2, <1>9, ResizedFacts
  <2> QED BY <2>3, <1>7 DEF Resized
<1>12. /\ f[b] \in Block /\ f[b].size = rest /\ f[b].isFree = FALSE
       /\ f[b].next = after /\ f[b].back = a
  <2> HIDE DEF f
  <2> QED BY <1>4, <1>9
<1>13. ASSUME NEW c \in Blocks(h) \ {a}
       PROVE  /\ f[c] \in Block
              /\ f[c].size = h.hdr[c].size /\ f[c].isFree = h.hdr[c].isFree
              /\ f[c].next = h.hdr[c].next
              /\ f[c].back = IF c = after THEN b ELSE h.hdr[c].back
  <2> HIDE DEF f
  <2>1. used.hdr[c] \in Block
    BY <1>7
  <2>2. /\ used.hdr[c].size = h.hdr[c].size /\ used.hdr[c].next = h.hdr[c].next
        /\ used.hdr[c].back = h.hdr[c].back /\ used.hdr[c].isFree = h.hdr[c].isFree
    BY <1>7
  <2>3. CASE c = after
    <3> DEFINE r == used.hdr[c]
    <3>1. f[c] = [r EXCEPT !.back = b] /\ r \in Block /\ b \in Nat
      BY <2>1, <2>3, <1>3, <1>10
    <3> HIDE DEF r
    <3>2. /\ f[c] \in Block /\ f[c].size = r.size /\ f[c].isFree = r.isFree
          /\ f[c].next = r.next /\ f[c].back = b
      BY <3>1 DEF Block
    <3> QED BY <3>2, <2>2, <2>3 DEF r
  <2>4. CASE c # after
    BY <2>1, <2>2, <2>4, <1>10
  <2> QED BY <2>3, <2>4
<1>14. f \in [Blocks(h) \cup {b} -> Block]
  <2>1. f = [c \in DOMAIN f |-> f[c]]
    OBVIOUS
  <2> HIDE DEF f
  <2> QED BY <2>1, <1>8, <1>11, <1>12, <1>13
<1> HIDE DEF f
<1>15. /\ DOMAIN g = DOMAIN h /\ g.hdr = f /\ g.free = Removed(h.free, a)
       /\ g.head = h.head /\ g.tail = h.tail
       /\ g.brk = h.brk /\ g.mapped = h.mapped /\ g.beyond = Behind(h, a)
  BY <1>2, <1>5 DEF Formed
<1> HIDE DEF g
<1>16. Blocks(g) = Blocks(h) \cup {b}
  BY <1>8, <1>15 DEF Blocks
<1>17. Overrun(g, h)
  BY <1>15, BehindFacts DEF Overrun, Good
<1> QED BY <1>1, <1>11, <1>12, <1>13, <1>14, <1>15, <1>16, <1>17
        DEF b, after, rest

\* The shape survives the cut.
LEMMA CutShape ==
    ASSUME NEW h, NEW a \in Blocks(h), Good(h), h.hdr[a].isFree,
           NEW size \in Nat \ {0}, h.hdr[a].size - size >= HEADER + MINSPLIT
    PROVE  Shape(Cut(h, a, size))
<1> DEFINE b == a + size + HEADER
           after == h.hdr[a].next
           rest == Rest(h, a, size)
           g == Cut(h, a, size)
<1>1. /\ DOMAIN g = DOMAIN h /\ Blocks(g) = Blocks(h) \cup {b}
      /\ g.hdr \in [Blocks(g) -> Block]
      /\ g.hdr[a].size = size
      /\ g.hdr[a].next = b /\ g.hdr[a].back = h.hdr[a].back
      /\ g.hdr[b].size = rest
      /\ g.hdr[b].next = after /\ g.hdr[b].back = a
      /\ \A c \in Blocks(h) \ {a} :
             /\ g.hdr[c].size = h.hdr[c].size
             /\ g.hdr[c].next = h.hdr[c].next
             /\ g.hdr[c].back = IF c = after THEN b ELSE h.hdr[c].back
      /\ g.head = h.head /\ g.tail = h.tail
      /\ g.brk = h.brk /\ g.mapped = h.mapped
  BY CutFields
<1>2. /\ a \in Nat /\ b \in Nat /\ a < b /\ b \notin Blocks(h)
      /\ a # h.tail /\ b # h.tail
      /\ after \in Blocks(h) /\ after \in Nat /\ b < after
      /\ after = EndIn(h, a) /\ h.hdr[after].back = a
      /\ rest \in Nat \ {0}
      /\ b + HEADER + rest = after
  BY CutPlace
<1>3. a + HEADER + size = b
  BY <1>2, HeapAssumption
<1> HIDE DEF g, b, after, rest
<1>4. EndIn(g, a) = b /\ EndIn(g, b) = after
  BY <1>1, <1>2, <1>3 DEF EndIn
<1>5. \A c \in Blocks(h) \ {a} : EndIn(g, c) = EndIn(h, c)
  BY <1>1 DEF EndIn
<1>6. /\ Shape(h) /\ Blocks(h) \subseteq Nat /\ NULL \notin Nat
      /\ \A c, d \in Blocks(h) : c < d => EndIn(h, c) <= d
      /\ \A c \in Blocks(h) : EndIn(h, c) <= h.brk
      /\ h.brk \in Nat /\ HEAPEND \in Nat
      /\ \A c \in Blocks(h) : EndIn(h, c) \in Nat
  BY NeighbourFacts, HeapAssumption DEF Good, Shape, Spaced, Formed
<1>7. Formed(g)
  BY <1>1, <1>2, <1>6 DEF Shape, Formed
<1>8. Spaced(g)
  <2>1. ASSUME NEW c \in Blocks(g), NEW d \in Blocks(g), c < d
        PROVE  EndIn(g, c) <= d
    <3>1. CASE c = a
      <4>1. CASE d = b
        BY <3>1, <4>1, <1>2, <1>4
      <4>2. CASE d # b
        <5>1. after <= d
          BY <3>1, <4>2, <2>1, <1>1, <1>2, <1>6
        <5>2. d \in Nat
          BY <4>2, <1>1, <1>6
        <5> QED BY <3>1, <5>1, <5>2, <1>2, <1>4
      <4> QED BY <4>1, <4>2
    <3>2. CASE c = b
      <4>1. d \in Blocks(h) /\ d # a
        BY <3>2, <2>1, <1>1, <1>2
      <4>2. a < d
        BY <3>2, <4>1, <2>1, <1>2, <1>6
      <4> QED BY <3>2, <4>1, <4>2, <1>2, <1>4, <1>6
    <3>3. CASE c # a /\ c # b
      <4>1. CASE d # b
        BY <3>3, <4>1, <2>1, <1>1, <1>5, <1>6
      <4>2. CASE d = b
        <5>1. c \in Blocks(h) /\ c \in Nat
          BY <3>3, <1>1, <1>6
        <5>2. ~(a < c)
          <6>1. SUFFICES ASSUME a < c PROVE FALSE
            OBVIOUS
          <6>2. after <= c
            BY <6>1, <5>1, <1>2, <1>6
          <6> QED BY <6>2, <5>1, <4>2, <2>1, <1>2
        <5>3. c < a
          BY <5>1, <5>2, <3>3, <1>2
        <5>4. EndIn(h, c) <= a /\ EndIn(h, c) \in Nat
          BY <5>1, <5>3, <1>6
        <5> QED BY <5>1, <5>4, <4>2, <3>3, <1>2, <1>5
      <4> QED BY <4>1, <4>2
    <3> QED BY <3>1, <3>2, <3>3
  <2>2. ASSUME NEW c \in Blocks(g) PROVE EndIn(g, c) <= g.brk
    <3>1. after <= h.brk
      BY <1>2, <1>6
    <3>2. CASE c = a
      BY <3>1, <3>2, <1>1, <1>2, <1>4, <1>6
    <3>3. CASE c = b
      BY <3>1, <3>3, <1>1, <1>2, <1>4, <1>6
    <3>4. CASE c # a /\ c # b
      BY <3>4, <1>1, <1>5, <1>6
    <3> QED BY <3>2, <3>3, <3>4
  <2> QED BY <2>1, <2>2 DEF Spaced
<1>9. /\ Blocks(g) # {} /\ g.head = 0 /\ {0, g.tail} \subseteq Blocks(g)
  BY <1>1, <1>2, <1>6 DEF Shape, Tiled
<1>10. ASSUME NEW c \in Blocks(g), c = g.tail
       PROVE  g.hdr[c].next = NULL /\ EndIn(g, c) = g.brk
  <2>1. c \in Blocks(h) \ {a}
    BY <1>10, <1>1, <1>2
  <2> QED BY <2>1, <1>1, <1>5, <1>6, <1>10 DEF Shape, Tiled
<1>11. ASSUME NEW c \in Blocks(g), c # g.tail
       PROVE  /\ g.hdr[c].next = EndIn(g, c)
              /\ EndIn(g, c) \in Blocks(g)
              /\ g.hdr[EndIn(g, c)].back = c
  <2>1. CASE c = a
    BY <2>1, <1>1, <1>4
  <2>2. CASE c = b
    <3>1. after \in Blocks(h) \ {a}
      BY <1>2
    <3> QED BY <2>2, <3>1, <1>1, <1>4
  <2>3. CASE c # a /\ c # b
    <3> DEFINE d == EndIn(h, c)
    <3>1. c \in Blocks(h) \ {a} /\ h.hdr[c].next = d /\ d \in Blocks(h) /\ h.hdr[d].back = c
      BY <2>3, <1>1, <1>6, <1>11 DEF Shape, Tiled
    <3> HIDE DEF d
    <3>2. d # after
      BY <2>3, <3>1, <1>2
    <3>3. g.hdr[d].back = c
      BY <3>1, <3>2, <1>1
    <3> QED BY <3>1, <3>3, <1>1, <1>5 DEF d
  <2> QED BY <2>1, <2>2, <2>3
<1>12. ASSUME NEW c \in Blocks(g), c = 0 PROVE g.hdr[c].back = NULL
  <2>1. c \in Blocks(h) /\ h.hdr[c].back = NULL /\ c # after
    BY <1>12, <1>1, <1>2, <1>6 DEF Shape, Tiled
  <2> QED BY <2>1, <1>1
<1>13. ASSUME NEW c \in Blocks(g), c # 0
       PROVE  g.hdr[c].back \in Blocks(g) /\ g.hdr[g.hdr[c].back].next = c
  <2>1. CASE c = b
    BY <2>1, <1>1
  <2>2. CASE c = after
    BY <2>2, <1>1, <1>2
  <2>3. CASE c # b /\ c # after
    <3> DEFINE d == h.hdr[c].back
    <3>1. c \in Blocks(h) /\ d \in Blocks(h) /\ h.hdr[d].next = c
      BY <2>3, <1>1, <1>6, <1>13 DEF Shape, Tiled
    <3>2. d # a
      BY <3>1, <2>3 DEF after
    <3>3. g.hdr[c].back = d
      BY <3>1, <2>3, <1>1
    <3> HIDE DEF d
    <3> QED BY <3>1, <3>2, <3>3, <1>1
  <2> QED BY <2>1, <2>2, <2>3
<1>14. Tiled(g)
  BY <1>9, <1>10, <1>11, <1>12, <1>13 DEF Tiled
<1> QED BY <1>7, <1>8, <1>14 DEF Shape, g

\* kmalloc takes a free block that is large enough: all is well after it,
\* the block is in use and as large, and no other block in use has changed.
LEMMA TakenStep ==
    ASSUME NEW h, NEW a \in Blocks(h), Good(h), h.hdr[a].isFree,
           NEW size \in Nat \ {0}, h.hdr[a].size >= size, low \in AtLow
    PROVE  LET g == Taken(h, a, size)
           IN  /\ Good(g) /\ Used(g) = Used(h) \cup {a}
               /\ g.hdr[a].size >= size
               /\ \A c \in Used(h) : g.hdr[c].size = h.hdr[c].size
<1> DEFINE b == a + size + HEADER
           after == h.hdr[a].next
           cut == Cut(h, a, size)
           split == Freed(cut, b)
<1>1. Taken(h, a, size) =
          IF h.hdr[a].size - size >= HEADER + MINSPLIT
          THEN [split EXCEPT !.tail = IF @ = a THEN b ELSE @]
          ELSE Whole(h, a)
  BY DEF Taken, Cut, Whole
<1>2. CASE ~(h.hdr[a].size - size >= HEADER + MINSPLIT)
  <2> DEFINE g == Whole(h, a)
  <2>1. Taken(h, a, size) = g
    BY <1>1, <1>2
  <2>2. /\ Good(g) /\ Used(g) = Used(h) \cup {a}
        /\ \A c \in Blocks(h) : g.hdr[c].size = h.hdr[c].size
    BY WholeStep
  <2> HIDE DEF g
  <2> QED BY <2>1, <2>2 DEF Used
<1>3. CASE h.hdr[a].size - size >= HEADER + MINSPLIT
  <2>1. /\ DOMAIN cut = DOMAIN h /\ Blocks(cut) = Blocks(h) \cup {b}
        /\ cut.hdr[a].size = size /\ ~cut.hdr[a].isFree
        /\ cut.hdr[a].next = b
        /\ ~cut.hdr[b].isFree
        /\ cut.hdr[b].next = after /\ cut.hdr[b].back = a
        /\ \A c \in Blocks(h) \ {a} :
               /\ cut.hdr[c].size = h.hdr[c].size
               /\ cut.hdr[c].isFree = h.hdr[c].isFree
               /\ cut.hdr[c].next = h.hdr[c].next
        /\ cut.free = Removed(h.free, a) /\ cut.tail = h.tail
        /\ Overrun(cut, h)
    BY <1>3, CutFields
  <2>2. /\ a \in Nat /\ b \in Nat /\ a < b /\ b \notin Blocks(h)
        /\ a # h.tail /\ b # h.tail
        /\ after \in Blocks(h) /\ after \in Nat /\ b < after
        /\ h.hdr[after].back = a /\ ~h.hdr[after].isFree
    BY <1>3, CutPlace
  <2>3. Shape(cut)
    BY <1>3, CutShape
  <2> HIDE DEF cut, b, after
  <2>4. a # b /\ a # after /\ after # b
    BY <2>2
  <2>5. Listing(cut, NULL)
    <3>1. Formed(h) /\ Listing(h, NULL)
      BY DEF Good, Shape
    <3> QED BY <2>1, <3>1, ListingKept, SMTT(30)
  <2>6. Listing(cut, b)
    BY <2>1, <2>5 DEF Listing
  <2>7. Merged(cut, b)
    <3>1. SUFFICES ASSUME NEW c \in Blocks(cut), c # b, cut.hdr[c].isFree
                   PROVE  /\ c # cut.tail
                          /\ cut.hdr[c].next # b => ~cut.hdr[cut.hdr[c].next].isFree
      BY DEF Merged
    <3> DEFINE d == h.hdr[c].next
    <3>2. c \in Blocks(h) \ {a} /\ h.hdr[c].isFree /\ cut.hdr[c].next = d
      BY <3>1, <2>1
    <3>3. Shape(h) /\ c # NULL
      BY <3>2, HeapAssumption DEF Good, Shape, Formed
    <3>4. c # h.tail /\ (d # NULL => ~h.hdr[d].isFree)
      BY <3>2, <3>3 DEF Good, Merged
    <3>5. d \in Blocks(h) /\ d # NULL
      BY <3>2, <3>3, <3>4, NeighbourFacts
    <3>6. ~cut.hdr[d].isFree
      BY <3>4, <3>5, <2>1
    <3> QED BY <3>2, <3>4, <3>6, <2>1
  <2>8. Pending(cut, b)
    BY <2>1, <2>3, <2>6, <2>7 DEF Pending
  <2>9. Alone(cut, b)
    BY <2>1, <2>2, <2>4 DEF Alone
  <2> DEFINE g == Listed(cut, b)
  <2>10. /\ Shape(g) /\ Listing(g, NULL) /\ Blocks(g) = Blocks(cut)
         /\ g.tail = cut.tail
         /\ \A c \in Blocks(g) : g.hdr[c].isFree =>
                /\ c = g.tail => c = b
                /\ g.hdr[c].next # NULL => ~g.hdr[g.hdr[c].next].isFree
         /\ Used(g) = Used(cut) \ {b}
         /\ \A c \in Blocks(cut) : g.hdr[c].size = cut.hdr[c].size
    BY <2>8, <2>9, ListedStep
  <2>11. split = g
    <3>1. LeftOf(cut, b) = b
      BY <2>1 DEF LeftOf
    <3>2. MergeLeft(cut, b) = cut
      BY <3>1 DEF MergeLeft
    <3>3. MergeRight(cut, b) = cut
      <4>1. ~cut.hdr[after].isFree
        BY <2>1, <2>2, <2>4
      <4> QED BY <4>1, <2>1 DEF MergeRight
    <3>4. Released(g, b) = g
      <4>1. b # g.tail
        BY <2>1, <2>2, <2>10
      <4> HIDE DEF g
      <4> QED BY <4>1 DEF Released
    <3> QED BY <3>1, <3>2, <3>3, <3>4 DEF Freed
  <2>12. [split EXCEPT !.tail = IF @ = a THEN b ELSE @] = g
    <3>1. g.tail # a
      BY <2>1, <2>2, <2>10
    <3>2. g = [i \in DOMAIN g |-> g[i]]
      BY DEF Listed
    <3> HIDE DEF g, split
    <3> QED BY <2>11, <3>1, <3>2
  <2> HIDE DEF g, split
  <2>13. Taken(h, a, size) = g
    BY <1>1, <1>3, <2>12
  <2>14. Good(g)
    <3>1. \A c \in Blocks(g) : g.hdr[c].isFree => c # g.tail
      BY <2>1, <2>2, <2>10
    <3> QED BY <2>10, <3>1 DEF Good, Merged
  <2>15. Used(g) = Used(h) \cup {a}
    <3>1. Blocks(cut) = Blocks(h) \cup {b} /\ b \notin Blocks(h) /\ a \in Blocks(h)
      BY <2>1, <2>2
    <3>2. \A c \in Blocks(h) : ~cut.hdr[c].isFree <=> c = a \/ ~h.hdr[c].isFree
      BY <2>1, <2>4
    <3>3. \A c : c \in Used(cut) \ {b} <=> c \in Used(h) \cup {a}
      BY <3>1, <3>2 DEF Used
    <3> QED BY <3>3, <2>10
  <2>16. g.hdr[a].size = size
    BY <2>1, <2>10
  <2>17. \A c \in Used(h) : g.hdr[c].size = h.hdr[c].size
    BY <2>1, <2>10 DEF Used
  <2> QED BY <2>13, <2>14, <2>15, <2>16, <2>17
<1> QED BY <1>2, <1>3

\* The fields after a new block is put at the break.
LEMMA ExtendedFields ==
    ASSUME NEW h, Shape(h), NEW size \in Sizes
    PROVE  LET a == h.brk
               g == Extended(h, size)
           IN  /\ a \in Nat /\ a \notin Blocks(h)
               /\ DOMAIN g = DOMAIN h /\ Blocks(g) = Blocks(h) \cup {a}
               /\ g.hdr \in [Blocks(g) -> Block]
               /\ g.hdr[a].size = size /\ ~g.hdr[a].isFree
               /\ g.hdr[a].next = NULL /\ g.hdr[a].back = h.tail
               /\ \A c \in Blocks(h) :
                      /\ g.hdr[c].size = h.hdr[c].size
                      /\ g.hdr[c].isFree = h.hdr[c].isFree
                      /\ g.hdr[c].next = IF c = h.tail THEN a ELSE h.hdr[c].next
                      /\ g.hdr[c].back = h.hdr[c].back
               /\ g.head = IF h.head = NULL THEN a ELSE h.head
               /\ g.tail = a /\ g.free = h.free /\ g.beyond = h.beyond
               /\ g.brk = a + HEADER + size
               /\ g.mapped = IF a + (HEADER + size) > h.mapped THEN h.mapped + PAGE
                                                               ELSE h.mapped
<1> DEFINE a == h.brk
           new == [size |-> size, isFree |-> FALSE, next |-> NULL, back |-> h.tail]
           f == [x \in DOMAIN h.hdr \cup {a} |->
                    CASE x = a -> new
                      [] x = h.tail -> [h.hdr[x] EXCEPT !.next = a]
                      [] OTHER -> h.hdr[x]]
           hd == IF h.head = NULL THEN a ELSE h.head
           bk == a + HEADER + size
           mp == IF a + (HEADER + size) > h.mapped THEN h.mapped + PAGE ELSE h.mapped
           g == [h EXCEPT !.hdr = f, !.head = hd, !.tail = a, !.brk = bk, !.mapped = mp]
<1>1. Extended(h, size) = g
  BY DEF Extended, MustMap
<1>2. Formed(h) /\ \A c \in Blocks(h) : h.hdr[c] \in Block
  BY DEF Shape, Formed
<1>3. a \in Nat /\ a \notin Blocks(h)
  <2>1. a \in Nat
    BY <1>2, HeapAssumption DEF Formed
  <2>2. ASSUME a \in Blocks(h) PROVE FALSE
    BY <2>1, <2>2, NeighbourFacts
  <2> QED BY <2>1, <2>2
<1>4. h.tail = NULL \/ h.tail \in Blocks(h)
  BY DEF Shape, Tiled
<1>5. h.tail # a /\ h.tail \in Nat \cup {NULL}
  BY <1>2, <1>3, <1>4, HeapAssumption DEF Formed
<1>6. new \in Block /\ size \in Nat \ {0}
  BY <1>5, HeapAssumption DEF Block
<1>7. DOMAIN f = Blocks(h) \cup {a}
  BY DEF Blocks
<1>8. f[a] = new
  <2> HIDE DEF a, new
  <2>1. f[a] = CASE a = a -> new
                 [] a = h.tail -> [h.hdr[a] EXCEPT !.next = a]
                 [] OTHER -> h.hdr[a]
    BY DEF Blocks
  <2> HIDE DEF f
  <2> QED BY <2>1, <1>5
<1>9. ASSUME NEW c \in Blocks(h)
      PROVE  f[c] = IF c = h.tail THEN [h.hdr[c] EXCEPT !.next = a] ELSE h.hdr[c]
  <2> HIDE DEF a, new
  <2>1. f[c] = CASE c = a -> new
                 [] c = h.tail -> [h.hdr[c] EXCEPT !.next = a]
                 [] OTHER -> h.hdr[c]
    BY DEF Blocks
  <2> HIDE DEF f
  <2> QED BY <2>1, <1>3
<1> HIDE DEF a
<1>10. /\ f[a] \in Block /\ f[a].size = size /\ f[a].isFree = FALSE
       /\ f[a].next = NULL /\ f[a].back = h.tail
  <2> HIDE DEF f
  <2> QED BY <1>6, <1>8
<1>11. ASSUME NEW c \in Blocks(h)
       PROVE  /\ f[c] \in Block
              /\ f[c].size = h.hdr[c].size /\ f[c].isFree = h.hdr[c].isFree
              /\ f[c].next = IF c = h.tail THEN a ELSE h.hdr[c].next
              /\ f[c].back = h.hdr[c].back
  <2> HIDE DEF f
  <2> DEFINE r == h.hdr[c]
  <2>1. r \in Block
    BY <1>2
  <2>2. f[c] = IF c = h.tail THEN [r EXCEPT !.next = a] ELSE r
    BY <1>9
  <2> HIDE DEF r
  <2>3. CASE c = h.tail
    <3>1. /\ f[c] \in Block /\ f[c].size = r.size /\ f[c].isFree = r.isFree
          /\ f[c].next = a /\ f[c].back = r.back
      BY <2>1, <2>2, <2>3, <1>3 DEF Block
    <3> QED BY <3>1, <2>3 DEF r
  <2>4. CASE c # h.tail
    BY <2>1, <2>2, <2>4 DEF r
  <2> QED BY <2>3, <2>4
<1>12. f \in [Blocks(h) \cup {a} -> Block]
  <2>1. f = [c \in DOMAIN f |-> f[c]]
    OBVIOUS
  <2> HIDE DEF f
  <2> QED BY <2>1, <1>7, <1>10, <1>11
<1> HIDE DEF f, hd, bk, mp
<1>13. /\ DOMAIN g = DOMAIN h /\ g.hdr = f /\ g.head = hd /\ g.tail = a
       /\ g.brk = bk /\ g.mapped = mp /\ g.free = h.free /\ g.beyond = h.beyond
  BY <1>2 DEF Formed
<1> HIDE DEF g
<1>14. Blocks(g) = Blocks(h) \cup {a}
  BY <1>7, <1>13 DEF Blocks
<1> QED BY <1>1, <1>3, <1>10, <1>11, <1>12, <1>13, <1>14 DEF a, hd, bk, mp

\* kmalloc puts a block at the break: all is well after it, the block is in
\* use and as large, and no other block has changed.
LEMMA ExtendedStep ==
    ASSUME NEW h, Good(h), NEW size \in Sizes, h.brk + HEADER + size <= HEAPEND
    PROVE  LET a == h.brk
               g == Extended(h, size)
           IN  /\ Good(g) /\ a \notin Blocks(h) /\ Used(g) = Used(h) \cup {a}
               /\ a # NULL /\ g.hdr[a].size = size
               /\ \A c \in Used(h) : g.hdr[c].size = h.hdr[c].size
<1> DEFINE a == h.brk
           g == Extended(h, size)
<1>1. Shape(h) /\ Listing(h, NULL) /\ Merged(h, NULL)
  BY DEF Good
<1>2. /\ a \in Nat /\ a \notin Blocks(h)
      /\ DOMAIN g = DOMAIN h /\ Blocks(g) = Blocks(h) \cup {a}
      /\ g.hdr \in [Blocks(g) -> Block]
      /\ g.hdr[a].size = size /\ ~g.hdr[a].isFree
      /\ g.hdr[a].next = NULL /\ g.hdr[a].back = h.tail
      /\ \A c \in Blocks(h) :
             /\ g.hdr[c].size = h.hdr[c].size
             /\ g.hdr[c].isFree = h.hdr[c].isFree
             /\ g.hdr[c].next = IF c = h.tail THEN a ELSE h.hdr[c].next
             /\ g.hdr[c].back = h.hdr[c].back
      /\ g.head = IF h.head = NULL THEN a ELSE h.head
      /\ g.tail = a /\ g.free = h.free /\ g.beyond = h.beyond
      /\ g.brk = a + HEADER + size
      /\ g.mapped = IF a + (HEADER + size) > h.mapped THEN h.mapped + PAGE ELSE h.mapped
  BY <1>1, ExtendedFields
<1>3. /\ size \in Nat \ {0} /\ HEADER \in Nat \ {0} /\ size + HEADER <= PAGE
      /\ PAGE \in Nat /\ h.mapped \in Nat /\ a <= h.mapped /\ HEAPEND \in Nat
      /\ NULL \notin Nat /\ Blocks(h) \subseteq Nat
  BY <1>1, HeapAssumption, RequestAssumption DEF Shape, Formed
<1>4. g.brk <= HEAPEND
  BY <1>2
<1> HIDE DEF g, a
<1>5. EndIn(g, a) = g.brk /\ g.brk \in Nat /\ a < g.brk
  BY <1>2, <1>3 DEF EndIn
<1>6. \A c \in Blocks(h) : EndIn(g, c) = EndIn(h, c)
  BY <1>2 DEF EndIn
<1>7. \A c \in Blocks(h) : c < EndIn(h, c) /\ EndIn(h, c) \in Nat /\ EndIn(h, c) <= a
  BY <1>1, NeighbourFacts DEF a
<1>8. Formed(g)
  <2>1. g.mapped \in Nat /\ g.brk <= g.mapped
    BY <1>2, <1>3
  <2>2. g.brk \in 0 .. HEAPEND
    BY <1>3, <1>4, <1>5
  <2> QED BY <2>1, <2>2, <1>1, <1>2, <1>3 DEF Shape, Formed
<1>9. Spaced(g)
  <2>1. ASSUME NEW c \in Blocks(g), NEW d \in Blocks(g), c < d
        PROVE  EndIn(g, c) <= d
    <3>1. CASE c = a
      <4>1. d \in Blocks(h)
        BY <3>1, <2>1, <1>2
      <4>2. d < a /\ d \in Nat
        BY <4>1, <1>2, <1>3, <1>7
      <4> QED BY <3>1, <4>2, <2>1, <1>2
    <3>2. CASE c # a
      <4>1. c \in Blocks(h)
        BY <3>2, <1>2
      <4>2. CASE d = a
        BY <4>1, <4>2, <1>6, <1>7
      <4>3. CASE d # a
        BY <4>1, <4>3, <2>1, <1>1, <1>2, <1>6 DEF Shape, Spaced
      <4> QED BY <4>2, <4>3
    <3> QED BY <3>1, <3>2
  <2>2. ASSUME NEW c \in Blocks(g) PROVE EndIn(g, c) <= g.brk
    <3>1. CASE c = a
      BY <3>1, <1>5
    <3>2. CASE c # a
      <4>1. c \in Blocks(h) /\ EndIn(g, c) <= a /\ EndIn(g, c) \in Nat
        BY <3>2, <1>2, <1>6, <1>7
      <4> QED BY <4>1, <1>2, <1>5
    <3> QED BY <3>1, <3>2
  <2> QED BY <2>1, <2>2 DEF Spaced
<1>10. ASSUME Blocks(h) = {} PROVE Tiled(g)
  <2>1. h.head = NULL /\ h.tail = NULL /\ a = 0
    BY <1>10, <1>1 DEF Shape, Tiled, a
  <2>2. Blocks(g) = {0} /\ g.head = 0 /\ g.tail = 0
    BY <2>1, <1>2, <1>10
  <2>3. g.hdr[0].next = NULL /\ EndIn(g, 0) = g.brk /\ g.hdr[0].back = NULL
    BY <2>1, <1>2, <1>5
  <2> QED BY <2>2, <2>3 DEF Tiled
<1>11. ASSUME Blocks(h) # {} PROVE Tiled(g)
  <2>1. h.head = 0 /\ {0, h.tail} \subseteq Blocks(h) /\ g.head = 0
    BY <1>11, <1>1, <1>2, <1>3 DEF Shape, Tiled
  <2>2. a # 0 /\ {0, g.tail} \subseteq Blocks(g)
    BY <2>1, <1>2
  <2>3. ASSUME NEW c \in Blocks(g), c # g.tail
        PROVE  /\ g.hdr[c].next = EndIn(g, c)
               /\ EndIn(g, c) \in Blocks(g)
               /\ g.hdr[EndIn(g, c)].back = c
    <3>1. c \in Blocks(h) /\ EndIn(g, c) = EndIn(h, c)
      BY <2>3, <1>2, <1>6
    <3>2. CASE c = h.tail
      <4>1. EndIn(h, c) = a
        BY <3>1, <3>2, <1>1 DEF Shape, Tiled, a
      <4> QED BY <3>1, <3>2, <4>1, <1>2
    <3>3. CASE c # h.tail
      <4> DEFINE d == EndIn(h, c)
      <4>1. h.hdr[c].next = d /\ d \in Blocks(h) /\ h.hdr[d].back = c
        BY <3>1, <3>3, <1>1 DEF Shape, Tiled
      <4> HIDE DEF d
      <4>2. g.hdr[c].next = d /\ d \in Blocks(g) /\ g.hdr[d].back = c
        BY <4>1, <3>1, <3>3, <1>2
      <4> QED BY <4>2, <3>1 DEF d
    <3> QED BY <3>2, <3>3
  <2>4. ASSUME NEW c \in Blocks(g), c = 0 PROVE g.hdr[c].back = NULL
    <3>1. c \in Blocks(h) /\ h.hdr[c].back = NULL
      BY <2>1, <2>4, <1>1 DEF Shape, Tiled
    <3> QED BY <3>1, <1>2
  <2>5. ASSUME NEW c \in Blocks(g), c # 0
        PROVE  g.hdr[c].back \in Blocks(g) /\ g.hdr[g.hdr[c].back].next = c
    <3>1. CASE c = a
      BY <3>1, <2>1, <1>2
    <3>2. CASE c # a
      <4> DEFINE d == h.hdr[c].back
      <4>1. c \in Blocks(h) /\ d \in Blocks(h) /\ h.hdr[d].next = c
        BY <3>2, <2>5, <1>1, <1>2 DEF Shape, Tiled
      <4>2. d # h.tail
        <5>1. h.hdr[h.tail].next = NULL /\ c # NULL
          BY <2>1, <4>1, <1>1, <1>3 DEF Shape, Tiled
        <5> QED BY <5>1, <4>1
      <4>3. g.hdr[c].back = d
        BY <4>1, <1>2
      <4> HIDE DEF d
      <4> QED BY <4>1, <4>2, <4>3, <1>2
    <3> QED BY <3>1, <3>2
  <2>6. g.hdr[a].next = NULL /\ EndIn(g, a) = g.brk /\ g.tail = a
    BY <1>2, <1>5
  <2> QED BY <2>1, <2>2, <2>3, <2>4, <2>5, <2>6 DEF Tiled
<1>12. Shape(g)
  BY <1>8, <1>9, <1>10, <1>11 DEF Shape
<1>13. Listing(g, NULL)
  BY <1>1, <1>2, ListingSame
<1>14. Merged(g, NULL)
  <2>1. SUFFICES ASSUME NEW c \in Blocks(g), g.hdr[c].isFree
                 PROVE  /\ c # g.tail
                        /\ g.hdr[c].next # NULL => ~g.hdr[g.hdr[c].next].isFree
    BY DEF Merged
  <2>2. c \in Blocks(h) /\ h.hdr[c].isFree /\ c # a /\ c # NULL
    BY <2>1, <1>2, <1>3
  <2>3. c # h.tail /\ (h.hdr[c].next # NULL => ~h.hdr[h.hdr[c].next].isFree)
    BY <2>2, <1>1 DEF Merged
  <2>4. h.hdr[c].next # NULL /\ h.hdr[c].next \in Blocks(h)
    BY <2>2, <2>3, <1>1, NeighbourFacts
  <2> QED BY <2>2, <2>3, <2>4, <1>2
<1>15. Used(g) = Used(h) \cup {a}
  BY <1>2 DEF Used
<1>16. \A c \in Used(h) : g.hdr[c].size = h.hdr[c].size
  BY <1>2 DEF Used
<1> QED BY <1>2, <1>3, <1>12, <1>13, <1>14, <1>15, <1>16 DEF Good, g, a

\* kmalloc: all is well after it; the block it returns, if it returns one,
\* was not in use, is now, and is as large as was asked; no other block in
\* use has changed.
LEMMA KmallocStep ==
    ASSUME NEW h, Good(h), NEW size \in Sizes, low \in AtLow,
           Found(h, size) \notin Stray, NEW result \in Kmallocs(h, size)
    PROVE  LET g == result.heap
               a == result.block
           IN  /\ Good(g) /\ a \notin Used(h) /\ Used(g) = Used(h) \cup ({a} \ {NULL})
               /\ a # NULL => a \in Used(g) /\ g.hdr[a].size >= size
               /\ \A c \in Used(h) : g.hdr[c].size = h.hdr[c].size
<1> DEFINE found == Found(h, size)
           full == [block |-> NULL, heap |-> h]
           grown == [block |-> h.brk, heap |-> Extended(h, size)]
<1>1. /\ size \in Nat \ {0} /\ NULL \notin Used(h)
      /\ Listing(h, NULL) /\ Formed(h)
  BY HeapAssumption DEF Good, Shape, Formed, Used
<1>2. CASE found # NULL
  <2>1. result.block = found /\ result.heap = Taken(h, found, size)
    BY <1>2 DEF Kmallocs
  <2>2. found \in Blocks(h) /\ h.hdr[found].isFree /\ h.hdr[found].size >= size
    BY <1>1, <1>2, FoundFacts
  <2> HIDE DEF found
  <2> DEFINE g == Taken(h, found, size)
  <2>3. /\ Good(g) /\ Used(g) = Used(h) \cup {found}
        /\ g.hdr[found].size >= size
        /\ \A c \in Used(h) : g.hdr[c].size = h.hdr[c].size
    BY <1>1, <2>2, TakenStep
  <2> HIDE DEF g
  <2>4. result.heap = g
    BY <2>1 DEF g
  <2>5. found \notin Used(h)
    BY <2>2 DEF Used
  <2> QED BY <1>2, <2>1, <2>3, <2>4, <2>5
<1>3. CASE result = full
  <2>1. result.block = NULL /\ result.heap = h
    BY <1>3
  <2> QED BY <2>1, <1>1
<1>4. CASE result = grown /\ ~(h.brk + HEADER + size > HEAPEND)
  <2> DEFINE g == Extended(h, size)
             a == h.brk
  <2>1. result.block = a /\ result.heap = g
    BY <1>4
  <2>2. h.brk \in Int /\ HEADER \in Int /\ HEAPEND \in Int
    BY HeapAssumption DEF Good, Shape, Formed
  <2>3. h.brk + HEADER + size <= HEAPEND
    BY <2>2, <1>1, <1>4
  <2>4. /\ Good(g) /\ a \notin Blocks(h) /\ Used(g) = Used(h) \cup {a}
        /\ a # NULL /\ g.hdr[a].size = size
        /\ \A c \in Used(h) : g.hdr[c].size = h.hdr[c].size
    BY <2>3, ExtendedStep
  <2> HIDE DEF g, a
  <2>5. a \notin Used(h) /\ size >= size
    BY <2>4, <1>1 DEF Used
  <2> QED BY <2>1, <2>4, <2>5
<1>5. \/ found # NULL
      \/ result = full
      \/ result = grown /\ ~(h.brk + HEADER + size > HEAPEND)
  BY DEF Kmallocs
<1> QED BY <1>2, <1>3, <1>4, <1>5

-----------------------------------------------------------------------------
(***************************************************************************)
(* The invariant and what follows from it.                                 *)
(***************************************************************************)

\* The empty heap is well.
LEMMA HInitStep == HeapInit => HInv
<1> SUFFICES ASSUME HeapInit PROVE HInv
  OBVIOUS
<1> DEFINE h == [hdr |-> <<>>, head |-> NULL, tail |-> NULL, free |-> <<>>,
                 beyond |-> NULL, brk |-> 0, mapped |-> PAGE]
<1>1. heap = h /\ low \in AtLow /\ owned = {} /\ wild = FALSE
  BY DEF HeapInit
<1>2. /\ DOMAIN h = {"hdr", "head", "tail", "free", "beyond", "brk", "mapped"}
      /\ h.hdr = <<>> /\ h.head = NULL /\ h.tail = NULL /\ h.free = <<>>
      /\ h.beyond = NULL /\ h.brk = 0 /\ h.mapped = PAGE
  OBVIOUS
<1> HIDE DEF h
<1>3. DOMAIN h.hdr = {} /\ h.hdr \in [{} -> Block]
  <2>1. DOMAIN <<>> = {}
    OBVIOUS
  <2>2. <<>> = [i \in {} |-> <<>>[i]]
    BY <2>1
  <2> QED BY <1>2, <2>1, <2>2
<1>4. Blocks(h) = {} /\ Used(h) = {}
  BY <1>3 DEF Blocks, Used
<1>5. Shape(h)
  BY <1>2, <1>3, <1>4, HeapAssumption DEF Shape, Formed, Tiled, Spaced
<1>6. Listing(h, NULL)
  BY <1>2, LowFacts, HeapAssumption DEF Listing
<1>7. Merged(h, NULL)
  BY <1>4 DEF Merged
<1> QED BY <1>1, <1>4, <1>5, <1>6, <1>7 DEF HInv, Good

\* A call leaves the heap well and the callers with the blocks in use.
LEMMA CallStep ==
    ASSUME HInv, UNCHANGED low, NEW g, heap' = g, Good(g), owned' = Used(g),
           wild' \in BOOLEAN, wild' => g.beyond # NULL
    PROVE  HInv'
<1>1. Listing(heap, NULL)'
  BY DEF Good, Listing, Key, Read, Blocks
<1>2. /\ Shape(heap)' /\ Merged(heap, NULL)' /\ owned' = Used(heap)'
  BY DEF Good, Shape, Formed, Tiled, Spaced, Merged, Used, EndIn, Blocks
<1> QED BY <1>1, <1>2 DEF HInv, Good

\* kmalloc and its two outcomes.
LEMMA KmallocCall ==
    ASSUME HInv, NEW size \in Sizes, kmalloc(size)
    PROVE  \E result \in Kmallocs(heap, size) :
               /\ heap' = result.heap /\ Good(result.heap)
               /\ owned' = Used(result.heap)
               /\ owned' = owned \cup ({result.block} \ {NULL})
               /\ result.block \notin owned
               /\ \A c \in owned : result.heap.hdr[c].size = heap.hdr[c].size
<1> PICK h : h = heap
  OBVIOUS
<1>1. PICK result \in Kmallocs(h, size) :
          /\ heap' = result.heap
          /\ owned' = owned \cup ({result.block} \ {NULL})
  BY DEF kmalloc
<1>2. /\ Good(h) /\ owned = Used(h) /\ low \in AtLow
      /\ Found(h, size) \notin Stray
  BY DEF HInv, kmalloc
<1>3. /\ Good(result.heap) /\ result.block \notin Used(h)
      /\ Used(result.heap) = Used(h) \cup ({result.block} \ {NULL})
      /\ \A c \in Used(h) : result.heap.hdr[c].size = h.hdr[c].size
  BY <1>2, KmallocStep
<1> QED BY <1>1, <1>2, <1>3

\* kfree.
LEMMA KfreeCall ==
    ASSUME HInv, NEW a \in owned, kfree(a)
    PROVE  /\ Good(Freed(heap, a)) /\ heap' = Freed(heap, a)
           /\ owned' = owned \ {a} /\ owned' = Used(Freed(heap, a))
           /\ \A c \in owned \ {a} : Freed(heap, a).hdr[c].size = heap.hdr[c].size
<1> PICK h : h = heap
  OBVIOUS
<1>1. heap' = Freed(h, a) /\ owned' = owned \ {a}
  BY DEF kfree
<1>2. Good(h) /\ owned = Used(h) /\ low \in AtLow
  BY DEF HInv
<1> DEFINE g == Freed(h, a)
<1>3. /\ Good(g) /\ Used(g) = Used(h) \ {a}
      /\ \A c \in Used(h) \ {a} : g.hdr[c].size = h.hdr[c].size
  BY <1>2, FreedStep
<1> HIDE DEF g
<1>4. /\ heap' = g /\ owned' = Used(g)
      /\ \A c \in owned \ {a} : g.hdr[c].size = h.hdr[c].size
  BY <1>1, <1>2, <1>3 DEF g
<1> QED BY <1>1, <1>3, <1>4 DEF g

\* krealloc that finds no room, and krealloc that moves a block.
LEMMA KreallocCall ==
    ASSUME HInv, NEW a \in owned, NEW size \in Sizes, krealloc(a, size)
    PROVE  \E g, b :
               /\ heap' = g /\ Good(g) /\ owned' = Used(g)
               /\ \/ /\ b = NULL /\ owned' = owned
                     /\ \A c \in owned : g.hdr[c].size = heap.hdr[c].size
                  \/ /\ b # NULL /\ b \notin owned
                     /\ owned' = (owned \ {a}) \cup {b}
                     /\ g.hdr[b].size > heap.hdr[a].size
                     /\ \E m : /\ Good(m) /\ Used(m) = owned \cup {b}
                               /\ \A c \in owned : m.hdr[c].size = heap.hdr[c].size
                               /\ \A c \in (owned \ {a}) \cup {b} :
                                      g.hdr[c].size = m.hdr[c].size
<1> PICK h : h = heap
  OBVIOUS
<1>1. PICK result \in Kmallocs(h, size) :
          /\ heap' = IF result.block = NULL THEN result.heap
                                            ELSE Freed(result.heap, a)
          /\ owned' = IF result.block = NULL THEN owned
                                             ELSE (owned \ {a}) \cup {result.block}
  BY DEF krealloc
<1>2. /\ Good(h) /\ owned = Used(h) /\ low \in AtLow
      /\ h.hdr[a].size < size /\ Found(h, size) \notin Stray
  BY DEF HInv, krealloc
<1> DEFINE m == result.heap
           b == result.block
<1>3. /\ Good(m) /\ b \notin Used(h) /\ Used(m) = Used(h) \cup ({b} \ {NULL})
      /\ b # NULL => b \in Used(m) /\ m.hdr[b].size >= size
      /\ \A c \in Used(h) : m.hdr[c].size = h.hdr[c].size
  BY <1>2, KmallocStep
<1> HIDE DEF m, b
<1>4. CASE b = NULL
  <2>1. /\ heap' = m /\ owned' = owned /\ Used(m) = owned
        /\ \A c \in owned : m.hdr[c].size = h.hdr[c].size
    BY <1>1, <1>2, <1>3, <1>4 DEF m, b
  <2> QED BY <2>1, <1>3, <1>4
<1>5. CASE b # NULL
  <2> DEFINE g == Freed(m, a)
  <2>1. heap' = g /\ owned' = (owned \ {a}) \cup {b}
    BY <1>1, <1>5 DEF m, b
  <2>2. a \in Used(m) /\ a # b /\ Used(m) = owned \cup {b}
    BY <1>2, <1>3, <1>5
  <2>3. /\ Good(g) /\ Used(g) = Used(m) \ {a}
        /\ \A c \in Used(m) \ {a} : g.hdr[c].size = m.hdr[c].size
    BY <1>2, <1>3, <2>2, FreedStep
  <2> HIDE DEF g
  <2>4. g.hdr[b].size > h.hdr[a].size
    <3>1. g.hdr[b].size = m.hdr[b].size /\ m.hdr[b].size >= size
      BY <1>3, <1>5, <2>2, <2>3
    <3>2. /\ m.hdr[b].size \in Nat /\ h.hdr[a].size \in Nat /\ size \in Nat
      <4>1. /\ m.hdr[b] \in Block /\ h.hdr[a] \in Block
        BY <1>2, <1>3, <1>5 DEF Good, Shape, Formed, Used
      <4> QED BY <4>1, HeapAssumption DEF Block
    <3> QED BY <3>1, <3>2, <1>2
  <2>5. owned' = Used(g) /\ \A c \in (owned \ {a}) \cup {b} : g.hdr[c].size = m.hdr[c].size
    BY <2>1, <2>2, <2>3
  <2>6. \A c \in owned : m.hdr[c].size = h.hdr[c].size
    BY <1>2, <1>3
  <2>7. b \notin owned
    BY <1>2, <1>3
  <2> QED BY <1>3, <1>5, <2>1, <2>2, <2>3, <2>4, <2>5, <2>6, <2>7
<1> QED BY <1>4, <1>5

\* Every step keeps all well.
LEMMA HNextStep == HInv /\ [HeapNext]_heapVars => HInv'
<1> SUFFICES ASSUME HInv, [HeapNext]_heapVars PROVE HInv'
  OBVIOUS
<1>1. ASSUME NEW size \in Sizes, kmalloc(size) PROVE HInv'
  <2>1. PICK g : heap' = g /\ Good(g) /\ owned' = Used(g)
    BY <1>1, KmallocCall
  <2>2. UNCHANGED low /\ wild' = FALSE
    BY <1>1, Zenon DEF kmalloc, HInv
  <2> QED BY <2>1, <2>2, CallStep
<1>2. ASSUME NEW a \in owned, kfree(a) PROVE HInv'
  <2>1. PICK g : heap' = g /\ Good(g) /\ owned' = Used(g)
    BY <1>2, KfreeCall
  <2>2. UNCHANGED low /\ wild' = FALSE
    BY <1>2, Zenon DEF kfree, HInv
  <2> QED BY <2>1, <2>2, CallStep
<1>3. ASSUME NEW a \in owned, NEW size \in Sizes, krealloc(a, size) PROVE HInv'
  <2>1. PICK g : heap' = g /\ Good(g) /\ owned' = Used(g)
    BY <1>3, KreallocCall
  <2>2. UNCHANGED low /\ wild' = FALSE
    BY <1>3, Zenon DEF krealloc, HInv
  <2> QED BY <2>1, <2>2, CallStep
<1>4. ASSUME NEW size \in Sizes, kmallocStray(size) PROVE HInv'
  <2>1. UNCHANGED <<heap, low, owned>> /\ wild' = TRUE /\ Found(heap, size) \in Stray
    BY <1>4 DEF kmallocStray
  <2>2. PICK g : g = heap
    OBVIOUS
  <2>3. heap' = g /\ Good(g) /\ owned' = Used(g)
    BY <2>1, <2>2 DEF HInv
  <2>4. g.beyond # NULL
    BY <2>1, <2>2, <2>3, StrayFacts DEF Good
  <2> QED BY <2>1, <2>3, <2>4, CallStep
<1>5. CASE UNCHANGED heapVars
  <2>1. UNCHANGED <<heap, low, owned, wild>>
    BY <1>5 DEF heapVars
  <2>2. PICK g : g = heap
    OBVIOUS
  <2>3. heap' = g /\ Good(g) /\ owned' = Used(g)
    BY <2>1, <2>2 DEF HInv
  <2>4. wild' \in BOOLEAN /\ (wild' => g.beyond # NULL)
    BY <2>1, <2>2 DEF HInv
  <2> QED BY <2>1, <2>3, <2>4, CallStep
<1> QED BY <1>1, <1>2, <1>3, <1>4, <1>5 DEF HeapNext

\* Between two calls, whatever the calls were and whatever low memory holds,
\* all is well in the heap: the blocks tile it, free ones are merged, what the
\* array holds of the heap are free blocks in order, and a block is in use
\* exactly while a caller has it.
THEOREM HeapInvariance == HeapSpec => []HInv
BY HInitStep, HNextStep, PTL DEF HeapSpec

-----------------------------------------------------------------------------
\* The globals of heap.c and the blocks that callers hold keep their types.
THEOREM HeapTypeCorrect == HeapSpec => []HeapTypeOK
<1>1. ASSUME HInv PROVE HeapTypeOK
  <2> PICK h : h = heap
    OBVIOUS
  <2>1. Shape(h) /\ Listing(h, NULL) /\ owned = Used(h)
    BY <1>1 DEF HInv, Good
  <2>2. /\ DOMAIN h = {"hdr", "head", "tail", "free", "beyond", "brk", "mapped"}
        /\ h.hdr \in [Blocks(h) -> Block] /\ Blocks(h) \subseteq Nat
        /\ h.brk \in Address /\ h.mapped \in Nat /\ HEAPEND \in Nat
    BY <2>1, HeapAssumption DEF Shape, Formed, Address
  <2>3. Blocks(h) \subseteq Address
    <3>1. ASSUME NEW c \in Blocks(h) PROVE c \in 0 .. HEAPEND
      <4>1. c \in Nat /\ c < EndIn(h, c) /\ EndIn(h, c) \in Nat /\ EndIn(h, c) <= h.brk
        BY <2>1, NeighbourFacts
      <4>2. h.brk \in 0 .. HEAPEND
        BY <2>2 DEF Address
      <4> QED BY <4>1, <4>2, <2>2
    <3> QED BY <3>1 DEF Address
  <2>4. ASSUME NEW c \in Blocks(h) PROVE h.hdr[c] \in Header
    <3>1. /\ h.hdr[c] \in Block
          /\ h.hdr[c].next \in Address \cup {NULL}
          /\ h.hdr[c].back \in Address \cup {NULL}
      BY <2>1, <2>2, <2>3, NeighbourFacts
    <3> QED BY <3>1 DEF Block, Header
  <2>5. h.hdr \in [Blocks(h) -> Header]
    BY <2>2, <2>4
  <2>6. {h.head, h.tail} \subseteq Blocks(h) \cup {NULL}
    BY <2>1 DEF Shape, Tiled
  <2>7. owned \subseteq Blocks(h)
    BY <2>1 DEF Used
  <2>8. wild \in BOOLEAN
    BY <1>1 DEF HInv
  <2> QED BY <2>1, <2>2, <2>3, <2>5, <2>6, <2>7, <2>8
          DEF HeapTypeOK, Listing, Blocks
<1> QED BY <1>1, HeapInvariance, PTL

\* The blocks lie end to end from the start of the heap to the break.
THEOREM BlocksAlwaysTile == HeapSpec => []BlocksTile
<1>1. ASSUME HInv PROVE BlocksTile
  <2>1. Tiled(heap) /\ \A a \in Blocks(heap) : EndIn(heap, a) = Ends(a)
    BY <1>1 DEF HInv, Good, Shape, EndIn, Ends
  <2> QED BY <2>1 DEF Tiled, BlocksTile, Blocks
<1> QED BY <1>1, HeapInvariance, PTL

\* kfree leaves no two free blocks that touch, and none at the break.
THEOREM FreeBlocksAreMerged == HeapSpec => []Coalesced
<1>1. ASSUME HInv PROVE Coalesced
  <2> PICK h : h = heap
    OBVIOUS
  <2>1. Shape(h) /\ Merged(h, NULL) /\ NULL \notin Blocks(h)
    BY <1>1, HeapAssumption DEF HInv, Good, Shape, Formed
  <2>2. ASSUME NEW a \in Blocks(h), h.hdr[a].isFree
        PROVE  a # h.tail /\ ~h.hdr[h.hdr[a].next].isFree
    <3>1. a # h.tail
      BY <2>1, <2>2 DEF Merged
    <3>2. h.hdr[a].next # NULL
      BY <2>1, <3>1, NeighbourFacts
    <3> QED BY <2>1, <2>2, <3>1, <3>2 DEF Merged
  <2> QED BY <2>2 DEF Coalesced, Blocks
<1> QED BY <1>1, HeapInvariance, PTL

\* A block is not free exactly while a caller has it.
THEOREM UseIsOwnership == HeapSpec => []UsedIsOwned
<1>1. ASSUME HInv PROVE UsedIsOwned
  BY <1>1 DEF HInv, Used, UsedIsOwned, Blocks
<1> QED BY <1>1, HeapInvariance, PTL

\* The array never offers a block that is in use or gone, and leads out of
\* the heap only after an entry has left a full array.
THEOREM ArrayIsSound == HeapSpec => []ArrayOffersFreeBlocks
<1>1. ASSUME HInv PROVE ArrayOffersFreeBlocks
  <2>1. Listing(heap, NULL)
    BY <1>1 DEF HInv, Good
  <2>2. ASSUME NEW i \in DOMAIN heap.free, NEW j \in DOMAIN heap.free
        PROVE  /\ heap.free[i] \notin Low => heap.hdr[heap.free[i]].isFree
               /\ i < j /\ {heap.free[i], heap.free[j]} \cap Low = {} =>
                    /\ heap.free[i] # heap.free[j]
                    /\ heap.hdr[heap.free[i]].size <= heap.hdr[heap.free[j]].size
    BY <2>1 DEF Listing, Key, Read
  <2>3. ASSUME heap.beyond = NULL PROVE ToSet(heap.free) \cap Stray = {}
    BY <2>1, <2>3 DEF Listing, ToSet
  <2>4. heap.beyond = NULL => ~wild
    BY <1>1 DEF HInv
  <2> QED BY <2>2, <2>3, <2>4 DEF ArrayOffersFreeBlocks
<1> QED BY <1>1, HeapInvariance, PTL

\* The break never passes the pages that sbrk has mapped.
THEOREM BreakStaysMapped == HeapSpec => []BreakIsMapped
<1>1. ASSUME HInv PROVE BreakIsMapped
  BY <1>1 DEF HInv, Good, Shape, Formed, BreakIsMapped
<1> QED BY <1>1, HeapInvariance, PTL

-----------------------------------------------------------------------------
(***************************************************************************)
(* The heap implements the Allocator.                                      *)
(***************************************************************************)

\* What the caller of block a holds.
PieceOf(h, a) == [from |-> a + HEADER, size |-> h.hdr[a].size]

\* Blocks in use are pieces within the range, apart from each other.
LEMMA PieceFacts ==
    ASSUME NEW h, Good(h), NEW a \in Used(h), NEW S, S \subseteq Used(h), a \notin S
    PROVE  /\ Alloc!Fits(PieceOf(h, a), {PieceOf(h, c) : c \in S})
           /\ \A c \in S : PieceOf(h, c) # PieceOf(h, a)
<1>1. /\ Shape(h) /\ HEADER \in Nat \ {0} /\ HEAPEND \in Nat
      /\ h.brk \in 0 .. HEAPEND
  BY HeapAssumption DEF Good, Shape, Formed
<1>2. \A c \in Used(h) :
          /\ c \in Blocks(h) /\ c \in Nat /\ h.hdr[c].size \in Nat \ {0}
          /\ EndIn(h, c) \in Nat /\ EndIn(h, c) <= h.brk
          /\ EndIn(h, c) = c + HEADER + h.hdr[c].size
  BY <1>1, NeighbourFacts DEF Used, Block, EndIn
<1> DEFINE p == PieceOf(h, a)
<1>3. p.from = a + HEADER /\ p.size = h.hdr[a].size
  BY DEF PieceOf
<1>4. p \in Alloc!Piece /\ p.from + p.size <= HEAPEND
  <2>1. p.from + p.size <= HEAPEND
    BY <1>1, <1>2, <1>3
  <2>2. a + HEADER \in 0 .. HEAPEND /\ h.hdr[a].size \in 1 .. HEAPEND
    BY <1>1, <1>2
  <2> QED BY <2>1, <2>2 DEF Alloc!Piece, PieceOf
<1>5. ASSUME NEW c \in S PROVE Alloc!Apart(p, PieceOf(h, c)) /\ PieceOf(h, c) # p
  <2> DEFINE q == PieceOf(h, c)
  <2>1. q.from = c + HEADER /\ q.size = h.hdr[c].size
    BY DEF PieceOf
  <2>2. /\ c \in Used(h) /\ a # c /\ a \in Nat /\ c \in Nat
        /\ a \in Blocks(h) /\ c \in Blocks(h)
    BY <1>2
  <2>3. a < c => EndIn(h, a) <= c
    BY <1>1, <2>2 DEF Shape, Spaced
  <2>4. c < a => EndIn(h, c) <= a
    BY <1>1, <2>2 DEF Shape, Spaced
  <2>5. p.from # q.from
    BY <1>1, <1>3, <2>1, <2>2
  <2>6. p.from + p.size <= q.from \/ q.from + q.size <= p.from
    <3>1. CASE a < c
      BY <3>1, <2>1, <2>2, <2>3, <1>1, <1>2, <1>3
    <3>2. CASE c < a
      BY <3>2, <2>1, <2>2, <2>4, <1>1, <1>2, <1>3
    <3> QED BY <3>1, <3>2, <2>2
  <2> HIDE DEF p, q
  <2>7. Alloc!Apart(p, q)
    BY <2>6 DEF Alloc!Apart
  <2>8. q # p
    BY <2>5
  <2> QED BY <2>7, <2>8 DEF q
<1> QED BY <1>4, <1>5 DEF Alloc!Fits

\* Every call is a step of the Allocator, or none.
LEMMA AllocatorStep ==
    HInv /\ [HeapNext]_heapVars => [Alloc!Next]_Pieces
<1> SUFFICES ASSUME HInv, [HeapNext]_heapVars PROVE [Alloc!Next]_Pieces
  OBVIOUS
<1>1. /\ Pieces = {PieceOf(heap, c) : c \in owned}
      /\ Pieces' = {PieceOf(heap', c) : c \in owned'}
  BY DEF Pieces, PieceOf
<1>2. ASSUME NEW g, NEW b, heap' = g, Good(g), owned' = Used(g),
             owned' = owned \cup ({b} \ {NULL}), b \notin owned,
             \A c \in owned : g.hdr[c].size = heap.hdr[c].size
      PROVE  [Alloc!Next]_Pieces
  <2>1. \A c \in owned : PieceOf(g, c) = PieceOf(heap, c)
    BY <1>2 DEF PieceOf
  <2>2. Pieces = {PieceOf(g, c) : c \in owned}
    BY <1>1, <2>1
  <2>3. Pieces' = {PieceOf(g, c) : c \in owned'}
    BY <1>1, <1>2
  <2>4. CASE b = NULL
    <3>1. owned' = owned
      BY <1>2, <2>4
    <3> QED BY <3>1, <2>2, <2>3
  <2>5. CASE b # NULL
    <3> DEFINE q == PieceOf(g, b)
    <3>1. owned' = owned \cup {b} /\ b \in Used(g) /\ owned \subseteq Used(g)
      BY <1>2, <2>5
    <3>2. /\ Alloc!Fits(q, Pieces) /\ \A c \in owned : PieceOf(g, c) # q
      BY <1>2, <2>2, <3>1, PieceFacts
    <3> HIDE DEF q
    <3>3. Pieces' = Pieces \cup {q}
      BY <2>2, <2>3, <3>1 DEF q
    <3>4. q \in Pieces' \ Pieces
      BY <2>2, <3>2, <3>3
    <3>5. Alloc!Alloc(q)
      BY <3>2, <3>3 DEF Alloc!Alloc
    <3> QED BY <3>4, <3>5 DEF Alloc!Next
  <2> QED BY <2>4, <2>5
<1>3. ASSUME NEW size \in Sizes, kmalloc(size) PROVE [Alloc!Next]_Pieces
  <2>1. PICK g, b :
          /\ heap' = g /\ Good(g) /\ owned' = Used(g)
          /\ owned' = owned \cup ({b} \ {NULL}) /\ b \notin owned
          /\ \A c \in owned : g.hdr[c].size = heap.hdr[c].size
    BY <1>3, KmallocCall
  <2> QED BY <2>1, <1>2
<1>4. ASSUME NEW a \in owned, kfree(a) PROVE [Alloc!Next]_Pieces
  <2> DEFINE p == PieceOf(heap, a)
  <2>1. PICK g :
          /\ heap' = g /\ owned' = owned \ {a}
          /\ \A c \in owned \ {a} : g.hdr[c].size = heap.hdr[c].size
    BY <1>4, KfreeCall
  <2>2. Pieces' = {PieceOf(heap, c) : c \in owned \ {a}}
    <3>1. \A c \in owned \ {a} : PieceOf(g, c) = PieceOf(heap, c)
      BY <2>1 DEF PieceOf
    <3> QED BY <1>1, <2>1, <3>1
  <2>3. \A c \in owned \ {a} : PieceOf(heap, c) # p
    <3> PICK h : h = heap
      OBVIOUS
    <3>1. Good(h) /\ owned = Used(h)
      BY DEF HInv
    <3>2. \A c \in owned \ {a} : PieceOf(h, c) # PieceOf(h, a)
      BY <3>1, PieceFacts
    <3> QED BY <3>2
  <2> HIDE DEF p
  <2>4. p \in Pieces /\ Pieces' = Pieces \ {p}
    BY <1>1, <2>2, <2>3 DEF p
  <2> QED BY <2>4 DEF Alloc!Next, Alloc!Free
<1>5. ASSUME NEW a \in owned, NEW size \in Sizes, krealloc(a, size)
      PROVE  [Alloc!Next]_Pieces
  <2>1. PICK g, b :
               /\ heap' = g /\ Good(g) /\ owned' = Used(g)
               /\ \/ /\ b = NULL /\ owned' = owned
                     /\ \A c \in owned : g.hdr[c].size = heap.hdr[c].size
                  \/ /\ b # NULL /\ b \notin owned
                     /\ owned' = (owned \ {a}) \cup {b}
                     /\ g.hdr[b].size > heap.hdr[a].size
                     /\ \E m : /\ Good(m) /\ Used(m) = owned \cup {b}
                               /\ \A c \in owned : m.hdr[c].size = heap.hdr[c].size
                               /\ \A c \in (owned \ {a}) \cup {b} :
                                      g.hdr[c].size = m.hdr[c].size
    BY <1>5, KreallocCall
  <2>2. CASE /\ b = NULL /\ owned' = owned
             /\ \A c \in owned : g.hdr[c].size = heap.hdr[c].size
    <3>1. \A c \in owned : PieceOf(g, c) = PieceOf(heap, c)
      BY <2>2 DEF PieceOf
    <3> QED BY <2>1, <2>2, <3>1, <1>1
  <2>3. CASE /\ b # NULL /\ b \notin owned
             /\ owned' = (owned \ {a}) \cup {b}
             /\ g.hdr[b].size > heap.hdr[a].size
             /\ \E m : /\ Good(m) /\ Used(m) = owned \cup {b}
                       /\ \A c \in owned : m.hdr[c].size = heap.hdr[c].size
                       /\ \A c \in (owned \ {a}) \cup {b} :
                              g.hdr[c].size = m.hdr[c].size
    <3>1. PICK m : /\ Good(m) /\ Used(m) = owned \cup {b}
                   /\ \A c \in owned : m.hdr[c].size = heap.hdr[c].size
                   /\ \A c \in (owned \ {a}) \cup {b} : g.hdr[c].size = m.hdr[c].size
      BY <2>3
    <3> DEFINE p == PieceOf(heap, a)
               q == PieceOf(m, b)
    <3>2. /\ \A c \in owned : PieceOf(heap, c) = PieceOf(m, c)
          /\ \A c \in (owned \ {a}) \cup {b} : PieceOf(g, c) = PieceOf(m, c)
      BY <3>1 DEF PieceOf
    <3>3. /\ Pieces = {PieceOf(m, c) : c \in owned}
          /\ Pieces' = {PieceOf(m, c) : c \in (owned \ {a}) \cup {b}}
      BY <1>1, <2>1, <2>3, <3>2
    <3>4. /\ Alloc!Fits(q, {PieceOf(m, c) : c \in owned})
          /\ \A c \in owned : PieceOf(m, c) # q
      BY <2>3, <3>1, PieceFacts
    <3>5. \A c \in owned \ {a} : PieceOf(m, c) # PieceOf(m, a)
      BY <3>1, PieceFacts
    <3>6. p = PieceOf(m, a)
      BY <3>2
    <3>7. q.size > p.size
      BY <2>3, <3>1 DEF PieceOf
    <3> HIDE DEF p, q
    <3>8. Pieces' = (Pieces \ {p}) \cup {q}
      BY <3>3, <3>5, <3>6 DEF q
    <3>9. p \in Pieces /\ q \in Pieces' \ Pieces /\ Alloc!Fits(q, Pieces)
      BY <3>3, <3>4, <3>6, <3>8
    <3>10. Alloc!Move(p, q)
      BY <3>7, <3>8, <3>9 DEF Alloc!Move
    <3> QED BY <3>9, <3>10 DEF Alloc!Next
  <2> QED BY <2>1, <2>2, <2>3
<1>6. ASSUME NEW size \in Sizes, kmallocStray(size) PROVE UNCHANGED Pieces
  BY <1>6 DEF kmallocStray, Pieces
<1>7. CASE UNCHANGED heapVars
  BY <1>7 DEF heapVars, Pieces
<1> QED BY <1>3, <1>4, <1>5, <1>6, <1>7 DEF HeapNext

\* Callers of kmalloc, kfree and krealloc hold disjoint pieces of one range
\* of addresses, and nobody's piece changes but by its own call.
THEOREM AllocatorIsImplemented == HeapSpec => ImplementsAllocator
<1>1. HeapInit => Alloc!Init
  BY DEF HeapInit, Alloc!Init, Pieces
<1> QED BY <1>1, AllocatorStep, HeapInvariance, PTL
        DEF HeapSpec, ImplementsAllocator, Alloc!Spec
=============================================================================

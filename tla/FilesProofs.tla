----------------------------- MODULE FilesProofs -----------------------------
(***************************************************************************)
(* Proofs about the Files, for any number of processes, and any size of    *)
(* the vnode cache and of the table of descriptors: who holds what, for    *)
(* any disk, and what is read, for any disk the driver can read.           *)
(***************************************************************************)
EXTENDS Files, ListLemmas, FiniteSetTheorems

-----------------------------------------------------------------------------
(***************************************************************************)
(* The inductive invariant.  Its parts on the vnodes are operators of the  *)
(* tables they speak of, for a call holds new tables before it returns.    *)
(***************************************************************************)

Slot == 1 .. MAXVNODE

\* The descriptors of a table that hold a vnode.
Holding(files, v) == {fd \in Descriptor : files[fd].node = v}

TablesOK ==
    /\ DOMAIN vnode = Vnode
    /\ cache \in [Slot -> Vnode \cup {nil}]
    /\ DOMAIN open = Descriptor
    /\ \A fd \in Descriptor : DOMAIN open[fd] = {"node", "position"}
    /\ DOMAIN act = Client
    /\ \A p \in Client : "at" \in DOMAIN act[p]

\* A vnode in use is in one slot, and no slot holds one that is not.
CachedOnce(nodes, slots) ==
    /\ \A v \in Vnode : nodes[v] # free =>
           /\ \E i \in Slot : slots[i] = v
           /\ \A i, j \in Slot : slots[i] = v /\ slots[j] = v => i = j
    /\ \A i \in Slot : slots[i] # nil => nodes[slots[i]] # free

\* A vnode in use counts the descriptors that hold it, and none holds another.
CountsHolders(nodes, files) ==
    /\ \A v \in Vnode : nodes[v] # free =>
           /\ "ref_count" \in DOMAIN nodes[v]
           /\ nodes[v].ref_count = Cardinality(Holding(files, v))
    /\ \A fd \in Descriptor : files[fd].node # nil =>
           files[fd].node \in Vnode /\ nodes[files[fd].node] # free

HasFile(p) == act[p].at \in {"open", "read"}

\* A process that has a file has a descriptor in use to itself, and every
\* descriptor in use is some process's.
OneOwner ==
    /\ \A p \in Client : HasFile(p) =>
           /\ "fd" \in DOMAIN act[p]
           /\ act[p].fd \in Descriptor
           /\ open[act[p].fd].node # nil
    /\ \A p, q \in Client : HasFile(p) /\ HasFile(q) /\ act[p].fd = act[q].fd => p = q
    /\ \A fd \in Descriptor : open[fd].node # nil =>
           \E p \in Client : HasFile(p) /\ act[p].fd = fd

FInv ==
    /\ TablesOK
    /\ CachedOnce(vnode, cache)
    /\ CountsHolders(vnode, open)
    /\ OneOwner

-----------------------------------------------------------------------------
(***************************************************************************)
(* What the operations on the tables do.                                   *)
(***************************************************************************)

\* The tables are finite, and nil and root are no vnodes.
LEMMA SizeFacts ==
    /\ MAXVNODE \in Nat \ {0} /\ MAXOPEN \in Nat \ {0}
    /\ nil \notin Vnode /\ root \notin Vnode /\ root # nil
    /\ IsFiniteSet(Descriptor) /\ Descriptor \subseteq Nat
    /\ Vnode \subseteq Nat /\ Slot \subseteq Nat
<1>1. MAXVNODE \in Nat \ {0} /\ MAXOPEN \in Nat \ {0}
  BY FilesAssumption
<1>2. IsFiniteSet(Descriptor)
  BY <1>1, FS_Interval DEF Descriptor
<1> QED BY <1>1, <1>2 DEF nil, root, Vnode, Descriptor, Slot

\* As many descriptors as a vnode has, so many it can count.
LEMMA HoldingFinite ==
    ASSUME NEW files, NEW v
    PROVE  IsFiniteSet(Holding(files, v)) /\ Cardinality(Holding(files, v)) \in Nat
<1>1. Holding(files, v) \in SUBSET Descriptor
  BY DEF Holding
<1> QED BY <1>1, SizeFacts, FS_Subset, FS_CardinalityType

\* There is always a free vnode: there is one more than the cache has slots.
LEMMA FreeVnode ==
    ASSUME NEW nodes, NEW slots, CachedOnce(nodes, slots)
    PROVE  \E v \in Vnode : nodes[v] = free
<1> SUFFICES ASSUME \A v \in Vnode : nodes[v] # free
             PROVE  FALSE
  OBVIOUS
<1> DEFINE f == [v \in Vnode |-> CHOOSE i \in Slot : slots[i] = v]
<1>1. \A v \in Vnode : f[v] \in Slot /\ slots[f[v]] = v
  BY DEF CachedOnce
<1>2. f \in [Vnode -> Slot]
  BY <1>1
<1>3. /\ IsFiniteSet(Vnode) /\ Cardinality(Vnode) = MAXVNODE + 1
      /\ IsFiniteSet(Slot) /\ Cardinality(Slot) = MAXVNODE
  <2>1. MAXVNODE \in Nat \ {0} /\ 1 \in Int /\ MAXVNODE + 1 \in Int /\ MAXVNODE \in Int
    BY SizeFacts
  <2>2. /\ IsFiniteSet(1 .. MAXVNODE + 1)
        /\ Cardinality(1 .. MAXVNODE + 1) =
               IF 1 > MAXVNODE + 1 THEN 0 ELSE (MAXVNODE + 1) - 1 + 1
        /\ IsFiniteSet(1 .. MAXVNODE)
        /\ Cardinality(1 .. MAXVNODE) = IF 1 > MAXVNODE THEN 0 ELSE MAXVNODE - 1 + 1
    BY <2>1, FS_Interval
  <2> QED BY <2>1, <2>2 DEF Vnode, Slot
<1> HIDE DEF f
<1>4. Cardinality(Slot) < Cardinality(Vnode)
  BY <1>3, SizeFacts
<1>5. \E v, w \in Vnode : v # w /\ f[v] = f[w]
  BY <1>2, <1>3, <1>4, FS_PigeonHole
<1> QED BY <1>1, <1>5

\* The vnode of an entry, as create_vnode makes it.
Fresh(entry) == [name |-> entry.name, dir |-> entry.dir, first |-> entry.first,
                 size |-> entry.size, ref_count |-> 0]

\* create_vnode hands out a vnode in use, of the name it was given, and evicts
\* none that a descriptor holds.
LEMMA CreatedFacts ==
    ASSUME FInv, NEW entry
    PROVE  LET c == Created(entry)
           IN  /\ DOMAIN c.vnode = Vnode
               /\ c.cache \in [Slot -> Vnode \cup {nil}]
               /\ CachedOnce(c.vnode, c.cache)
               /\ CountsHolders(c.vnode, open)
               /\ c.node # nil => /\ c.node \in Vnode /\ c.vnode[c.node] # free
                                  /\ c.vnode[c.node].name = entry.name
               /\ \A v \in Vnode : c.vnode[v] \in {vnode[v], free, Fresh(entry)}
               /\ \A fd \in Descriptor : open[fd].node # nil =>
                      c.vnode[open[fd].node] = vnode[open[fd].node]
<1> DEFINE c == Created(entry)
           unused == {v \in Vnode : vnode[v] = free}
           new == Min(unused)
           slots == {i \in DOMAIN cache : Reusable(i)}
           slot == Min(slots)
           item == Fresh(entry)
           filled == [vnode EXCEPT ![new] = item]
           cached == CachedUnder(entry.name)
<1>1. /\ DOMAIN vnode = Vnode /\ cache \in [Slot -> Vnode \cup {nil}]
      /\ CachedOnce(vnode, cache) /\ CountsHolders(vnode, open)
      /\ DOMAIN cache = Slot
  BY DEF FInv, TablesOK
<1>2. new \in Vnode /\ vnode[new] = free
  <2>1. unused # {} /\ unused \subseteq Nat
    BY <1>1, FreeVnode, SizeFacts
  <2> QED BY <2>1, MinFacts
<1>3. slots # {} => slot \in Slot /\ Reusable(slot)
  <2>1. slots \subseteq Nat
    BY <1>1, SizeFacts
  <2> QED BY <2>1, <1>1, MinFacts
<1>4. cached # {} => /\ Min(cached) \in Slot /\ cache[Min(cached)] # nil
                     /\ vnode[cache[Min(cached)]].name = entry.name
  <2>1. /\ cached \subseteq Slot
        /\ \A i \in cached : cache[i] # nil /\ vnode[cache[i]].name = entry.name
    BY <1>1 DEF CachedUnder
  <2>2. cached \subseteq Nat
    BY <2>1, SizeFacts
  <2> HIDE DEF cached
  <2> QED BY <2>1, <2>2, MinFacts
<1>5. c = IF cached # {}
          THEN [node |-> cache[Min(cached)], vnode |-> vnode, cache |-> cache]
          ELSE IF slots = {} THEN [node |-> nil, vnode |-> vnode, cache |-> cache]
          ELSE [node |-> new,
                vnode |-> IF cache[slot] = nil THEN filled
                          ELSE [filled EXCEPT ![cache[slot]] = free],
                cache |-> [cache EXCEPT ![slot] = new]]
  BY DEF Created, Fresh
<1>6. /\ item # free /\ item.name = entry.name
      /\ "ref_count" \in DOMAIN item /\ item.ref_count = 0
  <2>1. item.ref_count = 0 /\ free.ref_count = -1
    BY DEF free, Fresh
  <2> QED BY <2>1 DEF Fresh
<1> HIDE DEF c, new, slots, slot, item, cached
<1>7. CASE cached # {}
  <2>1. c.node = cache[Min(cached)] /\ c.vnode = vnode /\ c.cache = cache
    BY <1>5, <1>7
  <2>2. c.node \in Vnode /\ vnode[c.node] # free /\ vnode[c.node].name = entry.name
    BY <1>1, <1>4, <1>7, <2>1 DEF CachedOnce
  <2> QED BY <1>1, <2>1, <2>2 DEF c
<1>8. CASE cached = {} /\ slots = {}
  BY <1>1, <1>5, <1>8 DEF c
<1>9. CASE cached = {} /\ slots # {}
  <2> DEFINE old == cache[slot]
             nodes == IF old = nil THEN filled ELSE [filled EXCEPT ![old] = free]
             places == [cache EXCEPT ![slot] = new]
  <2>1. c.node = new /\ c.vnode = nodes /\ c.cache = places
    BY <1>5, <1>9
  <2>2. /\ slot \in Slot
        /\ old # nil => old \in Vnode /\ vnode[old] # free /\ old # new
    BY <1>1, <1>2, <1>3, <1>9 DEF CachedOnce
  <2>3. /\ DOMAIN nodes = Vnode
        /\ \A v \in Vnode : nodes[v] = IF v = new THEN item
                                       ELSE IF v = old THEN free ELSE vnode[v]
    <3>1. DOMAIN filled = Vnode /\ \A v \in Vnode : filled[v] = IF v = new THEN item ELSE vnode[v]
      BY <1>1, <1>2
    <3> HIDE DEF filled, old
    <3>2. CASE old = nil
      BY <3>1, <3>2, SizeFacts
    <3>3. CASE old # nil
      BY <3>1, <3>3, <2>2
    <3> QED BY <3>2, <3>3
  <2>4. /\ places \in [Slot -> Vnode \cup {nil}]
        /\ \A i \in Slot : places[i] = IF i = slot THEN new ELSE cache[i]
    BY <1>1, <1>2, <2>2
  <2> HIDE DEF nodes, places
  <2>5. \A i \in Slot : cache[i] # new
    BY <1>1, <1>2, SizeFacts DEF CachedOnce
  <2>6. \A i \in Slot : i # slot /\ cache[i] # nil => cache[i] # old /\ cache[i] \in Vnode
    BY <1>1, <2>2 DEF CachedOnce
  <2>7. CachedOnce(nodes, places)
    <3>1. ASSUME NEW v \in Vnode, nodes[v] # free
          PROVE  /\ \E i \in Slot : places[i] = v
                 /\ \A i, j \in Slot : places[i] = v /\ places[j] = v => i = j
      <4>1. CASE v = new
        BY <4>1, <2>2, <2>4, <2>5
      <4>2. CASE v # new
        <5>1. v # old /\ vnode[v] # free
          BY <2>3, <3>1, <4>2
        <5>2. PICK i \in Slot : cache[i] = v
          BY <1>1, <5>1 DEF CachedOnce
        <5>3. i # slot /\ places[i] = v
          BY <2>4, <5>1, <5>2
        <5>4. ASSUME NEW k \in Slot, NEW j \in Slot, places[k] = v, places[j] = v
              PROVE  k = j
          <6>1. cache[k] = v /\ cache[j] = v
            BY <2>4, <4>2, <5>4
          <6> QED BY <1>1, <5>1, <6>1 DEF CachedOnce
        <5> QED BY <5>3, <5>4
      <4> QED BY <4>1, <4>2
    <3>2. ASSUME NEW i \in Slot, places[i] # nil
          PROVE  nodes[places[i]] # free
      <4>1. CASE i = slot
        BY <4>1, <1>2, <1>6, <2>3, <2>4
      <4>2. CASE i # slot
        <5>1. /\ places[i] = cache[i] /\ cache[i] # old /\ cache[i] # new
              /\ cache[i] \in Vnode /\ vnode[cache[i]] # free
          BY <4>2, <3>2, <1>1, <2>4, <2>5, <2>6 DEF CachedOnce
        <5> QED BY <2>3, <5>1
      <4> QED BY <4>1, <4>2
    <3> QED BY <3>1, <3>2 DEF CachedOnce
  <2>8. \A fd \in Descriptor : open[fd].node # nil =>
            open[fd].node \in Vnode /\ open[fd].node # new /\ open[fd].node # old
    <3>1. ASSUME NEW fd \in Descriptor, open[fd].node # nil, open[fd].node = old
          PROVE  FALSE
      <4>1. /\ old # nil /\ vnode[old].ref_count = Cardinality(Holding(open, old))
            /\ vnode[old].ref_count <= 0
        BY <1>1, <1>3, <1>9, <2>2, <3>1 DEF CountsHolders, Reusable
      <4>2. Cardinality(Holding(open, old)) = 0
        BY <4>1, HoldingFinite
      <4>3. Holding(open, old) = {}
        BY <4>2, HoldingFinite, FS_EmptySet
      <4> QED BY <3>1, <4>3 DEF Holding
    <3> QED BY <3>1, <1>1, <1>2 DEF CountsHolders
  <2>9. CountsHolders(nodes, open)
    <3>1. ASSUME NEW v \in Vnode, nodes[v] # free
          PROVE  /\ "ref_count" \in DOMAIN nodes[v]
                 /\ nodes[v].ref_count = Cardinality(Holding(open, v))
      <4>1. CASE v = new
        <5>1. Holding(open, new) = {}
          BY <1>2, <2>8, SizeFacts DEF Holding
        <5>2. nodes[v] = item
          BY <4>1, <2>3
        <5> QED BY <4>1, <5>1, <5>2, <1>6, FS_EmptySet
      <4>2. CASE v # new
        <5>1. nodes[v] = vnode[v] /\ vnode[v] # free
          BY <4>2, <3>1, <2>3
        <5> QED BY <1>1, <5>1 DEF CountsHolders
      <4> QED BY <4>1, <4>2
    <3>2. ASSUME NEW fd \in Descriptor, open[fd].node # nil
          PROVE  open[fd].node \in Vnode /\ nodes[open[fd].node] # free
      <4>1. /\ open[fd].node \in Vnode /\ open[fd].node # new /\ open[fd].node # old
            /\ vnode[open[fd].node] # free
        BY <1>1, <2>8, <3>2 DEF CountsHolders
      <4> QED BY <2>3, <4>1
    <3> QED BY <3>1, <3>2 DEF CountsHolders
  <2>10. new \in Vnode /\ nodes[new] # free /\ nodes[new].name = entry.name
    BY <1>2, <1>6, <2>3
  <2>11. \A fd \in Descriptor : open[fd].node # nil =>
             nodes[open[fd].node] = vnode[open[fd].node]
    BY <2>3, <2>8
  <2>12. \A v \in Vnode : nodes[v] \in {vnode[v], free, Fresh(entry)}
    BY <2>3 DEF item
  <2> HIDE DEF filled
  <2>13. /\ DOMAIN c.vnode = Vnode
         /\ c.cache \in [Slot -> Vnode \cup {nil}]
         /\ CachedOnce(c.vnode, c.cache)
         /\ CountsHolders(c.vnode, open)
         /\ c.node # nil => /\ c.node \in Vnode /\ c.vnode[c.node] # free
                            /\ c.vnode[c.node].name = entry.name
         /\ \A v \in Vnode : c.vnode[v] \in {vnode[v], free, Fresh(entry)}
         /\ \A fd \in Descriptor : open[fd].node # nil =>
                c.vnode[open[fd].node] = vnode[open[fd].node]
    BY <2>1, <2>3, <2>4, <2>7, <2>9, <2>10, <2>11, <2>12
  <2> QED BY <2>13 DEF c
<1> QED BY <1>7, <1>8, <1>9

\* Only who has which file, and which vnode a descriptor holds, matters.
LEMMA OwnersKept ==
    ASSUME OneOwner,
           \A fd \in Descriptor : open'[fd].node = open[fd].node,
           \A p \in Client : HasFile(p)' <=> HasFile(p),
           \A p \in Client : HasFile(p) => "fd" \in DOMAIN act'[p] /\ act'[p].fd = act[p].fd
    PROVE  OneOwner' /\ (CountsHolders(vnode', open) => CountsHolders(vnode', open'))
<1>1. OneOwner'
  BY DEF OneOwner
<1>2. ASSUME NEW v PROVE Holding(open', v) = Holding(open, v)
  BY DEF Holding
<1>3. ASSUME CountsHolders(vnode', open) PROVE CountsHolders(vnode', open')
  <2>1. ASSUME NEW v \in Vnode, vnode'[v] # free
        PROVE  /\ "ref_count" \in DOMAIN vnode'[v]
               /\ vnode'[v].ref_count = Cardinality(Holding(open', v))
    BY <1>2, <1>3, <2>1 DEF CountsHolders
  <2>2. ASSUME NEW fd \in Descriptor, open'[fd].node # nil
        PROVE  open'[fd].node \in Vnode /\ vnode'[open'[fd].node] # free
    BY <1>3, <2>2 DEF CountsHolders
  <2> QED BY <2>1, <2>2 DEF CountsHolders
<1> QED BY <1>1, <1>3

\* A call that goes on without a file, or returns without one.
LEMMA StaysWithout ==
    ASSUME TablesOK, OneOwner, NEW p \in Client, ~HasFile(p), NEW a,
           "at" \in DOMAIN a, a.at \notin {"open", "read"},
           act' = [act EXCEPT ![p] = a], open' = open,
           DOMAIN vnode' = Vnode, cache' \in [Slot -> Vnode \cup {nil}]
    PROVE  TablesOK' /\ OneOwner'
<1>1. /\ DOMAIN act' = Client /\ act'[p] = a
      /\ \A q \in Client : q # p => act'[q] = act[q]
  BY DEF TablesOK
<1>2. TablesOK'
  BY <1>1 DEF TablesOK
<1>3. \A q \in Client : HasFile(q)' <=> HasFile(q)
  BY <1>1 DEF HasFile
<1>4. \A q \in Client : HasFile(q) => act'[q] = act[q] /\ "fd" \in DOMAIN act[q]
  BY <1>1 DEF OneOwner
<1> QED BY <1>2, <1>3, <1>4, OwnersKept

\* A call that found no file, or no descriptor, gives none away.
LEMMA RefusedStep ==
    ASSUME FInv, NEW p \in Client, ~HasFile(p), Refused(p),
           DOMAIN vnode' = Vnode, cache' \in [Slot -> Vnode \cup {nil}],
           CachedOnce(vnode', cache'), CountsHolders(vnode', open)
    PROVE  FInv'
<1>1. "at" \in DOMAIN idle /\ idle.at \notin {"open", "read"}
  BY DEF idle
<1>2. act' = [act EXCEPT ![p] = idle] /\ open' = open
  BY DEF Refused
<1>3. TablesOK' /\ OneOwner'
  BY <1>1, <1>2, StaysWithout DEF FInv
<1> QED BY <1>2, <1>3 DEF FInv

\* VFS_open takes the first descriptor that is not in use, and counts it.
LEMMA OpenedStep ==
    ASSUME FInv, NEW p \in Client, ~HasFile(p), NEW found, NEW path,
           DOMAIN found.vnode = Vnode, cache' = found.cache,
           found.cache \in [Slot -> Vnode \cup {nil}],
           CachedOnce(found.vnode, found.cache), CountsHolders(found.vnode, open),
           found.node \in Vnode, found.vnode[found.node] # free,
           Opened(p, found, path)
    PROVE  FInv'
<1> DEFINE unused == {fd \in Descriptor : open[fd].node = nil}
           new == Min(unused)
           v == found.node
           nodes == found.vnode
           a == [at |-> "open", fd |-> new, path |-> path]
<1>1. CASE unused = {}
  <2>1. vnode' = found.vnode /\ Refused(p)
    BY <1>1 DEF Opened
  <2> QED BY <2>1, RefusedStep
<1>2. CASE unused # {}
  <2>1. new \in Descriptor /\ open[new].node = nil
    <3>1. unused \subseteq Nat
      BY SizeFacts
    <3> QED BY <1>2, <3>1, MinFacts
  <2>2. /\ vnode' = Counted(nodes, v)
        /\ open' = [open EXCEPT ![new] = [node |-> v, position |-> 0]]
        /\ act' = [act EXCEPT ![p] = a]
    BY <1>2 DEF Opened
  <2> HIDE DEF new
  <2>3. /\ DOMAIN open' = Descriptor /\ DOMAIN act' = Client /\ DOMAIN vnode' = Vnode
        /\ \A fd \in Descriptor :
               open'[fd] = IF fd = new THEN [node |-> v, position |-> 0] ELSE open[fd]
        /\ \A q \in Client : act'[q] = IF q = p THEN a ELSE act[q]
        /\ \A w \in Vnode : w # v => vnode'[w] = nodes[w]
        /\ vnode'[v] = [nodes[v] EXCEPT !.ref_count = @ + 1]
    BY <2>2 DEF FInv, TablesOK, Counted
  <2>4. TablesOK'
    BY <2>3 DEF FInv, TablesOK
  <2>5. v # nil /\ \A fd \in Descriptor : open'[fd].node = IF fd = new THEN v ELSE open[fd].node
    BY <2>3, SizeFacts
  <2>6. OneOwner'
    <3>1. ASSUME NEW q \in Client, HasFile(q)'
          PROVE  \/ q = p /\ act'[q] = a
                 \/ q # p /\ HasFile(q) /\ act'[q] = act[q] /\ act[q].fd # new
      BY <2>1, <2>3, <3>1 DEF HasFile, FInv, OneOwner
    <3>2. ASSUME NEW q \in Client, HasFile(q)
          PROVE  q # p /\ HasFile(q)' /\ act'[q] = act[q]
      BY <2>3, <3>2 DEF HasFile
    <3>3. HasFile(p)' /\ act'[p].fd = new
      BY <2>3 DEF HasFile
    <3>4. ASSUME NEW q \in Client, HasFile(q)'
          PROVE  /\ "fd" \in DOMAIN act'[q] /\ act'[q].fd \in Descriptor
                 /\ open'[act'[q].fd].node # nil
      BY <2>1, <2>5, <3>1, <3>4 DEF FInv, OneOwner
    <3>5. ASSUME NEW q \in Client, NEW r \in Client, HasFile(q)', HasFile(r)',
                 act'[q].fd = act'[r].fd
          PROVE  q = r
      BY <3>1, <3>5 DEF FInv, OneOwner
    <3>6. ASSUME NEW fd \in Descriptor, open'[fd].node # nil
          PROVE  \E q \in Client : HasFile(q)' /\ act'[q].fd = fd
      <4>1. CASE fd = new
        BY <3>3, <4>1
      <4>2. CASE fd # new
        BY <2>5, <3>2, <3>6, <4>2 DEF FInv, OneOwner
      <4> QED BY <4>1, <4>2
    <3> QED BY <3>4, <3>5, <3>6 DEF OneOwner
  <2>7. /\ "ref_count" \in DOMAIN vnode'[v]
        /\ vnode'[v].ref_count = Cardinality(Holding(open', v))
    <3>1. Holding(open', v) = Holding(open, v) \cup {new} /\ new \notin Holding(open, v)
      BY <2>1, <2>5 DEF Holding
    <3>2. Cardinality(Holding(open', v)) = Cardinality(Holding(open, v)) + 1
      BY <3>1, HoldingFinite, FS_AddElement
    <3>3. "ref_count" \in DOMAIN nodes[v] /\ nodes[v].ref_count = Cardinality(Holding(open, v))
      BY DEF CountsHolders
    <3> QED BY <2>3, <3>2, <3>3
  <2>8. vnode'[v] # free
    <3>1. Cardinality(Holding(open', v)) \in Nat
      BY HoldingFinite
    <3>2. vnode'[v].ref_count \in Nat
      BY <2>7, <3>1
    <3>3. free.ref_count = -1
      BY DEF free
    <3> QED BY <3>2, <3>3
  <2>9. \A w \in Vnode : vnode'[w] # free <=> nodes[w] # free
    BY <2>3, <2>8
  <2>10. CountsHolders(vnode', open')
    <3>1. ASSUME NEW w \in Vnode, vnode'[w] # free
          PROVE  /\ "ref_count" \in DOMAIN vnode'[w]
                 /\ vnode'[w].ref_count = Cardinality(Holding(open', w))
      <4>1. CASE w = v
        BY <4>1, <2>7
      <4>2. CASE w # v
        <5>1. Holding(open', w) = Holding(open, w)
          <6>1. w # nil
            BY SizeFacts
          <6> QED BY <6>1, <4>2, <2>1, <2>5 DEF Holding
        <5>2. vnode'[w] = nodes[w]
          BY <4>2, <2>3
        <5> QED BY <3>1, <5>1, <5>2 DEF CountsHolders
      <4> QED BY <4>1, <4>2
    <3>2. ASSUME NEW fd \in Descriptor, open'[fd].node # nil
          PROVE  open'[fd].node \in Vnode /\ vnode'[open'[fd].node] # free
      BY <2>5, <2>8, <2>9, <3>2 DEF CountsHolders
    <3> QED BY <3>1, <3>2 DEF CountsHolders
  <2>11. CachedOnce(vnode', cache')
    BY <2>9 DEF CachedOnce
  <2> QED BY <2>4, <2>6, <2>10, <2>11 DEF FInv
<1> QED BY <1>1, <1>2

\* One turn of the loop of lookup_path_name, with what it reached.
LEMMA ReachedStep ==
    ASSUME FInv, NEW p \in Client, ~HasFile(p), NEW found, NEW names, NEW path,
           DOMAIN found.vnode = Vnode,
           found.cache \in [Slot -> Vnode \cup {nil}],
           CachedOnce(found.vnode, found.cache), CountsHolders(found.vnode, open),
           found.node \notin {nil, root} =>
               found.node \in Vnode /\ found.vnode[found.node] # free,
           Reached(p, found, names, path)
    PROVE  FInv'
<1> DEFINE v == found.node
           isDir == v = root \/ (v # nil /\ found.vnode[v].dir)
           place == IF v = root THEN RootLba ELSE found.vnode[v].first
           a == [at |-> "lookup", node |-> v, place |-> place, names |-> names,
                 path |-> path]
<1>1. cache' = found.cache
  BY DEF Reached
<1>2. CASE /\ act' = [act EXCEPT ![p] = a] /\ vnode' = found.vnode /\ open' = open
  <2>1. "at" \in DOMAIN a /\ a.at \notin {"open", "read"}
    OBVIOUS
  <2> HIDE DEF a
  <2>2. TablesOK' /\ OneOwner'
    BY <1>1, <1>2, <2>1, StaysWithout DEF FInv
  <2> QED BY <1>1, <1>2, <2>2 DEF FInv
<1>3. CASE v # nil /\ ~isDir /\ Opened(p, found, path)
  <2>1. found.node \in Vnode /\ found.vnode[found.node] # free
    BY <1>3
  <2> QED BY <1>1, <1>3, <2>1, OpenedStep
<1>4. CASE vnode' = found.vnode /\ Refused(p)
  BY <1>1, <1>4, RefusedStep
<1>5. \/ act' = [act EXCEPT ![p] = a] /\ vnode' = found.vnode /\ open' = open
      \/ v # nil /\ ~isDir /\ Opened(p, found, path)
      \/ vnode' = found.vnode /\ Refused(p)
  BY Zenon DEF Reached
<1> QED BY <1>2, <1>3, <1>4, <1>5

\* A step that leaves the tables alone.
LEMMA SameTables ==
    ASSUME FInv, UNCHANGED <<vnode, cache, open, act>>
    PROVE  FInv'
BY DEF FInv, TablesOK, CachedOnce, CountsHolders, Holding, OneOwner, HasFile

\* VFS_open, up to the first sector of a directory.
LEMMA OpenStep ==
    ASSUME FInv, NEW p \in Client, VFS_open(p)
    PROVE  FInv'
<1>1. ~HasFile(p)
  BY DEF VFS_open, idle, HasFile
<1>2. ASSUME NEW path \in Paths, Reached(p, Unchanged, path, path) PROVE FInv'
  <2>1. /\ Unchanged.node = root /\ Unchanged.vnode = vnode /\ Unchanged.cache = cache
    BY DEF Unchanged
  <2> QED BY <1>1, <1>2, <2>1, ReachedStep DEF FInv, TablesOK
<1>3. CASE UNCHANGED <<vnode, cache, open, act>>
  BY <1>3, SameTables
<1> QED BY <1>2, <1>3 DEF VFS_open

\* fat12_lookup, from one sector of a directory to the next, or to a vnode.
LEMMA LookupStep ==
    ASSUME FInv, NEW p \in Client, LookupSector(p)
    PROVE  FInv'
<1>1. ~HasFile(p) /\ act[p].at = "lookup"
  BY DEF LookupSector, HasFile
<1>2. ASSUME NEW entry, NEW names, NEW path, Reached(p, Created(entry), names, path)
      PROVE  FInv'
  <2> DEFINE c == Created(entry)
  <2>1. /\ DOMAIN c.vnode = Vnode
        /\ c.cache \in [Slot -> Vnode \cup {nil}]
        /\ CachedOnce(c.vnode, c.cache)
        /\ CountsHolders(c.vnode, open)
        /\ c.node # nil => c.node \in Vnode /\ c.vnode[c.node] # free
    BY CreatedFacts
  <2> HIDE DEF c
  <2> QED BY <1>1, <1>2, <2>1, ReachedStep DEF c
<1>3. CASE UNCHANGED <<vnode, cache, open, act>>
  BY <1>3, SameTables
<1>4. ASSUME NEW next, act' = [act EXCEPT ![p].place = next],
             UNCHANGED <<vnode, cache, open>>
      PROVE  FInv'
  <2> DEFINE a == [act[p] EXCEPT !.place = next]
  <2>1. "at" \in DOMAIN act[p]
    BY DEF FInv, TablesOK
  <2>2. "at" \in DOMAIN a /\ a.at = "lookup"
    BY <1>1, <2>1
  <2>3. act' = [act EXCEPT ![p] = a]
    BY <1>4
  <2> HIDE DEF a
  <2>4. DOMAIN vnode' = Vnode /\ cache' \in [Slot -> Vnode \cup {nil}]
    BY <1>4 DEF FInv, TablesOK
  <2>5. TablesOK' /\ OneOwner'
    BY <1>1, <1>4, <2>2, <2>3, <2>4, StaysWithout DEF FInv
  <2> QED BY <1>4, <2>5 DEF FInv
<1>5. CASE Refused(p) /\ UNCHANGED <<vnode, cache>>
  BY <1>1, <1>5, RefusedStep DEF FInv, TablesOK
<1> QED BY <1>2, <1>3, <1>4, <1>5, Zenon DEF LookupSector

\* A call that goes on with its file, or returns with it.
LEMMA StaysWithFile ==
    ASSUME FInv, NEW p \in Client, HasFile(p), NEW a,
           "at" \in DOMAIN a, a.at \in {"open", "read"},
           "fd" \in DOMAIN a, a.fd = act[p].fd,
           act' = [act EXCEPT ![p] = a], vnode' = vnode, cache' = cache,
           DOMAIN open' = Descriptor,
           \A fd \in Descriptor : /\ DOMAIN open'[fd] = {"node", "position"}
                                  /\ open'[fd].node = open[fd].node
    PROVE  FInv'
<1>1. /\ DOMAIN act' = Client
      /\ \A q \in Client : act'[q] = IF q = p THEN a ELSE act[q]
  BY DEF FInv, TablesOK
<1>2. TablesOK'
  BY <1>1 DEF FInv, TablesOK
<1>3. \A q \in Client : HasFile(q)' <=> HasFile(q)
  BY <1>1 DEF HasFile
<1>4. \A q \in Client : HasFile(q) => "fd" \in DOMAIN act'[q] /\ act'[q].fd = act[q].fd
  BY <1>1 DEF FInv, OneOwner
<1> QED BY <1>2, <1>3, <1>4, OwnersKept DEF FInv

\* VFS_read, up to its first cluster.
LEMMA ReadStep ==
    ASSUME FInv, NEW p \in Client, VFS_read(p)
    PROVE  FInv'
<1> DEFINE fd == act[p].fd
           v == vnode[open[fd].node]
           offset == open[fd].position
           cluster == Skip(v.first, offset \div CLUSTER)
           a(size) == [at |-> "read", fd |-> fd, path |-> act[p].path,
                       cluster |-> cluster, offset |-> offset % CLUSTER,
                       size |-> IF offset + size > v.size THEN v.size - offset
                                ELSE size,
                       bytes |-> <<>>]
<1>1. /\ HasFile(p) /\ UNCHANGED <<vnode, cache, open>>
      /\ \E size \in Sizes : act' = [act EXCEPT ![p] = a(size)]
  BY DEF VFS_read, HasFile
<1>2. \A size : /\ "at" \in DOMAIN a(size) /\ a(size).at \in {"open", "read"}
                /\ "fd" \in DOMAIN a(size) /\ a(size).fd = act[p].fd
  OBVIOUS
<1> HIDE DEF a
<1> QED BY <1>1, <1>2, StaysWithFile DEF FInv, TablesOK

\* fat12_read, from one cluster to the next, or to its return.
LEMMA ReadClusterStep ==
    ASSUME FInv, NEW p \in Client, ReadCluster(p)
    PROVE  FInv'
<1> DEFINE a == act[p]
           n == Min({CLUSTER - a.offset, a.size})
           bytes == a.bytes \o Bytes(cluster_to_Lba(a.cluster), a.offset, n)
           next == get_next_cluster(a.cluster)
           going == [a EXCEPT !.cluster = next, !.offset = NextOffset(a),
                              !.size = @ - n, !.bytes = bytes]
           done == [at |-> "open", fd |-> a.fd, path |-> a.path]
<1>1. /\ a.at = "read" /\ HasFile(p) /\ "at" \in DOMAIN a
      /\ "fd" \in DOMAIN a /\ a.fd \in Descriptor
      /\ vnode' = vnode /\ cache' = cache
  BY DEF ReadCluster, HasFile, FInv, TablesOK, OneOwner
<1>2. \/ /\ act' = [act EXCEPT ![p].cluster = next, ![p].offset = NextOffset(a),
                               ![p].size = @ - n, ![p].bytes = bytes]
         /\ open' = open
      \/ /\ open' = [open EXCEPT ![a.fd].position = @ + Len(bytes)]
         /\ act' = [act EXCEPT ![p] = done]
  BY DEF ReadCluster
<1>3. /\ "at" \in DOMAIN going /\ going.at = a.at
      /\ "fd" \in DOMAIN going /\ going.fd = a.fd
      /\ "at" \in DOMAIN done /\ done.at = "open"
      /\ "fd" \in DOMAIN done /\ done.fd = a.fd
  BY <1>1
<1> HIDE DEF n, bytes, next
<1>4. CASE /\ act' = [act EXCEPT ![p].cluster = next, ![p].offset = NextOffset(a),
                                 ![p].size = @ - n, ![p].bytes = bytes]
           /\ open' = open
  <2>1. act' = [act EXCEPT ![p] = going]
    BY <1>4 DEF FInv, TablesOK
  <2>2. /\ DOMAIN open' = Descriptor
        /\ \A fd \in Descriptor : /\ DOMAIN open'[fd] = {"node", "position"}
                                  /\ open'[fd].node = open[fd].node
    BY <1>4 DEF FInv, TablesOK
  <2> HIDE DEF going, done
  <2> QED BY <1>1, <1>3, <2>1, <2>2, StaysWithFile
<1>5. CASE /\ open' = [open EXCEPT ![a.fd].position = @ + Len(bytes)]
           /\ act' = [act EXCEPT ![p] = done]
  <2>1. /\ DOMAIN open' = Descriptor
        /\ \A fd \in Descriptor : /\ DOMAIN open'[fd] = {"node", "position"}
                                  /\ open'[fd].node = open[fd].node
    BY <1>1, <1>5 DEF FInv, TablesOK
  <2> HIDE DEF going, done
  <2> QED BY <1>1, <1>3, <1>5, <2>1, StaysWithFile
<1> QED BY <1>2, <1>4, <1>5

\* VFS_close gives the descriptor back, and the vnode counts one less.
LEMMA CloseStep ==
    ASSUME FInv, NEW p \in Client, VFS_close(p)
    PROVE  FInv'
<1> DEFINE fd == act[p].fd
           v == open[fd].node
<1>1. /\ act[p].at = "open" /\ HasFile(p) /\ fd \in Descriptor
      /\ v \in Vnode /\ vnode[v] # free /\ v # nil
  BY DEF VFS_close, HasFile, FInv, OneOwner, CountsHolders
<1>2. /\ vnode' = [vnode EXCEPT ![v].ref_count = @ - 1]
      /\ open' = [open EXCEPT ![fd] = closed]
      /\ act' = [act EXCEPT ![p] = idle]
      /\ cache' = cache
  BY DEF VFS_close
<1> HIDE DEF fd
<1>3. /\ DOMAIN open' = Descriptor /\ DOMAIN act' = Client /\ DOMAIN vnode' = Vnode
      /\ \A d \in Descriptor : open'[d] = IF d = fd THEN closed ELSE open[d]
      /\ \A q \in Client : act'[q] = IF q = p THEN idle ELSE act[q]
      /\ \A w \in Vnode : w # v => vnode'[w] = vnode[w]
      /\ vnode'[v] = [vnode[v] EXCEPT !.ref_count = @ - 1]
  BY <1>1, <1>2 DEF FInv, TablesOK
<1>4. /\ closed.node = nil /\ DOMAIN closed = {"node", "position"}
      /\ "at" \in DOMAIN idle /\ idle.at = "idle"
  BY DEF closed, idle
<1>5. TablesOK'
  BY <1>2, <1>3, <1>4 DEF FInv, TablesOK
<1>6. \A d \in Descriptor : open'[d].node = IF d = fd THEN nil ELSE open[d].node
  BY <1>3, <1>4
<1>7. OneOwner'
  <2>1. ASSUME NEW q \in Client, HasFile(q)'
        PROVE  q # p /\ HasFile(q) /\ act'[q] = act[q] /\ act[q].fd # fd
    <3>1. q # p /\ HasFile(q) /\ act'[q] = act[q]
      BY <1>3, <1>4, <2>1 DEF HasFile
    <3> QED BY <1>1, <3>1 DEF FInv, OneOwner, fd
  <2>2. ASSUME NEW q \in Client, q # p, HasFile(q)
        PROVE  HasFile(q)' /\ act'[q] = act[q]
    BY <1>3, <2>2 DEF HasFile
  <2>3. ASSUME NEW q \in Client, HasFile(q)'
        PROVE  /\ "fd" \in DOMAIN act'[q] /\ act'[q].fd \in Descriptor
               /\ open'[act'[q].fd].node # nil
    BY <1>6, <2>1, <2>3 DEF FInv, OneOwner
  <2>4. ASSUME NEW q \in Client, NEW r \in Client, HasFile(q)', HasFile(r)',
               act'[q].fd = act'[r].fd
        PROVE  q = r
    BY <2>1, <2>4 DEF FInv, OneOwner
  <2>5. ASSUME NEW d \in Descriptor, open'[d].node # nil
        PROVE  \E q \in Client : HasFile(q)' /\ act'[q].fd = d
    <3>1. d # fd /\ open[d].node # nil
      BY <1>6, <2>5
    <3>2. PICK q \in Client : HasFile(q) /\ act[q].fd = d
      BY <3>1 DEF FInv, OneOwner
    <3>3. q # p
      BY <3>1, <3>2 DEF fd
    <3> QED BY <2>2, <3>2, <3>3
  <2> QED BY <2>3, <2>4, <2>5 DEF OneOwner
<1> DEFINE k == Cardinality(Holding(open, v))
<1>8. /\ "ref_count" \in DOMAIN vnode[v] /\ vnode[v].ref_count = k
  BY <1>1 DEF FInv, CountsHolders
<1>9. /\ "ref_count" \in DOMAIN vnode'[v]
      /\ vnode'[v].ref_count = Cardinality(Holding(open', v))
  <2>1. Holding(open', v) = Holding(open, v) \ {fd} /\ fd \in Holding(open, v)
    BY <1>1, <1>6 DEF Holding
  <2>2. Cardinality(Holding(open', v)) = k - 1
    <3> DEFINE H == Holding(open, v)
    <3>1. IsFiniteSet(H)
      BY HoldingFinite
    <3>2. H # {} /\ fd \in H
      BY <2>1
    <3> HIDE DEF H
    <3>3. Cardinality(H \ {fd}) = Cardinality(H) - 1
      BY <3>1, <3>2, FS_RemoveElement
    <3> QED BY <2>1, <3>3 DEF H, k
  <2> HIDE DEF k, v
  <2>3. vnode'[v].ref_count = k - 1 /\ "ref_count" \in DOMAIN vnode'[v]
    BY <1>3, <1>8
  <2> QED BY <2>2, <2>3
<1> HIDE DEF k
<1>10. vnode'[v] # free
  <2>1. vnode'[v].ref_count \in Nat /\ free.ref_count = -1
    BY <1>9, HoldingFinite DEF free
  <2> QED BY <2>1
<1>11. \A w \in Vnode : vnode'[w] # free <=> vnode[w] # free
  BY <1>1, <1>3, <1>10
<1>12. CountsHolders(vnode', open')
  <2>1. ASSUME NEW w \in Vnode, vnode'[w] # free
        PROVE  /\ "ref_count" \in DOMAIN vnode'[w]
               /\ vnode'[w].ref_count = Cardinality(Holding(open', w))
    <3>1. CASE w = v
      BY <3>1, <1>9
    <3>2. CASE w # v
      <4>1. w # nil
        BY SizeFacts
      <4>2. Holding(open', w) = Holding(open, w)
        BY <3>2, <4>1, <1>1, <1>6 DEF Holding
      <4>3. vnode'[w] = vnode[w]
        BY <3>2, <1>3
      <4> QED BY <2>1, <4>2, <4>3 DEF FInv, CountsHolders
    <3> QED BY <3>1, <3>2
  <2>2. ASSUME NEW d \in Descriptor, open'[d].node # nil
        PROVE  open'[d].node \in Vnode /\ vnode'[open'[d].node] # free
    BY <1>6, <1>11, <2>2 DEF FInv, CountsHolders
  <2> QED BY <2>1, <2>2 DEF CountsHolders
<1>13. CachedOnce(vnode', cache')
  <2>1. \A i \in Slot : cache[i] # nil => cache[i] \in Vnode
    BY DEF FInv, TablesOK
  <2> QED BY <2>1, <1>2, <1>11 DEF FInv, CachedOnce
<1> QED BY <1>5, <1>7, <1>12, <1>13 DEF FInv

-----------------------------------------------------------------------------
(***************************************************************************)
(* The invariant and what follows from it.                                 *)
(***************************************************************************)

\* After start() no file is open and no vnode is in use.
LEMMA FilesInitStep == FilesInit => FInv
<1> SUFFICES ASSUME FilesInit PROVE FInv
  OBVIOUS
<1>1. /\ "at" \in DOMAIN idle /\ idle.at = "idle"
      /\ closed.node = nil /\ DOMAIN closed = {"node", "position"}
  BY DEF idle, closed
<1>2. /\ DOMAIN vnode = Vnode /\ \A v \in Vnode : vnode[v] = free
      /\ cache \in [Slot -> Vnode \cup {nil}] /\ \A i \in Slot : cache[i] = nil
      /\ DOMAIN open = Descriptor /\ \A fd \in Descriptor : open[fd] = closed
      /\ DOMAIN act = Client /\ \A p \in Client : act[p] = idle
  BY DEF FilesInit, Slot
<1>3. TablesOK
  BY <1>1, <1>2 DEF TablesOK
<1>4. CachedOnce(vnode, cache)
  BY <1>2 DEF CachedOnce
<1>5. CountsHolders(vnode, open)
  BY <1>1, <1>2 DEF CountsHolders
<1>6. OneOwner
  BY <1>1, <1>2 DEF OneOwner, HasFile
<1> QED BY <1>3, <1>4, <1>5, <1>6 DEF FInv

\* Every step preserves the invariant.
LEMMA FilesNextStep == FInv /\ [FilesNext]_filesVars => FInv'
<1> SUFFICES ASSUME FInv, [FilesNext]_filesVars PROVE FInv'
  OBVIOUS
<1>1. CASE Mount
  BY <1>1, SameTables DEF Mount
<1>2. ASSUME NEW p \in Client,
             VFS_open(p) \/ LookupSector(p) \/ VFS_read(p) \/ ReadCluster(p) \/ VFS_close(p)
      PROVE  FInv'
  BY <1>2, OpenStep, LookupStep, ReadStep, ReadClusterStep, CloseStep
<1>3. CASE UNCHANGED filesVars
  BY <1>3, SameTables DEF filesVars
<1> QED BY <1>1, <1>2, <1>3 DEF FilesNext

\* The inductive invariant holds in every reachable state.
THEOREM FilesInvariance == FilesSpec => []FInv
<1> QED BY FilesInitStep, FilesNextStep, PTL DEF FilesSpec

\* Every descriptor in use is one process's, and its vnode has not been freed
\* and counts it; the cache holds every vnode in use once: none is evicted
\* while it is open, none leaks.
THEOREM FilesStayHeld == FilesSpec => []DescriptorsHoldVnodes
<1>1. ASSUME FInv PROVE DescriptorsHoldVnodes
  <2> DEFINE users(fd) == {p \in Client : act[p].at \in {"open", "read"} /\ act[p].fd = fd}
  <2>1. ASSUME NEW fd \in Descriptor
        PROVE  Cardinality(users(fd)) = IF open[fd].node = nil THEN 0 ELSE 1
    <3>1. CASE open[fd].node = nil
      <4>1. users(fd) = {}
        BY <1>1, <3>1 DEF FInv, OneOwner, HasFile
      <4> QED BY <3>1, <4>1, FS_EmptySet
    <3>2. CASE open[fd].node # nil
      <4>1. PICK p \in Client : HasFile(p) /\ act[p].fd = fd
        BY <1>1, <3>2 DEF FInv, OneOwner
      <4>2. users(fd) = {p}
        BY <1>1, <4>1 DEF FInv, OneOwner, HasFile
      <4> QED BY <3>2, <4>2, FS_Singleton
    <3> QED BY <3>1, <3>2
  <2>2. ASSUME NEW v \in Vnode, vnode[v] # free
        PROVE  /\ vnode[v].ref_count = Cardinality({fd \in Descriptor : open[fd].node = v})
               /\ Cardinality({i \in DOMAIN cache : cache[i] = v}) = 1
    <3>1. DOMAIN cache = Slot
      BY <1>1 DEF FInv, TablesOK
    <3>2. PICK i \in Slot : cache[i] = v
      BY <1>1, <2>2 DEF FInv, CachedOnce
    <3>3. {j \in Slot : cache[j] = v} = {i}
      BY <1>1, <2>2, <3>2 DEF FInv, CachedOnce
    <3>4. Cardinality({j \in DOMAIN cache : cache[j] = v}) = 1
      BY <3>1, <3>3, FS_Singleton
    <3>5. vnode[v].ref_count = Cardinality(Holding(open, v))
      BY <1>1, <2>2 DEF FInv, CountsHolders
    <3> QED BY <3>4, <3>5 DEF Holding
  <2>3. ASSUME NEW fd \in Descriptor, open[fd].node # nil
        PROVE  vnode[open[fd].node] # free
    BY <1>1, <2>3 DEF FInv, CountsHolders
  <2> HIDE DEF users
  <2>4. /\ \A fd \in Descriptor :
               Cardinality(users(fd)) = IF open[fd].node = nil THEN 0 ELSE 1
        /\ \A v \in Vnode : vnode[v] # free =>
               /\ vnode[v].ref_count = Cardinality({fd \in Descriptor : open[fd].node = v})
               /\ Cardinality({i \in DOMAIN cache : cache[i] = v}) = 1
        /\ \A fd \in Descriptor : open[fd].node # nil => vnode[open[fd].node] # free
    BY <2>1, <2>2, <2>3
  <2> QED BY <2>4 DEF DescriptorsHoldVnodes, users
<1> QED BY <1>1, FilesInvariance, PTL

-----------------------------------------------------------------------------
(***************************************************************************)
(* What is read.  The disk is sound (DiskIsSound): what a vnode shows, a   *)
(* lookup reads and a process has read is what the disk holds.             *)
(***************************************************************************)

\* What a vnode has of an entry.
Shows(x, e) == x.name = e.name /\ x.dir = e.dir /\ x.first = e.first /\ x.size = e.size

\* n bytes of a file, behind the first m.
Part(e, m, n) == [k \in 1 .. n |-> TrueBytes(e)[m + k]]

\* A vnode in use is of an entry a path leads to.
VnodesShow(nodes) ==
    \A v \in Vnode : nodes[v] # free =>
        DOMAIN nodes[v] = DOMAIN free /\ \E e \in NamedEntries : Shows(nodes[v], e)

\* The sector at `place` is of a directory that has the next of the names.
Within(path, k, node, place) ==
    IF node = root THEN k = 1 /\ place \in RootLba .. RootLba + ROOTSIZE - 1
    ELSE k > 1 /\ \E e \in Named(path, k - 1) : e.dir /\ place \in ToSet(TrueChain(e.first))

LooksRight(p) ==
    act[p].at = "lookup" =>
        LET a == act[p]
        IN  /\ DOMAIN a = {"at", "node", "place", "names", "path"}
            /\ a.path \in Paths /\ got[p] = <<>>
            /\ \E k \in 1 .. Len(a.path) :
                   a.names = SubSeq(a.path, k, Len(a.path)) /\ Within(a.path, k, a.node, a.place)

\* A call that reads e, from the position of its descriptor on, is at its
\* next byte.
Continues(a, e, position) ==
    LET n == position + Len(a.bytes)
    IN  /\ DOMAIN a = {"at", "fd", "path", "cluster", "offset", "size", "bytes"}
        /\ Len(a.bytes) \in Nat /\ a.bytes = Part(e, position, Len(a.bytes))
        /\ a.size \in Nat \ {0} /\ n + a.size <= e.size
        /\ a.offset = n % CLUSTER
        /\ a.cluster = TrueChain(e.first)[n \div CLUSTER + 1]

\* A process that has a file has that of its path, read up to the position.
ReadsRight(p) ==
    HasFile(p) =>
        LET a == act[p]
            e == TrueEntry(a.path)
            file == open[a.fd]
        IN  /\ a.path \in Paths /\ a.path # <<>>
            /\ e \in Named(a.path, Len(a.path)) /\ ~e.dir
            /\ Shows(vnode[file.node], e)
            /\ file.position \in 0 .. e.size /\ got[p] = Part(e, 0, file.position)
            /\ a.at = "read" => Continues(a, e, file.position)

RInv ==
    /\ DOMAIN got = Client
    /\ VnodesShow(vnode)
    /\ \A p \in Client : LooksRight(p) /\ ReadsRight(p)

-----------------------------------------------------------------------------
(***************************************************************************)
(* Chains and directories                                                  *)
(***************************************************************************)

\* The clusters fat12_read skips, one by one.
SkipTurns(f, c, n) ==
    /\ f[0] = c /\ f[n] = Skip(c, n)
    /\ \A i \in 1 .. n : f[i] = get_next_cluster(f[i - 1])

LEMMA SkipLoop ==
    ASSUME NEW c, NEW n \in Nat
    PROVE  \E f : SkipTurns(f, c, n)
<1> DEFINE L(f, k) == f = [i \in 0 .. k |-> IF i = 0 THEN c ELSE get_next_cluster(f[i - 1])]
           I == {k \in 0 .. n : ~ \E f : L(f, k)}
<1>1. 0 \notin I
  <2> DEFINE f == [i \in 0 .. 0 |-> c]
  <2>1. \A i \in 0 .. 0 : f[i] = IF i = 0 THEN c ELSE get_next_cluster(f[i - 1])
    OBVIOUS
  <2>2. L(f, 0)
    <3> HIDE DEF f
    <3> SUFFICES f = [i \in 0 .. 0 |-> f[i]]
      BY <2>1
    <3> QED BY Zenon DEF f
  <2> HIDE DEF f, L
  <2> QED BY <2>2
<1>2. ASSUME NEW k \in 1 .. n, k - 1 \notin I PROVE k \notin I
  <2>1. PICK f : L(f, k - 1)
    BY <1>2
  <2> DEFINE g == [i \in 0 .. k |-> IF i = k THEN get_next_cluster(f[k - 1]) ELSE f[i]]
  <2>2. ASSUME NEW i \in 0 .. k
        PROVE  g[i] = IF i = 0 THEN c ELSE get_next_cluster(g[i - 1])
    <3>1. \A j \in 0 .. k - 1 : f[j] = IF j = 0 THEN c ELSE get_next_cluster(f[j - 1])
      BY <2>1
    <3>2. CASE i = k
      BY <3>2
    <3>3. CASE i # k
      <4>1. i \in 0 .. k - 1 /\ (i # 0 => i - 1 \in 0 .. k - 1)
        BY <3>3
      <4>2. g[i] = f[i] /\ (i # 0 => g[i - 1] = f[i - 1])
        BY <3>3, <4>1
      <4> HIDE DEF g
      <4> QED BY <3>1, <4>1, <4>2
    <3> QED BY <3>2, <3>3
  <2>3. L(g, k)
    <3> HIDE DEF g
    <3> SUFFICES g = [i \in 0 .. k |-> g[i]]
      BY <2>2
    <3> QED BY Zenon DEF g
  <2> QED BY <2>3
<1> HIDE DEF L
<1>3. I = {}
  <2> HIDE DEF I
  <2>1. I \subseteq 0 .. n
    BY DEF I
  <2> QED BY <1>1, <1>2, <2>1, NoFirst
<1>4. PICK f : L(f, n)
  BY <1>3
<1>5. PICK g : L(g, n) /\ g[n] = Skip(c, n)
  BY <1>4 DEF Skip, L
<1>6. \A i \in 0 .. n : g[i] = IF i = 0 THEN c ELSE get_next_cluster(g[i - 1])
  BY <1>5 DEF L
<1> QED BY <1>5, <1>6 DEF SkipTurns

\* A chain starts where it should, each cluster is the one its predecessor
\* names, and none is the end.
LEMMA ChainFacts ==
    ASSUME NEW c
    PROVE  LET s == TrueChain(c)
           IN  /\ Len(s) \in Nat /\ DOMAIN s = 1 .. Len(s)
               /\ ~(c >= EOC) => Len(s) > 0
               /\ Len(s) > 0 => s[1] = c
               /\ \A k \in 1 .. Len(s) - 1 : s[k + 1] = TrueNext(s[k])
               /\ \A k \in 1 .. Len(s) : ~(s[k] >= EOC)
<1> DEFINE n == FATSIZE * ENTRIES
           L(f, k) == f = [i \in 0 .. k |-> IF i = 0 THEN c
                           ELSE IF f[i - 1] < EOC THEN TrueNext(f[i - 1]) ELSE EOC]
           I == {k \in 0 .. n : ~ \E f : L(f, k)}
<1>1. n \in Nat \ {0}
  BY FilesAssumption
<1> HIDE DEF n
<1>2. 0 \notin I
  <2> DEFINE f == [i \in 0 .. 0 |-> c]
  <2>1. \A i \in 0 .. 0 : f[i] = IF i = 0 THEN c
                           ELSE IF f[i - 1] < EOC THEN TrueNext(f[i - 1]) ELSE EOC
    OBVIOUS
  <2>2. L(f, 0)
    <3> HIDE DEF f
    <3> SUFFICES f = [i \in 0 .. 0 |-> f[i]]
      BY <2>1
    <3> QED BY Zenon DEF f
  <2> HIDE DEF f, L
  <2> QED BY <2>2
<1>3. ASSUME NEW k \in 1 .. n, k - 1 \notin I PROVE k \notin I
  <2>1. PICK f : L(f, k - 1)
    BY <1>1, <1>3
  <2> DEFINE g == [i \in 0 .. k |-> IF i = k
                      THEN IF f[k - 1] < EOC THEN TrueNext(f[k - 1]) ELSE EOC ELSE f[i]]
  <2>2. ASSUME NEW i \in 0 .. k
        PROVE  g[i] = IF i = 0 THEN c
                      ELSE IF g[i - 1] < EOC THEN TrueNext(g[i - 1]) ELSE EOC
    <3>1. \A j \in 0 .. k - 1 : f[j] = IF j = 0 THEN c
                      ELSE IF f[j - 1] < EOC THEN TrueNext(f[j - 1]) ELSE EOC
      BY <2>1
    <3>2. CASE i = k
      BY <3>2
    <3>3. CASE i # k
      <4>1. i \in 0 .. k - 1 /\ (i # 0 => i - 1 \in 0 .. k - 1)
        BY <3>3
      <4>2. g[i] = f[i] /\ (i # 0 => g[i - 1] = f[i - 1])
        BY <3>3, <4>1
      <4> HIDE DEF g
      <4> QED BY <3>1, <4>1, <4>2
    <3> QED BY <3>2, <3>3
  <2>3. L(g, k)
    <3> HIDE DEF g
    <3> SUFFICES g = [i \in 0 .. k |-> g[i]]
      BY <2>2
    <3> QED BY Zenon DEF g
  <2> QED BY <2>3
<1> HIDE DEF L
<1>4. I = {}
  <2> HIDE DEF I
  <2>1. I \subseteq 0 .. n
    BY DEF I
  <2> QED BY <1>1, <1>2, <1>3, <2>1, NoFirst
<1>5. PICK f : L(f, n)
  BY <1>1, <1>4
<1> DEFINE Ends(g) == {k \in 0 .. n : k = n \/ g[k] >= EOC}
<1>6. PICK g : L(g, n) /\ TrueChain(c) = [k \in 1 .. Min(Ends(g)) |-> g[k - 1]]
  BY <1>5 DEF TrueChain, L, n
<1>7. \A i \in 0 .. n : g[i] = IF i = 0 THEN c
          ELSE IF g[i - 1] < EOC THEN TrueNext(g[i - 1]) ELSE EOC
  BY <1>6 DEF L
<1> DEFINE end == Min(Ends(g))
<1>8. end \in 0 .. n /\ (end = n \/ g[end] >= EOC) /\ \A k \in 0 .. end - 1 : ~(g[k] >= EOC)
  <2>1. Ends(g) \subseteq Nat /\ n \in Ends(g)
    BY <1>1
  <2>2. end \in Ends(g) /\ \A k \in Ends(g) : end <= k
    BY <2>1, MinFacts
  <2> HIDE DEF end
  <2> QED BY <1>1, <2>2
<1> HIDE DEF end
<1> DEFINE s == TrueChain(c)
<1>9. Len(s) = end /\ DOMAIN s = 1 .. end /\ \A k \in 1 .. end : s[k] = g[k - 1]
  BY <1>1, <1>6, <1>8 DEF end
<1> HIDE DEF s
<1>10. /\ ~(c >= EOC) => Len(s) > 0
       /\ Len(s) > 0 => s[1] = c
       /\ \A k \in 1 .. end : ~(s[k] >= EOC)
  <2>1. \A k \in 1 .. end : k - 1 \in 0 .. end - 1
    BY <1>8
  <2> QED BY <1>1, <1>7, <1>8, <1>9, <2>1
<1>11. ASSUME NEW k \in 1 .. end - 1 PROVE s[k + 1] = TrueNext(s[k])
  <2>1. k \in 0 .. n /\ k # 0 /\ k - 1 \in 0 .. end - 1 /\ k \in 1 .. end /\ k + 1 \in 1 .. end
        /\ (k + 1) - 1 = k
    BY <1>1, <1>8
  <2>2. ~(g[k - 1] >= EOC) /\ s[k + 1] = g[k] /\ s[k] = g[k - 1]
    BY <1>8, <1>9, <2>1
  <2>3. g[k] = TrueNext(g[k - 1]) \/ g[k] = EOC
    BY <1>7, <2>1
  <2>4. g[k] # EOC
    <3>1. EOC >= EOC /\ k \in 0 .. end - 1
      BY <1>8, FilesAssumption
    <3> QED BY <1>8, <3>1
  <2> QED BY <2>2, <2>3, <2>4
<1> QED BY <1>8, <1>9, <1>10, <1>11 DEF s

\* The directories of a path: the root, and those its names lead to.
LEMMA DirectoriesFacts ==
    ASSUME NEW path, Len(path) \in Nat
    PROVE  /\ Directories(path)[0] = RootLba .. RootLba + ROOTSIZE - 1
           /\ \A k \in 1 .. Len(path) :
                  Directories(path)[k] = UNION {SectorsOf(e) : e \in {e \in Named(path, k) : e.dir}}
<1> DEFINE n == Len(path)
           S == RootLba .. RootLba + ROOTSIZE - 1
           Hits(sectors, k) == {e \in EntriesOf(sectors) : e.name = FatName[path[k]]}
           D(sectors, k) == UNION {SectorsOf(e) : e \in {e \in Hits(sectors, k) : e.dir}}
           L(f, k) == f = [i \in 0 .. k |-> IF i = 0 THEN S ELSE D(f[i - 1], i)]
           I == {k \in 0 .. n : ~ \E f : L(f, k)}
<1> HIDE DEF n, S
<1>1. n \in Nat
  BY DEF n
<1>2. 0 \notin I
  <2> HIDE DEF D
  <2> DEFINE f == [i \in 0 .. 0 |-> S]
  <2>1. \A i \in 0 .. 0 : f[i] = IF i = 0 THEN S ELSE D(f[i - 1], i)
    OBVIOUS
  <2>2. L(f, 0)
    <3> HIDE DEF f
    <3> SUFFICES f = [i \in 0 .. 0 |-> f[i]]
      BY <2>1
    <3> QED BY Zenon DEF f
  <2> HIDE DEF f, L
  <2> QED BY <2>2
<1>3. ASSUME NEW k \in 1 .. n, k - 1 \notin I PROVE k \notin I
  <2> HIDE DEF D
  <2>1. PICK f : L(f, k - 1)
    BY <1>1, <1>3
  <2> DEFINE g == [i \in 0 .. k |-> IF i = k THEN D(f[k - 1], k) ELSE f[i]]
  <2>2. ASSUME NEW i \in 0 .. k
        PROVE  g[i] = IF i = 0 THEN S ELSE D(g[i - 1], i)
    <3>1. \A j \in 0 .. k - 1 : f[j] = IF j = 0 THEN S ELSE D(f[j - 1], j)
      BY <2>1
    <3>2. CASE i = k
      BY <3>2
    <3>3. CASE i # k
      <4>1. i \in 0 .. k - 1 /\ (i # 0 => i - 1 \in 0 .. k - 1)
        BY <3>3
      <4>2. g[i] = f[i] /\ (i # 0 => g[i - 1] = f[i - 1])
        BY <3>3, <4>1
      <4> HIDE DEF g
      <4> QED BY <3>1, <4>1, <4>2
    <3> QED BY <3>2, <3>3
  <2>3. L(g, k)
    <3> HIDE DEF g
    <3> SUFFICES g = [i \in 0 .. k |-> g[i]]
      BY <2>2
    <3> QED BY Zenon DEF g
  <2> QED BY <2>3
<1> HIDE DEF L
<1>4. I = {}
  <2> HIDE DEF I
  <2>1. I \subseteq 0 .. n
    BY DEF I
  <2> QED BY <1>1, <1>2, <1>3, <2>1, NoFirst
<1>5. PICK f : L(f, n)
  BY <1>1, <1>4
<1>6. PICK g : L(g, n) /\ g = Directories(path)
  BY <1>5, Zenon DEF Directories, L, n, S, D, Hits
<1> HIDE DEF D
<1>7. \A i \in 0 .. n : g[i] = IF i = 0 THEN S ELSE D(g[i - 1], i)
  BY <1>6 DEF L
<1>8. ASSUME NEW k \in 1 .. n
      PROVE  g[k] = UNION {SectorsOf(e) : e \in {e \in Named(path, k) : e.dir}}
  <2>1. g[k] = D(g[k - 1], k)
    BY <1>1, <1>7
  <2>2. Named(path, k) = Hits(g[k - 1], k)
    BY <1>6 DEF Named
  <2> HIDE DEF Hits
  <2> QED BY <2>1, <2>2 DEF D
<1> QED BY <1>1, <1>6, <1>7, <1>8 DEF S, n

-----------------------------------------------------------------------------
(***************************************************************************)
(* Files of a sound disk                                                   *)
(***************************************************************************)

\* Every cluster of a chain is one the FAT that was loaded leads on from.
LEMMA SoundChain ==
    ASSUME DiskIsSound, NEW e \in NamedEntries
    PROVE  LET s == TrueChain(e.first)
           IN  \A k \in 1 .. Len(s) :
                   /\ s[k] \in Nat /\ s[k] < EOC
                   /\ get_next_cluster(s[k]) \in Nat
                   /\ k < Len(s) => get_next_cluster(s[k]) = s[k + 1]
<1> DEFINE s == TrueChain(e.first)
<1>1. /\ e.first \in Nat
      /\ \A c \in ToSet(s) : TrueNext(c) \in Nat /\ get_next_cluster(c) = TrueNext(c)
  BY DEF DiskIsSound
<1>2. /\ Len(s) \in Nat /\ DOMAIN s = 1 .. Len(s)
      /\ Len(s) > 0 => s[1] = e.first
      /\ \A k \in 1 .. Len(s) - 1 : s[k + 1] = TrueNext(s[k])
      /\ \A k \in 1 .. Len(s) : ~(s[k] >= EOC)
  BY ChainFacts
<1> HIDE DEF s
<1>3. \A k \in 1 .. Len(s) : s[k] \in ToSet(s)
  BY <1>2 DEF ToSet
<1>4. ASSUME NEW k \in 1 .. Len(s)
      PROVE  /\ s[k] \in Nat /\ s[k] < EOC
             /\ get_next_cluster(s[k]) \in Nat
             /\ k < Len(s) => get_next_cluster(s[k]) = s[k + 1]
  <2>1. s[k] \in Nat
    <3>1. CASE k = 1
      BY <1>1, <1>2, <3>1
    <3>2. CASE k # 1
      <4>1. k - 1 \in 1 .. Len(s) - 1 /\ k - 1 \in 1 .. Len(s) /\ (k - 1) + 1 = k
        BY <1>2, <3>2
      <4>2. s[k] = TrueNext(s[k - 1]) /\ s[k - 1] \in ToSet(s)
        BY <1>2, <1>3, <4>1
      <4> QED BY <1>1, <4>2
    <3> QED BY <3>1, <3>2
  <2>2. s[k] < EOC
    BY <1>2, <2>1, FilesAssumption
  <2>3. get_next_cluster(s[k]) \in Nat /\ get_next_cluster(s[k]) = TrueNext(s[k])
    BY <1>1, <1>3
  <2>4. k < Len(s) => k \in 1 .. Len(s) - 1
    BY <1>2
  <2> QED BY <1>2, <2>1, <2>2, <2>3, <2>4
<1> QED BY <1>4 DEF s

\* fat12_read skips to the cluster of the position.
LEMMA SkipFacts ==
    ASSUME DiskIsSound, NEW e \in NamedEntries, NEW n \in Nat, n < Len(TrueChain(e.first))
    PROVE  Skip(e.first, n) = TrueChain(e.first)[n + 1]
<1> DEFINE s == TrueChain(e.first)
<1>1. PICK f : SkipTurns(f, e.first, n)
  BY SkipLoop
<1>2. Len(s) \in Nat /\ s[1] = e.first
  BY ChainFacts
<1>3. \A k \in 1 .. Len(s) : k < Len(s) => get_next_cluster(s[k]) = s[k + 1]
  BY SoundChain
<1> HIDE DEF s
<1> DEFINE I == {k \in 0 .. n : f[k] # s[k + 1]}
<1>4. 0 \notin I
  BY <1>1, <1>2 DEF SkipTurns
<1>5. ASSUME NEW k \in 1 .. n, k - 1 \notin I PROVE k \notin I
  <2>1. f[k] = get_next_cluster(f[k - 1])
    BY <1>1 DEF SkipTurns
  <2>2. f[k - 1] = s[(k - 1) + 1] /\ (k - 1) + 1 = k
    BY <1>5
  <2>3. k \in 1 .. Len(s) /\ k < Len(s)
    BY <1>2 DEF s
  <2> QED BY <1>3, <2>1, <2>2, <2>3
<1>6. I = {}
  <2> HIDE DEF I
  <2>1. I \subseteq 0 .. n
    BY DEF I
  <2> QED BY <1>4, <1>5, <2>1, NoFirst
<1>7. f[n] = s[n + 1]
  BY <1>6
<1> QED BY <1>1, <1>7 DEF s, SkipTurns

\* A position is in one cluster, at one place.
LEMMA DivMod ==
    ASSUME NEW v \in Nat, NEW n \in Nat \ {0}
    PROVE  /\ v \div n \in Nat /\ v % n \in 0 .. n - 1
           /\ v = n * (v \div n) + (v % n)
OBVIOUS

\* A position between the bounds of some clusters is in one of them.
LEMMA DivBetween ==
    ASSUME NEW v \in Nat, NEW n \in Nat \ {0}, NEW j \in Nat, NEW k \in Nat,
           j * n <= v, v < k * n
    PROVE  j <= v \div n /\ v \div n < k
OBVIOUS

\* What follows a position in its cluster.
LEMMA SameCluster ==
    ASSUME NEW v \in Nat, NEW n \in Nat \ {0}, NEW i \in Nat, (v % n) + i < n
    PROVE  (v + i) \div n = v \div n /\ (v + i) % n = (v % n) + i
<1> DEFINE q == v \div n
           r == v % n
<1>1. q \in Nat /\ r \in 0 .. n - 1 /\ v = n * q + r
  BY DivMod
<1>2. /\ (v + i) \div n \in Nat /\ (v + i) % n \in 0 .. n - 1
      /\ v + i = n * ((v + i) \div n) + ((v + i) % n)
  <2>1. v + i \in Nat
    OBVIOUS
  <2> QED BY <2>1, DivMod
<1> HIDE DEF q, r
<1> DEFINE u == (v + i) \div n
           w == (v + i) % n
<1>3. r + i < n
  BY DEF r
<1> HIDE DEF u, w
<1>4. u \in Nat /\ w \in 0 .. n - 1 /\ n * q + r + i = n * u + w
  BY <1>1, <1>2 DEF u, w
<1>5. ~(u < q)
  <2> SUFFICES ASSUME u + 1 <= q PROVE FALSE
    BY <1>1, <1>4
  <2>1. n * (u + 1) <= n * q /\ n * (u + 1) = n * u + n
    BY <1>1, <1>4
  <2> QED BY <1>1, <1>4, <2>1
<1>6. ~(q < u)
  <2> SUFFICES ASSUME q + 1 <= u PROVE FALSE
    BY <1>1, <1>4
  <2>1. n * (q + 1) <= n * u /\ n * (q + 1) = n * q + n
    BY <1>1, <1>4
  <2> QED BY <1>1, <1>3, <1>4, <2>1
<1>7. u = q
  BY <1>1, <1>4, <1>5, <1>6
<1>8. w = r + i
  BY <1>1, <1>4, <1>7
<1> QED BY <1>7, <1>8 DEF u, w, q, r

\* The first byte of the next cluster.
LEMMA NextCluster ==
    ASSUME NEW v \in Nat, NEW n \in Nat \ {0}, NEW i \in Nat, (v % n) + i = n
    PROVE  (v + i) \div n = v \div n + 1 /\ (v + i) % n = 0
<1> DEFINE q == v \div n
           r == v % n
           u == (v + i) \div n
           w == (v + i) % n
<1>1. q \in Nat /\ r \in 0 .. n - 1 /\ v = n * q + r
  BY DivMod
<1>2. u \in Nat /\ w \in 0 .. n - 1 /\ v + i = n * u + w
  <2>1. v + i \in Nat
    OBVIOUS
  <2> QED BY <2>1, DivMod
<1>3. r + i = n
  OBVIOUS
<1> HIDE DEF q, r, u, w
<1>4. n * u + w = n * (q + 1)
  BY <1>1, <1>2, <1>3
<1>5. ~(u < q + 1)
  <2> SUFFICES ASSUME u + 1 <= q + 1 PROVE FALSE
    BY <1>1, <1>2
  <2>1. n * (u + 1) <= n * (q + 1) /\ n * (u + 1) = n * u + n
    BY <1>1, <1>2
  <2> QED BY <1>1, <1>2, <1>4, <2>1
<1>6. ~(q + 1 < u)
  <2> SUFFICES ASSUME q + 2 <= u PROVE FALSE
    BY <1>1, <1>2
  <2>1. n * (q + 2) <= n * u /\ n * (q + 2) = n * (q + 1) + n
    BY <1>1, <1>2
  <2> QED BY <1>1, <1>2, <1>4, <2>1
<1>7. u = q + 1
  BY <1>1, <1>2, <1>5, <1>6
<1>8. w = 0
  BY <1>1, <1>2, <1>4, <1>7
<1> QED BY <1>7, <1>8 DEF u, w, q, r

BytesOf(e) == {TrueBytes(e)[i] : i \in Int}

\* A part of a file is a sequence.
LEMMA PartFacts ==
    ASSUME NEW e, NEW m \in Nat, NEW n \in Nat
    PROVE  /\ Part(e, m, n) \in Seq(BytesOf(e))
           /\ Len(Part(e, m, n)) = n
           /\ \A k \in 1 .. n : Part(e, m, n)[k] = TrueBytes(e)[m + k]
BY DEF Part, BytesOf

\* One sequence and then another.
Joined(s, t, u) == s \o t = u

\* Two parts, the second where the first ends, are one.
LEMMA PartJoin ==
    ASSUME NEW e, NEW a \in Nat, NEW m \in Nat, NEW n \in Nat, NEW b, b = a + m
    PROVE  Joined(Part(e, a, m), Part(e, b, n), Part(e, a, m + n))
<1> DEFINE S == BytesOf(e)
           s == Part(e, a, m)
           t == Part(e, a + m, n)
           u == Part(e, a, m + n)
<1>1. a + m \in Nat /\ m + n \in Nat
  OBVIOUS
<1>2. /\ s \in Seq(S) /\ Len(s) = m /\ \A k \in 1 .. m : s[k] = TrueBytes(e)[a + k]
      /\ t \in Seq(S) /\ Len(t) = n /\ \A k \in 1 .. n : t[k] = TrueBytes(e)[(a + m) + k]
      /\ u \in Seq(S) /\ Len(u) = m + n /\ \A k \in 1 .. m + n : u[k] = TrueBytes(e)[a + k]
  <2>1. s \in Seq(S) /\ Len(s) = m /\ \A k \in 1 .. m : s[k] = TrueBytes(e)[a + k]
    BY PartFacts
  <2>2. t \in Seq(S) /\ Len(t) = n /\ \A k \in 1 .. n : t[k] = TrueBytes(e)[(a + m) + k]
    BY <1>1, PartFacts
  <2>3. u \in Seq(S) /\ Len(u) = m + n /\ \A k \in 1 .. m + n : u[k] = TrueBytes(e)[a + k]
    BY <1>1, PartFacts
  <2> QED BY <2>1, <2>2, <2>3
<1> HIDE DEF s, t, u, S
<1>3. /\ s \o t \in Seq(S) /\ Len(s \o t) = m + n
      /\ \A k \in 1 .. m + n : (s \o t)[k] = IF k <= m THEN s[k] ELSE t[k - m]
  BY <1>2, ConcatProperties
<1>4. ASSUME NEW k \in 1 .. m + n PROVE (s \o t)[k] = u[k]
  <2>1. CASE k <= m
    <3>1. k \in 1 .. m
      BY <2>1
    <3>2. s[k] = TrueBytes(e)[a + k] /\ u[k] = TrueBytes(e)[a + k]
      BY <1>2, <3>1
    <3> QED BY <1>3, <2>1, <3>2
  <2>2. CASE ~(k <= m)
    <3>1. k - m \in 1 .. n /\ (a + m) + (k - m) = a + k
      BY <2>2
    <3>2. t[k - m] = TrueBytes(e)[a + k] /\ u[k] = TrueBytes(e)[a + k]
      BY <1>2, <3>1
    <3> QED BY <1>3, <2>2, <3>2
  <2> QED BY <2>1, <2>2
<1>5. s \o t = u
  BY <1>2, <1>3, <1>4, SeqEqual
<1> QED BY <1>5 DEF s, t, u, Joined

\* What has been read is a prefix of the file.
LEMMA PartPrefix ==
    ASSUME NEW e, e.size \in Nat, NEW n \in 0 .. e.size
    PROVE  IsPrefix(Part(e, 0, n), TrueBytes(e))
<1> DEFINE S == BytesOf(e)
           s == Part(e, 0, n)
           t == TrueBytes(e)
<1>1. s \in Seq(S) /\ Len(s) = n /\ \A k \in 1 .. n : s[k] = t[0 + k]
  <2>1. n \in Nat /\ 0 \in Nat
    OBVIOUS
  <2> QED BY <2>1, PartFacts
<1>2. t \in Seq(S) /\ Len(t) = e.size
  <2>1. DOMAIN t = 1 .. e.size
    BY DEF TrueBytes
  <2>2. t = [k \in 1 .. e.size |-> t[k]]
    BY DEF TrueBytes
  <2>3. \A k \in 1 .. e.size : t[k] \in S
    BY DEF BytesOf
  <2> HIDE DEF t, S
  <2>4. t \in [1 .. e.size -> S]
    BY <2>2, <2>3
  <2> QED BY <2>1, <2>4
<1> HIDE DEF s, t, S
<1>3. /\ SubSeq(s, 1, n) \in Seq(S) /\ Len(SubSeq(s, 1, n)) = n
      /\ \A k \in 1 .. n : SubSeq(s, 1, n)[k] = s[k]
      /\ SubSeq(t, 1, n) \in Seq(S) /\ Len(SubSeq(t, 1, n)) = n
      /\ \A k \in 1 .. n : SubSeq(t, 1, n)[k] = t[k]
  BY <1>1, <1>2
<1>4. SubSeq(s, 1, n) = SubSeq(t, 1, n)
  BY <1>1, <1>3, SeqEqual
<1>5. IsPrefix(s, t)
  BY <1>1, <1>2, <1>4 DEF IsPrefix
<1> QED BY <1>5 DEF s, t

\* The bytes of a cluster, from the place of a position on.
LEMMA BytesArePart ==
    ASSUME NEW e, e.size \in Nat, NEW m \in Nat, NEW n \in Nat,
           (m % CLUSTER) + n <= CLUSTER, m + n <= e.size
    PROVE  Bytes(cluster_to_Lba(TrueChain(e.first)[m \div CLUSTER + 1]), m % CLUSTER, n)
               = Part(e, m, n)
<1> DEFINE lba(i) == cluster_to_Lba(TrueChain(e.first)[i])
<1>1. CLUSTER \in Nat \ {0}
  BY FilesAssumption
<1>2. ASSUME NEW k \in 1 .. n
      PROVE  TrueBytes(e)[m + k] = <<lba(m \div CLUSTER + 1), (m % CLUSTER) + k - 1>>
  <2>1. m + k \in 1 .. e.size /\ (m + k) - 1 = m + (k - 1) /\ k - 1 \in Nat
    OBVIOUS
  <2>2. m % CLUSTER \in 0 .. CLUSTER - 1
    BY <1>1, DivMod
  <2>3. (m % CLUSTER) + (k - 1) < CLUSTER /\ (m % CLUSTER) + k - 1 = (m % CLUSTER) + (k - 1)
    BY <1>1, <2>2
  <2>4. /\ (m + (k - 1)) \div CLUSTER = m \div CLUSTER
        /\ (m + (k - 1)) % CLUSTER = (m % CLUSTER) + (k - 1)
    BY <1>1, <2>1, <2>3, SameCluster
  <2> HIDE DEF lba
  <2>5. TrueBytes(e)[m + k] =
            <<lba(((m + k) - 1) \div CLUSTER + 1), ((m + k) - 1) % CLUSTER>>
    BY <2>1 DEF TrueBytes, lba
  <2> QED BY <2>1, <2>3, <2>4, <2>5
<1> HIDE DEF lba
<1>3. Bytes(lba(m \div CLUSTER + 1), m % CLUSTER, n)
          = [k \in 1 .. n |-> <<lba(m \div CLUSTER + 1), (m % CLUSTER) + k - 1>>]
  BY DEF Bytes
<1>4. Part(e, m, n) = [k \in 1 .. n |-> <<lba(m \div CLUSTER + 1), (m % CLUSTER) + k - 1>>]
  BY <1>2 DEF Part
<1> QED BY <1>3, <1>4 DEF lba

-----------------------------------------------------------------------------
(***************************************************************************)
(* What the steps do to what is read                                       *)
(***************************************************************************)

\* What a path names is what some path names, and its names are unique.
LEMMA NamedFacts ==
    ASSUME DiskIsSound, NEW path \in Paths, NEW k \in 1 .. Len(path), NEW e \in Named(path, k)
    PROVE  /\ e \in NamedEntries /\ e.first \in Nat /\ e.size \in Nat
           /\ e.name = FatName[path[k]]
           /\ \A f \in NamedEntries : f.name = e.name => f = e
<1>1. e \in NamedEntries
  BY DEF NamedEntries
<1>2. e.name = FatName[path[k]]
  BY DEF Named
<1> QED BY <1>1, <1>2 DEF DiskIsSound

\* The entry of a path is the only one of its last name.
LEMMA TrueEntryFacts ==
    ASSUME DiskIsSound, NEW path \in Paths, Len(path) \in Nat \ {0},
           NEW e \in Named(path, Len(path))
    PROVE  TrueEntry(path) = e
<1>1. Len(path) \in 1 .. Len(path)
  OBVIOUS
<1>2. TrueEntry(path) \in Named(path, Len(path))
  BY DEF TrueEntry
<1>3. /\ TrueEntry(path) \in NamedEntries
      /\ TrueEntry(path).name = FatName[path[Len(path)]]
  BY <1>1, <1>2, NamedFacts
<1>4. /\ e.name = FatName[path[Len(path)]]
      /\ \A f \in NamedEntries : f.name = e.name => f = e
  BY <1>1, NamedFacts
<1> QED BY <1>3, <1>4

\* What a call does to one process is nothing to another, if it leaves its
\* descriptor and what its vnode shows.
LEMMA OtherStays ==
    ASSUME NEW q \in Client, LooksRight(q), ReadsRight(q),
           act'[q] = act[q], got'[q] = got[q],
           HasFile(q) => /\ open'[act[q].fd] = open[act[q].fd]
                         /\ Shows(vnode'[open[act[q].fd].node], vnode[open[act[q].fd].node])
    PROVE  LooksRight(q)' /\ ReadsRight(q)'
<1>1. LooksRight(q)'
  BY DEF LooksRight
<1>2. HasFile(q)' <=> HasFile(q)
  BY DEF HasFile
<1>3. ASSUME HasFile(q) PROVE ReadsRight(q)'
  <2> DEFINE a == act[q]
             e == TrueEntry(a.path)
             file == open[a.fd]
  <2>1. /\ a.path \in Paths /\ a.path # <<>>
        /\ e \in Named(a.path, Len(a.path)) /\ ~e.dir
        /\ Shows(vnode[file.node], e)
        /\ file.position \in 0 .. e.size /\ got[q] = Part(e, 0, file.position)
        /\ a.at = "read" => Continues(a, e, file.position)
    BY <1>3 DEF ReadsRight
  <2>2. open'[a.fd] = file /\ Shows(vnode'[file.node], e)
    BY <1>3, <2>1 DEF Shows
  <2> HIDE DEF e
  <2>3. e = TrueEntry(act'[q].path)
    BY DEF e
  <2>4. open'[act'[q].fd] = file
    BY <2>2
  <2> HIDE DEF file
  <2> QED BY <2>1, <2>2, <2>3, <2>4 DEF ReadsRight
<1> QED BY <1>1, <1>2, <1>3 DEF ReadsRight

\* A process that is in no call has nothing to be right.
LEMMA IdleRight ==
    ASSUME NEW p \in Client, act'[p] = idle
    PROVE  LooksRight(p)' /\ ReadsRight(p)'
<1>1. idle.at = "idle"
  BY DEF idle
<1> QED BY <1>1 DEF LooksRight, ReadsRight, HasFile

\* Counting a descriptor changes nothing that a vnode shows.
LEMMA CountedShows ==
    ASSUME NEW x, NEW y, NEW n, DOMAIN x = DOMAIN free, y = [x EXCEPT !.ref_count = n]
    PROVE  DOMAIN y = DOMAIN free /\ Shows(y, x)
BY DEF free, Shows

\* The first cluster of a directory is in its chain.
LEMMA FirstInChain ==
    ASSUME NEW c \in Nat, c < EOC
    PROVE  c \in ToSet(TrueChain(c))
<1>1. ~(c >= EOC)
  BY FilesAssumption
<1>2. /\ Len(TrueChain(c)) \in Nat /\ DOMAIN TrueChain(c) = 1 .. Len(TrueChain(c))
      /\ Len(TrueChain(c)) > 0 /\ TrueChain(c)[1] = c
  BY <1>1, ChainFacts
<1> HIDE DEF TrueChain
<1>3. 1 \in DOMAIN TrueChain(c)
  BY <1>2
<1> QED BY <1>2, <1>3 DEF ToSet

\* VFS_open takes the first descriptor that is not in use, for the file of
\* its path.
LEMMA OpenedRight ==
    ASSUME DiskIsSound, FInv, RInv, NEW p \in Client, ~HasFile(p), NEW found,
           NEW path \in Paths, Len(path) \in Nat \ {0},
           DOMAIN found.vnode = Vnode, VnodesShow(found.vnode),
           \A fd \in Descriptor : open[fd].node # nil =>
               found.vnode[open[fd].node] = vnode[open[fd].node],
           found.node \in Vnode, found.vnode[found.node] # free,
           NEW e \in Named(path, Len(path)), ~e.dir, Shows(found.vnode[found.node], e),
           DOMAIN got' = Client, got'[p] = <<>>,
           \A q \in Client : q # p => got'[q] = got[q],
           Opened(p, found, path)
    PROVE  RInv'
<1> DEFINE unused == {fd \in Descriptor : open[fd].node = nil}
           new == Min(unused)
           v == found.node
           nodes == found.vnode
           a == [at |-> "open", fd |-> new, path |-> path]
<1>1. \A q \in Client : HasFile(q) =>
          /\ act[q].fd \in Descriptor /\ open[act[q].fd].node # nil
          /\ open[act[q].fd].node \in Vnode /\ vnode[open[act[q].fd].node] # free
  BY DEF FInv, OneOwner, CountsHolders
<1>2. CASE unused = {}
  <2>1. vnode' = nodes /\ act' = [act EXCEPT ![p] = idle] /\ open' = open
    BY <1>2 DEF Opened, Refused
  <2>2. act'[p] = idle /\ \A q \in Client : q # p => act'[q] = act[q]
    BY <2>1 DEF FInv, TablesOK
  <2>3. ASSUME NEW q \in Client, q # p PROVE LooksRight(q)' /\ ReadsRight(q)'
    <3>1. HasFile(q) => /\ open'[act[q].fd] = open[act[q].fd]
                        /\ Shows(vnode'[open[act[q].fd].node], vnode[open[act[q].fd].node])
      BY <1>1, <2>1 DEF Shows
    <3> QED BY <2>2, <2>3, <3>1, OtherStays DEF RInv
  <2>4. LooksRight(p)' /\ ReadsRight(p)'
    BY <2>2, IdleRight
  <2> QED BY <2>1, <2>3, <2>4 DEF RInv
<1>3. CASE unused # {}
  <2>1. new \in Descriptor /\ open[new].node = nil
    <3>1. unused \subseteq Nat
      BY SizeFacts
    <3> QED BY <1>3, <3>1, MinFacts
  <2>2. /\ vnode' = Counted(nodes, v)
        /\ open' = [open EXCEPT ![new] = [node |-> v, position |-> 0]]
        /\ act' = [act EXCEPT ![p] = a]
    BY <1>3 DEF Opened
  <2> HIDE DEF new
  <2>3. /\ open'[new] = [node |-> v, position |-> 0]
        /\ \A fd \in Descriptor : fd # new => open'[fd] = open[fd]
        /\ act'[p] = a /\ \A q \in Client : q # p => act'[q] = act[q]
        /\ \A w \in Vnode : w # v => vnode'[w] = nodes[w]
        /\ vnode'[v] = [nodes[v] EXCEPT !.ref_count = @ + 1]
    BY <2>1, <2>2 DEF FInv, TablesOK, Counted
  <2>4. DOMAIN vnode'[v] = DOMAIN free /\ Shows(vnode'[v], nodes[v])
    <3>1. DOMAIN nodes[v] = DOMAIN free
      BY DEF VnodesShow
    <3>2. vnode'[v] = [nodes[v] EXCEPT !.ref_count = nodes[v].ref_count + 1]
      BY <2>3
    <3> HIDE DEF nodes, v
    <3> QED BY <3>1, <3>2, CountedShows
  <2>5. \A w \in Vnode : Shows(vnode'[w], nodes[w])
    BY <2>3, <2>4 DEF Shows
  <2>6. VnodesShow(vnode')
    <3>1. ASSUME NEW w \in Vnode, vnode'[w] # free
          PROVE  DOMAIN vnode'[w] = DOMAIN free /\ \E f \in NamedEntries : Shows(vnode'[w], f)
      <4>1. nodes[w] # free /\ DOMAIN vnode'[w] = DOMAIN free
        BY <2>3, <2>4, <3>1 DEF VnodesShow
      <4>2. PICK f \in NamedEntries : Shows(nodes[w], f)
        BY <4>1 DEF VnodesShow
      <4>3. Shows(vnode'[w], f)
        BY <2>5, <4>2 DEF Shows
      <4> QED BY <4>1, <4>3
    <3> QED BY <3>1 DEF VnodesShow
  <2>7. ASSUME NEW q \in Client, q # p PROVE LooksRight(q)' /\ ReadsRight(q)'
    <3>1. ASSUME HasFile(q)
          PROVE  /\ open'[act[q].fd] = open[act[q].fd]
                 /\ Shows(vnode'[open[act[q].fd].node], vnode[open[act[q].fd].node])
      <4>1. /\ act[q].fd # new /\ act[q].fd \in Descriptor
            /\ open[act[q].fd].node \in Vnode
            /\ nodes[open[act[q].fd].node] = vnode[open[act[q].fd].node]
        BY <1>1, <2>1, <3>1
      <4> QED BY <2>3, <2>5, <4>1
    <3> QED BY <2>3, <2>7, <3>1, OtherStays DEF RInv
  <2>8. a.at = "open" /\ a.fd = new /\ a.path = path
    OBVIOUS
  <2> HIDE DEF a
  <2>9. LooksRight(p)'
    BY <2>3, <2>8 DEF LooksRight
  <2>10. ReadsRight(p)'
    <3>1. Len(path) \in 1 .. Len(path)
      OBVIOUS
    <3>2. TrueEntry(path) = e /\ e.size \in Nat
      BY <3>1, TrueEntryFacts, NamedFacts
    <3>3. path # <<>>
      OBVIOUS
    <3>4. Shows(vnode'[v], e)
      BY <2>4 DEF Shows
    <3>5. got'[p] = Part(e, 0, 0)
      <4>1. Part(e, 0, 0) = <<>>
        BY DEF Part
      <4> QED BY <4>1
    <3>6. open'[new].node = v /\ open'[new].position = 0
      BY <2>3
    <3>7. 0 \in 0 .. e.size
      BY <3>2
    <3> QED BY <2>3, <2>8, <3>2, <3>3, <3>4, <3>5, <3>6, <3>7 DEF ReadsRight
  <2> QED BY <2>6, <2>7, <2>9, <2>10 DEF RInv
<1> QED BY <1>2, <1>3

\* One turn of the loop of lookup_path_name keeps what is read right.
LEMMA ReachedRight ==
    ASSUME DiskIsSound, FInv, RInv, NEW p \in Client, ~HasFile(p), NEW found,
           NEW path \in Paths, Len(path) \in Nat, NEW k \in 1 .. Len(path) + 1,
           DOMAIN found.vnode = Vnode, VnodesShow(found.vnode),
           \A fd \in Descriptor : open[fd].node # nil =>
               found.vnode[open[fd].node] = vnode[open[fd].node],
           found.node = root => k = 1,
           found.node \notin {nil, root} =>
               /\ found.node \in Vnode /\ found.vnode[found.node] # free
               /\ k > 1 /\ \E e \in Named(path, k - 1) : Shows(found.vnode[found.node], e),
           DOMAIN got' = Client, got'[p] = <<>>,
           \A q \in Client : q # p => got'[q] = got[q],
           Reached(p, found, SubSeq(path, k, Len(path)), path)
    PROVE  RInv'
<1> DEFINE v == found.node
           names == SubSeq(path, k, Len(path))
           isDir == v = root \/ (v # nil /\ found.vnode[v].dir)
           place == IF v = root THEN RootLba ELSE found.vnode[v].first
           a == [at |-> "lookup", node |-> v, place |-> place, names |-> names,
                 path |-> path]
<1>1. names # <<>> <=> k # Len(path) + 1
  <2>1. path \in Seq(DOMAIN FatName)
    BY FilesAssumption
  <2>2. Len(names) = Len(path) - k + 1
    BY <2>1, PartItems
  <2>3. names \in Seq(DOMAIN FatName)
    BY <2>1, PartItems
  <2> HIDE DEF names
  <2> QED BY <2>2, <2>3
<1>2. ASSUME act' = [act EXCEPT ![p] = a] \/ act' = [act EXCEPT ![p] = idle],
             vnode' = found.vnode, open' = open, LooksRight(p)', ReadsRight(p)'
      PROVE  RInv'
  <2>1. \A q \in Client : q # p => act'[q] = act[q]
    BY <1>2 DEF FInv, TablesOK
  <2>2. ASSUME NEW q \in Client, q # p PROVE LooksRight(q)' /\ ReadsRight(q)'
    <3>1. HasFile(q) => /\ act[q].fd \in Descriptor /\ open[act[q].fd].node # nil
      BY DEF FInv, OneOwner
    <3>2. HasFile(q) => /\ open'[act[q].fd] = open[act[q].fd]
                        /\ Shows(vnode'[open[act[q].fd].node], vnode[open[act[q].fd].node])
      BY <1>2, <3>1 DEF Shows
    <3> QED BY <2>1, <2>2, <3>2, OtherStays DEF RInv
  <2> QED BY <1>2, <2>2 DEF RInv
<1>3. CASE /\ names # <<>> /\ isDir /\ (v = root \/ place < EOC)
           /\ act' = [act EXCEPT ![p] = a] /\ vnode' = found.vnode /\ open' = open
  <2>1. act'[p] = a
    BY <1>3 DEF FInv, TablesOK
  <2>2. k \in 1 .. Len(path)
    BY <1>1, <1>3
  <2>3. Within(path, k, v, place)
    <3>1. CASE v = root
      <4>1. {RESERVED, FATSIZE, COPIES} \subseteq Nat /\ ROOTSIZE \in Nat \ {0}
        BY FilesAssumption
      <4>2. RootLba \in RootLba .. RootLba + ROOTSIZE - 1
        BY <4>1 DEF RootLba
      <4> QED BY <3>1, <4>2 DEF Within
    <3>2. CASE v # root
      <4>1. v # nil /\ k > 1 /\ k - 1 \in 1 .. Len(path)
        BY <1>3, <2>2, <3>2
      <4>2. PICK e \in Named(path, k - 1) : Shows(found.vnode[v], e)
        BY <3>2, <4>1
      <4>3. e.dir /\ place = e.first /\ e.first < EOC
        BY <1>3, <3>2, <4>2 DEF Shows
      <4>4. e.first \in Nat
        BY <4>1, NamedFacts
      <4> HIDE DEF v, place
      <4>5. place \in ToSet(TrueChain(e.first))
        BY <4>3, <4>4, FirstInChain
      <4> QED BY <3>2, <4>1, <4>3, <4>5 DEF Within
    <3> QED BY <3>1, <3>2
  <2>4. /\ DOMAIN a = {"at", "node", "place", "names", "path"}
        /\ a.path = path /\ a.names = names /\ a.node = v /\ a.place = place
        /\ a.at = "lookup"
    OBVIOUS
  <2>5. got'[p] = <<>>
    OBVIOUS
  <2> HIDE DEF a, v, place
  <2>6. LooksRight(p)'
    BY <2>1, <2>2, <2>3, <2>4, <2>5 DEF LooksRight
  <2>7. ReadsRight(p)'
    BY <2>1, <2>4 DEF ReadsRight, HasFile
  <2> QED BY <1>2, <1>3, <2>6, <2>7
<1>4. CASE names = <<>> /\ v # nil /\ ~isDir /\ Opened(p, found, path)
  <2>1. k = Len(path) + 1 /\ k > 1 /\ v # root
    BY <1>1, <1>4
  <2>2. Len(path) \in Nat \ {0} /\ k - 1 = Len(path)
    BY <2>1
  <2>3. PICK e \in Named(path, Len(path)) : Shows(found.vnode[v], e)
    BY <1>4, <2>1, <2>2
  <2>4. ~e.dir
    BY <1>4, <2>3 DEF Shows
  <2>5. v \in Vnode /\ found.vnode[v] # free
    BY <1>4, <2>1
  <2> QED BY <1>4, <2>2, <2>3, <2>4, <2>5, OpenedRight
<1>5. CASE vnode' = found.vnode /\ Refused(p)
  <2>1. act' = [act EXCEPT ![p] = idle] /\ open' = open /\ act'[p] = idle
    BY <1>5 DEF Refused, FInv, TablesOK
  <2>2. LooksRight(p)' /\ ReadsRight(p)'
    BY <2>1, IdleRight
  <2> QED BY <1>2, <1>5, <2>1, <2>2
<1>6. \/ /\ names # <<>> /\ isDir /\ (v = root \/ place < EOC)
         /\ act' = [act EXCEPT ![p] = a] /\ vnode' = found.vnode /\ open' = open
      \/ names = <<>> /\ v # nil /\ ~isDir /\ Opened(p, found, path)
      \/ vnode' = found.vnode /\ Refused(p)
  BY Zenon DEF Reached
<1> QED BY <1>3, <1>4, <1>5, <1>6

\* VFS_open starts at the root.
LEMMA OpenRight ==
    ASSUME DiskIsSound, FInv, RInv, NEW p \in Client, VFS_open(p)
    PROVE  RInv'
<1>1. ~HasFile(p) /\ act[p] = idle
  BY DEF VFS_open, idle, HasFile
<1>2. /\ DOMAIN got' = Client /\ got'[p] = <<>>
      /\ \A q \in Client : q # p => got'[q] = got[q]
  BY DEF VFS_open, RInv
<1>3. ASSUME NEW path \in Paths, Reached(p, Unchanged, path, path) PROVE RInv'
  <2>1. /\ Unchanged.node = root /\ Unchanged.vnode = vnode /\ Unchanged.cache = cache
    BY DEF Unchanged
  <2>2. path \in Seq(DOMAIN FatName) /\ Len(path) \in Nat
    BY FilesAssumption
  <2>3. 1 \in 1 .. Len(path) + 1 /\ SubSeq(path, 1, Len(path)) = path
    BY <2>2
  <2>4. Reached(p, Unchanged, SubSeq(path, 1, Len(path)), path)
    BY <1>3, <2>3
  <2>5. DOMAIN vnode = Vnode /\ VnodesShow(vnode)
    BY DEF FInv, TablesOK, RInv
  <2> QED BY <1>1, <1>2, <2>1, <2>2, <2>3, <2>4, <2>5, ReachedRight
<1>4. CASE UNCHANGED <<vnode, cache, open, act>>
  <2>1. ASSUME NEW q \in Client PROVE LooksRight(q)' /\ ReadsRight(q)'
    <3>1. CASE q = p
      BY <1>1, <1>4, <3>1, IdleRight
    <3>2. CASE q # p
      <4>1. HasFile(q) => /\ open'[act[q].fd] = open[act[q].fd]
                          /\ Shows(vnode'[open[act[q].fd].node], vnode[open[act[q].fd].node])
        BY <1>4 DEF Shows
      <4> QED BY <1>2, <1>4, <3>2, <4>1, OtherStays DEF RInv
    <3> QED BY <3>1, <3>2
  <2> QED BY <1>2, <1>4, <2>1 DEF RInv
<1> QED BY <1>3, <1>4 DEF VFS_open

\* The sector a lookup reads is of the directory its next name is in.
LEMMA WithinSector ==
    ASSUME NEW path \in Paths, NEW k \in 1 .. Len(path), Len(path) \in Nat,
           NEW node, NEW place, Within(path, k, node, place)
    PROVE  (IF node = root THEN place ELSE cluster_to_Lba(place)) \in Directories(path)[k - 1]
<1>1. CASE node = root
  <2>1. k - 1 = 0 /\ place \in RootLba .. RootLba + ROOTSIZE - 1
    BY <1>1 DEF Within
  <2>2. Directories(path)[0] = RootLba .. RootLba + ROOTSIZE - 1
    BY DirectoriesFacts
  <2> QED BY <1>1, <2>1, <2>2
<1>2. CASE node # root
  <2>1. k - 1 \in 1 .. Len(path)
    BY <1>2 DEF Within
  <2>2. PICK e \in Named(path, k - 1) : e.dir /\ place \in ToSet(TrueChain(e.first))
    BY <1>2 DEF Within
  <2>3. cluster_to_Lba(place) \in SectorsOf(e)
    BY <2>2 DEF SectorsOf
  <2>4. Directories(path)[k - 1] =
            UNION {SectorsOf(f) : f \in {f \in Named(path, k - 1) : f.dir}}
    BY <2>1, DirectoriesFacts
  <2>5. cluster_to_Lba(place) \in Directories(path)[k - 1]
    BY <2>2, <2>3, <2>4
  <2> QED BY <1>2, <2>5
<1> QED BY <1>1, <1>2

\* Behind a sector of a directory comes another of it.
LEMMA WithinNext ==
    ASSUME DiskIsSound, NEW path \in Paths, NEW k \in 1 .. Len(path), Len(path) \in Nat,
           NEW node, NEW place, NEW next, Within(path, k, node, place),
           next = IF node = root THEN place + 1 ELSE get_next_cluster(place),
           next < IF node = root THEN RootLba + ROOTSIZE ELSE EOC
    PROVE  Within(path, k, node, next)
<1>1. {RESERVED, EOC} \subseteq Nat /\ {FATSIZE, COPIES, ROOTSIZE} \subseteq Nat
  BY FilesAssumption
<1>2. CASE node = root
  <2>1. RootLba \in Int
    BY <1>1 DEF RootLba
  <2>2. k = 1 /\ place \in RootLba .. RootLba + ROOTSIZE - 1
    BY <1>2 DEF Within
  <2>3. next \in RootLba .. RootLba + ROOTSIZE - 1
    BY <1>1, <1>2, <2>1, <2>2
  <2> QED BY <1>2, <2>2, <2>3 DEF Within
<1>3. CASE node # root
  <2>1. k > 1 /\ k - 1 \in 1 .. Len(path)
    BY <1>3 DEF Within
  <2>2. PICK e \in Named(path, k - 1) : e.dir /\ place \in ToSet(TrueChain(e.first))
    BY <1>3 DEF Within
  <2> DEFINE s == TrueChain(e.first)
  <2>3. e \in NamedEntries
    BY <2>1, NamedFacts
  <2>4. /\ s # <<>> => TrueNext(Last(s)) >= EOC
        /\ \A c \in ToSet(s) : get_next_cluster(c) = TrueNext(c)
    BY <2>2, <2>3 DEF DiskIsSound
  <2>5. Len(s) \in Nat /\ DOMAIN s = 1 .. Len(s)
    BY ChainFacts
  <2>6. \A i \in 1 .. Len(s) : /\ get_next_cluster(s[i]) \in Nat
                               /\ i < Len(s) => get_next_cluster(s[i]) = s[i + 1]
    BY <2>3, SoundChain
  <2>7. place \in ToSet(s)
    BY <2>2
  <2> HIDE DEF s
  <2>8. PICK j \in 1 .. Len(s) : s[j] = place
    BY <2>5, <2>7 DEF ToSet
  <2>9. next \in Nat /\ next < EOC /\ next = get_next_cluster(s[j])
    BY <1>3, <2>6, <2>8
  <2>10. j # Len(s)
    <3> SUFFICES ASSUME j = Len(s) PROVE FALSE
      OBVIOUS
    <3>1. s # <<>>
      BY <2>5, <2>8
    <3>2. Last(s) = place
      BY <2>8 DEF Last
    <3>3. next >= EOC
      BY <2>4, <2>7, <2>8, <2>9, <3>1, <3>2
    <3> QED BY <1>1, <2>9, <3>3
  <2>11. j < Len(s) /\ j + 1 \in DOMAIN s
    <3>0. Len(s) \in Nat
      BY <2>5
    <3>1. j < Len(s) /\ j + 1 \in 1 .. Len(s)
      BY <3>0, <2>10
    <3> QED BY <2>5, <3>1
  <2>12. next = s[j + 1]
    BY <2>6, <2>9, <2>11
  <2>13. next \in ToSet(s)
    BY <2>11, <2>12 DEF ToSet
  <2> QED BY <1>3, <2>1, <2>2, <2>13 DEF Within, s
<1> QED BY <1>2, <1>3

\* create_vnode returns a vnode of the entry it was given: the cache has no
\* other of that name.
LEMMA CreatedRight ==
    ASSUME DiskIsSound, FInv, VnodesShow(vnode), NEW e \in NamedEntries
    PROVE  LET c == Created(e)
           IN  VnodesShow(c.vnode) /\ (c.node # nil => Shows(c.vnode[c.node], e))
<1> DEFINE c == Created(e)
<1>1. /\ c.node # nil => /\ c.node \in Vnode /\ c.vnode[c.node] # free
                         /\ c.vnode[c.node].name = e.name
      /\ \A v \in Vnode : c.vnode[v] \in {vnode[v], free, Fresh(e)}
  BY CreatedFacts
<1> HIDE DEF c
<1>2. DOMAIN Fresh(e) = DOMAIN free /\ Shows(Fresh(e), e)
  BY DEF Fresh, free, Shows
<1>3. VnodesShow(c.vnode)
  <2>1. ASSUME NEW v \in Vnode, c.vnode[v] # free
        PROVE  DOMAIN c.vnode[v] = DOMAIN free /\ \E f \in NamedEntries : Shows(c.vnode[v], f)
    <3>1. CASE c.vnode[v] = vnode[v]
      BY <2>1, <3>1 DEF VnodesShow
    <3>2. CASE c.vnode[v] = Fresh(e)
      BY <1>2, <3>2
    <3> QED BY <1>1, <2>1, <3>1, <3>2
  <2> QED BY <2>1 DEF VnodesShow
<1>4. ASSUME c.node # nil PROVE Shows(c.vnode[c.node], e)
  <2>1. PICK f \in NamedEntries : Shows(c.vnode[c.node], f)
    BY <1>1, <1>3, <1>4 DEF VnodesShow
  <2>2. f.name = e.name
    BY <1>1, <1>4, <2>1 DEF Shows
  <2>3. f = e
    BY <2>2 DEF DiskIsSound
  <2> QED BY <2>1, <2>3
<1> QED BY <1>3, <1>4 DEF c

\* fat12_lookup goes on in its directory, or to what the name is there.
LEMMA LookupRight ==
    ASSUME DiskIsSound, FInv, RInv, NEW p \in Client, LookupSector(p)
    PROVE  RInv'
<1> DEFINE a == act[p]
           path == a.path
           n == Len(path)
           sector == IF a.node = root THEN a.place ELSE cluster_to_Lba(a.place)
           hits == {i \in DOMAIN Disk[sector] : Disk[sector][i].name = FatName[Head(a.names)]}
           next == IF a.node = root THEN a.place + 1 ELSE get_next_cluster(a.place)
           more == next < IF a.node = root THEN RootLba + ROOTSIZE ELSE EOC
<1>1. a.at = "lookup" /\ ~HasFile(p) /\ got' = got
  <2>1. a.at = "lookup" /\ got' = got
    BY Zenon DEF LookupSector
  <2> QED BY <2>1 DEF HasFile
<1>2. /\ DOMAIN a = {"at", "node", "place", "names", "path"}
      /\ path \in Paths /\ got[p] = <<>>
  BY <1>1 DEF RInv, LooksRight
<1>3. PICK k \in 1 .. n : a.names = SubSeq(path, k, n) /\ Within(path, k, a.node, a.place)
  BY <1>1 DEF RInv, LooksRight
<1>4. path \in Seq(DOMAIN FatName) /\ n \in Nat
  BY <1>2, FilesAssumption
<1>5. k + 1 \in 1 .. n + 1 /\ Head(a.names) = path[k] /\ Tail(a.names) = SubSeq(path, k + 1, n)
  <2> HIDE DEF a, path, n
  <2>0. n = Len(path)
    BY DEF n
  <2>1. k \in 1 .. Len(path) + 1 /\ n \in k - 1 .. Len(path)
    BY <1>4, <2>0
  <2>2. /\ Len(a.names) = n - k + 1 /\ a.names \in Seq(DOMAIN FatName)
        /\ \A i \in 1 .. n - k + 1 : a.names[i] = path[k + i - 1]
    BY <1>3, <1>4, <2>1, PartItems
  <2>3. a.names # <<>>
    BY <1>4, <2>2
  <2>4. Head(a.names) = path[k]
    BY <1>4, <2>2, <2>3
  <2> DEFINE t == SubSeq(path, k + 1, n)
  <2>5. k + 1 \in 1 .. Len(path) + 1 /\ n \in (k + 1) - 1 .. Len(path)
    BY <1>4, <2>0
  <2>6. /\ t \in Seq(DOMAIN FatName) /\ Len(t) = n - (k + 1) + 1
        /\ \A i \in 1 .. n - (k + 1) + 1 : t[i] = path[(k + 1) + i - 1]
    BY <1>4, <2>5, PartItems
  <2> HIDE DEF t
  <2>7. /\ Tail(a.names) \in Seq(DOMAIN FatName) /\ Len(Tail(a.names)) = n - k
        /\ \A i \in 1 .. n - k : Tail(a.names)[i] = a.names[i + 1]
    <3> DEFINE names == a.names
    <3>1. names \in Seq(DOMAIN FatName) /\ names # <<>> /\ Len(names) - 1 = n - k
      BY <1>4, <2>2, <2>3
    <3> HIDE DEF names
    <3>2. /\ Tail(names) \in Seq(DOMAIN FatName) /\ Len(Tail(names)) = Len(names) - 1
          /\ \A i \in 1 .. Len(names) - 1 : Tail(names)[i] = names[i + 1]
      BY <3>1, HeadTailProperties
    <3> QED BY <3>1, <3>2 DEF names
  <2>8. ASSUME NEW i \in 1 .. n - k PROVE Tail(a.names)[i] = t[i]
    <3>1. /\ i + 1 \in 1 .. n - k + 1 /\ i \in 1 .. n - (k + 1) + 1
          /\ k + (i + 1) - 1 = (k + 1) + i - 1
      BY <1>4
    <3> QED BY <2>2, <2>6, <2>7, <3>1
  <2>9. n - (k + 1) + 1 = n - k
    BY <1>4
  <2>10. Tail(a.names) = t
    BY <2>6, <2>7, <2>8, <2>9, SeqEqual
  <2> QED BY <1>4, <2>4, <2>10 DEF t
<1>6. sector \in Directories(path)[k - 1]
  BY <1>2, <1>3, <1>4, WithinSector
<1>7. ASSUME act' = [act EXCEPT ![p].place = next] \/ Refused(p) \/ UNCHANGED act,
             UNCHANGED <<vnode, open>>, LooksRight(p)', ReadsRight(p)'
      PROVE  RInv'
  <2>1. \A q \in Client : q # p => act'[q] = act[q]
    BY <1>7 DEF FInv, TablesOK, Refused
  <2>2. ASSUME NEW q \in Client, q # p PROVE LooksRight(q)' /\ ReadsRight(q)'
    <3>1. HasFile(q) => /\ open'[act[q].fd] = open[act[q].fd]
                        /\ Shows(vnode'[open[act[q].fd].node], vnode[open[act[q].fd].node])
      BY <1>7 DEF Shows
    <3> QED BY <1>1, <2>1, <2>2, <3>1, OtherStays DEF RInv
  <2> QED BY <1>1, <1>7, <2>2 DEF RInv
<1>8. CASE hits # {} /\ Reached(p, Created(Disk[sector][Min(hits)]), Tail(a.names), path)
  <2> DEFINE e == Disk[sector][Min(hits)]
             c == Created(e)
  <2>1. e \in Named(path, k)
    <3>1. Disk[sector] \in Seq(ToSet(Disk[sector]))
      BY <1>2, <1>6 DEF DiskIsSound
    <3> HIDE DEF sector
    <3>2. /\ hits \subseteq DOMAIN Disk[sector] /\ DOMAIN Disk[sector] \subseteq Nat
          /\ \A i \in hits : Disk[sector][i].name = FatName[Head(a.names)]
      BY <3>1
    <3> HIDE DEF hits
    <3>3. Min(hits) \in hits
      BY <1>8, <3>2, MinFacts
    <3>4. e.name = FatName[path[k]] /\ e \in ToSet(Disk[sector])
      <4> DEFINE j == Min(hits)
      <4>1. j \in DOMAIN Disk[sector] /\ Disk[sector][j].name = FatName[Head(a.names)]
        BY <3>2, <3>3
      <4> HIDE DEF j
      <4>2. Disk[sector][j] \in ToSet(Disk[sector])
        BY <4>1 DEF ToSet
      <4> QED BY <1>5, <4>1, <4>2, Zenon DEF j
    <3> HIDE DEF e
    <3>5. e \in EntriesOf(Directories(path)[k - 1])
      BY <1>6, <3>4 DEF EntriesOf
    <3> QED BY <3>4, <3>5 DEF Named
  <2> HIDE DEF e, sector
  <2>2. e \in NamedEntries
    BY <1>2, <2>1, NamedFacts
  <2>3. VnodesShow(c.vnode) /\ (c.node # nil => Shows(c.vnode[c.node], e))
    BY <2>2, CreatedRight DEF RInv
  <2>4. /\ DOMAIN c.vnode = Vnode
        /\ c.node # nil => c.node \in Vnode /\ c.vnode[c.node] # free
        /\ \A fd \in Descriptor : open[fd].node # nil =>
               c.vnode[open[fd].node] = vnode[open[fd].node]
    BY CreatedFacts
  <2>5. c.node # root
    BY <2>4, SizeFacts
  <2>6. k + 1 > 1 /\ (k + 1) - 1 = k
    BY <1>4
  <2>7. Reached(p, c, SubSeq(path, k + 1, n), path)
    BY <1>5, <1>8 DEF e
  <2>8. DOMAIN got' = Client /\ got'[p] = <<>> /\ \A q \in Client : q # p => got'[q] = got[q]
    BY <1>1, <1>2 DEF RInv
  <2> HIDE DEF c, path
  <2>9. c.node \notin {nil, root} =>
            /\ c.node \in Vnode /\ c.vnode[c.node] # free
            /\ k + 1 > 1 /\ \E f \in Named(path, (k + 1) - 1) : Shows(c.vnode[c.node], f)
    BY <2>1, <2>3, <2>4, <2>6
  <2> QED BY <1>1, <1>2, <1>4, <1>5, <2>3, <2>4, <2>5, <2>7, <2>8, <2>9, ReachedRight
<1>9. CASE UNCHANGED <<vnode, cache, open, act>>
  <2>1. LooksRight(p)' /\ ReadsRight(p)'
    BY <1>1, <1>9 DEF RInv, LooksRight, ReadsRight, HasFile
  <2> QED BY <1>7, <1>9, <2>1
<1>10. CASE more /\ act' = [act EXCEPT ![p].place = next] /\ UNCHANGED <<vnode, cache, open>>
  <2>1. Within(path, k, a.node, next)
    BY <1>2, <1>3, <1>4, <1>10, WithinNext
  <2>2. act'[p] = [a EXCEPT !.place = next]
    BY <1>10 DEF FInv, TablesOK
  <2> HIDE DEF next
  <2>3. /\ DOMAIN act'[p] = {"at", "node", "place", "names", "path"}
        /\ act'[p].at = "lookup" /\ act'[p].path = path /\ act'[p].names = a.names
        /\ act'[p].node = a.node /\ act'[p].place = next
    BY <1>1, <1>2, <2>2
  <2>4. LooksRight(p)'
    BY <1>1, <1>2, <1>3, <2>1, <2>3 DEF LooksRight
  <2>5. ReadsRight(p)'
    BY <2>3 DEF ReadsRight, HasFile
  <2> QED BY <1>7, <1>10, <2>4, <2>5
<1>11. CASE Refused(p) /\ UNCHANGED <<vnode, cache>>
  <2>1. act'[p] = idle /\ open' = open
    BY <1>11 DEF Refused, FInv, TablesOK
  <2> QED BY <1>7, <1>11, <2>1, IdleRight
<1> QED BY <1>8, <1>9, <1>10, <1>11, Zenon DEF LookupSector

\* A step of a process that reads or closes its file, and what it has to keep.
LEMMA FileStep ==
    ASSUME FInv, RInv, NEW p \in Client, HasFile(p),
           \A q \in Client : q # p => act'[q] = act[q] /\ got'[q] = got[q],
           \A fd \in Descriptor : fd # act[p].fd => open'[fd] = open[fd],
           VnodesShow(vnode'), \A v \in Vnode : vnode[v] # free => Shows(vnode'[v], vnode[v]),
           DOMAIN got' = Client, LooksRight(p)', ReadsRight(p)'
    PROVE  RInv'
<1>1. ASSUME NEW q \in Client, q # p PROVE LooksRight(q)' /\ ReadsRight(q)'
  <2>1. HasFile(q) => /\ act[q].fd \in Descriptor /\ act[q].fd # act[p].fd
                      /\ open[act[q].fd].node \in Vnode /\ vnode[open[act[q].fd].node] # free
    BY <1>1 DEF FInv, OneOwner, CountsHolders
  <2>2. HasFile(q) => /\ open'[act[q].fd] = open[act[q].fd]
                      /\ Shows(vnode'[open[act[q].fd].node], vnode[open[act[q].fd].node])
    BY <2>1
  <2> QED BY <1>1, <2>2, OtherStays DEF RInv
<1> QED BY <1>1 DEF RInv

\* fat12_read finds the first cluster it reads.
LEMMA ReadRight ==
    ASSUME DiskIsSound, FInv, RInv, NEW p \in Client, VFS_read(p)
    PROVE  RInv'
<1> DEFINE fd == act[p].fd
           v == vnode[open[fd].node]
           m == open[fd].position
           path == act[p].path
           e == TrueEntry(path)
           s == TrueChain(e.first)
<1>1. HasFile(p) /\ fd \in Descriptor
  BY DEF VFS_read, HasFile, FInv, OneOwner
<1>2. /\ path \in Paths /\ path # <<>> /\ e \in Named(path, Len(path)) /\ ~e.dir
      /\ Shows(v, e) /\ m \in 0 .. e.size /\ got[p] = Part(e, 0, m)
  BY <1>1 DEF RInv, ReadsRight
<1>3. PICK size \in Sizes :
          /\ m < v.size
          /\ act' = [act EXCEPT ![p] = [at |-> "read", fd |-> fd, path |-> path,
                 cluster |-> Skip(v.first, m \div CLUSTER), offset |-> m % CLUSTER,
                 size |-> IF m + size > v.size THEN v.size - m ELSE size, bytes |-> <<>>]]
  BY Zenon DEF VFS_read
<1>4. Len(path) \in 1 .. Len(path) /\ Len(path) \in Nat
  <2>1. path \in Seq(DOMAIN FatName)
    BY <1>2, FilesAssumption
  <2> HIDE DEF path
  <2> QED BY <1>2, <2>1
<1> HIDE DEF fd, v, m, path, e
<1>5. e \in NamedEntries /\ e.first \in Nat /\ e.size \in Nat
  BY <1>2, <1>4, NamedFacts
<1>6. v.first = e.first /\ v.size = e.size /\ m \in Nat /\ m < e.size
  BY <1>2, <1>3, <1>5 DEF Shows
<1>7. CLUSTER \in Nat \ {0} /\ size \in Nat \ {0}
  BY FilesAssumption
<1>8. m \div CLUSTER \in Nat /\ m \div CLUSTER < Len(s)
  <2>1. e.size <= Len(s) * CLUSTER
    BY <1>2, <1>5 DEF DiskIsSound
  <2>2. Len(s) \in Nat
    BY ChainFacts
  <2> HIDE DEF s
  <2>3. Len(s) * CLUSTER \in Nat
    BY <1>7, <2>2
  <2>4. 0 * CLUSTER <= m /\ m < Len(s) * CLUSTER
    BY <1>5, <1>6, <1>7, <2>1, <2>3
  <2> QED BY <1>6, <1>7, <2>2, <2>4, DivMod, DivBetween
<1>9. Skip(v.first, m \div CLUSTER) = s[m \div CLUSTER + 1]
  BY <1>5, <1>6, <1>8, SkipFacts
<1> HIDE DEF s
<1> DEFINE left == IF m + size > v.size THEN v.size - m ELSE size
           a == [at |-> "read", fd |-> fd, path |-> path, cluster |-> s[m \div CLUSTER + 1],
                 offset |-> m % CLUSTER, size |-> left, bytes |-> <<>>]
<1>10. left \in Nat \ {0} /\ m + left <= e.size
  BY <1>5, <1>6, <1>7
<1> HIDE DEF left
<1>11. /\ DOMAIN a = {"at", "fd", "path", "cluster", "offset", "size", "bytes"}
       /\ a.at = "read" /\ a.fd = fd /\ a.path = path /\ a.cluster = s[m \div CLUSTER + 1]
       /\ a.offset = m % CLUSTER /\ a.size = left /\ a.bytes = <<>>
  OBVIOUS
<1>12. act' = [act EXCEPT ![p] = a]
  BY <1>3, <1>9 DEF left
<1> HIDE DEF a
<1>13. Continues(a, e, m)
  <2>1. Len(a.bytes) = 0 /\ m + 0 = m
    BY <1>6, <1>11
  <2>2. Part(e, m, 0) = <<>>
    BY DEF Part
  <2> QED BY <1>10, <1>11, <2>1, <2>2 DEF Continues, s
<1>14. /\ act'[p] = a /\ open' = open /\ got' = got /\ vnode' = vnode
       /\ \A q \in Client : q # p => act'[q] = act[q]
  BY <1>12 DEF VFS_read, FInv, TablesOK
<1>15. LooksRight(p)'
  BY <1>11, <1>14 DEF LooksRight
<1>16. ReadsRight(p)'
  <2>1. vnode'[open'[fd].node] = v /\ open'[fd].position = m
    BY <1>14 DEF v, m
  <2> QED BY <1>2, <1>11, <1>13, <1>14, <2>1 DEF ReadsRight, e
<1>17. /\ VnodesShow(vnode') /\ \A w \in Vnode : Shows(vnode'[w], vnode[w])
       /\ DOMAIN got' = Client
  BY <1>14 DEF RInv, Shows
<1> QED BY <1>1, <1>14, <1>15, <1>16, <1>17, FileStep

\* fat12_read goes on with the next cluster of the file, or returns with the
\* bytes of those it read.
LEMMA ReadClusterRight ==
    ASSUME DiskIsSound, FInv, RInv, NEW p \in Client, ReadCluster(p)
    PROVE  RInv'
<1> DEFINE a == act[p]
           path == a.path
           e == TrueEntry(path)
           s == TrueChain(e.first)
           m == open[a.fd].position
           l == Len(a.bytes)
           n == Min({CLUSTER - a.offset, a.size})
           bytes == a.bytes \o Bytes(cluster_to_Lba(a.cluster), a.offset, n)
           next == get_next_cluster(a.cluster)
<1>1. a.at = "read" /\ HasFile(p) /\ a.fd \in Descriptor /\ vnode' = vnode
  BY DEF ReadCluster, HasFile, FInv, OneOwner
<1>2. /\ path \in Paths /\ path # <<>> /\ e \in Named(path, Len(path)) /\ ~e.dir
      /\ Shows(vnode[open[a.fd].node], e)
      /\ m \in 0 .. e.size /\ got[p] = Part(e, 0, m)
      /\ Continues(a, e, m)
  BY <1>1 DEF RInv, ReadsRight
<1>3. Len(path) \in 1 .. Len(path) /\ Len(path) \in Nat
  <2>1. path \in Seq(DOMAIN FatName)
    BY <1>2, FilesAssumption
  <2> HIDE DEF path
  <2> QED BY <1>2, <2>1
<1> HIDE DEF path, e, m
<1>4. e \in NamedEntries /\ e.size \in Nat
  BY <1>2, <1>3, NamedFacts
<1>5. /\ DOMAIN a = {"at", "fd", "path", "cluster", "offset", "size", "bytes"}
      /\ l \in Nat /\ a.bytes = Part(e, m, l)
      /\ a.size \in Nat \ {0} /\ m + l + a.size <= e.size
      /\ a.offset = (m + l) % CLUSTER
      /\ a.cluster = s[(m + l) \div CLUSTER + 1]
  BY <1>2 DEF Continues
<1>6. CLUSTER \in Nat \ {0} /\ m \in Nat /\ m + l \in Nat
  BY <1>2, <1>4, <1>5, FilesAssumption
<1>7. a.offset \in 0 .. CLUSTER - 1 /\ (m + l) \div CLUSTER \in Nat
  BY <1>5, <1>6, DivMod
<1>8. n \in Nat \ {0} /\ n <= CLUSTER - a.offset /\ n <= a.size
      /\ n \in {CLUSTER - a.offset, a.size}
  <2> DEFINE I == {CLUSTER - a.offset, a.size}
  <2>1. I \subseteq Nat /\ I # {} /\ \A i \in I : i # 0
    <3>1. CLUSTER - a.offset \in Nat \ {0}
      BY <1>6, <1>7
    <3>2. a.size \in Nat \ {0}
      BY <1>5
    <3> QED BY <3>1, <3>2
  <2>2. n \in I /\ \A i \in I : n <= i
    <3> HIDE DEF I
    <3>1. Min(I) \in I /\ \A i \in I : Min(I) <= i
      BY <2>1, MinFacts
    <3> QED BY <3>1 DEF I
  <2> HIDE DEF n
  <2>3. n <= CLUSTER - a.offset /\ n <= a.size
    BY <2>2
  <2> QED BY <2>1, <2>2, <2>3
<1> HIDE DEF n
<1>9. bytes = Part(e, m, l + n)
  <2>1. Bytes(cluster_to_Lba(s[(m + l) \div CLUSTER + 1]), (m + l) % CLUSTER, n) = Part(e, m + l, n)
    <3> HIDE DEF a, l, s
    <3>1. a.offset + n <= CLUSTER /\ n \in Nat
      BY <1>6, <1>7, <1>8
    <3>2. m + l + n <= e.size
      BY <1>4, <1>5, <1>6, <1>8
    <3>3. ((m + l) % CLUSTER) + n <= CLUSTER
      BY <1>5, <3>1
    <3> QED BY <1>4, <1>6, <3>1, <3>2, <3>3, BytesArePart DEF s
  <2>2. Part(e, m, l) \o Part(e, m + l, n) = Part(e, m, l + n)
    <3> HIDE DEF l
    <3>1. l \in Nat /\ n \in Nat /\ m \in Nat
      BY <1>5, <1>6, <1>8
    <3>2. Joined(Part(e, m, l), Part(e, m + l, n), Part(e, m, l + n))
      BY <3>1, PartJoin
    <3> QED BY <3>2 DEF Joined
  <2> QED BY <1>5, <2>1, <2>2
<1>10. l + n \in Nat /\ Len(bytes) = l + n
  <2>1. l + n \in Nat
    BY <1>5, <1>8
  <2>2. Len(Part(e, m, l + n)) = l + n
    BY <1>6, <2>1, PartFacts
  <2> HIDE DEF bytes, l
  <2> QED BY <1>9, <2>1, <2>2
<1>11. /\ VnodesShow(vnode') /\ \A w \in Vnode : vnode[w] # free => Shows(vnode'[w], vnode[w])
  BY <1>1 DEF RInv, Shows
<1> HIDE DEF bytes, next, l
<1>12. CASE /\ n < a.size /\ next < EOC
            /\ act' = [act EXCEPT ![p].cluster = next, ![p].offset = NextOffset(a),
                                  ![p].size = @ - n, ![p].bytes = bytes]
            /\ open' = open /\ got' = got
  <2> DEFINE b == [a EXCEPT !.cluster = next, !.offset = NextOffset(a),
                            !.size = @ - n, !.bytes = bytes]
  <2>1. act'[p] = b /\ \A q \in Client : q # p => act'[q] = act[q]
    BY <1>12 DEF FInv, TablesOK
  <2>2. /\ DOMAIN b = {"at", "fd", "path", "cluster", "offset", "size", "bytes"}
        /\ b.at = "read" /\ b.fd = a.fd /\ b.path = path /\ b.cluster = next /\ b.offset = 0
        /\ b.size = a.size - n /\ b.bytes = bytes
    BY <1>1, <1>5 DEF NextOffset, path
  <2> HIDE DEF b
  <2>3. ((m + l) % CLUSTER) + n = CLUSTER
    BY <1>5, <1>6, <1>7, <1>8, <1>12
  <2>4. ((m + l) + n) \div CLUSTER = (m + l) \div CLUSTER + 1 /\ ((m + l) + n) % CLUSTER = 0
    BY <1>6, <1>8, <2>3, NextCluster
  <2>5. (m + l) \div CLUSTER + 1 < Len(s) /\ Len(s) \in Nat
    <3>1. e.size <= Len(s) * CLUSTER
      BY <1>2, <1>4 DEF DiskIsSound
    <3>2. Len(s) \in Nat
      BY ChainFacts
    <3> HIDE DEF s
    <3>3. Len(s) * CLUSTER \in Nat /\ (m + l) + n \in Nat
      BY <1>6, <1>8, <3>2
    <3>4. 0 * CLUSTER <= (m + l) + n /\ (m + l) + n < Len(s) * CLUSTER
      <4>1. (m + l) + n < e.size
        BY <1>4, <1>5, <1>6, <1>8, <1>12
      <4> QED BY <1>4, <1>6, <3>1, <3>3, <4>1
    <3>5. ((m + l) + n) \div CLUSTER < Len(s)
      BY <1>6, <3>2, <3>3, <3>4, DivBetween
    <3> QED BY <2>4, <3>2, <3>5
  <2>6. next = s[(m + l) \div CLUSTER + 1 + 1]
    <3> DEFINE j == (m + l) \div CLUSTER + 1
    <3>1. j \in 1 .. Len(s) /\ j < Len(s)
      BY <1>7, <2>5
    <3>2. get_next_cluster(s[j]) = s[j + 1]
      BY <1>4, <3>1, SoundChain
    <3> QED BY <1>5, <3>2 DEF next
  <2>7. Continues(b, e, m)
    <3>1. b.size \in Nat \ {0} /\ m + (l + n) + b.size <= e.size /\ m + (l + n) = (m + l) + n
      BY <1>4, <1>5, <1>6, <1>8, <1>12, <2>2
    <3>2. Len(b.bytes) = l + n /\ b.bytes = Part(e, m, l + n) /\ l + n \in Nat
      BY <1>9, <1>10, <2>2
    <3>3. b.offset = (m + (l + n)) % CLUSTER
      BY <2>2, <2>4, <3>1
    <3>4. b.cluster = s[(m + (l + n)) \div CLUSTER + 1]
      BY <2>2, <2>4, <2>6, <3>1
    <3> QED BY <2>2, <3>1, <3>2, <3>3, <3>4 DEF Continues
  <2>8. LooksRight(p)'
    BY <2>1, <2>2 DEF LooksRight
  <2>9. ReadsRight(p)'
    <3>1. /\ open'[a.fd] = open[a.fd] /\ got'[p] = Part(e, 0, m)
          /\ vnode'[open'[a.fd].node] = vnode[open[a.fd].node]
      BY <1>1, <1>2, <1>12
    <3> QED BY <1>2, <2>1, <2>2, <2>7, <3>1 DEF ReadsRight, e, m
  <2>10. DOMAIN got' = Client
    BY <1>12 DEF RInv
  <2> QED BY <1>1, <1>11, <1>12, <2>1, <2>8, <2>9, <2>10, FileStep
<1>13. CASE /\ open' = [open EXCEPT ![a.fd].position = @ + Len(bytes)]
            /\ got' = [got EXCEPT ![p] = @ \o bytes]
            /\ act' = [act EXCEPT ![p] = [at |-> "open", fd |-> a.fd, path |-> a.path]]
  <2> DEFINE b == [at |-> "open", fd |-> a.fd, path |-> a.path]
             k == m + (l + n)
  <2>1. /\ act'[p] = b
        /\ DOMAIN got' = Client /\ got'[p] = got[p] \o bytes
        /\ \A q \in Client : q # p => act'[q] = act[q] /\ got'[q] = got[q]
        /\ \A fd \in Descriptor : fd # a.fd => open'[fd] = open[fd]
    BY <1>1, <1>13 DEF FInv, TablesOK, RInv
  <2>2. open'[a.fd].node = open[a.fd].node /\ open'[a.fd].position = k
    BY <1>1, <1>10, <1>13 DEF FInv, TablesOK, m
  <2>3. b.at = "open" /\ b.fd = a.fd /\ b.path = path
    BY DEF path
  <2> HIDE DEF b
  <2>4. k \in 0 .. e.size
    BY <1>4, <1>5, <1>6, <1>8
  <2>5. got'[p] = Part(e, 0, k)
    <3>1. 0 \in Nat /\ m \in Nat /\ l + n \in Nat /\ m = 0 + m
      BY <1>6, <1>10
    <3>2. Joined(Part(e, 0, m), Part(e, m, l + n), Part(e, 0, m + (l + n)))
      BY <3>1, PartJoin
    <3>3. got'[p] = Part(e, 0, m) \o Part(e, m, l + n)
      BY <1>2, <1>9, <2>1
    <3> QED BY <3>2, <3>3 DEF k, Joined
  <2> HIDE DEF k
  <2>6. LooksRight(p)'
    BY <2>1, <2>3 DEF LooksRight
  <2>7. ReadsRight(p)'
    <3>1. Shows(vnode'[open'[a.fd].node], e)
      BY <1>1, <1>2, <2>2
    <3>2. act'[p].at = "open" /\ act'[p].fd = a.fd /\ act'[p].path = path
      BY <2>1, <2>3
    <3>3. TrueEntry(act'[p].path) = e
      BY <3>2 DEF e
    <3> QED BY <1>2, <2>2, <2>4, <2>5, <3>1, <3>2, <3>3 DEF ReadsRight
  <2> QED BY <1>1, <1>11, <2>1, <2>6, <2>7, FileStep
<1>14. \/ /\ n < a.size /\ next < EOC
          /\ act' = [act EXCEPT ![p].cluster = next, ![p].offset = NextOffset(a),
                                ![p].size = @ - n, ![p].bytes = bytes]
          /\ open' = open /\ got' = got
       \/ /\ open' = [open EXCEPT ![a.fd].position = @ + Len(bytes)]
          /\ got' = [got EXCEPT ![p] = @ \o bytes]
          /\ act' = [act EXCEPT ![p] = [at |-> "open", fd |-> a.fd, path |-> a.path]]
  BY DEF ReadCluster, n, bytes, next
<1> QED BY <1>12, <1>13, <1>14

\* VFS_close leaves no file to be read on.
LEMMA CloseRight ==
    ASSUME FInv, RInv, NEW p \in Client, VFS_close(p)
    PROVE  RInv'
<1> DEFINE fd == act[p].fd
           v == open[fd].node
<1>1. HasFile(p) /\ fd \in Descriptor /\ v \in Vnode /\ vnode[v] # free
  BY DEF VFS_close, HasFile, FInv, OneOwner, CountsHolders
<1>2. /\ vnode' = [vnode EXCEPT ![v].ref_count = @ - 1]
      /\ open' = [open EXCEPT ![fd] = closed]
      /\ act' = [act EXCEPT ![p] = idle] /\ got' = [got EXCEPT ![p] = <<>>]
  BY DEF VFS_close
<1>3. DOMAIN vnode[v] = DOMAIN free
  BY <1>1 DEF RInv, VnodesShow
<1> HIDE DEF fd, v
<1>4. /\ DOMAIN got' = Client /\ act'[p] = idle
      /\ \A q \in Client : q # p => act'[q] = act[q] /\ got'[q] = got[q]
      /\ \A d \in Descriptor : d # fd => open'[d] = open[d]
      /\ \A w \in Vnode : w # v => vnode'[w] = vnode[w]
      /\ vnode'[v] = [vnode[v] EXCEPT !.ref_count = vnode[v].ref_count - 1]
  BY <1>1, <1>2 DEF FInv, TablesOK, RInv
<1>5. DOMAIN vnode'[v] = DOMAIN free /\ Shows(vnode'[v], vnode[v])
  BY <1>3, <1>4, CountedShows
<1>6. \A w \in Vnode : vnode[w] # free => Shows(vnode'[w], vnode[w])
  BY <1>4, <1>5 DEF Shows
<1>7. VnodesShow(vnode')
  <2>1. ASSUME NEW w \in Vnode, vnode'[w] # free
        PROVE  DOMAIN vnode'[w] = DOMAIN free /\ \E e \in NamedEntries : Shows(vnode'[w], e)
    <3>1. vnode[w] # free /\ DOMAIN vnode'[w] = DOMAIN free
      BY <1>1, <1>4, <1>5, <2>1 DEF RInv, VnodesShow
    <3>2. PICK e \in NamedEntries : Shows(vnode[w], e)
      BY <3>1 DEF RInv, VnodesShow
    <3>3. Shows(vnode'[w], vnode[w])
      BY <1>6, <3>1
    <3>4. Shows(vnode'[w], e)
      BY <3>2, <3>3 DEF Shows
    <3> QED BY <3>1, <3>4
  <2> QED BY <2>1 DEF VnodesShow
<1>8. LooksRight(p)' /\ ReadsRight(p)'
  BY <1>4, IdleRight
<1> QED BY <1>1, <1>4, <1>6, <1>7, <1>8, FileStep DEF fd

\* A step that reads nothing and leaves the tables alone.
LEMMA SameReads ==
    ASSUME RInv, UNCHANGED <<vnode, open, act, got>>
    PROVE  RInv'
<1>1. ASSUME NEW q \in Client PROVE LooksRight(q)' /\ ReadsRight(q)'
  <2>1. HasFile(q) => /\ open'[act[q].fd] = open[act[q].fd]
                      /\ Shows(vnode'[open[act[q].fd].node], vnode[open[act[q].fd].node])
    BY DEF Shows
  <2> QED BY <2>1, OtherStays DEF RInv
<1> QED BY <1>1 DEF RInv

\* Every step keeps what is read right.
LEMMA ReadsNextStep ==
    ASSUME DiskIsSound, FInv, RInv, [FilesNext]_filesVars
    PROVE  RInv'
<1>1. CASE Mount
  BY <1>1, SameReads DEF Mount
<1>2. ASSUME NEW p \in Client,
             VFS_open(p) \/ LookupSector(p) \/ VFS_read(p) \/ ReadCluster(p) \/ VFS_close(p)
      PROVE  RInv'
  BY <1>2, OpenRight, LookupRight, ReadRight, ReadClusterRight, CloseRight
<1>3. CASE UNCHANGED filesVars
  BY <1>3, SameReads DEF filesVars
<1> QED BY <1>1, <1>2, <1>3 DEF FilesNext

\* After start() nothing is read.
LEMMA ReadsInitStep ==
    ASSUME FilesInit
    PROVE  RInv
<1>1. /\ \A v \in Vnode : vnode[v] = free
      /\ DOMAIN got = Client /\ \A p \in Client : act[p] = idle
  BY DEF FilesInit
<1>2. idle.at = "idle"
  BY DEF idle
<1> QED BY <1>1, <1>2 DEF RInv, VnodesShow, LooksRight, ReadsRight, HasFile

\* On a disk the driver can read, a process that has opened a path gets the
\* bytes of the file there, one after the other and none twice, however many
\* others open, read and close meanwhile, and whatever vnodes are evicted for
\* them: fat12_lookup leads to that file, create_vnode hands out no other, and
\* fat12_read is at the cluster of its position.
THEOREM ReadsAreRight == ASSUME DiskIsSound PROVE FilesSpec => []ReadReturnsFile
<1>1. ASSUME FInv, RInv PROVE ReadReturnsFile
  <2>1. ASSUME NEW p \in Client, HasFile(p)
        PROVE  /\ IsPrefix(got[p], TrueBytes(TrueEntry(act[p].path)))
               /\ open[act[p].fd].position = Len(got[p])
    <3> DEFINE path == act[p].path
               e == TrueEntry(path)
               m == open[act[p].fd].position
    <3>1. /\ path \in Paths /\ path # <<>> /\ e \in Named(path, Len(path))
          /\ m \in 0 .. e.size /\ got[p] = Part(e, 0, m)
      BY <1>1, <2>1 DEF RInv, ReadsRight
    <3>2. Len(path) \in 1 .. Len(path)
      <4>1. path \in Seq(DOMAIN FatName)
        BY <3>1, FilesAssumption
      <4> HIDE DEF path
      <4> QED BY <3>1, <4>1
    <3> HIDE DEF path, e, m
    <3>3. e.size \in Nat
      BY <3>1, <3>2, NamedFacts
    <3>4. IsPrefix(Part(e, 0, m), TrueBytes(e))
      BY <3>1, <3>3, PartPrefix
    <3>5. Len(Part(e, 0, m)) = m
      <4>1. m \in Nat /\ 0 \in Nat
        BY <3>1, <3>3
      <4> QED BY <4>1, PartFacts
    <3> QED BY <3>1, <3>4, <3>5 DEF e, m, path
  <2> QED BY <2>1 DEF ReadReturnsFile, HasFile
<1>2. FilesInit => RInv
  BY ReadsInitStep
<1>3. FInv /\ RInv /\ [FilesNext]_filesVars => RInv'
  BY ReadsNextStep
<1> QED BY <1>1, <1>2, <1>3, FilesInvariance, PTL DEF FilesSpec
=============================================================================

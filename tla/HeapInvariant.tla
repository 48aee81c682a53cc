--------------------------- MODULE HeapInvariant ---------------------------
(***************************************************************************)
(* The inductive invariant of the Heap, in parts that speak of any record  *)
(* of its globals: kfree and krealloc go through heaps that no caller      *)
(* ever sees.                                                              *)
(***************************************************************************)
EXTENDS Heap

\* The addresses of the headers.
Blocks(h) == DOMAIN h.hdr

\* Where the block at a ends.
EndIn(h, a) == a + HEADER + h.hdr[a].size

\* A header_t; no block is empty.
Block == [size : Nat \ {0}, isFree : BOOLEAN,
          next : Nat \cup {NULL}, back : Nat \cup {NULL}]

\* The fields have their types, and the break is within what is mapped.
Formed(h) ==
    /\ DOMAIN h = {"hdr", "head", "tail", "free", "beyond", "brk",
                    "mapped"}
    /\ Blocks(h) \subseteq Nat
    /\ h.hdr \in [Blocks(h) -> Block]
    /\ h.brk \in 0 .. HEAPEND
    /\ h.mapped \in Nat
    /\ h.brk <= h.mapped

\* BlocksTile, of any heap; the block at the start is in the list.
Tiled(h) ==
    /\ Blocks(h) = {} => h.head = NULL /\ h.tail = NULL /\ h.brk = 0
    /\ Blocks(h) # {} => h.head = 0 /\ {0, h.tail} \subseteq Blocks(h)
    /\ \A a \in Blocks(h) :
        /\ a = h.tail => h.hdr[a].next = NULL /\ EndIn(h, a) = h.brk
        /\ a # h.tail => /\ h.hdr[a].next = EndIn(h, a)
                         /\ EndIn(h, a) \in Blocks(h)
                         /\ h.hdr[EndIn(h, a)].back = a
        /\ a = 0 => h.hdr[a].back = NULL
        /\ a # 0 => h.hdr[a].back \in Blocks(h) /\ h.hdr[h.hdr[a].back].next = a

\* No block reaches into another one or beyond the break: what follows from
\* Tiled along the list, and would take an induction over it.
Spaced(h) ==
    /\ \A a, b \in Blocks(h) : a < b => EndIn(h, a) <= b
    /\ \A a \in Blocks(h) : EndIn(h, a) <= h.brk

\* The list of blocks, whatever the flags.
Shape(h) == Formed(h) /\ Tiled(h) /\ Spaced(h)

\* The size an entry of the array is compared with.
Key(h, e) == Read(h, e).size

\* The entries of the array are distinct free blocks but x, or low words,
\* and none but a low word comes after a larger one.  No word strays into
\* the array before one has entered its page.
Listing(h, x) ==
    /\ h.free \in Seq(Blocks(h) \cup Low)
    /\ Len(h.free) <= MaxEntries
    /\ h.beyond \in Low
    /\ \A i \in DOMAIN h.free :
        /\ h.free[i] \notin Low => h.free[i] # x /\ h.hdr[h.free[i]].isFree
        /\ h.free[i] \in Stray => h.beyond # NULL
    /\ \A i, j \in DOMAIN h.free : i < j /\ h.free[j] \notin Low =>
           h.free[i] # h.free[j] /\ Key(h, h.free[i]) <= Key(h, h.free[j])

\* Free blocks do not touch, x aside.
Merged(h, x) ==
    \A c \in Blocks(h) : c # x /\ h.hdr[c].isFree =>
        /\ c # h.tail
        /\ h.hdr[c].next # x => ~h.hdr[h.hdr[c].next].isFree

\* The heap while x, in no list of free blocks, is being freed.
Pending(h, x) == Shape(h) /\ x \in Blocks(h) /\ Listing(h, x) /\ Merged(h, x)

\* The heap between two calls.
Good(h) == Shape(h) /\ Listing(h, NULL) /\ Merged(h, NULL)

\* The blocks the callers have.
Used(h) == {a \in Blocks(h) : ~h.hdr[a].isFree}

\* The invariant of the module.
HInv ==
    /\ Good(heap)
    /\ owned = Used(heap)
    /\ low \in AtLow
    /\ wild \in BOOLEAN
    /\ wild => heap.beyond # NULL
=============================================================================

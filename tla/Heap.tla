-------------------------------- MODULE Heap --------------------------------
(***************************************************************************)
(* The heap of the kernel: src/src/kernel/memmgr/heap.c, with the array of *)
(* free blocks of src/src/lib/ordered_array.c.                             *)
(*                                                                         *)
(* Addresses count from BREAK_START_ADDR.  The globals of heap.c are one   *)
(* record: `hdr` maps the address of each header in the block list to its  *)
(* fields, `head` and `tail` are the ends of that list, `free` the first   *)
(* `size` entries of freeBlockArray, `beyond` the word in each place of    *)
(* its page behind them, `brk` the break, and `mapped` the end of the      *)
(* mapped pages, lastHeapAllocatedPage + PAGE_SIZE.  The functions of the  *)
(* code are operators from a record to a record.  A call is one step:      *)
(* nothing in heap.c keeps an interrupt away, so this is the heap of       *)
(* callers that do not interrupt each other inside it.                     *)
(***************************************************************************)
EXTENDS Integers, Sequences, SequencesExt, FiniteSets

CONSTANTS
    NULL,
    HEADER,      \* sizeof(header_t)
    MINSPLIT,    \* the smallest rest that kmalloc makes a block of: 16
    PAGE,        \* PAGE_SIZE
    START,       \* BREAK_START_ADDR itself, which is above any size of the heap
    HEAPEND,     \* HEAP_END_ADDR
    MaxEntries,  \* the capacity of freeBlockArray, which fills its page
    Sizes,       \* the sizes asked of kmalloc
    AtLow        \* what low memory may hold, read as a header_t at each address

\* The words that a removal from a full array takes for addresses: sizes of
\* the first block, seen from the start of the heap.
Stray == {n - START : n \in 1 .. HEAPEND}

\* The addresses below the heap that the array may hold.
Low == {NULL} \cup Stray

ASSUME HeapAssumption ==
    /\ NULL \notin Int
    /\ {HEADER, MINSPLIT, PAGE, START, HEAPEND, MaxEntries} \subseteq Nat \ {0}
    /\ HEAPEND < START
    /\ Sizes \subseteq Nat \ {0}
    /\ AtLow \subseteq [Low -> [size : Nat, isFree : BOOLEAN]]

\* No request of the kernel is larger than a page, header included, but the
\* first one, which fits in the pages mapped at the start.
ASSUME RequestAssumption == \A n \in Sizes : n + HEADER <= PAGE

VARIABLES
    heap,    \* the globals of heap.c
    low,     \* the header_t at each low address, all of which are mapped
    owned,   \* the blocks that callers got and have not given back
    wild     \* kmalloc took low memory for a free block; then the model stops

heapVars == <<heap, low, owned, wild>>

Address == 0 .. HEAPEND

Header == [size : Nat, isFree : BOOLEAN, next : Address \cup {NULL},
           back : Address \cup {NULL}]

HeapTypeOK ==
    /\ DOMAIN heap = {"hdr", "head", "tail", "free", "beyond", "brk", "mapped"}
    /\ DOMAIN heap.hdr \subseteq Address
    /\ heap.hdr \in [DOMAIN heap.hdr -> Header]
    /\ {heap.head, heap.tail} \subseteq DOMAIN heap.hdr \cup {NULL}
    /\ heap.free \in Seq(DOMAIN heap.hdr \cup Low)
    /\ Len(heap.free) <= MaxEntries
    /\ heap.beyond \in Low
    /\ heap.brk \in Address
    /\ heap.mapped \in Nat
    /\ owned \subseteq DOMAIN heap.hdr
    /\ wild \in BOOLEAN

-----------------------------------------------------------------------------
(***************************************************************************)
(* Mutated forms of operators below, used only to show that every property *)
(* of the runs can fail.                                                   *)
(***************************************************************************)

\* The array is not kept in order.
InsertedAtEnd(h, a) ==
    IF Len(h.free) >= MaxEntries THEN h.free ELSE Append(h.free, a)

\* kfree forgets to mark the block free.
ListedUnmarked(h, a) == [h EXCEPT !.free = Append(@, a)]

\* The right neighbour keeps its link to the block that was merged away.
AbsorbOneWay(h, a, b) ==
    LET after == h.hdr[b].next
    IN  [h EXCEPT
            !.hdr = [x \in DOMAIN h.hdr \ {b} |->
                        IF x = a
                        THEN [h.hdr[a] EXCEPT !.size = @ + h.hdr[b].size + HEADER,
                                              !.next = after]
                        ELSE h.hdr[x]],
            !.tail = IF h.tail = b THEN a ELSE @]

\* kfree does not look at the block on its right.
MergeRightNever(h, a) == h

\* A block that is merged away, or given back, stays in the array.
RemovedNever(entries, a) == entries

\* The test for a new page forgets the page that is mapped already.
MustMapLate(h, total) == h.brk + total > h.mapped + PAGE

\* The rest of a block that is split is counted without its header.
RestWithHeader(h, a, size) == h.hdr[a].size - size

-----------------------------------------------------------------------------
(***************************************************************************)
(* ordered_array.c                                                         *)
(***************************************************************************)

\* An entry is followed as a header_t pointer, wherever it points.
Read(h, e) == IF e \in Low THEN low[e] ELSE h.hdr[e]

\* insert_ordered_array, by increasing size: the loop that makes room leaves
\* in the last place the word that was beyond the end of the array.
Inserted(h, a) ==
    LET at == SelectInSeq(h.free, LAMBDA e : ~(Read(h, e).size < h.hdr[a].size))
        shifted == InsertAt(h.free, at, a)
    IN  IF Len(h.free) >= MaxEntries THEN h.free
        ELSE IF at = 0 THEN Append(h.free, a)
        ELSE [shifted EXCEPT ![Len(shifted)] = h.beyond]

\* remove_ordered_array of getIndex_ordered_array, which fails on an address
\* that is not in the array.
Removed(entries, a) ==
    LET at == SelectInSeq(entries, LAMBDA e : e = a)
    IN  IF at = 0 THEN entries ELSE RemoveAt(entries, at)

\* The removal shifts one word down from beyond the end.  The end of a full
\* array is the end of its page, and the word there is the first one of the
\* heap: the size of the first block.
Behind(h, a) ==
    IF Len(h.free) = MaxEntries /\ a \in ToSet(h.free)
        THEN h.hdr[0].size - START ELSE h.beyond

Unlisted(h, a) == [h EXCEPT !.free = Removed(@, a), !.beyond = Behind(h, a)]

-----------------------------------------------------------------------------
(***************************************************************************)
(* heap.c                                                                  *)
(***************************************************************************)

\* search_freeBlock: the first entry that is large enough, NULL if there is
\* none, or if it is a NULL entry.
Found(h, size) ==
    LET at == SelectInSeq(h.free,
                          LAMBDA e : Read(h, e).size >= size /\ Read(h, e).isFree)
    IN  IF at = 0 THEN NULL ELSE h.free[at]

\* kfree and its two merges: block b, on the right of a, becomes part of a.
Absorb(h, a, b) ==
    LET after == h.hdr[b].next
    IN  [h EXCEPT
            !.hdr = [x \in DOMAIN h.hdr \ {b} |->
                        CASE x = a -> [h.hdr[a] EXCEPT
                                          !.size = @ + h.hdr[b].size + HEADER,
                                          !.next = after]
                          [] x = after -> [h.hdr[x] EXCEPT !.back = a]
                          [] OTHER -> h.hdr[x]],
            !.tail = IF h.tail = b THEN a ELSE @]

\* The block that a is part of once a free left neighbour has absorbed it.
LeftOf(h, a) ==
    LET left == h.hdr[a].back
    IN  IF left # NULL /\ h.hdr[left].isFree THEN left ELSE a

MergeLeft(h, a) ==
    IF LeftOf(h, a) = a THEN h
    ELSE Absorb(Unlisted(h, LeftOf(h, a)), LeftOf(h, a), a)

MergeRight(h, a) ==
    LET right == h.hdr[a].next
    IN  IF right # NULL /\ h.hdr[right].isFree
            THEN Absorb(Unlisted(h, right), a, right)
            ELSE h

\* The block is marked free and enters the array.
Listed(h, a) ==
    LET marked == [h EXCEPT !.hdr[a].isFree = TRUE]
    IN  [marked EXCEPT !.free = Inserted(marked, a)]

\* The last block goes back to the break, with sbrk(-totalSize).
Released(h, a) ==
    LET left == h.hdr[a].back
        down == h.brk - (HEADER + h.hdr[a].size)
        rest == [x \in DOMAIN h.hdr \ {a} |->
                    IF x = left THEN [h.hdr[x] EXCEPT !.next = NULL] ELSE h.hdr[x]]
    IN  IF a # h.tail THEN h
        ELSE [h EXCEPT !.hdr = rest,
                       !.head = IF a = @ THEN NULL ELSE @,
                       !.tail = IF a = h.head THEN NULL ELSE left,
                       !.brk = IF down < 0 THEN @ ELSE down,
                       !.free = Removed(@, a),
                       !.beyond = Behind(h, a)]

Freed(h, a) ==
    LET left == LeftOf(h, a)
    IN  Released(Listed(MergeRight(MergeLeft(h, a), left), left), left)

\* What is left of a free block when `size` bytes of it are taken.
Rest(h, a, size) == h.hdr[a].size - size - HEADER

\* The block found leaves the array, and its rest becomes a free block if it
\* is worth one.
Taken(h, a, size) ==
    LET b == a + size + HEADER
        after == h.hdr[a].next
        used == [Unlisted(h, a) EXCEPT !.hdr[a].isFree = FALSE]
        cut == [used EXCEPT
                  !.hdr = [x \in DOMAIN h.hdr \cup {b} |->
                      CASE x = a -> [used.hdr[a] EXCEPT !.size = size, !.next = b]
                        [] x = b -> [size |-> Rest(h, a, size), isFree |-> FALSE,
                                     next |-> after, back |-> a]
                        [] x = after -> [used.hdr[x] EXCEPT !.back = b]
                        [] OTHER -> used.hdr[x]]]
        split == Freed(cut, b)
    IN  IF h.hdr[a].size - size >= HEADER + MINSPLIT
            THEN [split EXCEPT !.tail = IF @ = a THEN b ELSE @]
            ELSE used

\* sbrk needs a page that is not mapped; it maps one.
MustMap(h, total) == h.brk + total > h.mapped

\* The new block at the break becomes the last one of the list.
Extended(h, size) ==
    LET a == h.brk
        new == [size |-> size, isFree |-> FALSE, next |-> NULL, back |-> h.tail]
    IN  [h EXCEPT
            !.hdr = [x \in DOMAIN h.hdr \cup {a} |->
                        CASE x = a -> new
                          [] x = h.tail -> [h.hdr[x] EXCEPT !.next = a]
                          [] OTHER -> h.hdr[x]],
            !.head = IF @ = NULL THEN a ELSE @,
            !.tail = a,
            !.brk = @ + HEADER + size,
            !.mapped = IF MustMap(h, HEADER + size) THEN @ + PAGE ELSE @]

\* What kmalloc may do: the block it returns, and the heap after it.  The
\* frame that a new page needs may be refused.
Kmallocs(h, size) ==
    LET found == Found(h, size)
        full == [block |-> NULL, heap |-> h]
        grown == [block |-> h.brk, heap |-> Extended(h, size)]
    IN  IF found # NULL
            THEN {[block |-> found, heap |-> Taken(h, found, size)]}
        ELSE IF h.brk + HEADER + size > HEAPEND THEN {full}
        ELSE IF MustMap(h, HEADER + size) THEN {full, grown}
        ELSE {grown}

-----------------------------------------------------------------------------
\* The state HEAP_initialize leaves: an empty heap, with one page mapped.
HeapInit ==
    /\ heap = [hdr |-> <<>>, head |-> NULL, tail |-> NULL, free |-> <<>>,
               beyond |-> NULL, brk |-> 0, mapped |-> PAGE]
    /\ low \in AtLow
    /\ owned = {}
    /\ wild = FALSE

kmalloc(size) ==
    /\ ~wild
    /\ Found(heap, size) \notin Stray
    /\ \E result \in Kmallocs(heap, size) :
        /\ heap' = result.heap
        /\ owned' = owned \cup ({result.block} \ {NULL})
    /\ UNCHANGED <<low, wild>>

\* kmalloc, or krealloc, finds a stray word: it marks low memory used, cuts
\* it if it looks large, and gives it to its caller.
kmallocStray(size) ==
    /\ ~wild
    /\ Found(heap, size) \in Stray
    /\ wild' = TRUE
    /\ UNCHANGED <<heap, low, owned>>

kfree(a) ==
    /\ ~wild
    /\ heap' = Freed(heap, a)
    /\ owned' = owned \ {a}
    /\ UNCHANGED <<low, wild>>

\* krealloc of a block that is too small; any other call changes nothing.
krealloc(a, size) ==
    /\ ~wild
    /\ heap.hdr[a].size < size
    /\ Found(heap, size) \notin Stray
    /\ \E result \in Kmallocs(heap, size) :
        /\ heap' = IF result.block = NULL THEN result.heap
                                          ELSE Freed(result.heap, a)
        /\ owned' = IF result.block = NULL THEN owned
                                           ELSE (owned \ {a}) \cup {result.block}
    /\ UNCHANGED <<low, wild>>

HeapNext ==
    \/ \E size \in Sizes : kmalloc(size)
    \/ \E size \in Sizes : kmallocStray(size)
    \/ \E a \in owned : kfree(a)
    \/ \E a \in owned, size \in Sizes : krealloc(a, size)

HeapSpec == HeapInit /\ [][HeapNext]_heapVars

-----------------------------------------------------------------------------
(***************************************************************************)
(* Safety                                                                  *)
(***************************************************************************)

Ends(a) == a + HEADER + heap.hdr[a].size

\* The blocks of the list lie end to end from the start of the heap to the
\* break, in the order of their links, which go both ways.
BlocksTile ==
    LET H == DOMAIN heap.hdr
    IN  /\ H = {} => heap.head = NULL /\ heap.tail = NULL /\ heap.brk = 0
        /\ H # {} => heap.head = 0 /\ heap.tail \in H
        /\ \A a \in H :
            /\ IF a = heap.tail
                   THEN heap.hdr[a].next = NULL /\ Ends(a) = heap.brk
                   ELSE /\ heap.hdr[a].next = Ends(a)
                        /\ Ends(a) \in H
                        /\ heap.hdr[Ends(a)].back = a
            /\ IF a = 0 THEN heap.hdr[a].back = NULL
                        ELSE heap.hdr[a].back \in H /\ heap.hdr[heap.hdr[a].back].next = a

\* Free blocks are merged with their neighbours and given back at the end of
\* the heap: no two of them touch, and the last block is in use.
Coalesced ==
    \A a \in DOMAIN heap.hdr : heap.hdr[a].isFree =>
        /\ a # heap.tail
        /\ ~heap.hdr[heap.hdr[a].next].isFree

\* A block is not free exactly while a caller has it.
UsedIsOwned == owned = {a \in DOMAIN heap.hdr : ~heap.hdr[a].isFree}

\* Whatever its mistakes, the array never offers a block that is in use or
\* gone: its entries in the heap are distinct free blocks, by increasing
\* size.  Others are NULL, unless an entry has left a full array, and no
\* more than kmalloc can be led out of the heap before that.
ArrayOffersFreeBlocks ==
    /\ \A i, j \in DOMAIN heap.free :
        /\ heap.free[i] \notin Low => heap.hdr[heap.free[i]].isFree
        /\ i < j /\ {heap.free[i], heap.free[j]} \cap Low = {} =>
               /\ heap.free[i] # heap.free[j]
               /\ heap.hdr[heap.free[i]].size <= heap.hdr[heap.free[j]].size
    /\ heap.beyond = NULL => ~wild /\ ToSet(heap.free) \cap Stray = {}

\* sbrk maps one page at most, and yet the break never passes the pages
\* that are mapped, for requests of up to a page.
BreakIsMapped == heap.brk <= heap.mapped

\* Seen by its callers, the heap hands out disjoint pieces that stay theirs.
Pieces == {[from |-> a + HEADER, size |-> heap.hdr[a].size] : a \in owned}

Alloc == INSTANCE Allocator WITH Limit <- HEAPEND, pieces <- Pieces

ImplementsAllocator == Alloc!Spec

-----------------------------------------------------------------------------
\* kfree enters a free block in the array that kmalloc searches, so that
\* its memory can be allocated again: every free block is in it.
FreeBlocksAreListed ==
    \A a \in DOMAIN heap.hdr :
        heap.hdr[a].isFree => a \in ToSet(heap.free)
=============================================================================

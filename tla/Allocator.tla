----------------------------- MODULE Allocator -----------------------------
(***************************************************************************)
(* What a heap promises, with no header, list, array or break: callers     *)
(* hold pieces of one range of addresses, no address twice, and nobody's   *)
(* piece changes but by its own call.                                      *)
(***************************************************************************)
EXTENDS Integers

CONSTANT Limit  \* the first address beyond the range

VARIABLE pieces  \* [from, size]: the addresses from .. from + size - 1

Piece == [from : 0 .. Limit, size : 1 .. Limit]

Apart(p, q) == p.from + p.size <= q.from \/ q.from + q.size <= p.from

Fits(p, others) ==
    /\ p \in Piece
    /\ p.from + p.size <= Limit
    /\ \A q \in others : Apart(p, q)

Init == pieces = {}

Alloc(p) == Fits(p, pieces) /\ pieces' = pieces \cup {p}

Free(p) == pieces' = pieces \ {p}

\* A larger piece is taken before the old one, which is copied, is given back.
Move(p, q) ==
    /\ q.size > p.size
    /\ Fits(q, pieces)
    /\ pieces' = (pieces \ {p}) \cup {q}

\* q is the piece a step adds.
Next ==
    \/ \E q \in pieces' \ pieces : Alloc(q) \/ \E p \in pieces : Move(p, q)
    \/ \E p \in pieces : Free(p)

Spec == Init /\ [][Next]_pieces
=============================================================================

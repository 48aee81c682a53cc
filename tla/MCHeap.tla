------------------------------- MODULE MCHeap -------------------------------
(* Heap with values for TLC.                                               *)
EXTENDS Heap

\* Low memory: a large free block wherever it is read, or a used one of size
\* 0, or the first at address 0 and the second at any other.
LowMemory ==
    LET large == [size |-> 100, isFree |-> TRUE]
        none == [size |-> 0, isFree |-> FALSE]
    IN  {[e \in Low |-> large], [e \in Low |-> none],
         [e \in Low |-> IF e = NULL THEN large ELSE none]}
=============================================================================

------------------------------ MODULE MCMemory ------------------------------
(* Memory with values for TLC.                                             *)
EXTENDS MemoryInvariant, TLC

ProcSymmetry == Permutations(Proc)

\* Blocks of 4: low memory that ends in the middle of block `low`, the BIOS
\* area, and memory from the kernel's first frame on.  With COPIED = 4 the
\* entry that is added for the bitmap is the one that loses its type.
PcMap(low, high) ==
    <<[base |-> 0, length |-> 4 * low + 3, available |-> TRUE],
      [base |-> 4 * low + 3, length |-> 1, available |-> FALSE],
      [base |-> 4 * high - 4, length |-> 4, available |-> FALSE],
      [base |-> 4 * high, length |-> 4 * (TOTAL - high), available |-> TRUE]>>

SmallMaps == {PcMap(27, 30), PcMap(20, 30)}

\* The maps are such as the theorems of MemoryProofs are about.
ASSUME MapsAreUsable == \A map \in SmallMaps : Usable(map)

KernelImage == {30, 31}
=============================================================================

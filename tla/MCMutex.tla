------------------------------- MODULE MCMutex -------------------------------
(* Mutex with values for TLC.                                              *)
EXTENDS Mutex

WorkerSymmetry == Permutations(Worker)

\* Nested acquisitions where calls are atomic.
Both == [mode \in BOOLEAN |-> IF mode THEN 2 ELSE 1]
Two == [mode \in Modes |-> 2]

FairMutexSpec == MutexSpec /\ MutexFairness
=============================================================================

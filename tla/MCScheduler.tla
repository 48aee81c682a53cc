----------------------------- MODULE MCScheduler -----------------------------
(* The scheduler with values for TLC.                                          *)
EXTENDS SchedulerInvariant

\* The blocks of the heap are interchangeable; for safety only.
WorkerSymmetry == Permutations(Worker)
=============================================================================

------------------------- MODULE SchedulerInvariant -------------------------
(***************************************************************************)
(* The inductive invariant of the Scheduler: what the properties of that   *)
(* module leave unsaid about where the threads are, and need in order to   *)
(* be preserved by every step.                                             *)
(***************************************************************************)
EXTENDS SchedulerRefinement

CleanerPoint == {"check", "reap", "delete", "block"}

\* The idle process only computes; the loop of cleaner_task is the cleaner's
\* and finds the process it saw; whoever holds the CPU without being RUNNING
\* is on its way to yield.
Threads ==
    /\ pc[idle] = "run" /\ status[idle] = "RUNNING"
    /\ pc[cleaner] \in CleanerPoint \cup {"spawn", "yield"}
    /\ \A p \in Worker : pc[p] \notin CleanerPoint
    /\ pc[cleaner] = "reap" => dead # <<>>
    /\ status[current] # "RUNNING" => pc[current] = "yield"

\* A block that is not a process yet, or no longer.
FreeBlocks ==
    \A p \in Worker : pc[p] \in {"none", "built"} =>
        status[p] = "DEAD" /\ frames[p] = <<>> /\ p # current

\* Only workers sleep or die, and they die outside the scheduler or on their
\* way to yield.
Leavers ==
    /\ ToSet(sleepers) \subseteq Worker
    /\ \A p \in ToSet(dead) : p \in Worker /\ pc[p] \in {"run", "yield"}

\* A thread's target is a block only this thread is building, or the dead
\* process that the cleaner took from its list.
Targets ==
    /\ \A p \in Process : target[p] # nobody => pc[p] \in {"create", "delete"}
    /\ \A p \in Process : pc[p] = "create" =>
           /\ target[p] \in Worker
           /\ pc[target[p]] = "built"
           /\ \A q \in Process : pc[q] = "create" /\ target[q] = target[p] => p = q
    /\ pc[cleaner] = "delete" =>
           /\ target[cleaner] \in Worker
           /\ target[cleaner] \notin ToSet(dead)
           /\ target[cleaner] # current
           /\ status[target[cleaner]] = "DEAD"
           /\ pc[target[cleaner]] \in {"run", "yield"}

Locks == LockBalance /\ InterruptsOnUnlessLocked

\* The half of NoneLost about the DEAD: who reads `sleepers` alone cannot say
\* where a BLOCKED process is if a mutex may hold it.
DeadNotLost ==
    \A p \in Worker : status[p] = "DEAD" /\ pc[p] \notin {"none", "built"}
        => p \in ToSet(dead) \/ p = target[cleaner]

Lists == OnOneList /\ StatusMatchesList /\ DeadNotLost

\* The inductive invariant.
IInv ==
    /\ TypeOK
    /\ Threads
    /\ FreeBlocks
    /\ Leavers
    /\ Targets
    /\ Lists
    /\ Locks

\* The sleep list is in the order of the wake times.
SleepersInOrder ==
    \A i, j \in DOMAIN sleepers : i < j => left[sleepers[i]] <= left[sleepers[j]]

\* The processes BLOCKED for something else than time: none in the scheduler
\* on its own, those that wait for a mutex when there is one.
Parked == {p \in Worker : status[p] = "BLOCKED" /\ p \notin ToSet(sleepers)}
NobodyParked == Parked = {}
=============================================================================

------------------------- MODULE SchedulerRefinement -------------------------
(***************************************************************************)
(* The scheduler implements the life cycle: the place of a process is read *)
(* off current_process, the status field and the allocation of its block.  *)
(***************************************************************************)
EXTENDS Scheduler

PlaceOf(p) ==
    IF p = current THEN "running"
    ELSE IF p = idle \/ status[p] = "READY" THEN "ready"
    ELSE IF pc[p] \in {"none", "built"} THEN "free"
    ELSE IF status[p] = "BLOCKED" THEN "blocked"
    ELSE "dead"

places == [p \in Process |-> PlaceOf(p)]

Life == INSTANCE Lifecycle WITH
            Process <- Process,
            idle <- idle,
            place <- places

\* Every step of the scheduler, interrupt or thread, is a step of the life
\* cycle or changes no place: there is one running process, a dead one never
\* returns before its block is deleted and created again, a blocked one gets
\* the CPU only after a wake-up, and the idle process only runs when no
\* other process is ready.
ImplementsLifecycle == Life!Spec
=============================================================================

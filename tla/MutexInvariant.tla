--------------------------- MODULE MutexInvariant ---------------------------
(***************************************************************************)
(* The inductive invariant of the Mutex, on top of that of the Scheduler:  *)
(* one part whatever the scheduling, one for calls that no interrupt cuts. *)
(***************************************************************************)
EXTENDS Mutex, SchedulerInvariant

\* The places of a call between its first access and its last.
AcquirePoint == {"take", "own", "wait", "waiting"}
ReleasePoint == {"release", "hand", "clear", "disown"}

\* A process is inside acquire_mutex only if it may acquire, and inside
\* release_mutex only if it has something to release.
Calls ==
    \A p \in Worker :
        /\ call[p] \in AcquirePoint => held[p] < MaxHeld[atomic]
        /\ call[p] \in ReleasePoint => held[p] > 0

\* Whoever the scheduler cannot account for waits for the mutex.
Waiters == IsInjective(waiting) /\ Parked = ToSet(waiting)

\* The invariant, whatever the scheduling.
MInv == IInv /\ MutexTypeOK /\ Calls /\ Waiters

-----------------------------------------------------------------------------
\* The one process between two accesses keeps the CPU, and nothing is on top
\* of its stack.
Serial ==
    \A p \in Worker : Midway(p) => p = current /\ frames[p] = <<>> /\ pc[p] = "run"

\* Only the owner holds the mutex.  An owner that holds nothing was given the
\* mutex by release_mutex and is on its way back from the wait.
Owners ==
    /\ owner = nobody => locked_count = 0 /\ waiting = <<>>
    /\ \A p \in Worker : held[p] > 0 => p = owner
    /\ \A p \in Worker : p = owner =>
           /\ p \notin ToSet(waiting)
           /\ held[p] > 0 => locked_count = held[p] - 1
           /\ held[p] = 0 => locked_count = 0 /\ call[p] = "waiting"
    /\ \A p \in Worker :
           call[p] = "waiting" <=> p \in ToSet(waiting) \/ (p = owner /\ held[p] = 0)

\* What a process found at its last test still holds.
Tested ==
    \A p \in Worker :
        /\ call[p] # "fault"
        /\ call[p] \in {"take", "own"} => owner = nobody
        /\ call[p] = "wait" => owner \notin {nobody, p}
        /\ call[p] \in ReleasePoint => owner = p
        /\ call[p] \in {"hand", "clear", "disown"} => locked_count = 0
        /\ call[p] = "hand" => waiting # <<>>
        /\ call[p] \in {"clear", "disown"} => waiting = <<>>

\* The flag goes up before the owner is set and down before it is reset.
Flag ==
    \/ locked = (owner # nobody) /\ \A p \in Worker : call[p] \notin {"own", "disown"}
    \/ locked /\ \E p \in Worker : call[p] = "own"
    \/ ~locked /\ \E p \in Worker : call[p] = "disown"

\* What holds of calls that no interrupt cuts.
Undisturbed == Serial /\ Owners /\ Tested /\ Flag

\* The invariant of both kinds of scheduling.
AInv == MInv /\ (atomic => Undisturbed)
=============================================================================

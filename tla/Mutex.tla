------------------------------- MODULE Mutex -------------------------------
(***************************************************************************)
(* One mutex_t of multitask.c, used by the processes of the Scheduler.     *)
(* acquire_mutex and release_mutex read and write the mutex with           *)
(* interrupts on, except where they touch a list: every access is a step   *)
(* of its own and the timer may give the CPU away between two of them.     *)
(***************************************************************************)
EXTENDS SchedulerRefinement

CONSTANTS
    Modes,   \* values of atomic
    MaxHeld  \* bound, for each: acquisitions a process makes without a release

ASSUME MutexAssumption ==
    Modes \subseteq BOOLEAN /\ MaxHeld \in [Modes -> Nat \ {0}]

VARIABLES
    locked,        \* mut->locked
    owner,         \* mut->owner
    locked_count,  \* mut->locked_count
    waiting,       \* mut->first_waiting_list .. mut->last_waiting_list
    call,          \* where a process is in acquire_mutex or release_mutex
    held,          \* acquisitions it has not released, as its program counts
    atomic         \* no timer interrupt strikes between two accesses of a call

(* The code is that of atomic = FALSE; with TRUE it is as if the two       *)
(* functions kept interrupts off from end to end.                          *)

mutexVars == <<locked, owner, locked_count, waiting, call, held>>
allVars == <<vars, mutexVars>>

(* "out": in neither function; "take", "own": found it free, before locked *)
(* and before owner is set; "wait": found it locked; "waiting": on the     *)
(* list; "release": passed the owner test; "hand", "clear": found a        *)
(* waiter, found none; "disown": locked is reset, owner is not; "fault":   *)
(* followed the NULL head of an empty list.                                *)
CallPoint == {"out", "take", "own", "wait", "waiting", "release", "hand",
              "clear", "disown", "fault"}

MutexTypeOK ==
    /\ locked \in BOOLEAN
    /\ owner \in Worker \cup {nobody}
    /\ locked_count \in Nat
    /\ waiting \in Seq(Worker)
    /\ call \in [Worker -> CallPoint]
    /\ atomic \in Modes
    /\ held \in [Worker -> 0 .. MaxHeld[atomic]]

MutexInit ==
    /\ Init
    /\ locked = FALSE
    /\ owner = nobody
    /\ locked_count = 0
    /\ waiting = <<>>
    /\ call = [p \in Worker |-> "out"]
    /\ held = [p \in Worker |-> 0]
    /\ atomic \in Modes

\* The thread of p executes its next instructions in one of the functions.
In(p, point) == Executes(p, "run") /\ call[p] = point

\* p goes on at `point`; the whole call ends at "out".
Goto(p, point) == call' = [call EXCEPT ![p] = point]

Gains(p) == Goto(p, "out") /\ held' = [held EXCEPT ![p] = @ + 1]
Loses(p) == Goto(p, "out") /\ held' = [held EXCEPT ![p] = @ - 1]

-----------------------------------------------------------------------------
(***************************************************************************)
(* Mutated forms of actions and operators below, used only to show that    *)
(* every property of the runs can fail.                                    *)
(***************************************************************************)

\* The test of mut->locked is forgotten.
AcquireTestUnchecked(p) ==
    /\ In(p, "out") /\ held[p] < MaxHeld[atomic]
    /\ ~(locked /\ owner = p)
    /\ Goto(p, "take")
    /\ UNCHANGED <<vars, locked, owner, locked_count, waiting, held>>

\* A waiter overtakes those before it; one is lost when others wait.
JoinWaitersFirst(p) == <<p>> \o waiting
JoinWaitersAlone(p) == IF waiting = <<>> THEN <<p>> ELSE waiting

\* The count of nested acquisitions is decremented even at zero.
ReleaseNestedUnchecked(p) ==
    /\ In(p, "release")
    /\ locked_count' = locked_count - 1
    /\ Loses(p)
    /\ UNCHANGED <<vars, locked, owner, waiting>>

\* The waiting list is not looked at.
ReleaseChooseClear(p) ==
    /\ In(p, "release")
    /\ locked_count = 0
    /\ Goto(p, "clear")
    /\ UNCHANGED <<vars, locked, owner, locked_count, waiting, held>>

-----------------------------------------------------------------------------
(***************************************************************************)
(* acquire_mutex                                                           *)
(***************************************************************************)
AcquireNested(p) ==
    /\ In(p, "out") /\ held[p] < MaxHeld[atomic]
    /\ locked /\ owner = p
    /\ locked_count' = locked_count + 1
    /\ Gains(p)
    /\ UNCHANGED <<vars, locked, owner, waiting>>

AcquireTest(p) ==
    /\ In(p, "out") /\ held[p] < MaxHeld[atomic]
    /\ ~(locked /\ owner = p)
    /\ Goto(p, IF locked THEN "wait" ELSE "take")
    /\ UNCHANGED <<vars, locked, owner, locked_count, waiting, held>>

AcquireLock(p) ==
    /\ In(p, "take")
    /\ locked' = TRUE
    /\ Goto(p, "own")
    /\ UNCHANGED <<vars, owner, locked_count, waiting, held>>

AcquireOwn(p) ==
    /\ In(p, "own")
    /\ owner' = p
    /\ Gains(p)
    /\ UNCHANGED <<vars, locked, locked_count, waiting>>

\* The waiting list once p has joined it.
JoinWaiters(p) == Append(waiting, p)

\* The locked section: the caller joins the list and blocks; yield follows.
AcquireWait(p) ==
    /\ In(p, "wait")
    /\ waiting' = JoinWaiters(p)
    /\ status' = [status EXCEPT ![p] = "BLOCKED"]
    /\ pc' = [pc EXCEPT ![p] = "yield"]
    /\ LockedSection
    /\ Goto(p, "waiting")
    /\ UNCHANGED <<current, ready, dead, sleepers, left, frames, target, phase,
                   locked, owner, locked_count, held>>

\* Back from yield, acquire_mutex returns without another look at the mutex.
AcquireReturn(p) ==
    /\ In(p, "waiting")
    /\ Gains(p)
    /\ UNCHANGED <<vars, locked, owner, locked_count, waiting>>

-----------------------------------------------------------------------------
(***************************************************************************)
(* release_mutex, called by a process that acquired the mutex              *)
(***************************************************************************)

\* The owner test fails: an error is logged and nothing is released.
ReleaseRefused(p) ==
    /\ In(p, "out") /\ held[p] > 0
    /\ owner # p
    /\ Loses(p)
    /\ UNCHANGED <<vars, locked, owner, locked_count, waiting>>

ReleaseTest(p) ==
    /\ In(p, "out") /\ held[p] > 0
    /\ owner = p
    /\ Goto(p, "release")
    /\ UNCHANGED <<vars, locked, owner, locked_count, waiting, held>>

ReleaseNested(p) ==
    /\ In(p, "release")
    /\ locked_count # 0
    /\ locked_count' = locked_count - 1
    /\ Loses(p)
    /\ UNCHANGED <<vars, locked, owner, waiting>>

ReleaseChoose(p) ==
    /\ In(p, "release")
    /\ locked_count = 0
    /\ Goto(p, IF waiting # <<>> THEN "hand" ELSE "clear")
    /\ UNCHANGED <<vars, locked, owner, locked_count, waiting, held>>

\* The locked section: the mutex goes to the first waiter, still locked.
ReleaseHand(p) ==
    /\ In(p, "hand")
    /\ waiting # <<>>
    /\ waiting' = Pop(waiting)
    /\ owner' = Head(waiting)
    /\ ready' = <<Head(waiting)>> \o ready
    /\ status' = [status EXCEPT ![Head(waiting)] = "READY"]
    /\ LockedSection
    /\ Loses(p)
    /\ UNCHANGED <<current, dead, sleepers, left, pc, frames, target, phase,
                   locked, locked_count>>

\* Another release emptied the list after the test: NULL is followed.
ReleaseFault(p) ==
    /\ In(p, "hand")
    /\ waiting = <<>>
    /\ Goto(p, "fault")
    /\ UNCHANGED <<vars, locked, owner, locked_count, waiting, held>>

ReleaseUnlock(p) ==
    /\ In(p, "clear")
    /\ locked' = FALSE
    /\ Goto(p, "disown")
    /\ UNCHANGED <<vars, owner, locked_count, waiting, held>>

ReleaseDisown(p) ==
    /\ In(p, "disown")
    /\ owner' = nobody
    /\ Loses(p)
    /\ UNCHANGED <<vars, locked, locked_count, waiting>>

-----------------------------------------------------------------------------
Acquire(p) == AcquireNested(p) \/ AcquireTest(p)

Release(p) == ReleaseRefused(p) \/ ReleaseTest(p)

Inside(p) ==
    \/ AcquireLock(p) \/ AcquireOwn(p) \/ AcquireWait(p) \/ AcquireReturn(p)
    \/ ReleaseNested(p) \/ ReleaseChoose(p) \/ ReleaseHand(p)
    \/ ReleaseFault(p) \/ ReleaseUnlock(p) \/ ReleaseDisown(p)

\* A scheduler call of the program: outside the two functions, and a process
\* releases what it acquired before it terminates.
CallOutside(p) ==
    /\ call[p] = "out"
    /\ \/ \E child \in Worker : CreateAllocate(p, child)
       \/ SleepAllocate(p)
       \/ held[p] = 0 /\ Terminate(p)
    /\ UNCHANGED mutexVars

\* Between two accesses of acquire_mutex or release_mutex.
Midway(p) == call[p] \notin {"out", "waiting"}

TimerMayStrike == atomic => \A p \in Worker : ~Midway(p)

Background ==
    /\ \/ TimerMayStrike /\ Tick
       \/ \E p \in Process : Interrupt(p)
       \/ \E p \in Worker \cup {cleaner} : Continue(p)
       \/ Clean
    /\ UNCHANGED mutexVars

MutexNext ==
    /\ \/ Background
       \/ \E p \in Worker : CallOutside(p) \/ Acquire(p) \/ Release(p) \/ Inside(p)
    /\ UNCHANGED atomic

MutexSpec == MutexInit /\ [][MutexNext]_<<allVars, atomic>>

\* Processes that call the scheduler again after a while, and release the
\* mutex in the end, down to their first acquisition.
MutexFairness ==
    /\ KernelFairness
    /\ \A p \in Worker :
        /\ SF_allVars(Inside(p) \/ (held[p] > 1 /\ Release(p)))
        /\ SF_allVars(held[p] = 1 /\ Release(p))
        /\ SF_allVars(CallOutside(p))

-----------------------------------------------------------------------------
(***************************************************************************)
(* What holds whatever the scheduling                                      *)
(***************************************************************************)

\* The waiting list uses the `next` field of the scheduler's lists: a process
\* on it is BLOCKED, there once, and on no list of the scheduler.
WaitersOnOneList ==
    /\ IsInjective(waiting)
    /\ \A p \in ToSet(waiting) :
        /\ status[p] = "BLOCKED"
        /\ p \notin ToSet(ready) \cup ToSet(dead) \cup ToSet(sleepers)

\* A BLOCKED process sleeps or waits for the mutex: release_mutex loses none
\* of those it takes from the list.
NoWaiterLost ==
    \A p \in Worker :
        status[p] = "BLOCKED" => p \in ToSet(sleepers) \cup ToSet(waiting)

-----------------------------------------------------------------------------
(***************************************************************************)
(* What holds if no interrupt strikes within the two functions             *)
(***************************************************************************)

\* Two processes never both hold the mutex, and the owner field, the locked
\* flag and the count of nested acquisitions agree with what the holder did.
MutualExclusion ==
    atomic => \A p \in Worker : held[p] > 0 =>
        /\ \A q \in Worker : held[q] > 0 => p = q
        /\ ~Midway(p) => locked /\ owner = p /\ locked_count = held[p] - 1

\* Nobody waits for a mutex that nobody will release: there is an owner, who
\* holds it or is about to come back from acquire_mutex.
NoStrandedWaiter ==
    atomic /\ waiting # <<>> =>
        /\ locked
        /\ \E p \in Worker : p = owner /\ (held[p] > 0 \/ call[p] = "waiting")

\* Seen through its owner field, the mutex is a recursive first-come
\* first-served lock.
Lock == INSTANCE FifoLock WITH
            Client <- Worker,
            holder <- IF atomic THEN owner ELSE nobody,
            depth <- IF atomic THEN locked_count ELSE 0,
            queue <- IF atomic THEN waiting ELSE <<>>

ImplementsFifoLock == Lock!Spec

\* A process that waits for the mutex gets it.
WaiterGetsMutex ==
    \A p \in Worker : call[p] = "waiting" ~> held[p] > 0

-----------------------------------------------------------------------------
(***************************************************************************)
(* What the source says of every process                                   *)
(***************************************************************************)

\* release_mutex reports as an error that a process releases a mutex "it
\* doesn't own": one that called acquire_mutex first never gets that report.
ReleaserOwnsMutex ==
    \A p \in Worker : held[p] > 0 /\ call[p] = "out" => owner = p
=============================================================================

----------------------------- MODULE MutexProofs -----------------------------
(***************************************************************************)
(* Proofs about the Mutex, for any number of processes and of nested       *)
(* acquisitions.                                                           *)
(***************************************************************************)
EXTENDS MutexInvariant, SchedulerProofs

\* A process that executes in one of the two functions is the current one and
\* RUNNING, hence on no list.
LEMMA CallerFacts ==
    ASSUME IInv, NEW p \in Worker, Executes(p, "run")
    PROVE  /\ p = current /\ p \in Process /\ p # idle /\ p # cleaner
           /\ pc[p] = "run" /\ frames[p] = <<>> /\ status[p] = "RUNNING"
           /\ p \notin ToSet(ready) /\ p \notin ToSet(dead) /\ p \notin ToSet(sleepers)
           /\ p \notin Parked
<1>1. /\ p = current /\ pc[p] = "run" /\ frames[p] = <<>>
      /\ p \in Process /\ p # idle /\ p # cleaner
  BY ProcessAssumption DEF Executes, Process
<1>2. status[p] = "RUNNING"
  BY <1>1 DEF IInv, Threads
<1> QED BY <1>1, <1>2 DEF IInv, Lists, StatusMatchesList, Parked

-----------------------------------------------------------------------------
(***************************************************************************)
(* The scheduler underneath: two steps of the mutex write its variables.   *)
(***************************************************************************)

\* acquire_mutex blocks its caller: the scheduler's invariant survives, and
\* the caller is one more process that the scheduler cannot account for.
LEMMA AcquireWaitStep ==
    ASSUME IInv, NEW p \in Worker, AcquireWait(p)
    PROVE  IInv' /\ Parked' = Parked \cup {p}
<1>1. /\ p = current /\ p \in Process /\ p # idle /\ p # cleaner
      /\ pc[p] = "run" /\ frames[p] = <<>> /\ status[p] = "RUNNING"
      /\ p \notin ToSet(ready) /\ p \notin ToSet(dead) /\ p \notin ToSet(sleepers)
  BY CallerFacts DEF AcquireWait, In
<1>2. /\ status' = [status EXCEPT ![p] = "BLOCKED"]
      /\ pc' = [pc EXCEPT ![p] = "yield"]
      /\ LockedSection
      /\ UNCHANGED <<current, ready, dead, sleepers, left, frames, target, phase>>
  BY DEF AcquireWait
<1>3. Holders' = Holders
  BY <1>1, <1>2 DEF IInv, TypeOK, Holders, HoldsLock
<1>4. /\ count' \in Nat /\ intr' \in BOOLEAN /\ LockBalance'
      /\ InterruptsOnUnlessLocked'
  BY <1>2, <1>3, LockedSectionFacts DEF IInv, TypeOK, Locks
<1>5. TypeOK'
  BY <1>1, <1>2, <1>4 DEF IInv, TypeOK, Point
<1>6. Threads' /\ FreeBlocks'
  BY <1>1, <1>2 DEF IInv, TypeOK, Threads, FreeBlocks, CleanerPoint
<1>7. Leavers' /\ Targets'
  <2>1. /\ pc \in [Process -> Point]
        /\ status \in [Process -> {"DEAD", "RUNNING", "READY", "BLOCKED"}]
    BY DEF IInv, TypeOK
  <2>2. \A q \in Process : pc'[q] = pc[q] \/ (q = p /\ pc'[q] = "yield")
    BY <2>1, <1>1, <1>2
  <2>3. \A q \in Process : q # p => status'[q] = status[q]
    BY <2>1, <1>1, <1>2
  <2>4. Leavers'
    BY <2>2, <1>1, <1>2, ProcessAssumption DEF IInv, Leavers, Process
  <2>5. Targets'
    BY <2>2, <2>3, <1>1, <1>2 DEF IInv, Targets
  <2> QED BY <2>4, <2>5
<1>8. Lists'
  BY <1>1, <1>2
     DEF IInv, TypeOK, Lists, OnOneList, StatusMatchesList, DeadNotLost
<1>9. Parked' = Parked \cup {p}
  BY <1>1, <1>2 DEF IInv, TypeOK, Parked
<1> QED BY <1>4, <1>5, <1>6, <1>7, <1>8, <1>9 DEF IInv, Locks

\* release_mutex makes a parked process READY, and it is parked no more.
LEMMA HandOverStep ==
    ASSUME IInv, NEW next \in Parked,
           ready' = <<next>> \o ready,
           status' = [status EXCEPT ![next] = "READY"],
           LockedSection,
           status[current] = "RUNNING",
           UNCHANGED <<current, dead, sleepers, left, pc, frames, target, phase>>
    PROVE  IInv' /\ Parked' = Parked \ {next}
<1>1. /\ next \in Worker /\ next \in Process /\ next # idle /\ next # cleaner
      /\ status[next] = "BLOCKED" /\ next # current
      /\ next \notin ToSet(sleepers)
  BY ProcessAssumption DEF Parked, Process
<1>2. next \notin ToSet(ready) /\ next \notin ToSet(dead)
  BY <1>1 DEF IInv, Lists, StatusMatchesList
<1>3. pc[next] \notin {"none", "built"}
  BY <1>1 DEF IInv, FreeBlocks
<1>4. /\ ready' \in Seq(Process) /\ IsInjective(ready')
      /\ ToSet(ready') = {next} \cup ToSet(ready)
  <2> DEFINE one == <<next>>
  <2>1. one \in Seq(Process) /\ ToSet(one) = {next} /\ IsInjective(one)
    BY <1>1, SingletonFacts
  <2>2. ready' = one \o ready
    OBVIOUS
  <2> HIDE DEF one
  <2>3. ready \in Seq(Process) /\ IsInjective(ready) /\ ToSet(one) \cap ToSet(ready) = {}
    BY <1>2, <2>1 DEF IInv, TypeOK, Lists, OnOneList
  <2>4. /\ one \o ready \in Seq(Process)
        /\ ToSet(one \o ready) = ToSet(one) \cup ToSet(ready)
        /\ IsInjective(one \o ready)
    BY <2>1, <2>3, ConcatFacts
  <2> QED BY <2>1, <2>2, <2>4
<1>5. Holders' = Holders
  BY DEF Holders, HoldsLock
<1>6. /\ count' \in Nat /\ intr' \in BOOLEAN /\ LockBalance'
      /\ InterruptsOnUnlessLocked'
  BY <1>5, LockedSectionFacts DEF IInv, TypeOK, Locks
<1>7. TypeOK'
  BY <1>1, <1>4, <1>6 DEF IInv, TypeOK
<1>8. Threads' /\ FreeBlocks'
  <2>1. Threads'
    BY <1>1 DEF IInv, TypeOK, Threads
  <2>2. FreeBlocks'
    BY <1>1, <1>3 DEF IInv, TypeOK, FreeBlocks
  <2> QED BY <2>1, <2>2
<1>9. Leavers' /\ Targets'
  BY <1>1 DEF IInv, TypeOK, Leavers, Targets
<1>10. Lists'
  <2>1. OnOneList'
    BY <1>1, <1>2, <1>4 DEF IInv, Lists, OnOneList
  <2>2. /\ status'[next] = "READY"
        /\ \A q \in Process : q # next => status'[q] = status[q]
    BY <1>1 DEF IInv, TypeOK
  <2>3. StatusMatchesList'
    BY <1>1, <1>2, <1>4, <2>2 DEF IInv, Lists, StatusMatchesList
  <2>4. DeadNotLost'
    BY <1>1, <2>2 DEF IInv, Lists, DeadNotLost, Process
  <2> QED BY <2>1, <2>3, <2>4 DEF Lists
<1>11. Parked' = Parked \ {next}
  BY <1>1 DEF IInv, TypeOK, Parked
<1> QED BY <1>6, <1>7, <1>8, <1>9, <1>10, <1>11 DEF IInv, Locks

\* A step that leaves the scheduler alone.
LEMMA SchedulerStill ==
    ASSUME IInv, UNCHANGED vars
    PROVE  IInv' /\ Parked' = Parked
BY NextStep, ParkedUnchanged

\* The two lists of the mutex after a process joined or left it.
LEMMA ReleaseHandStep ==
    ASSUME MInv, NEW p \in Worker, ReleaseHand(p)
    PROVE  /\ IInv'
           /\ Waiters'
           /\ waiting' \in Seq(Worker)
           /\ owner' \in Worker /\ owner' = Head(waiting)
           /\ owner' \in ToSet(waiting)
           /\ ToSet(waiting') = ToSet(waiting) \ {owner'}
           /\ Parked' = ToSet(waiting')
<1>1. PICK next : next = Head(waiting)
  OBVIOUS
<1>2. /\ waiting # <<>> /\ waiting \in Seq(Worker) /\ waiting' = Tail(waiting)
      /\ owner' = next
  BY <1>1 DEF ReleaseHand, Pop, MInv, MutexTypeOK
<1>3. /\ next \in Worker /\ next \in ToSet(waiting)
      /\ Tail(waiting) \in Seq(Worker)
      /\ ToSet(waiting) = ToSet(Tail(waiting)) \cup {next}
      /\ IsInjective(Tail(waiting)) /\ next \notin ToSet(Tail(waiting))
  BY <1>1, <1>2, TailFacts DEF MInv, Waiters
<1>4. next \in Parked
  BY <1>3 DEF MInv, Waiters
<1>5. /\ ready' = <<next>> \o ready
      /\ status' = [status EXCEPT ![next] = "READY"]
      /\ LockedSection
      /\ UNCHANGED <<current, dead, sleepers, left, pc, frames, target, phase>>
  BY <1>1 DEF ReleaseHand
<1>6. status[current] = "RUNNING"
  <2>1. Executes(p, "run") /\ IInv
    BY DEF ReleaseHand, In, MInv
  <2> QED BY <2>1, CallerFacts
<1>7. IInv' /\ Parked' = Parked \ {next}
  BY <1>4, <1>5, <1>6, HandOverStep DEF MInv
<1>8. Waiters' /\ Parked' = ToSet(waiting') /\ ToSet(waiting') = ToSet(waiting) \ {next}
  BY <1>2, <1>3, <1>7 DEF MInv, Waiters
<1> QED BY <1>1, <1>2, <1>3, <1>7, <1>8

-----------------------------------------------------------------------------
(***************************************************************************)
(* What holds whatever the scheduling                                      *)
(***************************************************************************)

\* The steps of the scheduler itself, as the mutex sees them.
LEMMA SchedulerSteps ==
    ASSUME MutexNext
    PROVE  \/ [Next]_vars /\ UNCHANGED <<mutexVars, atomic>>
           \/ \E p \in Worker : (Acquire(p) \/ Release(p) \/ Inside(p)) /\ UNCHANGED atomic
<1>1. ASSUME Background PROVE [Next]_vars /\ UNCHANGED mutexVars
  BY <1>1 DEF Background, Next
<1>2. ASSUME NEW p \in Worker, CallOutside(p) PROVE [Next]_vars /\ UNCHANGED mutexVars
  BY <1>2 DEF CallOutside, Next, Call
<1> QED BY <1>1, <1>2 DEF MutexNext

\* A step of a call that writes neither the scheduler nor the list.
LEMMA StillStep ==
    ASSUME MInv, UNCHANGED <<vars, waiting, atomic>>, MutexTypeOK', Calls'
    PROVE  MInv'
BY SchedulerStill DEF MInv, Waiters

\* acquire_mutex preserves the invariant.
LEMMA AcquireSteps ==
    ASSUME MInv, NEW p \in Worker, UNCHANGED atomic,
           Acquire(p) \/ AcquireLock(p) \/ AcquireOwn(p) \/ AcquireWait(p) \/ AcquireReturn(p)
    PROVE  MInv'
<1>1. /\ MutexTypeOK /\ Calls /\ IInv /\ Waiters
      /\ atomic \in Modes /\ MaxHeld[atomic] \in Nat /\ held[p] \in Nat
  BY MutexAssumption DEF MInv, MutexTypeOK
<1>2. CASE AcquireNested(p)
  <2>1. MutexTypeOK' /\ Calls'
    BY <1>1, <1>2 DEF AcquireNested, In, Gains, Goto, MutexTypeOK, Calls, AcquirePoint,
       ReleasePoint, CallPoint
  <2> QED BY <1>2, <2>1, StillStep DEF AcquireNested
<1>3. CASE AcquireTest(p)
  <2>1. MutexTypeOK' /\ Calls'
    BY <1>1, <1>3 DEF AcquireTest, In, Goto, MutexTypeOK, Calls, AcquirePoint,
       ReleasePoint, CallPoint
  <2> QED BY <1>3, <2>1, StillStep DEF AcquireTest
<1>4. CASE AcquireLock(p)
  <2>1. MutexTypeOK' /\ Calls'
    BY <1>1, <1>4 DEF AcquireLock, In, Goto, MutexTypeOK, Calls, AcquirePoint,
       ReleasePoint, CallPoint
  <2> QED BY <1>4, <2>1, StillStep DEF AcquireLock
<1>5. CASE AcquireOwn(p)
  <2>1. MutexTypeOK' /\ Calls'
    BY <1>1, <1>5 DEF AcquireOwn, In, Gains, Goto, MutexTypeOK, Calls, AcquirePoint,
       ReleasePoint, CallPoint
  <2> QED BY <1>5, <2>1, StillStep DEF AcquireOwn
<1>6. CASE AcquireReturn(p)
  <2>1. MutexTypeOK' /\ Calls'
    BY <1>1, <1>6 DEF AcquireReturn, In, Gains, Goto, MutexTypeOK, Calls, AcquirePoint,
       ReleasePoint, CallPoint
  <2> QED BY <1>6, <2>1, StillStep DEF AcquireReturn
<1>7. CASE AcquireWait(p)
  <2>1. IInv' /\ Parked' = Parked \cup {p}
    BY <1>1, <1>7, AcquireWaitStep
  <2>2. p \notin ToSet(waiting)
    BY <1>1, <1>7, CallerFacts DEF AcquireWait, In, Waiters
  <2>3. /\ waiting' \in Seq(Worker) /\ ToSet(waiting') = ToSet(waiting) \cup {p}
        /\ IsInjective(waiting')
    BY <1>1, <1>7, <2>2, AppendFacts DEF AcquireWait, JoinWaiters, MutexTypeOK, Waiters
  <2>4. MutexTypeOK' /\ Calls'
    BY <1>1, <1>7, <2>3 DEF AcquireWait, In, Goto, MutexTypeOK, Calls, AcquirePoint,
       ReleasePoint, CallPoint
  <2> QED BY <1>1, <2>1, <2>3, <2>4 DEF MInv, Waiters
<1> QED BY <1>2, <1>3, <1>4, <1>5, <1>6, <1>7 DEF Acquire

\* So does release_mutex.
LEMMA ReleaseSteps ==
    ASSUME MInv, NEW p \in Worker, UNCHANGED atomic,
           \/ Release(p) \/ ReleaseNested(p) \/ ReleaseChoose(p) \/ ReleaseHand(p)
           \/ ReleaseFault(p) \/ ReleaseUnlock(p) \/ ReleaseDisown(p)
    PROVE  MInv'
<1>1. /\ MutexTypeOK /\ Calls /\ IInv /\ Waiters
      /\ atomic \in Modes /\ MaxHeld[atomic] \in Nat /\ held[p] \in Nat
  BY MutexAssumption DEF MInv, MutexTypeOK
<1>2. CASE ReleaseRefused(p)
  <2>1. MutexTypeOK' /\ Calls'
    BY <1>1, <1>2 DEF ReleaseRefused, In, Loses, Goto, MutexTypeOK, Calls, AcquirePoint,
       ReleasePoint, CallPoint
  <2> QED BY <1>2, <2>1, StillStep DEF ReleaseRefused
<1>3. CASE ReleaseTest(p)
  <2>1. MutexTypeOK' /\ Calls'
    BY <1>1, <1>3 DEF ReleaseTest, In, Goto, MutexTypeOK, Calls, AcquirePoint,
       ReleasePoint, CallPoint
  <2> QED BY <1>3, <2>1, StillStep DEF ReleaseTest
<1>4. CASE ReleaseNested(p)
  <2>1. MutexTypeOK' /\ Calls'
    BY <1>1, <1>4 DEF ReleaseNested, In, Loses, Goto, MutexTypeOK, Calls, AcquirePoint,
       ReleasePoint, CallPoint
  <2> QED BY <1>4, <2>1, StillStep DEF ReleaseNested
<1>5. CASE ReleaseChoose(p)
  <2>1. MutexTypeOK' /\ Calls'
    BY <1>1, <1>5 DEF ReleaseChoose, In, Goto, MutexTypeOK, Calls, AcquirePoint,
       ReleasePoint, CallPoint
  <2> QED BY <1>5, <2>1, StillStep DEF ReleaseChoose
<1>6. CASE ReleaseFault(p)
  <2>1. MutexTypeOK' /\ Calls'
    BY <1>1, <1>6 DEF ReleaseFault, In, Goto, MutexTypeOK, Calls, AcquirePoint,
       ReleasePoint, CallPoint
  <2> QED BY <1>6, <2>1, StillStep DEF ReleaseFault
<1>7. CASE ReleaseUnlock(p)
  <2>1. MutexTypeOK' /\ Calls'
    BY <1>1, <1>7 DEF ReleaseUnlock, In, Goto, MutexTypeOK, Calls, AcquirePoint,
       ReleasePoint, CallPoint
  <2> QED BY <1>7, <2>1, StillStep DEF ReleaseUnlock
<1>8. CASE ReleaseDisown(p)
  <2>1. MutexTypeOK' /\ Calls'
    BY <1>1, <1>8 DEF ReleaseDisown, In, Loses, Goto, MutexTypeOK, Calls, AcquirePoint,
       ReleasePoint, CallPoint
  <2> QED BY <1>8, <2>1, StillStep DEF ReleaseDisown
<1>9. CASE ReleaseHand(p)
  <2>1. IInv' /\ Waiters' /\ waiting' \in Seq(Worker) /\ owner' \in Worker
    BY <1>9, ReleaseHandStep
  <2>2. MutexTypeOK' /\ Calls'
    BY <1>1, <1>9, <2>1 DEF ReleaseHand, In, Loses, Goto, MutexTypeOK, Calls, AcquirePoint,
       ReleasePoint, CallPoint
  <2> QED BY <2>1, <2>2 DEF MInv
<1> QED BY <1>2, <1>3, <1>4, <1>5, <1>6, <1>7, <1>8, <1>9 DEF Release

\* The invariant of the mutex is inductive.
LEMMA MutexInitStep == MutexInit => MInv
<1> SUFFICES ASSUME MutexInit PROVE MInv
  OBVIOUS
<1>1. IInv /\ Parked = {}
  BY InitStep, InitParksNobody DEF MutexInit
<1>2. <<>> \in Seq(Worker) /\ ToSet(<<>>) = {} /\ IsInjective(<<>>)
  BY DEF ToSet, IsInjective
<1>3. /\ locked = FALSE /\ owner = nobody /\ locked_count = 0 /\ waiting = <<>>
      /\ call = [p \in Worker |-> "out"] /\ held = [p \in Worker |-> 0]
      /\ atomic \in Modes /\ 0 \in 0 .. MaxHeld[atomic]
  BY MutexAssumption DEF MutexInit
<1>4. MutexTypeOK
  BY <1>2, <1>3 DEF MutexTypeOK, CallPoint
<1>5. Calls
  BY <1>3 DEF Calls, AcquirePoint, ReleasePoint
<1> QED BY <1>1, <1>2, <1>3, <1>4, <1>5 DEF MInv, Waiters

\* Every step of the mutex and of the scheduler below it preserves it.
LEMMA MutexNextStep == MInv /\ [MutexNext]_<<allVars, atomic>> => MInv'
<1> SUFFICES ASSUME MInv, [MutexNext]_<<allVars, atomic>> PROVE MInv'
  OBVIOUS
<1>1. ASSUME [Next]_vars, UNCHANGED <<mutexVars, atomic>> PROVE MInv'
  <2>1. IInv' /\ Parked' = Parked
    BY <1>1, NextStep, ParkedUnchanged DEF MInv
  <2> QED BY <1>1, <2>1 DEF MInv, MutexTypeOK, Calls, Waiters, mutexVars
<1>2. ASSUME NEW p \in Worker, Acquire(p) \/ Release(p) \/ Inside(p), UNCHANGED atomic
      PROVE  MInv'
  BY <1>2, AcquireSteps, ReleaseSteps DEF Inside
<1>3. CASE UNCHANGED <<allVars, atomic>>
  BY <1>1, <1>3 DEF allVars
<1> QED BY <1>1, <1>2, <1>3, SchedulerSteps

\* What the scheduler's lists, the waiting list and the calls in progress keep
\* between them, with the timer striking inside acquire_mutex and
\* release_mutex or not.
THEOREM MutexInvariance == MutexSpec => []MInv
BY MutexInitStep, MutexNextStep, PTL DEF MutexSpec

\* Type correctness: the count of nested acquisitions never goes below zero,
\* and no process releases more than it acquired.
THEOREM MutexTypeCorrect == MutexSpec => []MutexTypeOK
<1>1. MInv => MutexTypeOK
  BY DEF MInv
<1> QED BY <1>1, MutexInvariance, PTL

\* The waiting list shares the `next` field of the scheduler's lists safely:
\* no process is on it twice or on another list, wherever the timer strikes
\* within acquire_mutex and release_mutex.
THEOREM WaitersAreApart == MutexSpec => []WaitersOnOneList
<1>1. ASSUME MInv PROVE WaitersOnOneList
  <2>1. ASSUME NEW p \in ToSet(waiting)
        PROVE  /\ status[p] = "BLOCKED"
               /\ p \notin ToSet(ready) \cup ToSet(dead) \cup ToSet(sleepers)
    <3>1. /\ p \in Worker /\ p \in Process /\ p # idle
          /\ status[p] = "BLOCKED" /\ p \notin ToSet(sleepers)
      BY <1>1, <2>1, ProcessAssumption DEF MInv, Waiters, Parked, Process
    <3> QED BY <1>1, <3>1 DEF MInv, IInv, Lists, StatusMatchesList
  <2> QED BY <1>1, <2>1 DEF WaitersOnOneList, MInv, Waiters
<1> QED BY <1>1, MutexInvariance, PTL

\* A blocked process is always where wakeUp or release_mutex finds it.
THEOREM WaitersAreKept == MutexSpec => []NoWaiterLost
<1>1. MInv => NoWaiterLost
  BY DEF MInv, Waiters, Parked, NoWaiterLost
<1> QED BY <1>1, MutexInvariance, PTL

-----------------------------------------------------------------------------
(***************************************************************************)
(* What the Mutex guarantees when no interrupt cuts its calls: it excludes *)
(* and strands nobody, and implements the FifoLock.                        *)
(***************************************************************************)

\* Of the processes between two accesses there is at most the current one.
LEMMA AloneInCall ==
    ASSUME MInv, Undisturbed, NEW p \in Worker, Executes(p, "run")
    PROVE  /\ \A q \in Worker : q # p => call[q] \in {"out", "waiting"}
           /\ call[p] \notin {"own", "disown"} => (locked <=> owner # nobody)
           /\ call[p] = "own" => locked
           /\ call[p] = "disown" => ~locked
<1>1. p = current
  BY DEF Executes
<1>2. \A q \in Worker : q # p => call[q] \in {"out", "waiting"}
  BY <1>1 DEF Undisturbed, Serial, Midway
<1> QED BY <1>2 DEF Undisturbed, Flag

\* Where a call goes on.
LEMMA GotoFacts ==
    ASSUME MInv, NEW p \in Worker, NEW point, Goto(p, point)
    PROVE  call'[p] = point /\ \A q \in Worker : q # p => call'[q] = call[q]
BY DEF MInv, MutexTypeOK, Goto

\* A step of p leaves only p between two accesses.
LEMMA StaysSerial ==
    ASSUME MInv, Undisturbed, NEW p \in Worker, Executes(p, "run"), NEW point,
           Goto(p, point),
           point \in {"out", "waiting"} \/ UNCHANGED vars
    PROVE  Serial'
<1>1. \A q \in Worker : q # p => call'[q] \in {"out", "waiting"}
  BY AloneInCall, GotoFacts
<1>2. call'[p] = point
  BY GotoFacts
<1>3. UNCHANGED vars => p = current' /\ frames'[p] = <<>> /\ pc'[p] = "run"
  BY DEF Executes, vars
<1> QED BY <1>1, <1>2, <1>3 DEF Serial, Midway

\* Acquisitions.
LEMMA AcquireUndisturbed ==
    ASSUME MInv, Undisturbed, NEW p \in Worker,
           Acquire(p) \/ AcquireLock(p) \/ AcquireOwn(p) \/ AcquireWait(p) \/ AcquireReturn(p)
    PROVE  Undisturbed'
<1>1. /\ Executes(p, "run") /\ p # nobody /\ held[p] \in Nat /\ locked_count \in Nat
      /\ held \in [Worker -> Nat] /\ locked \in BOOLEAN
  BY ProcessAssumption, MutexAssumption
     DEF Acquire, AcquireNested, AcquireTest, AcquireLock, AcquireOwn, AcquireWait,
         AcquireReturn, In, MInv, MutexTypeOK
<1>2. /\ \A q \in Worker : q # p => call[q] \in {"out", "waiting"}
      /\ call[p] \notin {"own", "disown"} => (locked <=> owner # nobody)
      /\ call[p] = "own" => locked
  BY <1>1, AloneInCall
<1>3. Owners /\ Tested
  BY DEF Undisturbed
<1>4. CASE AcquireNested(p)
  <2>1. /\ call[p] = "out" /\ owner = p /\ call'[p] = "out"
        /\ \A q \in Worker : q # p => call'[q] = call[q]
        /\ locked_count' = locked_count + 1 /\ held' = [held EXCEPT ![p] = @ + 1]
        /\ UNCHANGED <<vars, locked, owner, waiting>>
    BY <1>4, GotoFacts DEF AcquireNested, In, Gains
  <2>2. Serial'
    BY <1>1, <1>4, StaysSerial DEF AcquireNested, Gains
  <2>3. Owners'
    BY <1>1, <1>2, <1>3, <2>1 DEF Owners
  <2>4. Tested' /\ Flag'
    BY <1>1, <1>2, <1>3, <2>1 DEF Tested, Flag, ReleasePoint
  <2> QED BY <2>2, <2>3, <2>4 DEF Undisturbed
<1>5. CASE AcquireTest(p)
  <2>1. /\ call[p] = "out" /\ ~(locked /\ owner = p)
        /\ call'[p] = IF locked THEN "wait" ELSE "take"
        /\ \A q \in Worker : q # p => call'[q] = call[q]
        /\ UNCHANGED <<vars, locked, owner, locked_count, waiting, held>>
    BY <1>5, GotoFacts DEF AcquireTest, In
  <2>2. Serial'
    BY <1>1, <1>5, StaysSerial DEF AcquireTest
  <2>3. Owners'
    BY <1>1, <1>2, <1>3, <2>1 DEF Owners
  <2>4. Tested'
    BY <1>1, <1>2, <1>3, <2>1 DEF Tested, ReleasePoint
  <2>5. Flag'
    <3>1. locked \in BOOLEAN /\ locked = (owner # nobody)
      BY <1>2, <2>1 DEF MInv, MutexTypeOK
    <3>2. \A q \in Worker : call'[q] \notin {"own", "disown"}
      BY <1>2, <2>1
    <3> QED BY <2>1, <3>1, <3>2 DEF Flag
  <2> QED BY <2>2, <2>3, <2>4, <2>5 DEF Undisturbed
<1>6. CASE AcquireLock(p)
  <2>1. /\ call[p] = "take" /\ locked' = TRUE /\ call'[p] = "own"
        /\ \A q \in Worker : q # p => call'[q] = call[q]
        /\ UNCHANGED <<vars, owner, locked_count, waiting, held>>
    BY <1>6, GotoFacts DEF AcquireLock, In
  <2>2. Serial'
    BY <1>1, <1>6, StaysSerial DEF AcquireLock
  <2>3. Owners'
    BY <1>1, <1>2, <1>3, <2>1 DEF Owners, Tested
  <2>4. Tested' /\ Flag'
    BY <1>1, <1>2, <1>3, <2>1 DEF Tested, Flag, ReleasePoint
  <2> QED BY <2>2, <2>3, <2>4 DEF Undisturbed
<1>7. CASE AcquireOwn(p)
  <2>1. /\ call[p] = "own" /\ owner' = p /\ call'[p] = "out"
        /\ \A q \in Worker : q # p => call'[q] = call[q]
        /\ held' = [held EXCEPT ![p] = @ + 1]
        /\ UNCHANGED <<vars, locked, locked_count, waiting>>
    BY <1>7, GotoFacts DEF AcquireOwn, In, Gains
  <2>2. Serial'
    BY <1>1, <1>7, StaysSerial DEF AcquireOwn, Gains
  <2>3. owner = nobody /\ locked_count = 0 /\ waiting = <<>> /\ ToSet(waiting) = {}
    BY <1>3, <2>1 DEF Owners, Tested, ToSet
  <2>4. \A q \in Worker : held[q] = 0
    BY <1>1, <1>3, <2>3, ProcessAssumption DEF Owners
  <2>5. Owners'
    BY <1>1, <1>2, <1>3, <2>1, <2>3, <2>4, ProcessAssumption DEF Owners
  <2>6. Tested' /\ Flag'
    BY <1>1, <1>2, <2>1 DEF Tested, Flag, ReleasePoint
  <2> QED BY <2>2, <2>5, <2>6 DEF Undisturbed
<1>8. CASE AcquireWait(p)
  <2>1. /\ call[p] = "wait" /\ call'[p] = "waiting" /\ waiting' = Append(waiting, p)
        /\ \A q \in Worker : q # p => call'[q] = call[q]
        /\ UNCHANGED <<locked, owner, locked_count, held>>
    BY <1>8, GotoFacts DEF AcquireWait, In, JoinWaiters
  <2>2. Serial'
    BY <1>1, <1>8, StaysSerial DEF AcquireWait
  <2>3. ToSet(waiting') = ToSet(waiting) \cup {p}
    BY <2>1, AppendFacts DEF MInv, MutexTypeOK
  <2>4. owner \notin {nobody, p}
    BY <1>3, <2>1 DEF Tested
  <2>5. Owners'
    BY <1>1, <1>2, <1>3, <2>1, <2>3, <2>4 DEF Owners
  <2>6. Tested' /\ Flag'
    BY <1>1, <1>2, <1>3, <2>1, <2>4 DEF Tested, Flag, ReleasePoint
  <2> QED BY <2>2, <2>5, <2>6 DEF Undisturbed
<1>9. CASE AcquireReturn(p)
  <2>1. /\ call[p] = "waiting" /\ call'[p] = "out"
        /\ \A q \in Worker : q # p => call'[q] = call[q]
        /\ held' = [held EXCEPT ![p] = @ + 1]
        /\ UNCHANGED <<vars, locked, owner, locked_count, waiting>>
    BY <1>9, GotoFacts DEF AcquireReturn, In, Gains
  <2>2. Serial'
    BY <1>1, <1>9, StaysSerial DEF AcquireReturn, Gains
  <2>3. p \notin ToSet(waiting)
    BY <1>1, CallerFacts DEF MInv, Waiters
  <2>4. p = owner /\ held[p] = 0 /\ locked_count = 0
    BY <1>3, <2>1, <2>3 DEF Owners
  <2>5. Owners'
    BY <1>1, <1>2, <1>3, <2>1, <2>3, <2>4 DEF Owners
  <2>6. Tested' /\ Flag'
    BY <1>1, <1>2, <1>3, <2>1, <2>4 DEF Tested, Flag, ReleasePoint
  <2> QED BY <2>2, <2>5, <2>6 DEF Undisturbed
<1> QED BY <1>4, <1>5, <1>6, <1>7, <1>8, <1>9 DEF Acquire

\* Releases.  The one that follows the head of an empty list does not happen.
LEMMA ReleaseUndisturbed ==
    ASSUME MInv, Undisturbed, NEW p \in Worker,
           \/ Release(p) \/ ReleaseNested(p) \/ ReleaseChoose(p) \/ ReleaseHand(p)
           \/ ReleaseFault(p) \/ ReleaseUnlock(p) \/ ReleaseDisown(p)
    PROVE  Undisturbed'
<1>1. /\ Executes(p, "run") /\ p # nobody /\ held[p] \in Nat /\ locked_count \in Nat
      /\ held \in [Worker -> Nat] /\ locked \in BOOLEAN
  BY ProcessAssumption, MutexAssumption
     DEF Release, ReleaseRefused, ReleaseTest, ReleaseNested, ReleaseChoose, ReleaseHand,
         ReleaseFault, ReleaseUnlock, ReleaseDisown, In, MInv, MutexTypeOK
<1>2. /\ \A q \in Worker : q # p => call[q] \in {"out", "waiting"}
      /\ call[p] \notin {"own", "disown"} => (locked <=> owner # nobody)
      /\ call[p] = "disown" => ~locked
  BY <1>1, AloneInCall
<1>3. Owners /\ Tested
  BY DEF Undisturbed
<1>4. ~ReleaseRefused(p) /\ ~ReleaseFault(p)
  BY <1>3 DEF Owners, Tested, ReleaseRefused, ReleaseFault, In
<1>5. CASE ReleaseTest(p)
  <2>1. /\ call[p] = "out" /\ owner = p /\ call'[p] = "release"
        /\ \A q \in Worker : q # p => call'[q] = call[q]
        /\ UNCHANGED <<vars, locked, owner, locked_count, waiting, held>>
    BY <1>5, GotoFacts DEF ReleaseTest, In
  <2>2. Serial'
    BY <1>1, <1>5, StaysSerial DEF ReleaseTest
  <2>3. Owners'
    BY <1>1, <1>2, <1>3, <2>1 DEF Owners
  <2>4. Tested' /\ Flag'
    BY <1>1, <1>2, <1>3, <2>1 DEF Tested, Flag, ReleasePoint
  <2> QED BY <2>2, <2>3, <2>4 DEF Undisturbed
<1>6. CASE ReleaseNested(p)
  <2>1. /\ call[p] = "release" /\ call'[p] = "out" /\ locked_count # 0
        /\ \A q \in Worker : q # p => call'[q] = call[q]
        /\ locked_count' = locked_count - 1 /\ held' = [held EXCEPT ![p] = @ - 1]
        /\ UNCHANGED <<vars, locked, owner, waiting>>
    BY <1>6, GotoFacts DEF ReleaseNested, In, Loses
  <2>2. Serial'
    BY <1>1, <1>6, StaysSerial DEF ReleaseNested, Loses
  <2>3. owner = p /\ held[p] > 0 /\ locked_count = held[p] - 1
    BY <1>1, <1>3, <2>1 DEF Owners, Tested, ReleasePoint
  <2>4. Owners'
    BY <1>1, <1>2, <1>3, <2>1, <2>3 DEF Owners
  <2>5. Tested' /\ Flag'
    BY <1>1, <1>2, <1>3, <2>1, <2>3 DEF Tested, Flag, ReleasePoint
  <2> QED BY <2>2, <2>4, <2>5 DEF Undisturbed
<1>7. CASE ReleaseChoose(p)
  <2>1. /\ call[p] = "release" /\ locked_count = 0
        /\ call'[p] = IF waiting # <<>> THEN "hand" ELSE "clear"
        /\ \A q \in Worker : q # p => call'[q] = call[q]
        /\ UNCHANGED <<vars, locked, owner, locked_count, waiting, held>>
    BY <1>7, GotoFacts DEF ReleaseChoose, In
  <2>2. Serial'
    BY <1>1, <1>7, StaysSerial DEF ReleaseChoose
  <2>3. owner = p
    BY <1>3, <2>1 DEF Tested, ReleasePoint
  <2>4. Owners'
    BY <1>1, <1>2, <1>3, <2>1 DEF Owners
  <2>5. Tested' /\ Flag'
    BY <1>1, <1>2, <1>3, <2>1, <2>3 DEF Tested, Flag, ReleasePoint
  <2> QED BY <2>2, <2>4, <2>5 DEF Undisturbed
<1>8. CASE ReleaseHand(p)
  <2>1. /\ call[p] = "hand" /\ call'[p] = "out"
        /\ \A q \in Worker : q # p => call'[q] = call[q]
        /\ held' = [held EXCEPT ![p] = @ - 1]
        /\ UNCHANGED <<locked, locked_count>>
    BY <1>8, GotoFacts DEF ReleaseHand, In, Loses
  <2>2. Serial'
    BY <1>1, <1>8, StaysSerial DEF ReleaseHand, Loses
  <2>3. /\ owner' \in Worker /\ owner' \in ToSet(waiting)
        /\ ToSet(waiting') = ToSet(waiting) \ {owner'}
    BY <1>8, ReleaseHandStep
  <2>4. owner = p /\ held[p] > 0 /\ locked_count = 0 /\ held[p] = 1
    BY <1>1, <1>3, <2>1 DEF Owners, Tested, ReleasePoint
  <2>5. owner' # p /\ owner' # nobody
    BY <1>3, <2>3, <2>4, ProcessAssumption DEF Owners
  <2>6. Owners'
    BY <1>1, <1>2, <1>3, <2>1, <2>3, <2>4, <2>5 DEF Owners
  <2>7. Tested' /\ Flag'
    BY <1>1, <1>2, <1>3, <2>1, <2>4, <2>5 DEF Tested, Flag, ReleasePoint
  <2> QED BY <2>2, <2>6, <2>7 DEF Undisturbed
<1>9. CASE ReleaseUnlock(p)
  <2>1. /\ call[p] = "clear" /\ call'[p] = "disown" /\ locked' = FALSE
        /\ \A q \in Worker : q # p => call'[q] = call[q]
        /\ UNCHANGED <<vars, owner, locked_count, waiting, held>>
    BY <1>9, GotoFacts DEF ReleaseUnlock, In
  <2>2. Serial'
    BY <1>1, <1>9, StaysSerial DEF ReleaseUnlock
  <2>3. Owners'
    BY <1>1, <1>2, <1>3, <2>1 DEF Owners
  <2>4. Tested' /\ Flag'
    BY <1>1, <1>2, <1>3, <2>1 DEF Tested, Flag, ReleasePoint
  <2> QED BY <2>2, <2>3, <2>4 DEF Undisturbed
<1>10. CASE ReleaseDisown(p)
  <2>1. /\ call[p] = "disown" /\ call'[p] = "out" /\ owner' = nobody
        /\ \A q \in Worker : q # p => call'[q] = call[q]
        /\ held' = [held EXCEPT ![p] = @ - 1]
        /\ UNCHANGED <<vars, locked, locked_count, waiting>>
    BY <1>10, GotoFacts DEF ReleaseDisown, In, Loses
  <2>2. Serial'
    BY <1>1, <1>10, StaysSerial DEF ReleaseDisown, Loses
  <2>3. /\ owner = p /\ locked_count = 0 /\ waiting = <<>> /\ ToSet(waiting) = {}
        /\ held[p] = 1 /\ ~locked
    BY <1>1, <1>2, <1>3, <2>1 DEF Owners, Tested, ReleasePoint, ToSet
  <2>4. \A q \in Worker : held'[q] = 0 /\ q # nobody
    BY <1>1, <1>3, <2>1, <2>3, ProcessAssumption DEF Owners
  <2>5. Owners'
    BY <1>1, <1>2, <1>3, <2>1, <2>3, <2>4 DEF Owners
  <2>6. Tested' /\ Flag'
    BY <1>1, <1>2, <2>1, <2>3 DEF Tested, Flag, ReleasePoint
  <2> QED BY <2>2, <2>5, <2>6 DEF Undisturbed
<1> QED BY <1>4, <1>5, <1>6, <1>7, <1>8, <1>9, <1>10 DEF Release

\* While a process is between two accesses nobody else takes a step; when
\* there is none, the steps of the scheduler leave the mutex alone.
LEMMA BackgroundUndisturbed ==
    ASSUME MInv, Undisturbed, atomic,
           Background \/ \E p \in Worker : CallOutside(p)
    PROVE  Undisturbed'
<1>1. UNCHANGED mutexVars
  BY DEF Background, CallOutside
<1>2. \A p \in Worker : ~Midway(p)
  <2> SUFFICES ASSUME NEW p \in Worker, Midway(p) PROVE FALSE
    OBVIOUS
  <2>1. p = current /\ frames[p] = <<>> /\ pc[p] = "run" /\ p # cleaner
    BY ProcessAssumption DEF Undisturbed, Serial
  <2>2. ~TimerMayStrike
    BY DEF TimerMayStrike
  <2>3. \A q \in Process : ~Interrupt(q)
    BY <2>1 DEF Interrupt, TickYield, TickReturn
  <2>4. \A q \in Worker \cup {cleaner} : ~Continue(q)
    BY <2>1 DEF Continue, CallYield, SpawnUnlock, CreateReady, SleepStamp, SleepBlock,
       Executes
  <2>5. ~Clean
    BY <2>1 DEF Clean, CleanerCheck, CleanerReap, CleanerDelete, CleanerBlock, Executes
  <2>6. \A q \in Worker : ~CallOutside(q)
    BY <2>1 DEF CallOutside, CreateAllocate, SleepAllocate, Terminate, Executes, Midway
  <2> QED BY <2>2, <2>3, <2>4, <2>5, <2>6 DEF Background
<1>3. Serial'
  BY <1>1, <1>2 DEF Serial, Midway, mutexVars
<1>4. Owners' /\ Tested' /\ Flag'
  BY <1>1 DEF Undisturbed, Owners, Tested, Flag, mutexVars
<1> QED BY <1>3, <1>4 DEF Undisturbed

-----------------------------------------------------------------------------
(***************************************************************************)
(* The theorems                                                            *)
(***************************************************************************)
\* Initially the mutex is free and nobody is between two accesses.
LEMMA AtomicInitStep == MutexInit => AInv
<1> SUFFICES ASSUME MutexInit PROVE AInv
  OBVIOUS
<1>1. MInv
  BY MutexInitStep
<1>2. /\ locked = FALSE /\ owner = nobody /\ locked_count = 0 /\ waiting = <<>>
      /\ \A p \in Worker : call[p] = "out" /\ held[p] = 0 /\ p # nobody
  BY ProcessAssumption DEF MutexInit
<1>3. ToSet(waiting) = {}
  BY <1>2 DEF ToSet
<1>4. Serial /\ Tested
  BY <1>2 DEF Serial, Midway, Tested, ReleasePoint
<1>5. Owners
  BY <1>2, <1>3 DEF Owners
<1>6. Flag
  BY <1>2 DEF Flag
<1> QED BY <1>1, <1>4, <1>5, <1>6 DEF AInv, Undisturbed

\* No step breaks the agreement of owner, counts, flag and waiting list.
LEMMA AtomicNextStep == AInv /\ [MutexNext]_<<allVars, atomic>> => AInv'
<1> SUFFICES ASSUME AInv, [MutexNext]_<<allVars, atomic>> PROVE AInv'
  OBVIOUS
<1>1. MInv' /\ MInv
  BY MutexNextStep DEF AInv
<1>2. atomic' = atomic
  BY DEF MutexNext
<1>3. ASSUME atomic PROVE Undisturbed'
  <2>1. Undisturbed
    BY <1>3 DEF AInv
  <2>2. CASE Background \/ \E p \in Worker : CallOutside(p)
    BY <1>1, <1>3, <2>1, <2>2, BackgroundUndisturbed
  <2>3. ASSUME NEW p \in Worker, Acquire(p) \/ Release(p) \/ Inside(p)
        PROVE  Undisturbed'
    BY <1>1, <2>1, <2>3, AcquireUndisturbed, ReleaseUndisturbed DEF Inside
  <2>4. CASE UNCHANGED <<allVars, atomic>>
    BY <2>1, <2>4
       DEF Undisturbed, Serial, Midway, Owners, Tested, Flag, allVars, vars, mutexVars
  <2> QED BY <2>2, <2>3, <2>4 DEF MutexNext
<1> QED BY <1>1, <1>2, <1>3 DEF AInv

\* The fields of a mutex_t and what each process found at its last test agree
\* at every access of calls that no interrupt cuts.
THEOREM AtomicInvariance == MutexSpec => []AInv
BY AtomicInitStep, AtomicNextStep, PTL DEF MutexSpec

\* The mutex excludes when its calls are not interrupted: one process at most
\* holds it, and locked, owner and locked_count say which and how often.
THEOREM Excludes == MutexSpec => []MutualExclusion
<1>1. ASSUME AInv, atomic, NEW p \in Worker, held[p] > 0
      PROVE  /\ \A q \in Worker : held[q] > 0 => p = q
             /\ ~Midway(p) => locked /\ owner = p /\ locked_count = held[p] - 1
  <2>1. /\ p = owner /\ p # nobody /\ locked_count = held[p] - 1
        /\ \A q \in Worker : held[q] > 0 => q = owner
    BY <1>1, ProcessAssumption DEF AInv, Undisturbed, Owners
  <2>2. ASSUME ~Midway(p) PROVE locked
    <3>1. \A q \in Worker : call[q] = "disown" => q = owner
      BY <1>1 DEF AInv, Undisturbed, Tested, ReleasePoint
    <3>2. \A q \in Worker : call[q] # "disown"
      BY <2>1, <2>2, <3>1 DEF Midway
    <3> QED BY <1>1, <2>1, <3>2 DEF AInv, Undisturbed, Flag
  <2> QED BY <2>1, <2>2
<1>2. AInv => MutualExclusion
  BY <1>1 DEF MutualExclusion
<1> QED BY <1>2, AtomicInvariance, PTL

\* Under the same condition nobody waits for a mutex that nobody will release.
THEOREM StrandsNobody == MutexSpec => []NoStrandedWaiter
<1>1. ASSUME AInv, atomic, waiting # <<>>
      PROVE  locked /\ \E p \in Worker : p = owner /\ (held[p] > 0 \/ call[p] = "waiting")
  <2>1. owner # nobody /\ owner \in Worker
    BY <1>1 DEF AInv, MInv, MutexTypeOK, Undisturbed, Owners
  <2>2. held[owner] > 0 \/ call[owner] = "waiting"
    <3>1. MaxHeld[atomic] \in Nat /\ held \in [Worker -> 0 .. MaxHeld[atomic]]
      BY <1>1, MutexAssumption DEF AInv, MInv, MutexTypeOK
    <3>2. held[owner] \in Nat
      BY <2>1, <3>1
    <3> QED BY <1>1, <2>1, <3>2 DEF AInv, Undisturbed, Owners
  <2>3. \A q \in Worker : call[q] # "disown"
    BY <1>1 DEF AInv, Undisturbed, Tested
  <2>4. locked
    BY <1>1, <2>1, <2>3 DEF AInv, Undisturbed, Flag
  <2> QED BY <2>1, <2>2, <2>4
<1>2. AInv => NoStrandedWaiter
  BY <1>1 DEF NoStrandedWaiter
<1> QED BY <1>2, AtomicInvariance, PTL

-----------------------------------------------------------------------------
\* A step that writes neither owner, locked_count nor waiting.
LEMMA UnseenStep ==
    ASSUME UNCHANGED <<owner, locked_count, waiting, atomic>>
    PROVE  UNCHANGED Lock!lockVars
BY DEF Lock!lockVars

\* The accesses of acquire_mutex that take effect are acquisitions.
LEMMA AcquireRefines ==
    ASSUME MInv, Undisturbed, atomic, UNCHANGED atomic, NEW p \in Worker,
           Acquire(p) \/ AcquireLock(p) \/ AcquireOwn(p) \/ AcquireWait(p) \/ AcquireReturn(p)
    PROVE  [Lock!Next]_(Lock!lockVars)
<1>1. CASE AcquireNested(p)
  <2>1. Lock!Acquire(p)
    BY <1>1 DEF AcquireNested, Lock!Acquire
  <2> QED BY <2>1 DEF Lock!Next
<1>2. CASE AcquireOwn(p)
  <2>1. owner = nobody
    BY <1>2 DEF AcquireOwn, In, Undisturbed, Tested
  <2>2. Lock!Acquire(p)
    BY <1>2, <2>1 DEF AcquireOwn, Lock!Acquire
  <2> QED BY <2>2 DEF Lock!Next
<1>3. CASE AcquireWait(p)
  <2>1. owner \notin {nobody, p}
    BY <1>3 DEF AcquireWait, In, Undisturbed, Tested
  <2>2. Lock!Acquire(p)
    BY <1>3, <2>1 DEF AcquireWait, JoinWaiters, Lock!Acquire
  <2> QED BY <2>2 DEF Lock!Next
<1>4. CASE AcquireTest(p) \/ AcquireLock(p) \/ AcquireReturn(p)
  BY <1>4, UnseenStep DEF AcquireTest, AcquireLock, AcquireReturn
<1> QED BY <1>1, <1>2, <1>3, <1>4 DEF Acquire

\* Those of release_mutex are releases, by the holder.
LEMMA ReleaseRefines ==
    ASSUME MInv, Undisturbed, atomic, UNCHANGED atomic, NEW p \in Worker,
           \/ Release(p) \/ ReleaseNested(p) \/ ReleaseChoose(p) \/ ReleaseHand(p)
           \/ ReleaseFault(p) \/ ReleaseUnlock(p) \/ ReleaseDisown(p)
    PROVE  [Lock!Next]_(Lock!lockVars)
<1>1. call[p] \in ReleasePoint => owner = p
  BY DEF Undisturbed, Tested
<1>2. CASE ReleaseNested(p)
  <2>1. owner = p /\ locked_count > 0
    BY <1>1, <1>2 DEF ReleaseNested, In, ReleasePoint, MInv, MutexTypeOK
  <2>2. Lock!Release(p)
    BY <1>2, <2>1 DEF ReleaseNested, Lock!Release
  <2> QED BY <2>2 DEF Lock!Next
<1>3. CASE ReleaseHand(p)
  <2>1. owner = p /\ locked_count = 0
    BY <1>1, <1>3 DEF ReleaseHand, In, ReleasePoint, Undisturbed, Tested
  <2>2. Lock!Release(p)
    BY <1>3, <2>1 DEF ReleaseHand, Pop, Lock!Release
  <2> QED BY <2>2 DEF Lock!Next
<1>4. CASE ReleaseDisown(p)
  <2>1. owner = p /\ locked_count = 0 /\ waiting = <<>>
    BY <1>1, <1>4 DEF ReleaseDisown, In, ReleasePoint, Undisturbed, Tested
  <2>2. Lock!Release(p)
    BY <1>4, <2>1 DEF ReleaseDisown, Lock!Release
  <2> QED BY <2>2 DEF Lock!Next
<1>5. CASE \/ Release(p) \/ ReleaseChoose(p) \/ ReleaseFault(p) \/ ReleaseUnlock(p)
  BY <1>5, UnseenStep
     DEF Release, ReleaseRefused, ReleaseTest, ReleaseChoose, ReleaseFault, ReleaseUnlock
<1> QED BY <1>2, <1>3, <1>4, <1>5

\* With calls that no interrupt cuts, a mutex_t is a recursive lock that its
\* waiters get in the order they came.
THEOREM LockIsImplemented == MutexSpec => ImplementsFifoLock
<1>1. MutexInit => Lock!Init
  BY DEF MutexInit, Lock!Init
<1>2. AInv /\ [MutexNext]_<<allVars, atomic>> => [Lock!Next]_(Lock!lockVars)
  <2> SUFFICES ASSUME AInv, [MutexNext]_<<allVars, atomic>>
               PROVE  [Lock!Next]_(Lock!lockVars)
    OBVIOUS
  <2>1. atomic' = atomic
    BY DEF MutexNext
  <2>2. CASE ~atomic
    BY <2>1, <2>2 DEF Lock!lockVars
  <2>3. ASSUME NEW p \in Worker, Acquire(p) \/ Release(p) \/ Inside(p), atomic
        PROVE  [Lock!Next]_(Lock!lockVars)
    BY <2>1, <2>3, AcquireRefines, ReleaseRefines DEF AInv, Inside
  <2>4. CASE Background \/ \E p \in Worker : CallOutside(p)
    BY <2>1, <2>4, UnseenStep DEF Background, CallOutside, mutexVars
  <2>5. CASE UNCHANGED <<allVars, atomic>>
    BY <2>5, UnseenStep DEF allVars, mutexVars
  <2> QED BY <2>2, <2>3, <2>4, <2>5 DEF MutexNext
<1> QED BY <1>1, <1>2, AtomicInvariance, PTL DEF MutexSpec, ImplementsFifoLock, Lock!Spec
=============================================================================

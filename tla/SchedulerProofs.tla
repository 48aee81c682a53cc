--------------------------- MODULE SchedulerProofs ---------------------------
(***************************************************************************)
(* Proofs about the Scheduler, for any number of processes, any quantum    *)
(* and any nesting of interrupts.                                          *)
(***************************************************************************)
EXTENDS SchedulerInvariant, ListLemmas, FiniteSetTheorems

-----------------------------------------------------------------------------
(***************************************************************************)
(* The operators on the lists                                              *)
(***************************************************************************)

\* wakeUp wakes the processes before the first that is not due.
LEMMA DueCountFacts ==
    ASSUME NEW remaining, sleepers \in Seq(Process)
    PROVE  /\ DueCount(remaining) \in 0 .. Len(sleepers)
           /\ \A i \in 1 .. DueCount(remaining) : ~(remaining[sleepers[i]] > 0)
           /\ DueCount(remaining) < Len(sleepers)
                  => remaining[sleepers[DueCount(remaining) + 1]] > 0
<1> DEFINE I == {i \in 1 .. Len(sleepers) : remaining[sleepers[i]] > 0}
           n == DueCount(remaining)
<1>1. Len(sleepers) \in Nat /\ I \subseteq Nat
  BY LenProperties
<1>2. CASE I = {}
  <2>1. n = Len(sleepers)
    BY <1>2 DEF DueCount, SelectInSeq
  <2> HIDE DEF n
  <2>2. /\ n \in 0 .. Len(sleepers) /\ ~(n < Len(sleepers))
        /\ \A i \in 1 .. n : ~(remaining[sleepers[i]] > 0)
    BY <1>1, <1>2, <2>1
  <2> QED BY <2>2 DEF n
<1>3. CASE I # {}
  <2>1. Min(I) \in I /\ \A j \in I : Min(I) <= j
    BY <1>1, <1>3, MinFacts
  <2>2. n = Min(I) - 1
    BY <1>1, <1>3, <2>1 DEF DueCount, SelectInSeq
  <2> DEFINE m == Min(I)
  <2> HIDE DEF n, m
  <2>3. m \in 1 .. Len(sleepers) /\ remaining[sleepers[m]] > 0 /\ n = m - 1
    BY <2>1, <2>2 DEF m
  <2>4. ASSUME NEW i \in 1 .. n PROVE ~(remaining[sleepers[i]] > 0)
    <3>1. i \in 1 .. Len(sleepers) /\ ~(m <= i)
      BY <1>1, <2>3
    <3> QED BY <2>1, <3>1 DEF m
  <2>5. n \in 0 .. Len(sleepers) /\ n + 1 = m
    BY <1>1, <2>3
  <2> QED BY <2>3, <2>4, <2>5 DEF n
<1> QED BY <1>2, <1>3

\* Where sleep inserts a process: behind those that sleep no longer, before
\* one that does.
LEMMA InsertSleeperPlace ==
    ASSUME NEW p, NEW n, sleepers \in Seq(Process)
    PROVE  \E k \in 1 .. Len(sleepers) + 1 :
               /\ InsertSleeper(p, n) = InsertAt(sleepers, k, p)
               /\ \A i \in 1 .. Len(sleepers) : i < k => ~(left[sleepers[i]] > n)
               /\ k <= Len(sleepers) => left[sleepers[k]] > n
<1> DEFINE I == {i \in 1 .. Len(sleepers) : left[sleepers[i]] > n}
           k == IF I = {} THEN Len(sleepers) + 1 ELSE Min(I)
<1>1. Len(sleepers) \in Nat /\ I \subseteq Nat
  BY LenProperties
<1>2. /\ k \in 1 .. Len(sleepers) + 1
      /\ \A i \in 1 .. Len(sleepers) : i < k => ~(left[sleepers[i]] > n)
      /\ k <= Len(sleepers) => left[sleepers[k]] > n
  <2>1. CASE I = {}
    BY <1>1, <2>1
  <2>2. CASE I # {}
    <3>1. Min(I) \in I /\ \A j \in I : Min(I) <= j
      BY <1>1, <2>2, MinFacts
    <3>2. k = Min(I)
      BY <2>2
    <3> DEFINE m == Min(I)
    <3>3. /\ m \in 1 .. Len(sleepers) /\ left[sleepers[m]] > n
          /\ \A j \in 1 .. Len(sleepers) : left[sleepers[j]] > n => m <= j
      BY <3>1
    <3> HIDE DEF k, m
    <3>4. \A i \in 1 .. Len(sleepers) : i < m => ~(left[sleepers[i]] > n)
      BY <1>1, <3>3
    <3>5. k = m /\ m \in 1 .. Len(sleepers) + 1
      BY <1>1, <3>2, <3>3 DEF m
    <3> QED BY <3>3, <3>4, <3>5
  <2> QED BY <2>1, <2>2
<1>3. InsertSleeper(p, n) = InsertAt(sleepers, k, p)
  <2>1. CASE I = {}
    <3>1. SelectInSeq(sleepers, LAMBDA q : left[q] > n) = 0
      BY <2>1 DEF SelectInSeq
    <3>2. k = Len(sleepers) + 1
      BY <2>1
    <3> HIDE DEF I, k
    <3> QED BY <3>1, <3>2, Zenon DEF InsertSleeper
  <2>2. CASE I # {}
    <3>1. Min(I) \in 1 .. Len(sleepers)
      BY <1>1, <2>2, MinFacts
    <3>2. Min(I) # 0
      BY <1>1, <3>1
    <3> QED BY <2>2, <3>2 DEF InsertSleeper, SelectInSeq
  <2> QED BY <2>1, <2>2
<1> QED BY <1>2, <1>3

\* sleep adds the process to the sleep list and loses nobody.
LEMMA InsertSleeperFacts ==
    ASSUME NEW p \in Process, NEW n, sleepers \in Seq(Process)
    PROVE  /\ InsertSleeper(p, n) \in Seq(Process)
           /\ ToSet(InsertSleeper(p, n)) = ToSet(sleepers) \cup {p}
           /\ IsInjective(sleepers) /\ p \notin ToSet(sleepers)
                  => IsInjective(InsertSleeper(p, n))
BY InsertSleeperPlace, InsertAtFacts

\* An empty list has no element, and only an empty list.
LEMMA EmptyList ==
    ASSUME NEW S, NEW s \in Seq(S)
    PROVE  s = <<>> <=> ToSet(s) = {}
BY EmptySeq, LenProperties DEF ToSet

\* What schedule_next_process does to the READY list and to the status of
\* the two processes: the next one is the head of the list, the caller
\* included when it is requeued, and the idle process only when it is empty.
LEMMA YieldFacts ==
    ASSUME TypeOK, OnOneList, StatusMatchesList, Yield(current)
    PROVE  /\ current' \in Process
           /\ ready' \in Seq(Process)
           /\ IsInjective(ready')
           /\ ToSet(ready') =
                  (ToSet(ready) \cup IF Requeued(current) THEN {current} ELSE {})
                      \ {current'}
           /\ current' # idle =>
                  \/ current' \in ToSet(ready)
                  \/ current' = current /\ Requeued(current)
           /\ current' = idle => ToSet(ready) = {} /\ ~Requeued(current)
           /\ status' = [status EXCEPT
                            ![current] = IF Requeued(current) THEN "READY" ELSE @,
                            ![current'] = "RUNNING"]
           /\ IF current' # current /\ Fresh(current')
                  THEN count' = count + 1 /\ intr' = TRUE
                  ELSE LockedSection
<1> DEFINE p == current
           queue == IF Requeued(p) THEN Append(ready, p) ELSE ready
<1>1. p \in Process /\ idle \in Process /\ ready \in Seq(Process)
  BY DEF TypeOK, Process
<1>2. /\ current' = IF queue = <<>> THEN idle ELSE Head(queue)
      /\ ready' = IF queue = <<>> THEN <<>> ELSE Tail(queue)
      /\ status' = [status EXCEPT ![p] = IF Requeued(p) THEN "READY" ELSE @,
                                  ![current'] = "RUNNING"]
      /\ IF current' # p /\ Fresh(current')
             THEN count' = count + 1 /\ intr' = TRUE
             ELSE LockedSection
  BY DEF Yield, Pop
<1>3. Requeued(p) => p \notin ToSet(ready)
  BY <1>1 DEF Requeued, StatusMatchesList
<1>4. /\ queue \in Seq(Process)
      /\ ToSet(queue) = ToSet(ready) \cup IF Requeued(p) THEN {p} ELSE {}
      /\ IsInjective(queue)
  <2>1. CASE Requeued(p)
    BY <2>1, <1>1, <1>3, AppendFacts DEF OnOneList
  <2>2. CASE ~Requeued(p)
    BY <2>2, <1>1 DEF OnOneList
  <2> QED BY <2>1, <2>2
<1>5. idle \notin ToSet(queue)
  BY <1>4 DEF StatusMatchesList, Requeued
<1> HIDE DEF queue
<1>6. CASE queue = <<>>
  <2>1. ToSet(queue) = {}
    BY <1>4, <1>6, EmptyList
  <2>2. <<>> \in Seq(Process) /\ IsInjective(<<>>) /\ ToSet(<<>>) = {}
    BY DEF IsInjective, ToSet
  <2> QED BY <1>1, <1>2, <1>4, <1>6, <2>1, <2>2
<1>7. CASE queue # <<>>
  <2>1. /\ Head(queue) \in Process /\ Head(queue) \in ToSet(queue)
        /\ Tail(queue) \in Seq(Process)
        /\ ToSet(queue) = ToSet(Tail(queue)) \cup {Head(queue)}
        /\ IsInjective(Tail(queue)) /\ Head(queue) \notin ToSet(Tail(queue))
    BY <1>4, <1>7, TailFacts
  <2>2. current' = Head(queue) /\ ready' = Tail(queue)
    BY <1>2, <1>7
  <2>3. ToSet(Tail(queue)) = ToSet(queue) \ {Head(queue)}
    BY <2>1
  <2> QED BY <1>2, <1>4, <1>5, <2>1, <2>2, <2>3
<1> QED BY <1>6, <1>7

-----------------------------------------------------------------------------
(***************************************************************************)
(* The locks: a step that lets a process into a locked window, or out of   *)
(* one, moves the count with it.                                           *)
(***************************************************************************)

\* Only finitely many processes can hold the lock.
LEMMA HoldersFinite == IsFiniteSet(Holders)
<1>1. IsFiniteSet(Worker \cup {idle}) /\ IsFiniteSet((Worker \cup {idle}) \cup {cleaner})
  BY FS_AddElement, ProcessAssumption
<1>2. (Worker \cup {idle}) \cup {cleaner} = Process
  BY DEF Process
<1>3. Holders \subseteq Process
  BY DEF Holders
<1> QED BY <1>1, <1>2, <1>3, FS_Subset

\* A process that takes the lock keeps the count balanced.
LEMMA OneMoreHolder ==
    ASSUME LockBalance, NEW p, p \notin Holders,
           Holders' = Holders \cup {p}, count' = count + 1
    PROVE  count \in Nat /\ LockBalance'
BY HoldersFinite, FS_AddElement, FS_CardinalityType DEF LockBalance

\* So does one that gives it back, and there was a lock to give back.
LEMMA OneHolderLess ==
    ASSUME LockBalance, NEW p, p \in Holders
    PROVE  /\ count \in Nat \ {0}
           /\ Holders' = Holders \ {p} /\ count' = count - 1 => LockBalance'
<1>1. IsFiniteSet(Holders \ {p}) /\ Cardinality(Holders \ {p}) = count - 1
  BY HoldersFinite, FS_RemoveElement DEF LockBalance
<1>2. count \in Nat /\ Cardinality(Holders \ {p}) \in Nat
  BY <1>1, HoldersFinite, FS_CardinalityType DEF LockBalance
<1>3. count \in Nat \ {0}
  BY <1>1, <1>2
<1>4. ASSUME Holders' = Holders \ {p}, count' = count - 1 PROVE LockBalance'
  BY <1>1, <1>4 DEF LockBalance
<1> QED BY <1>3, <1>4

\* A locked section leaves the count as it was, and interrupts off only when
\* somebody else holds the lock.
LEMMA LockedSectionFacts ==
    ASSUME count \in Nat, LockedSection
    PROVE  /\ count' = count /\ count' \in Nat
           /\ intr' \in BOOLEAN
           /\ InterruptsOnUnlessLocked'
           /\ LockBalance /\ Holders' = Holders => LockBalance'
<1>1. count' = count /\ intr' = (count = 0)
  BY DEF LockedSection
<1>2. InterruptsOnUnlessLocked'
  BY <1>1 DEF InterruptsOnUnlessLocked
<1>3. ASSUME LockBalance, Holders' = Holders PROVE LockBalance'
  BY <1>1, <1>3 DEF LockBalance
<1> QED BY <1>1, <1>2, <1>3

-----------------------------------------------------------------------------
(***************************************************************************)
(* Every step of a thread preserves the invariant.                         *)
(***************************************************************************)

\* The first unlock_sheduler of a process gives back the lock it started with.
LEMMA SpawnUnlockStep ==
    ASSUME IInv, NEW p \in Worker \cup {cleaner}, SpawnUnlock(p)
    PROVE  IInv'
<1>1. p \in Process /\ p = current /\ pc[p] = "spawn" /\ frames[p] = <<>>
  BY DEF SpawnUnlock, Executes, Process
<1>2. p \in Holders /\ Holders' = Holders \ {p}
  BY <1>1, ProcessAssumption DEF IInv, TypeOK, Holders, HoldsLock, SpawnUnlock
<1>3. count \in Nat \ {0}
  BY <1>2, OneHolderLess DEF IInv, Locks
<1>4. count' = count - 1 /\ intr' = (count = 1 \/ intr)
  BY <1>3 DEF SpawnUnlock, Unlock
<1>5. TypeOK'
  BY <1>1, <1>3, <1>4 DEF IInv, TypeOK, SpawnUnlock, Point
<1>6. Threads' /\ FreeBlocks'
  BY <1>1, ProcessAssumption
     DEF IInv, TypeOK, Threads, FreeBlocks, CleanerPoint, SpawnUnlock, Process
<1>7. Leavers' /\ Targets'
  BY <1>1, ProcessAssumption
     DEF IInv, TypeOK, Leavers, Targets, SpawnUnlock, Process
<1>8. Lists'
  BY <1>1 DEF IInv, TypeOK, Lists, OnOneList, StatusMatchesList, DeadNotLost, SpawnUnlock
<1>9. LockBalance'
  BY <1>2, <1>4, OneHolderLess DEF IInv, Locks
<1>10. InterruptsOnUnlessLocked'
  <2>1. ASSUME count' = 0 PROVE count = 1
    BY <1>3, <1>4, <2>1
  <2>2. intr' = (count = 1 \/ intr)
    BY <1>4
  <2> QED BY <2>1, <2>2, Zenon DEF InterruptsOnUnlessLocked
<1> QED BY <1>5, <1>6, <1>7, <1>8, <1>9, <1>10 DEF IInv, Locks

\* iret resumes the interrupted thread where it was.
LEMMA TickReturnStep ==
    ASSUME IInv, NEW p \in Process, TickReturn(p)
    PROVE  IInv'
<1>1. /\ p = current /\ frames[p] # <<>>
      /\ frames' = [frames EXCEPT ![p] = Front(@)] /\ intr' = TRUE
      /\ UNCHANGED <<current, ready, dead, sleepers, left, status, pc, target,
                     count, phase>>
  BY DEF TickReturn
<1>2. Front(frames[p]) \in Seq(Frame)
  BY <1>1, FrontFacts DEF IInv, TypeOK
<1>3. Holders' = Holders
  BY <1>1 DEF IInv, TypeOK, Holders, HoldsLock
<1>4. TypeOK'
  BY <1>1, <1>2 DEF IInv, TypeOK
<1>5. Threads' /\ FreeBlocks'
  BY <1>1 DEF IInv, TypeOK, Threads, FreeBlocks
<1>6. Leavers' /\ Targets' /\ Lists'
  BY <1>1 DEF IInv, Leavers, Targets, Lists, OnOneList, StatusMatchesList, DeadNotLost
<1>7. Locks'
  BY <1>1, <1>3 DEF IInv, Locks, LockBalance, InterruptsOnUnlessLocked
<1> QED BY <1>4, <1>5, <1>6, <1>7 DEF IInv

\* The block that create_process takes was in nobody's hands.
LEMMA CreateAllocateStep ==
    ASSUME IInv, NEW p \in Worker, NEW child \in Worker, CreateAllocate(p, child)
    PROVE  IInv'
<1>1. /\ p = current /\ pc[p] = "run" /\ pc[child] = "none" /\ p # child
      /\ pc' = [pc EXCEPT ![p] = "create", ![child] = "built"]
      /\ target' = [target EXCEPT ![p] = child] /\ intr' = TRUE
      /\ UNCHANGED <<current, ready, dead, sleepers, left, status, frames,
                     count, phase>>
  BY DEF CreateAllocate, Executes
<1>2. p \in Process /\ child \in Process
  BY DEF Process
<1>3. child # current /\ status[child] = "DEAD" /\ frames[child] = <<>>
  BY <1>1 DEF IInv, FreeBlocks
<1>4. status[p] = "RUNNING"
  BY <1>1 DEF IInv, Threads
<1>5. child \notin ToSet(dead) /\ p \notin ToSet(dead)
  BY <1>1, <1>2, <1>4, ProcessAssumption DEF IInv, Leavers, Lists, StatusMatchesList
<1>6. /\ pc' \in [Process -> Point] /\ pc'[p] = "create" /\ pc'[child] = "built"
      /\ \A q \in Process : q # p /\ q # child => pc'[q] = pc[q]
  BY <1>1, <1>2 DEF IInv, TypeOK, Point
<1>7. /\ target' \in [Process -> Process \cup {nobody}] /\ target'[p] = child
      /\ \A q \in Process : q # p => target'[q] = target[q]
  BY <1>1, <1>2 DEF IInv, TypeOK
<1>8. idle \in Process \ {p, child} /\ cleaner \in Process \ {p, child}
  BY ProcessAssumption DEF Process
<1>9. Holders' = Holders
  BY <1>1, <1>2, <1>3, <1>6 DEF Holders, HoldsLock
<1>10. TypeOK'
  BY <1>1, <1>6, <1>7 DEF IInv, TypeOK
<1>11. Threads' /\ FreeBlocks'
  <2>1. Threads'
    BY <1>1, <1>2, <1>4, <1>6, <1>8 DEF IInv, Threads, CleanerPoint, Process
  <2>2. FreeBlocks'
    BY <1>1, <1>2, <1>3, <1>6 DEF IInv, FreeBlocks, Process
  <2> QED BY <2>1, <2>2
<1>12. Leavers'
  BY <1>1, <1>2, <1>5, <1>6 DEF IInv, Leavers, Process
<1>13. Targets'
  <2>1. \A q \in Process : target[q] # child
    BY <1>1, <1>2, <1>8, ProcessAssumption DEF IInv, Targets, Threads, CleanerPoint, Process
  <2>2. \A q \in Process : target'[q] # nobody => pc'[q] \in {"create", "delete"}
    BY <1>1, <1>2, <1>6, <1>7, <2>1 DEF IInv, Targets
  <2>3. ASSUME NEW q \in Process, pc'[q] = "create"
        PROVE  /\ target'[q] \in Worker /\ pc'[target'[q]] = "built"
               /\ \A r \in Process : pc'[r] = "create" /\ target'[r] = target'[q] => q = r
    <3>1. CASE q = p
      BY <3>1, <1>1, <1>2, <1>6, <1>7, <2>1
    <3>2. CASE q # p
      <4>1. pc[q] = "create" /\ target'[q] = target[q] /\ target[q] # p
        BY <3>2, <2>3, <1>1, <1>2, <1>6, <1>7 DEF IInv, Targets
      <4> QED BY <3>2, <4>1, <1>2, <1>6, <1>7, <2>1, <2>3 DEF IInv, Targets, Process
    <3> QED BY <3>1, <3>2
  <2>4. ASSUME pc'[cleaner] = "delete"
        PROVE  /\ target'[cleaner] \in Worker
               /\ target'[cleaner] \notin ToSet(dead)'
               /\ target'[cleaner] # current'
               /\ status'[target'[cleaner]] = "DEAD"
               /\ pc'[target'[cleaner]] \in {"run", "yield"}
    BY <2>4, <1>1, <1>2, <1>4, <1>6, <1>7, <1>8, <2>1 DEF IInv, Targets, Process
  <2> QED BY <2>2, <2>3, <2>4 DEF Targets
<1>14. Lists'
  <2>1. OnOneList' /\ StatusMatchesList'
    BY <1>1 DEF IInv, Lists, OnOneList, StatusMatchesList
  <2>2. DeadNotLost'
    BY <1>1, <1>2, <1>4, <1>6, <1>7, <1>8 DEF IInv, Lists, DeadNotLost, Process
  <2> QED BY <2>1, <2>2 DEF Lists
<1>15. Locks'
  BY <1>1, <1>9 DEF IInv, Locks, LockBalance, InterruptsOnUnlessLocked
<1> QED BY <1>10, <1>11, <1>12, <1>13, <1>14, <1>15 DEF IInv

\* sleep takes the lock and lets kmalloc turn interrupts on.
LEMMA SleepAllocateStep ==
    ASSUME IInv, NEW p \in Worker, SleepAllocate(p)
    PROVE  IInv'
<1>1. /\ p = current /\ pc[p] = "run"
      /\ count' = count + 1 /\ intr' \in BOOLEAN
      /\ pc' = [pc EXCEPT ![p] = "kmalloc"]
      /\ UNCHANGED <<current, ready, dead, sleepers, left, status, frames,
                     target, phase>>
  BY DEF SleepAllocate, Executes
<1>2. p \in Process /\ p \notin {idle, cleaner}
  BY ProcessAssumption DEF Process
<1>3. status[p] = "RUNNING"
  BY <1>1 DEF IInv, Threads
<1>4. p \notin Holders /\ Holders' = Holders \cup {p}
  BY <1>1, <1>2 DEF IInv, TypeOK, Holders, HoldsLock
<1>5. TypeOK'
  BY <1>1, <1>2 DEF IInv, TypeOK, Point
<1>6. Threads' /\ FreeBlocks'
  BY <1>1, <1>2, <1>3 DEF IInv, TypeOK, Threads, FreeBlocks, CleanerPoint
<1>7. Leavers' /\ Targets'
  BY <1>1, <1>2, <1>3, ProcessAssumption
     DEF IInv, TypeOK, Leavers, Targets, Lists, StatusMatchesList
<1>8. Lists'
  BY <1>1, <1>2, <1>3 DEF IInv, TypeOK, Lists, OnOneList, StatusMatchesList, DeadNotLost
<1>9. count \in Nat /\ LockBalance'
  BY <1>1, <1>4, OneMoreHolder DEF IInv, Locks
<1>10. InterruptsOnUnlessLocked'
  <2>1. count' # 0
    BY <1>1, <1>9
  <2> QED BY <2>1, Zenon DEF InterruptsOnUnlessLocked
<1> QED BY <1>5, <1>6, <1>7, <1>8, <1>9, <1>10 DEF IInv, Locks

\* wake_time is set.
LEMMA SleepStampStep ==
    ASSUME IInv, NEW p \in Worker \cup {cleaner}, NEW ms \in SleepTicks,
           SleepStamp(p, ms)
    PROVE  IInv'
<1>1. /\ p = current /\ pc[p] = "kmalloc"
      /\ left' = [left EXCEPT ![p] = ms]
      /\ pc' = [pc EXCEPT ![p] = "stamped"]
      /\ UNCHANGED <<current, ready, dead, sleepers, status, frames, target,
                     count, intr, phase>>
  BY DEF SleepStamp, Executes
<1>2. p \in Process /\ p # idle /\ p # cleaner
  BY <1>1, ProcessAssumption DEF Process, IInv, Threads, CleanerPoint
<1>3. status[p] = "RUNNING"
  BY <1>1 DEF IInv, Threads
<1>4. Holders' = Holders
  BY <1>1, <1>2 DEF IInv, TypeOK, Holders, HoldsLock
<1>5. TypeOK'
  BY <1>1, <1>2, TimeAssumption DEF IInv, TypeOK, Point
<1>6. Threads' /\ FreeBlocks'
  BY <1>1, <1>2, <1>3 DEF IInv, TypeOK, Threads, FreeBlocks, CleanerPoint
<1>7. Leavers' /\ Targets'
  BY <1>1, <1>2, <1>3 DEF IInv, TypeOK, Leavers, Targets, Lists, StatusMatchesList
<1>8. Lists'
  BY <1>1, <1>2, <1>3 DEF IInv, TypeOK, Lists, OnOneList, StatusMatchesList, DeadNotLost
<1>9. Locks'
  BY <1>1, <1>4 DEF IInv, Locks, LockBalance, InterruptsOnUnlessLocked
<1> QED BY <1>5, <1>6, <1>7, <1>8, <1>9 DEF IInv

\* The process created joins the READY list, which it was not on.
LEMMA CreateReadyStep ==
    ASSUME IInv, NEW p \in Worker \cup {cleaner}, CreateReady(p)
    PROVE  IInv'
<1> DEFINE child == target[p]
<1>1. /\ p = current /\ pc[p] = "create"
      /\ ready' = Append(ready, child)
      /\ status' = [status EXCEPT ![child] = "READY"]
      /\ pc' = [pc EXCEPT ![p] = "run", ![child] = "spawn"]
      /\ target' = [target EXCEPT ![p] = nobody]
      /\ LockedSection
      /\ UNCHANGED <<current, dead, sleepers, left, frames, phase>>
  BY DEF CreateReady, Executes
<1>2. /\ p \in Process /\ p # idle /\ p # cleaner /\ p \in Worker
      /\ child \in Worker /\ child \in Process /\ pc[child] = "built" /\ child # p
      /\ \A q \in Process : pc[q] = "create" /\ target[q] = child => p = q
  BY <1>1, ProcessAssumption DEF Process, IInv, Threads, Targets, CleanerPoint
<1>3. child # current /\ status[child] = "DEAD" /\ frames[child] = <<>>
  BY <1>1, <1>2 DEF IInv, FreeBlocks
<1>4. status[p] = "RUNNING"
  BY <1>1 DEF IInv, Threads
<1>5. /\ child \notin ToSet(ready) /\ child \notin ToSet(dead)
      /\ child \notin ToSet(sleepers) /\ p \notin ToSet(dead)
  BY <1>2, <1>3, <1>4, ProcessAssumption
     DEF IInv, Leavers, Lists, StatusMatchesList, Process
<1>6. idle \in Process \ {p, child} /\ cleaner \in Process \ {p, child}
  BY <1>2, ProcessAssumption DEF Process
<1> HIDE DEF child
<1>7. /\ pc' \in [Process -> Point] /\ pc'[p] = "run" /\ pc'[child] = "spawn"
      /\ \A q \in Process : q # p /\ q # child => pc'[q] = pc[q]
  BY <1>1, <1>2 DEF IInv, TypeOK, Point
<1>8. /\ target' \in [Process -> Process \cup {nobody}] /\ target'[p] = nobody
      /\ \A q \in Process : q # p => target'[q] = target[q]
  BY <1>1, <1>2 DEF IInv, TypeOK
<1>9. /\ status' \in [Process -> {"DEAD", "RUNNING", "READY", "BLOCKED"}]
      /\ status'[child] = "READY"
      /\ \A q \in Process : q # child => status'[q] = status[q]
  BY <1>1, <1>2 DEF IInv, TypeOK
<1>10. /\ ready' \in Seq(Process) /\ ToSet(ready') = ToSet(ready) \cup {child}
       /\ IsInjective(ready')
  BY <1>1, <1>2, <1>5, AppendFacts DEF IInv, TypeOK, Lists, OnOneList
<1>11. Holders' = Holders
  BY <1>1, <1>2, <1>3, <1>7 DEF Holders, HoldsLock
<1>12. /\ count' \in Nat /\ intr' \in BOOLEAN /\ LockBalance'
       /\ InterruptsOnUnlessLocked'
  BY <1>1, <1>11, LockedSectionFacts DEF IInv, TypeOK, Locks
<1>13. TypeOK'
  BY <1>1, <1>7, <1>8, <1>9, <1>10, <1>12 DEF IInv, TypeOK
<1>14. Threads' /\ FreeBlocks'
  <2>1. Threads'
    BY <1>1, <1>2, <1>3, <1>6, <1>7, <1>9 DEF IInv, Threads, CleanerPoint, Process
  <2>2. FreeBlocks'
    BY <1>1, <1>2, <1>3, <1>7, <1>9 DEF IInv, FreeBlocks, Process
  <2> QED BY <2>1, <2>2
<1>15. Leavers'
  BY <1>1, <1>2, <1>5, <1>7 DEF IInv, Leavers, Process
<1>16. Targets'
  <2>1. \A q \in Process : target'[q] # nobody => pc'[q] \in {"create", "delete"}
    BY <1>2, <1>7, <1>8 DEF IInv, Targets
  <2>2. ASSUME NEW q \in Process, pc'[q] = "create"
        PROVE  /\ target'[q] \in Worker /\ pc'[target'[q]] = "built"
               /\ \A r \in Process : pc'[r] = "create" /\ target'[r] = target'[q] => q = r
    <3>1. /\ q # p /\ q # child /\ pc[q] = "create" /\ target'[q] = target[q]
          /\ target[q] # child /\ target[q] # p
      BY <2>2, <1>1, <1>2, <1>7, <1>8 DEF IInv, Targets
    <3> QED BY <3>1, <1>2, <1>7, <1>8, <2>2 DEF IInv, Targets, Process
  <2>3. ASSUME pc'[cleaner] = "delete"
        PROVE  /\ target'[cleaner] \in Worker
               /\ target'[cleaner] \notin ToSet(dead)'
               /\ target'[cleaner] # current'
               /\ status'[target'[cleaner]] = "DEAD"
               /\ pc'[target'[cleaner]] \in {"run", "yield"}
    BY <2>3, <1>1, <1>2, <1>4, <1>6, <1>7, <1>8, <1>9 DEF IInv, Targets, Process
  <2> QED BY <2>1, <2>2, <2>3 DEF Targets
<1>17. Lists'
  <2>1. OnOneList'
    BY <1>1, <1>5, <1>10 DEF IInv, Lists, OnOneList
  <2>2. StatusMatchesList'
    BY <1>1, <1>2, <1>5, <1>6, <1>9, <1>10 DEF IInv, Lists, StatusMatchesList
  <2>3. DeadNotLost'
    BY <1>1, <1>2, <1>4, <1>6, <1>7, <1>8, <1>9 DEF IInv, Lists, DeadNotLost, Process
  <2> QED BY <2>1, <2>2, <2>3 DEF Lists
<1> QED BY <1>12, <1>13, <1>14, <1>15, <1>16, <1>17 DEF IInv, Locks

\* sleep puts the current process, which is on no list, on the sleep list and
\* gives back the lock.
LEMMA SleepBlockStep ==
    ASSUME IInv, NEW p \in Worker \cup {cleaner}, SleepBlock(p)
    PROVE  IInv'
<1>1. /\ p = current /\ pc[p] = "stamped"
      /\ status' = [status EXCEPT ![p] = "BLOCKED"]
      /\ sleepers' = InsertSleeper(p, left[p])
      /\ count' = count - 1
      /\ intr' = (count = 1)
      /\ pc' = [pc EXCEPT ![p] = "yield"]
      /\ UNCHANGED <<current, ready, dead, left, frames, target, phase>>
  BY DEF SleepBlock, Executes
<1>2. p \in Process /\ p # idle /\ p # cleaner /\ p \in Worker
  BY <1>1, ProcessAssumption DEF Process, IInv, Threads, CleanerPoint
<1>3. status[p] = "RUNNING"
  BY <1>1 DEF IInv, Threads
<1>4. p \notin ToSet(ready) /\ p \notin ToSet(dead) /\ p \notin ToSet(sleepers)
  BY <1>2, <1>3 DEF IInv, Lists, StatusMatchesList
<1>5. /\ sleepers' \in Seq(Process) /\ ToSet(sleepers') = ToSet(sleepers) \cup {p}
      /\ IsInjective(sleepers')
  BY <1>1, <1>2, <1>4, InsertSleeperFacts DEF IInv, TypeOK, Lists, OnOneList
<1>6. p \in Holders /\ Holders' = Holders \ {p}
  BY <1>1, <1>2 DEF IInv, TypeOK, Holders, HoldsLock
<1>7. count \in Nat \ {0} /\ LockBalance'
  BY <1>1, <1>6, OneHolderLess DEF IInv, Locks
<1>8. InterruptsOnUnlessLocked'
  <2>1. ASSUME count' = 0 PROVE count = 1
    BY <1>1, <1>7, <2>1
  <2> QED BY <2>1, <1>1, Zenon DEF InterruptsOnUnlessLocked
<1>9. TypeOK'
  BY <1>1, <1>2, <1>5, <1>7 DEF IInv, TypeOK, Point
<1>10. Threads' /\ FreeBlocks'
  BY <1>1, <1>2, <1>3 DEF IInv, TypeOK, Threads, FreeBlocks, CleanerPoint
<1>11. Leavers' /\ Targets'
  BY <1>1, <1>2, <1>3, <1>4, <1>5 DEF IInv, TypeOK, Leavers, Targets
<1>12. Lists'
  <2>1. OnOneList'
    BY <1>1, <1>4, <1>5 DEF IInv, Lists, OnOneList
  <2>2. StatusMatchesList'
    BY <1>1, <1>2, <1>3, <1>4, <1>5 DEF IInv, TypeOK, Lists, StatusMatchesList
  <2>3. DeadNotLost'
    BY <1>1, <1>2, <1>3, <1>5 DEF IInv, TypeOK, Lists, DeadNotLost
  <2> QED BY <2>1, <2>2, <2>3 DEF Lists
<1> QED BY <1>7, <1>8, <1>9, <1>10, <1>11, <1>12 DEF IInv, Locks

\* The caller of terminate_task joins the DEAD list, the cleaner the READY
\* list if it was on none.
LEMMA TerminateStep ==
    ASSUME IInv, NEW p \in Worker, Terminate(p)
    PROVE  IInv'
<1> DEFINE wake == CleanerMustWake
<1>1. /\ p = current /\ pc[p] = "run"
      /\ dead' = Append(dead, p)
      /\ ready' = IF wake THEN <<cleaner>> \o ready ELSE ready
      /\ status' = IF wake THEN [status EXCEPT ![p] = "DEAD", ![cleaner] = "READY"]
                          ELSE [status EXCEPT ![p] = "DEAD"]
      /\ pc' = [pc EXCEPT ![p] = "yield"]
      /\ LockedSection
      /\ UNCHANGED <<current, sleepers, left, frames, target, phase>>
  BY DEF Terminate, Executes
<1>2. /\ p \in Process /\ p # idle /\ p # cleaner
      /\ cleaner \in Process /\ cleaner \notin Worker /\ cleaner # idle
      /\ idle \notin Worker
  BY ProcessAssumption DEF Process
<1>3. status[p] = "RUNNING"
  BY <1>1 DEF IInv, Threads
<1>4. p \notin ToSet(ready) /\ p \notin ToSet(dead) /\ p \notin ToSet(sleepers)
  BY <1>2, <1>3 DEF IInv, Lists, StatusMatchesList
<1>5. wake => cleaner \notin ToSet(ready) /\ status[cleaner] = "BLOCKED"
  BY <1>2 DEF IInv, Lists, StatusMatchesList, CleanerMustWake
<1>6. cleaner \notin ToSet(dead) /\ cleaner \notin ToSet(sleepers)
  BY <1>2 DEF IInv, Leavers
<1>7. /\ dead' \in Seq(Process) /\ ToSet(dead') = ToSet(dead) \cup {p}
      /\ IsInjective(dead')
  BY <1>1, <1>2, <1>4, AppendFacts DEF IInv, TypeOK, Lists, OnOneList
<1>8. /\ ready' \in Seq(Process)
      /\ ToSet(ready') = ToSet(ready) \cup (IF wake THEN {cleaner} ELSE {})
      /\ IsInjective(ready')
  <2>1. CASE wake
    <3> DEFINE one == <<cleaner>>
    <3>1. one \in Seq(Process) /\ ToSet(one) = {cleaner} /\ IsInjective(one)
      BY <1>2, SingletonFacts
    <3>2. ready' = one \o ready
      BY <2>1, <1>1
    <3> HIDE DEF one
    <3>3. ready \in Seq(Process) /\ IsInjective(ready)
      BY DEF IInv, TypeOK, Lists, OnOneList
    <3>4. ToSet(one) \cap ToSet(ready) = {}
      BY <2>1, <1>5, <3>1
    <3>5. /\ one \o ready \in Seq(Process)
          /\ ToSet(one \o ready) = ToSet(one) \cup ToSet(ready)
          /\ IsInjective(one \o ready)
      BY <3>1, <3>3, <3>4, ConcatFacts
    <3> QED BY <2>1, <3>1, <3>2, <3>5
  <2>2. CASE ~wake
    BY <2>2, <1>1 DEF IInv, TypeOK, Lists, OnOneList
  <2> QED BY <2>1, <2>2
<1> HIDE DEF wake
<1>9. /\ status' \in [Process -> {"DEAD", "RUNNING", "READY", "BLOCKED"}]
      /\ status'[p] = "DEAD"
      /\ wake => status'[cleaner] = "READY"
      /\ \A q \in Process : q # p /\ (wake => q # cleaner) => status'[q] = status[q]
  BY <1>1, <1>2 DEF IInv, TypeOK
<1>10. /\ pc' \in [Process -> Point] /\ pc'[p] = "yield"
       /\ \A q \in Process : q # p => pc'[q] = pc[q]
  BY <1>1, <1>2 DEF IInv, TypeOK, Point
<1>11. Holders' = Holders
  BY <1>1, <1>2, <1>10 DEF Holders, HoldsLock
<1>12. /\ count' \in Nat /\ intr' \in BOOLEAN /\ LockBalance'
       /\ InterruptsOnUnlessLocked'
  BY <1>1, <1>11, LockedSectionFacts DEF IInv, TypeOK, Locks
<1>13. TypeOK'
  BY <1>1, <1>7, <1>8, <1>9, <1>10, <1>12 DEF IInv, TypeOK
<1>14. dead' # <<>>
  BY <1>7, EmptyList
<1>15. Threads' /\ FreeBlocks'
  <2>1. Threads'
    BY <1>1, <1>2, <1>9, <1>10, <1>14 DEF IInv, Threads, CleanerPoint, Process
  <2>2. FreeBlocks'
    BY <1>1, <1>2, <1>9, <1>10 DEF IInv, FreeBlocks, Process
  <2> QED BY <2>1, <2>2
<1>16. Leavers'
  BY <1>1, <1>2, <1>7, <1>10 DEF IInv, Leavers, Process
<1>17. Targets'
  <2>1. \A q \in Process : target'[q] # nobody => pc'[q] \in {"create", "delete"}
    BY <1>1, <1>2, <1>10 DEF IInv, Targets
  <2>2. ASSUME NEW q \in Process, pc'[q] = "create"
        PROVE  /\ target'[q] \in Worker /\ pc'[target'[q]] = "built"
               /\ \A r \in Process : pc'[r] = "create" /\ target'[r] = target'[q] => q = r
    <3>1. q # p /\ pc[q] = "create" /\ target[q] # p
      BY <2>2, <1>1, <1>2, <1>10 DEF IInv, Targets
    <3> QED BY <3>1, <1>1, <1>2, <1>10, <2>2 DEF IInv, Targets, Process
  <2>3. ASSUME pc'[cleaner] = "delete"
        PROVE  /\ target'[cleaner] \in Worker
               /\ target'[cleaner] \notin ToSet(dead')
               /\ target'[cleaner] # current'
               /\ status'[target'[cleaner]] = "DEAD"
               /\ pc'[target'[cleaner]] \in {"run", "yield"}
    BY <2>3, <1>1, <1>2, <1>7, <1>9, <1>10 DEF IInv, Targets, Process
  <2> QED BY <2>1, <2>2, <2>3 DEF Targets
<1>18. Lists'
  <2>1. OnOneList'
    <3>1. /\ ToSet(ready') \cap ToSet(dead') = {}
          /\ ToSet(ready') \cap ToSet(sleepers) = {}
          /\ ToSet(dead') \cap ToSet(sleepers) = {}
      BY <1>2, <1>4, <1>5, <1>6, <1>7, <1>8 DEF IInv, Lists, OnOneList
    <3> QED BY <3>1, <1>1, <1>7, <1>8 DEF IInv, Lists, OnOneList
  <2>2. StatusMatchesList'
    BY <1>1, <1>2, <1>3, <1>4, <1>5, <1>6, <1>7, <1>8, <1>9
       DEF IInv, Lists, StatusMatchesList
  <2>3. DeadNotLost'
    BY <1>1, <1>2, <1>7, <1>9, <1>10 DEF IInv, Lists, DeadNotLost, Process
  <2> QED BY <2>1, <2>2, <2>3 DEF Lists
<1> QED BY <1>12, <1>13, <1>15, <1>16, <1>17, <1>18 DEF IInv, Locks

\* The test of the DEAD list, and a list that is not empty stays so.
LEMMA CleanerCheckStep ==
    ASSUME IInv, CleanerCheck
    PROVE  IInv'
<1>1. /\ cleaner = current /\ pc[cleaner] = "check"
      /\ pc' = [pc EXCEPT ![cleaner] = IF dead = <<>> THEN "block" ELSE "reap"]
      /\ UNCHANGED <<current, ready, dead, sleepers, left, status, frames,
                     target, count, intr, phase>>
  BY DEF CleanerCheck, NobodyDead, Executes
<1>2. cleaner \in Process /\ cleaner # idle /\ cleaner \notin Worker
  BY ProcessAssumption DEF Process
<1>3. Holders' = Holders
  BY <1>1, <1>2 DEF IInv, TypeOK, Holders, HoldsLock
<1>4. TypeOK'
  BY <1>1, <1>2 DEF IInv, TypeOK, Point
<1>5. Threads' /\ FreeBlocks'
  BY <1>1, <1>2 DEF IInv, TypeOK, Threads, FreeBlocks, CleanerPoint
<1>6. Leavers' /\ Targets'
  BY <1>1, <1>2 DEF IInv, TypeOK, Leavers, Targets
<1>7. Lists'
  BY <1>1, <1>2 DEF IInv, TypeOK, Lists, OnOneList, StatusMatchesList, DeadNotLost
<1>8. Locks'
  BY <1>1, <1>3 DEF IInv, Locks, LockBalance, InterruptsOnUnlessLocked
<1> QED BY <1>4, <1>5, <1>6, <1>7, <1>8 DEF IInv

\* The cleaner takes the first dead process off the list.
LEMMA CleanerReapStep ==
    ASSUME IInv, CleanerReap
    PROVE  IInv'
<1> DEFINE head == Head(dead)
<1>1. /\ cleaner = current /\ pc[cleaner] = "reap"
      /\ target' = [target EXCEPT ![cleaner] = head]
      /\ dead' = Tail(dead)
      /\ pc' = [pc EXCEPT ![cleaner] = "delete"]
      /\ LockedSection
      /\ UNCHANGED <<current, ready, sleepers, left, status, frames, phase>>
  BY DEF CleanerReap, Executes, Pop
<1>2. cleaner \in Process /\ cleaner # idle /\ cleaner \notin Worker
  BY ProcessAssumption DEF Process
<1>3. dead # <<>> /\ dead \in Seq(Process)
  BY <1>1 DEF IInv, Threads, TypeOK
<1>4. /\ head \in ToSet(dead) /\ head \in Process /\ dead' \in Seq(Process)
      /\ ToSet(dead) = ToSet(dead') \cup {head}
      /\ IsInjective(dead') /\ head \notin ToSet(dead')
  BY <1>1, <1>3, TailFacts DEF IInv, Lists, OnOneList
<1> HIDE DEF head
<1>5. head \in Worker /\ pc[head] \in {"run", "yield"} /\ head # cleaner
  BY <1>2, <1>4 DEF IInv, Leavers
<1>6. status[head] = "DEAD"
  BY <1>4, <1>5, ProcessAssumption DEF IInv, Lists, StatusMatchesList
<1>7. Holders' = Holders
  BY <1>1, <1>2 DEF IInv, TypeOK, Holders, HoldsLock
<1>8. /\ count' \in Nat /\ intr' \in BOOLEAN /\ LockBalance'
      /\ InterruptsOnUnlessLocked'
  BY <1>1, <1>7, LockedSectionFacts DEF IInv, TypeOK, Locks
<1>9. TypeOK'
  BY <1>1, <1>2, <1>4, <1>8 DEF IInv, TypeOK, Point
<1>10. Threads' /\ FreeBlocks'
  BY <1>1, <1>2 DEF IInv, TypeOK, Threads, FreeBlocks, CleanerPoint
<1>11. Leavers'
  BY <1>1, <1>2, <1>4 DEF IInv, TypeOK, Leavers
<1>12. Targets'
  BY <1>1, <1>2, <1>4, <1>5, <1>6, SMTT(20) DEF IInv, TypeOK, Targets
<1>13. Lists'
  <2>1. OnOneList'
    <3>1. /\ ToSet(ready) \cap ToSet(dead') = {}
          /\ ToSet(dead') \cap ToSet(sleepers) = {}
      BY <1>4 DEF IInv, Lists, OnOneList
    <3> QED BY <3>1, <1>1, <1>4 DEF IInv, Lists, OnOneList
  <2>2. StatusMatchesList'
    BY <1>1, <1>4 DEF IInv, Lists, StatusMatchesList
  <2>3. DeadNotLost'
    <3>1. target[cleaner] = nobody
      BY <1>1, <1>2 DEF IInv, Targets
    <3>2. nobody \notin Worker
      BY ProcessAssumption
    <3> QED BY <3>1, <3>2, <1>1, <1>2, <1>4 DEF IInv, TypeOK, Lists, DeadNotLost
  <2> QED BY <2>1, <2>2, <2>3 DEF Lists
<1> QED BY <1>8, <1>9, <1>10, <1>11, <1>12, <1>13 DEF IInv, Locks

\* The block freed was the dead process that no list and no thread holds.
LEMMA CleanerDeleteStep ==
    ASSUME IInv, CleanerDelete
    PROVE  IInv'
<1> DEFINE gone == target[cleaner]
<1>1. /\ cleaner = current /\ pc[cleaner] = "delete"
      /\ pc' = [pc EXCEPT ![gone] = "none", ![cleaner] = "check"]
      /\ frames' = [frames EXCEPT ![gone] = <<>>]
      /\ target' = [target EXCEPT ![cleaner] = nobody]
      /\ intr' = TRUE
      /\ UNCHANGED <<current, ready, dead, sleepers, left, status, count, phase>>
  BY DEF CleanerDelete, Executes
<1>2. cleaner \in Process /\ cleaner # idle /\ cleaner \notin Worker
  BY ProcessAssumption DEF Process
<1>3. /\ gone \in Worker /\ gone \in Process /\ gone # cleaner /\ gone # idle
      /\ gone \notin ToSet(dead) /\ gone # current /\ status[gone] = "DEAD"
      /\ pc[gone] \in {"run", "yield"}
  BY <1>1, ProcessAssumption DEF IInv, Targets, Process
<1> HIDE DEF gone
<1>4. /\ pc' \in [Process -> Point] /\ pc'[gone] = "none" /\ pc'[cleaner] = "check"
      /\ \A q \in Process : q # gone /\ q # cleaner => pc'[q] = pc[q]
  BY <1>1, <1>2, <1>3 DEF IInv, TypeOK, Point
<1>5. /\ frames' \in [Process -> Seq(Frame)] /\ frames'[gone] = <<>>
      /\ \A q \in Process : q # gone => frames'[q] = frames[q]
  BY <1>1, <1>3 DEF IInv, TypeOK
<1>6. /\ target' \in [Process -> Process \cup {nobody}] /\ target'[cleaner] = nobody
      /\ \A q \in Process : q # cleaner => target'[q] = target[q]
  BY <1>1, <1>2 DEF IInv, TypeOK
<1>7. Holders' = Holders
  BY <1>1, <1>2, <1>3, <1>4, <1>5 DEF Holders, HoldsLock
<1>8. TypeOK'
  BY <1>1, <1>4, <1>5, <1>6 DEF IInv, TypeOK
<1>9. Threads' /\ FreeBlocks'
  <2>1. Threads'
    BY <1>1, <1>2, <1>3, <1>4 DEF IInv, Threads, CleanerPoint, Process
  <2>2. FreeBlocks'
    BY <1>1, <1>2, <1>3, <1>4, <1>5 DEF IInv, FreeBlocks, Process
  <2> QED BY <2>1, <2>2
<1>10. Leavers'
  BY <1>1, <1>2, <1>3, <1>4 DEF IInv, Leavers, Process
<1>11. Targets'
  <2>1. \A q \in Process : target'[q] # nobody => pc'[q] \in {"create", "delete"}
    BY <1>1, <1>2, <1>3, <1>4, <1>6 DEF IInv, Targets
  <2>2. ASSUME NEW q \in Process, pc'[q] = "create"
        PROVE  /\ target'[q] \in Worker /\ pc'[target'[q]] = "built"
               /\ \A r \in Process : pc'[r] = "create" /\ target'[r] = target'[q] => q = r
    <3>1. /\ q # gone /\ q # cleaner /\ pc[q] = "create" /\ target'[q] = target[q]
          /\ target[q] # gone /\ target[q] # cleaner
      BY <2>2, <1>2, <1>3, <1>4, <1>6 DEF IInv, Targets
    <3> QED BY <3>1, <1>2, <1>3, <1>4, <1>6, <2>2 DEF IInv, Targets, Process
  <2>3. pc'[cleaner] # "delete"
    BY <1>4
  <2> QED BY <2>1, <2>2, <2>3 DEF Targets
<1>12. Lists'
  <2>1. OnOneList' /\ StatusMatchesList'
    BY <1>1 DEF IInv, Lists, OnOneList, StatusMatchesList
  <2>2. DeadNotLost'
    BY <1>1, <1>2, <1>4, <1>6 DEF IInv, Lists, DeadNotLost, Process, gone
  <2> QED BY <2>1, <2>2 DEF Lists
<1>13. Locks'
  BY <1>1, <1>7 DEF IInv, Locks, LockBalance, InterruptsOnUnlessLocked
<1> QED BY <1>8, <1>9, <1>10, <1>11, <1>12, <1>13 DEF IInv

\* The cleaner blocks itself, on its way to yield.
LEMMA CleanerBlockStep ==
    ASSUME IInv, CleanerBlock
    PROVE  IInv'
<1>1. /\ cleaner = current /\ pc[cleaner] = "block"
      /\ status' = [status EXCEPT ![cleaner] = "BLOCKED"]
      /\ pc' = [pc EXCEPT ![cleaner] = "yield"]
      /\ LockedSection
      /\ UNCHANGED <<current, ready, dead, sleepers, left, frames, target, phase>>
  BY DEF CleanerBlock, Executes
<1>2. cleaner \in Process /\ cleaner # idle /\ cleaner \notin Worker
  BY ProcessAssumption DEF Process
<1>3. status[cleaner] = "RUNNING"
  BY <1>1 DEF IInv, Threads
<1>4. Holders' = Holders
  BY <1>1, <1>2 DEF IInv, TypeOK, Holders, HoldsLock
<1>5. /\ count' \in Nat /\ intr' \in BOOLEAN /\ LockBalance'
      /\ InterruptsOnUnlessLocked'
  BY <1>1, <1>4, LockedSectionFacts DEF IInv, TypeOK, Locks
<1>6. TypeOK'
  BY <1>1, <1>2, <1>5 DEF IInv, TypeOK, Point
<1>7. Threads' /\ FreeBlocks'
  BY <1>1, <1>2 DEF IInv, TypeOK, Threads, FreeBlocks, CleanerPoint
<1>8. Leavers' /\ Targets'
  BY <1>1, <1>2 DEF IInv, TypeOK, Leavers, Targets
<1>9. Lists'
  BY <1>1, <1>2, <1>3
     DEF IInv, TypeOK, Leavers, Lists, OnOneList, StatusMatchesList, DeadNotLost
<1> QED BY <1>5, <1>6, <1>7, <1>8, <1>9 DEF IInv, Locks

-----------------------------------------------------------------------------
(***************************************************************************)
(* The switch                                                              *)
(***************************************************************************)

\* yield preserves the invariant, whether the thread of the current process
\* called it or the timer did, on top of any code of that process.
LEMMA YieldStep ==
    ASSUME IInv, Yield(current),
           UNCHANGED <<dead, sleepers, left, target, phase>>,
           pc' \in [Process -> Point],
           frames' \in [Process -> Seq(Frame)],
           \A q \in Process \ {current} : pc'[q] = pc[q] /\ frames'[q] = frames[q],
           frames'[current] = <<>> <=> frames[current] = <<>>,
           \/ pc'[current] = pc[current] /\ frames[current] # <<>>
           \/ /\ pc[current] = "yield"
              /\ pc'[current] = IF current = cleaner THEN "check" ELSE "run"
    PROVE  IInv'
<1> DEFINE p == current
           next == current'
<1>1. /\ next \in Process
      /\ ready' \in Seq(Process)
      /\ IsInjective(ready')
      /\ ToSet(ready') =
             (ToSet(ready) \cup IF Requeued(p) THEN {p} ELSE {}) \ {next}
      /\ next # idle => next \in ToSet(ready) \/ (next = p /\ Requeued(p))
      /\ next = idle => ToSet(ready) = {} /\ ~Requeued(p)
      /\ status' = [status EXCEPT ![p] = IF Requeued(p) THEN "READY" ELSE @,
                                  ![next] = "RUNNING"]
      /\ IF next # p /\ Fresh(next)
             THEN count' = count + 1 /\ intr' = TRUE
             ELSE LockedSection
  BY YieldFacts DEF IInv, Lists
<1>2. /\ p \in Process /\ idle \in Process /\ cleaner \in Process /\ idle # cleaner
      /\ idle \notin Worker /\ cleaner \notin Worker
  BY ProcessAssumption DEF IInv, TypeOK, Process
<1>3. /\ status' \in [Process -> {"DEAD", "RUNNING", "READY", "BLOCKED"}]
      /\ status'[next] = "RUNNING"
      /\ p # next /\ Requeued(p) => status'[p] = "READY"
      /\ p # next /\ ~Requeued(p) => status'[p] = status[p]
      /\ \A q \in Process : q # p /\ q # next => status'[q] = status[q]
  BY <1>1, <1>2 DEF IInv, TypeOK
<1>4. /\ next = p \/ next = idle \/ status[next] = "READY"
      /\ next = p => next = idle \/ status[p] \in {"READY", "RUNNING"}
  BY <1>1 DEF IInv, Lists, StatusMatchesList, Requeued
<1>5. /\ \A q \in Process : pc'[q] = "create" <=> pc[q] = "create"
      /\ \A q \in Process : pc'[q] = "delete" <=> pc[q] = "delete"
      /\ \A q \in Process : pc[q] \in {"run", "yield"} /\ q # cleaner
             => pc'[q] \in {"run", "yield"}
      /\ \A q \in Process, point \in {"none", "built", "reap"} :
             pc'[q] = point <=> pc[q] = point
  BY <1>2 DEF IInv, TypeOK, Point
<1> HIDE DEF next, p
<1>6. OnOneList'
  <2>1. Requeued(p) => p \notin ToSet(dead) /\ p \notin ToSet(sleepers)
    BY <1>2 DEF IInv, Lists, StatusMatchesList, Requeued
  <2>2. ToSet(ready') \cap ToSet(dead) = {} /\ ToSet(ready') \cap ToSet(sleepers) = {}
    BY <1>1, <2>1 DEF IInv, Lists, OnOneList
  <2> QED BY <1>1, <2>2 DEF IInv, Lists, OnOneList
<1>7. StatusMatchesList'
  <2>1. ASSUME NEW q \in Process \ {idle}
        PROVE  /\ status'[q] = "READY" <=> q \in ToSet(ready')
               /\ status'[q] = "RUNNING" => q = next
    BY <1>1, <1>2, <1>3 DEF IInv, Lists, StatusMatchesList, Requeued, p
  <2>2. ASSUME NEW q \in Process \ {idle}
        PROVE  /\ q \in ToSet(dead) => status'[q] = "DEAD"
               /\ q \in ToSet(sleepers) => status'[q] = "BLOCKED"
    <3>1. q \in ToSet(dead) \/ q \in ToSet(sleepers) => q # next
      BY <1>4 DEF IInv, Lists, StatusMatchesList, p
    <3> QED BY <3>1, <1>2, <1>3 DEF IInv, Lists, StatusMatchesList, Requeued
  <2>3. idle \notin ToSet(ready')
    BY <1>1 DEF IInv, Lists, StatusMatchesList, Requeued
  <2> QED BY <2>1, <2>2, <2>3 DEF IInv, Lists, StatusMatchesList, next
<1>8. DeadNotLost'
  <2>1. ASSUME NEW q \in Worker, status'[q] \in {"BLOCKED", "DEAD"}
        PROVE  status[q] = status'[q]
    BY <2>1, <1>3 DEF Process
  <2>2. ASSUME NEW q \in Worker, pc'[q] \notin {"none", "built"}
        PROVE  pc[q] \notin {"none", "built"}
    BY <2>2, <1>5 DEF Process
  <2> QED BY <2>1, <2>2 DEF IInv, Lists, DeadNotLost
<1>9. Threads'
  <2>1. pc'[idle] = "run" /\ status'[idle] = "RUNNING"
    BY <1>2, <1>3 DEF IInv, Threads, Requeued, p
  <2>2. pc'[cleaner] \in CleanerPoint \cup {"spawn", "yield"}
    BY <1>2 DEF IInv, Threads, CleanerPoint
  <2>3. \A q \in Worker : pc'[q] \notin CleanerPoint
    BY <1>2 DEF IInv, Threads, CleanerPoint, Process
  <2>4. pc'[cleaner] = "reap" => dead' # <<>>
    BY <1>2, <1>5 DEF IInv, Threads
  <2> QED BY <2>1, <2>2, <2>3, <2>4, <1>3 DEF Threads, next
<1>10. FreeBlocks'
  <2>1. ASSUME NEW q \in Worker, pc'[q] \in {"none", "built"}
        PROVE  status'[q] = "DEAD" /\ frames'[q] = <<>> /\ q # next
    <3>1. q \in Process /\ pc[q] \in {"none", "built"}
      BY <2>1, <1>5 DEF Process
    <3>2. status[q] = "DEAD" /\ frames[q] = <<>> /\ q # p
      BY <3>1 DEF IInv, FreeBlocks, p
    <3>3. q # next
      BY <3>2, <1>2, <1>4
    <3> QED BY <3>1, <3>2, <3>3, <1>3 DEF p
  <2> QED BY <2>1 DEF FreeBlocks, next
<1>11. Leavers'
  BY <1>2, <1>5 DEF IInv, Leavers, Process
<1>12. Targets'
  <2>1. \A q \in Process : target[q] # nobody => pc'[q] \in {"create", "delete"}
    BY <1>5 DEF IInv, Targets
  <2>2. \A q \in Process : pc'[q] = "create" =>
            /\ target[q] \in Worker
            /\ pc'[target[q]] = "built"
            /\ \A r \in Process : pc'[r] = "create" /\ target[r] = target[q] => q = r
    BY <1>5 DEF IInv, Targets, Process
  <2>3. ASSUME pc'[cleaner] = "delete"
        PROVE  /\ target[cleaner] \in Worker
               /\ target[cleaner] \notin ToSet(dead)
               /\ target[cleaner] # next
               /\ status'[target[cleaner]] = "DEAD"
               /\ pc'[target[cleaner]] \in {"run", "yield"}
    <3>1. /\ target[cleaner] \in Worker /\ target[cleaner] \notin ToSet(dead)
          /\ target[cleaner] # p /\ status[target[cleaner]] = "DEAD"
          /\ pc[target[cleaner]] \in {"run", "yield"}
      BY <2>3, <1>2, <1>5 DEF IInv, Targets, p
    <3>2. target[cleaner] # next
      BY <3>1, <1>2, <1>4
    <3> QED BY <3>1, <3>2, <1>2, <1>3, <1>5 DEF Process
  <2> QED BY <2>1, <2>2, <2>3 DEF Targets, next
<1>13. CASE next # p /\ Fresh(next)
  <2>1. next \notin Holders /\ Holders' = Holders \cup {next}
    BY <1>13, <1>1, <1>2 DEF Holders, HoldsLock, Fresh, next, p
  <2>2. count \in Nat /\ LockBalance' /\ count' = count + 1 /\ intr' = TRUE
    BY <1>13, <1>1, <2>1, OneMoreHolder DEF IInv, Locks
  <2>3. count' \in Nat /\ intr' \in BOOLEAN
    BY <2>2
  <2>4. TypeOK'
    BY <1>1, <1>3, <2>3 DEF IInv, TypeOK, next
  <2>5. InterruptsOnUnlessLocked'
    BY <2>2 DEF InterruptsOnUnlessLocked
  <2> QED BY <2>2, <2>4, <2>5, <1>6, <1>7, <1>8, <1>9, <1>10, <1>11, <1>12
          DEF IInv, Lists, Locks
<1>14. CASE ~(next # p /\ Fresh(next))
  <2>1. Holders' = Holders
    BY <1>14, <1>1, <1>2 DEF Holders, HoldsLock, Fresh, next, p
  <2>2. /\ count' \in Nat /\ intr' \in BOOLEAN /\ LockBalance'
        /\ InterruptsOnUnlessLocked'
    BY <1>14, <1>1, <2>1, LockedSectionFacts DEF IInv, TypeOK, Locks
  <2>3. TypeOK'
    BY <1>1, <1>3, <2>2 DEF IInv, TypeOK, next
  <2> QED BY <2>2, <2>3, <1>6, <1>7, <1>8, <1>9, <1>10, <1>11, <1>12
          DEF IInv, Lists, Locks
<1> QED BY <1>13, <1>14

\* yield at the end of sleep, terminate_task or a round of the cleaner.
LEMMA CallYieldStep ==
    ASSUME IInv, NEW p \in Worker \cup {cleaner}, CallYield(p)
    PROVE  IInv'
<1>1. /\ p = current /\ pc[p] = "yield" /\ p \in Process
      /\ Yield(current)
      /\ pc' = [pc EXCEPT ![p] = IF p = cleaner THEN "check" ELSE "run"]
      /\ UNCHANGED <<dead, sleepers, left, frames, target, phase>>
  BY DEF CallYield, Executes, Process
<1>2. pc' \in [Process -> Point] /\ frames' \in [Process -> Seq(Frame)]
  BY <1>1 DEF IInv, TypeOK, Point
<1>3. /\ \A q \in Process \ {current} : pc'[q] = pc[q] /\ frames'[q] = frames[q]
      /\ pc'[current] = IF current = cleaner THEN "check" ELSE "run"
  BY <1>1 DEF IInv, TypeOK
<1> QED BY <1>1, <1>2, <1>3, YieldStep

\* yield at the end of a quantum, on top of whatever the timer interrupted.
LEMMA TickYieldStep ==
    ASSUME IInv, NEW p \in Process, TickYield(p)
    PROVE  IInv'
<1>1. /\ p = current /\ frames[p] # <<>>
      /\ Yield(current)
      /\ frames' = [frames EXCEPT ![p] = Append(Front(@), "iret")]
      /\ UNCHANGED <<dead, sleepers, left, pc, target, phase>>
  BY DEF TickYield
<1>2. Front(frames[p]) \in Seq(Frame)
  BY <1>1, FrontFacts DEF IInv, TypeOK
<1>3. /\ Append(Front(frames[p]), "iret") \in Seq(Frame)
      /\ Append(Front(frames[p]), "iret") # <<>>
  BY <1>2 DEF Frame
<1>4. /\ pc' \in [Process -> Point] /\ frames' \in [Process -> Seq(Frame)]
      /\ \A q \in Process \ {current} : pc'[q] = pc[q] /\ frames'[q] = frames[q]
      /\ pc'[current] = pc[current]
      /\ frames'[current] # <<>> /\ frames[current] # <<>>
  BY <1>1, <1>3 DEF IInv, TypeOK
<1> QED BY <1>1, <1>4, YieldStep

-----------------------------------------------------------------------------
\* The timer interrupt moves the processes that are due from the sleep list to
\* the READY list, each exactly once, and changes the place of no other.
LEMMA TickStep ==
    ASSUME IInv, Tick
    PROVE  IInv'
<1> DEFINE n == DueCount(left')
           woken == SubSeq(sleepers, 1, n)
           rest == SubSeq(sleepers, n + 1, Len(sleepers))
<1>1. /\ intr
      /\ phase' = (phase + 1) % QUANTUM
      /\ left' = [p \in Process |-> IF left[p] = 0 THEN 0 ELSE left[p] - 1]
      /\ ready' = Reverse(woken) \o ready
      /\ sleepers' = rest
      /\ status' = [p \in Process |-> IF p \in ToSet(woken) THEN "READY" ELSE status[p]]
      /\ frames' = [frames EXCEPT ![current] = Append(@, "tick")]
      /\ LockedSection
      /\ UNCHANGED <<current, dead, pc, target>>
  BY DEF Tick, NextPhase
<1>2. /\ woken \in Seq(Process) /\ rest \in Seq(Process)
      /\ ToSet(sleepers) = ToSet(woken) \cup ToSet(rest)
      /\ IsInjective(woken) /\ IsInjective(rest)
      /\ ToSet(woken) \cap ToSet(rest) = {}
  <2>1. n \in 0 .. Len(sleepers)
    BY DueCountFacts DEF IInv, TypeOK
  <2> HIDE DEF n
  <2> QED BY <2>1, SplitFacts DEF IInv, TypeOK, Lists, OnOneList
<1> HIDE DEF n, woken, rest
<1>3. /\ ready' \in Seq(Process) /\ IsInjective(ready')
      /\ ToSet(ready') = ToSet(woken) \cup ToSet(ready)
  <2> DEFINE front == Reverse(woken)
  <2>1. front \in Seq(Process) /\ ToSet(front) = ToSet(woken) /\ IsInjective(front)
    BY <1>2, ReverseFacts
  <2>2. ready' = front \o ready
    BY <1>1
  <2> HIDE DEF front
  <2>3. ToSet(front) \cap ToSet(ready) = {}
    BY <1>2, <2>1 DEF IInv, Lists, OnOneList
  <2> QED BY <2>1, <2>2, <2>3, ConcatFacts DEF IInv, TypeOK, Lists, OnOneList
<1>4. /\ left' \in [Process -> Nat] /\ phase' \in 0 .. QUANTUM - 1
      /\ status' \in [Process -> {"DEAD", "RUNNING", "READY", "BLOCKED"}]
  BY <1>1, TimeAssumption DEF IInv, TypeOK
<1>5. /\ current \in Process /\ Append(frames[current], "tick") \in Seq(Frame)
      /\ Append(frames[current], "tick") # <<>>
  <2>1. current \in Process /\ frames[current] \in Seq(Frame) /\ "tick" \in Frame
    BY DEF IInv, TypeOK, Frame
  <2> QED BY <2>1
<1>6. /\ frames' \in [Process -> Seq(Frame)] /\ frames'[current] # <<>>
      /\ \A q \in Process : q # current => frames'[q] = frames[q]
  BY <1>1, <1>5 DEF IInv, TypeOK
<1>7. \A q \in Process :
         /\ q \in ToSet(woken) => status[q] = "BLOCKED" /\ status'[q] = "READY"
         /\ q \notin ToSet(woken) => status'[q] = status[q]
  BY <1>1, <1>2 DEF IInv, Lists, StatusMatchesList
<1>8. ToSet(woken) \subseteq Worker
  BY <1>2 DEF IInv, Leavers
<1>9. /\ idle \in Process /\ idle \notin Worker /\ cleaner \in Process
      /\ cleaner \notin Worker
  BY ProcessAssumption DEF Process
<1>10. Holders' = Holders
  BY <1>1, <1>6 DEF Holders, HoldsLock
<1>11. /\ count' \in Nat /\ intr' \in BOOLEAN /\ LockBalance'
       /\ InterruptsOnUnlessLocked'
  BY <1>1, <1>10, LockedSectionFacts DEF IInv, TypeOK, Locks
<1>12. TypeOK'
  BY <1>1, <1>2, <1>3, <1>4, <1>6, <1>11 DEF IInv, TypeOK
<1>13. Threads'
  <2>1. status'[current] # "RUNNING" => pc[current] = "yield"
    BY <1>5, <1>7 DEF IInv, Threads
  <2> QED BY <2>1, <1>1, <1>7, <1>8, <1>9 DEF IInv, Threads
<1>14. FreeBlocks' /\ Leavers'
  <2>1. FreeBlocks'
    BY <1>1, <1>6, <1>7 DEF IInv, FreeBlocks, Process
  <2>2. Leavers'
    BY <1>1, <1>2 DEF IInv, Leavers
  <2> QED BY <2>1, <2>2
<1>15. Targets'
  <2>1. pc[cleaner] = "delete" =>
            target[cleaner] \in Process /\ status[target[cleaner]] = "DEAD"
    BY DEF IInv, Targets, Process
  <2>2. pc[cleaner] = "delete" => status'[target[cleaner]] = "DEAD"
    BY <2>1, <1>7
  <2> QED BY <2>2, <1>1 DEF IInv, Targets
<1>16. Lists'
  <2>1. OnOneList'
    <3>1. ToSet(ready') \cap ToSet(dead) = {} /\ ToSet(ready') \cap ToSet(rest) = {}
      BY <1>2, <1>3 DEF IInv, Lists, OnOneList
    <3> QED BY <3>1, <1>1, <1>2, <1>3 DEF IInv, Lists, OnOneList
  <2>2. StatusMatchesList'
    BY <1>1, <1>2, <1>3, <1>7, <1>8, <1>9 DEF IInv, Lists, StatusMatchesList
  <2>3. DeadNotLost'
    BY <1>1, <1>2, <1>7 DEF IInv, Lists, DeadNotLost, Process
  <2> QED BY <2>1, <2>2, <2>3 DEF Lists
<1> QED BY <1>11, <1>12, <1>13, <1>14, <1>15, <1>16 DEF IInv, Locks

-----------------------------------------------------------------------------
(***************************************************************************)
(* The theorems                                                            *)
(***************************************************************************)

\* The state that start() leaves satisfies the invariant.
LEMMA InitStep == Init => IInv
<1> SUFFICES ASSUME Init PROVE IInv
  OBVIOUS
<1>1. PICK first \in Worker :
        /\ current = idle /\ ready = <<first>> /\ dead = <<>> /\ sleepers = <<>>
        /\ left = [p \in Process |-> 0]
        /\ status = [p \in Process |-> CASE p = idle -> "RUNNING"
                                         [] p = cleaner -> "BLOCKED"
                                         [] p = first -> "READY"
                                         [] OTHER -> "DEAD"]
        /\ pc = [p \in Process |-> CASE p = idle -> "run"
                                     [] p \in {cleaner, first} -> "spawn"
                                     [] OTHER -> "none"]
        /\ frames = [p \in Process |-> <<>>]
        /\ target = [p \in Process |-> nobody]
        /\ count = 0 /\ intr = TRUE /\ phase \in 0 .. QUANTUM - 1
  BY Zenon DEF Init
<1>2. /\ idle \in Process /\ cleaner \in Process /\ first \in Process
      /\ idle # cleaner /\ first # idle /\ first # cleaner
      /\ idle \notin Worker /\ cleaner \notin Worker /\ nobody \notin Process
  BY ProcessAssumption DEF Process
<1>3. /\ status[idle] = "RUNNING" /\ status[cleaner] = "BLOCKED" /\ status[first] = "READY"
      /\ \A q \in Worker : q # first => status[q] = "DEAD"
      /\ pc[idle] = "run" /\ pc[cleaner] = "spawn" /\ pc[first] = "spawn"
      /\ \A q \in Worker : q # first => pc[q] = "none"
  BY <1>1, <1>2 DEF Process
<1>4. /\ <<first>> \in Seq(Process) /\ ToSet(<<first>>) = {first}
      /\ IsInjective(<<first>>)
  BY <1>2, SingletonFacts
<1>5. <<>> \in Seq(Process) /\ ToSet(<<>>) = {} /\ IsInjective(<<>>)
  BY DEF ToSet, IsInjective
<1>6. TypeOK
  <2>1. status \in [Process -> {"DEAD", "RUNNING", "READY", "BLOCKED"}]
    BY <1>1, <1>2
  <2>2. pc \in [Process -> Point]
    BY <1>1, <1>2 DEF Point
  <2>3. <<>> \in Seq(Frame)
    OBVIOUS
  <2> QED BY <2>1, <2>2, <2>3, <1>1, <1>2, <1>4, <1>5 DEF TypeOK
<1>7. Threads /\ FreeBlocks /\ Leavers
  BY <1>1, <1>2, <1>3, <1>5 DEF Threads, FreeBlocks, Leavers, CleanerPoint, Process
<1>8. Targets
  BY <1>1, <1>2, <1>3 DEF Targets, Process
<1>9. Lists
  BY <1>1, <1>2, <1>3, <1>4, <1>5
     DEF Lists, OnOneList, StatusMatchesList, DeadNotLost, Process
<1>10. Locks
  <2>1. Holders = {}
    BY <1>1, <1>2, <1>3 DEF Holders, HoldsLock, Process
  <2>2. LockBalance
    BY <2>1, <1>1, FS_EmptySet DEF LockBalance
  <2> QED BY <2>2, <1>1 DEF Locks, InterruptsOnUnlessLocked
<1> QED BY <1>6, <1>7, <1>8, <1>9, <1>10 DEF IInv

\* Every step preserves it.
LEMMA NextStep == IInv /\ [Next]_vars => IInv'
<1> SUFFICES ASSUME IInv, [Next]_vars PROVE IInv'
  OBVIOUS
<1>1. CASE Tick
  BY <1>1, TickStep
<1>2. ASSUME NEW p \in Process, Interrupt(p) PROVE IInv'
  BY <1>2, TickYieldStep, TickReturnStep DEF Interrupt
<1>3. ASSUME NEW p \in Worker, Call(p) PROVE IInv'
  BY <1>3, CreateAllocateStep, SleepAllocateStep, TerminateStep DEF Call
<1>4. ASSUME NEW p \in Worker \cup {cleaner}, Continue(p) PROVE IInv'
  BY <1>4, CallYieldStep, SpawnUnlockStep, CreateReadyStep, SleepStampStep,
     SleepBlockStep DEF Continue
<1>5. CASE Clean
  BY <1>5, CleanerCheckStep, CleanerReapStep, CleanerDeleteStep, CleanerBlockStep
     DEF Clean
<1>6. CASE UNCHANGED vars
  <2>1. TypeOK' /\ Threads' /\ FreeBlocks'
    BY <1>6 DEF vars, IInv, TypeOK, Threads, FreeBlocks
  <2>2. Leavers'
    BY <1>6 DEF vars, IInv, Leavers
  <2>3. Targets'
    BY <1>6 DEF vars, IInv, Targets
  <2>4. OnOneList' /\ StatusMatchesList' /\ DeadNotLost'
    BY <1>6 DEF vars, IInv, Lists, OnOneList, StatusMatchesList, DeadNotLost
  <2>5. Holders' = Holders
    BY <1>6 DEF vars, Holders, HoldsLock
  <2>6. Locks'
    BY <1>6, <2>5 DEF vars, IInv, Locks, LockBalance, InterruptsOnUnlessLocked
  <2> QED BY <2>1, <2>2, <2>3, <2>4, <2>6 DEF IInv, Lists
<1> QED BY <1>1, <1>2, <1>3, <1>4, <1>5, <1>6 DEF Next

\* No step of the scheduler parks a process or picks one up: who blocks joins
\* the sleep list, who leaves that list or blocks no longer is READY.
LEMMA ParkedUnchanged ==
    ASSUME IInv, [Next]_vars
    PROVE  Parked' = Parked
<1>1. /\ idle \in Process /\ idle \notin Worker /\ cleaner \in Process
      /\ cleaner \notin Worker /\ Worker \subseteq Process
  BY ProcessAssumption DEF Process
<1>2. status \in [Process -> {"DEAD", "RUNNING", "READY", "BLOCKED"}]
  BY DEF IInv, TypeOK
<1>3. ASSUME UNCHANGED <<status, sleepers>> PROVE Parked' = Parked
  BY <1>3 DEF Parked
<1>4. ASSUME Yield(current), UNCHANGED sleepers PROVE Parked' = Parked
  <2>1. /\ current \in Process /\ current' \in Process
        /\ status' = [status EXCEPT
                         ![current] = IF Requeued(current) THEN "READY" ELSE @,
                         ![current'] = "RUNNING"]
        /\ current' # idle =>
               \/ current' \in ToSet(ready)
               \/ current' = current /\ Requeued(current)
    BY <1>4, YieldFacts DEF IInv, TypeOK, Lists
  <2>2. current' # idle => status[current'] \in {"READY", "RUNNING"}
    BY <2>1 DEF IInv, Lists, StatusMatchesList, Requeued
  <2>3. \A q \in Worker : status'[q] = "BLOCKED" <=> status[q] = "BLOCKED"
    BY <1>1, <1>2, <2>1, <2>2 DEF Requeued
  <2> QED BY <1>4, <2>3 DEF Parked
<1>5. CASE Tick
  <2> DEFINE n == DueCount(left')
             woken == SubSeq(sleepers, 1, n)
             rest == SubSeq(sleepers, n + 1, Len(sleepers))
  <2>1. /\ sleepers' = rest
        /\ status' = [p \in Process |->
                          IF p \in ToSet(woken) THEN "READY" ELSE status[p]]
    BY <1>5 DEF Tick
  <2>2. /\ ToSet(sleepers) = ToSet(woken) \cup ToSet(rest)
        /\ ToSet(woken) \cap ToSet(rest) = {}
    <3>1. n \in 0 .. Len(sleepers)
      BY DueCountFacts DEF IInv, TypeOK
    <3> HIDE DEF n
    <3> QED BY <3>1, SplitFacts DEF IInv, TypeOK, Lists, OnOneList
  <2> HIDE DEF n, woken, rest
  <2> QED BY <1>1, <2>1, <2>2 DEF Parked
<1>6. ASSUME NEW p \in Process, Interrupt(p) PROVE Parked' = Parked
  BY <1>3, <1>4, <1>6 DEF Interrupt, TickYield, TickReturn
<1>7. ASSUME NEW p \in Worker, Call(p) PROVE Parked' = Parked
  <2>1. CASE Terminate(p)
    <3>1. p = current /\ pc[p] = "run" /\ sleepers' = sleepers
      BY <2>1 DEF Terminate, Executes
    <3>2. status[p] = "RUNNING" /\ p \in Process
      BY <1>1, <3>1 DEF IInv, Threads
    <3>3. /\ status'[p] = "DEAD"
          /\ \A q \in Worker : q # p => status'[q] = status[q]
      BY <1>1, <1>2, <2>1 DEF Terminate
    <3> QED BY <3>1, <3>2, <3>3 DEF Parked
  <2> QED BY <1>3, <1>7, <2>1 DEF Call, CreateAllocate, SleepAllocate
<1>8. ASSUME NEW p \in Worker \cup {cleaner}, Continue(p) PROVE Parked' = Parked
  <2>1. CASE CreateReady(p)
    <3>1. /\ p \in Process /\ p = current /\ pc[p] = "create" /\ sleepers' = sleepers
          /\ status' = [status EXCEPT ![target[p]] = "READY"]
      BY <1>1, <2>1 DEF CreateReady, Executes
    <3>2. target[p] \in Worker /\ pc[target[p]] = "built"
      BY <3>1 DEF IInv, Targets
    <3>3. status[target[p]] = "DEAD"
      BY <3>2 DEF IInv, FreeBlocks
    <3> QED BY <1>1, <1>2, <3>1, <3>2, <3>3 DEF Parked
  <2>2. CASE SleepBlock(p)
    <3>1. /\ p \in Process /\ p = current /\ pc[p] = "stamped"
          /\ status' = [status EXCEPT ![p] = "BLOCKED"]
          /\ ToSet(sleepers') = ToSet(sleepers) \cup {p}
      BY <1>1, <2>2, InsertSleeperFacts DEF SleepBlock, Executes, IInv, TypeOK
    <3>2. status[p] = "RUNNING"
      BY <3>1 DEF IInv, Threads
    <3> QED BY <1>1, <1>2, <3>1, <3>2 DEF Parked
  <2>3. CASE CallYield(p)
    BY <1>4, <2>3 DEF CallYield, Executes
  <2> QED BY <1>3, <1>8, <2>1, <2>2, <2>3 DEF Continue, SpawnUnlock, SleepStamp
<1>9. CASE Clean
  <2>1. CASE CleanerBlock
    BY <1>1, <1>2, <2>1 DEF CleanerBlock, Parked
  <2> QED BY <1>3, <1>9, <2>1 DEF Clean, CleanerCheck, CleanerReap, CleanerDelete
<1>10. CASE UNCHANGED vars
  BY <1>3, <1>10 DEF vars
<1> QED BY <1>5, <1>6, <1>7, <1>8, <1>9, <1>10 DEF Next

\* start() leaves the first process READY and the others not yet created.
LEMMA InitParksNobody == Init => Parked = {}
<1>1. ASSUME NEW first \in Worker,
             status = [p \in Process |-> CASE p = idle -> "RUNNING"
                                            [] p = cleaner -> "BLOCKED"
                                            [] p = first -> "READY"
                                            [] OTHER -> "DEAD"]
      PROVE  Parked = {}
  <2>1. ASSUME NEW p \in Worker PROVE status[p] # "BLOCKED"
    BY <1>1, <2>1, ProcessAssumption DEF Process
  <2> QED BY <2>1 DEF Parked
<1> QED BY <1>1 DEF Init

\* The inductive invariant holds in every reachable state.
THEOREM Invariance == Spec => []IInv
<1>1. Init => IInv
  BY InitStep
<1>2. IInv /\ [Next]_vars => IInv'
  BY NextStep
<1> QED BY <1>1, <1>2, PTL DEF Spec

\* Type correctness: the count of locks never goes below zero, every list
\* holds processes, and every thread is at a point of the code.
THEOREM TypeCorrect == Spec => []TypeOK
<1>1. IInv => TypeOK
  BY DEF IInv
<1> QED BY <1>1, Invariance, PTL

\* The shared `next` field is safe: no process is ever on two lists, or twice
\* on one, however many there are and wherever the timer interrupts them.
THEOREM ListsAreDisjoint == Spec => []OnOneList
<1>1. IInv => OnOneList
  BY DEF IInv, Lists
<1> QED BY <1>1, Invariance, PTL

\* The status field always agrees with the list a process is on.
THEOREM StatusIsRight == Spec => []StatusMatchesList
<1>1. IInv => StatusMatchesList
  BY DEF IInv, Lists
<1> QED BY <1>1, Invariance, PTL

\* A blocked or dead process is always where its waker or the cleaner finds it.
THEOREM NobodyIsLost == Spec => []NoneLost
<1>1. Init => NobodyParked
  BY InitParksNobody DEF NobodyParked
<1>2. IInv /\ NobodyParked /\ [Next]_vars => NobodyParked'
  BY ParkedUnchanged DEF NobodyParked
<1>3. IInv /\ NobodyParked => NoneLost
  BY DEF IInv, Lists, DeadNotLost, NoneLost, Parked, NobodyParked
<1> QED BY <1>1, <1>2, <1>3, Invariance, PTL DEF Spec

\* Each lock_sheduler is undone once: disable_irq_count counts the threads
\* inside a locked window.
THEOREM LocksAreBalanced == Spec => []LockBalance
<1>1. IInv => LockBalance
  BY DEF IInv, Locks
<1> QED BY <1>1, Invariance, PTL

\* With no lock held, interrupts are on.
THEOREM InterruptsComeBack == Spec => []InterruptsOnUnlessLocked
<1>1. IInv => InterruptsOnUnlessLocked
  BY DEF IInv, Locks
<1> QED BY <1>1, Invariance, PTL

\* Freed and unfinished blocks are out of every list and every thread's reach.
THEOREM NoUseAfterFree == Spec => []FreedIsUnreferenced
<1>1. ASSUME IInv PROVE FreedIsUnreferenced
  <2> SUFFICES ASSUME NEW p \in Worker, pc[p] \in {"none", "built"}
               PROVE  /\ p \notin ToSet(ready) \cup ToSet(dead) \cup ToSet(sleepers)
                      /\ p # current
                      /\ pc[p] = "none" => \A q \in Process : target[q] # p
    BY DEF FreedIsUnreferenced
  <2>1. p \in Process /\ p # idle /\ p # nobody /\ cleaner \in Process
    BY ProcessAssumption DEF Process
  <2>2. status[p] = "DEAD" /\ p # current
    BY <1>1 DEF IInv, FreeBlocks
  <2>3. p \notin ToSet(ready) \cup ToSet(dead) \cup ToSet(sleepers)
    BY <1>1, <2>1, <2>2 DEF IInv, Lists, StatusMatchesList, Leavers
  <2>4. ASSUME pc[p] = "none", NEW q \in Process PROVE target[q] # p
    <3>1. CASE pc[q] = "create"
      BY <3>1, <2>4, <1>1 DEF IInv, Targets
    <3>2. CASE pc[q] = "delete"
      <4>1. q = cleaner
        BY <3>2, <1>1 DEF IInv, Threads, CleanerPoint, Process
      <4> QED BY <3>2, <4>1, <2>4, <1>1 DEF IInv, Targets
    <3> QED BY <3>1, <3>2, <2>1, <1>1 DEF IInv, Targets
  <2> QED BY <2>2, <2>3, <2>4
<1> QED BY <1>1, Invariance, PTL

-----------------------------------------------------------------------------
\* Only yield gives the CPU to another process: one that was READY, or the
\* idle process.
LEMMA DispatchedIsReady ==
    ASSUME IInv, [Next]_vars, current' # current
    PROVE  /\ Yield(current)
           /\ current' = idle \/ status[current'] = "READY"
<1>1. Yield(current)
  BY DEF Next, vars, Tick, Interrupt, TickYield, TickReturn, Call, CreateAllocate,
         SleepAllocate, Terminate, Continue, CallYield, Executes, SpawnUnlock,
         CreateReady, SleepStamp, SleepBlock, Clean, CleanerCheck, CleanerReap,
         CleanerDelete, CleanerBlock
<1>2. current' # idle => current' \in ToSet(ready)
  BY <1>1, YieldFacts DEF IInv, Lists
<1>3. current' \in Process
  BY <1>1, YieldFacts DEF IInv, Lists
<1> QED BY <1>1, <1>2, <1>3 DEF IInv, Lists, StatusMatchesList

\* A terminated process that lost the CPU never gets it again before its block
\* is deleted.
THEOREM TheDeadStayOff == Spec => DeadNeverDispatched
<1>1. ASSUME IInv, [Next]_vars PROVE [DeadStayOff]_vars
  <2>1. ASSUME NEW p \in Process, p # current,
               p \in ToSet(dead) \/ (pc[cleaner] = "delete" /\ p = target[cleaner])
        PROVE  p # current'
    <3>1. p # idle /\ status[p] = "DEAD"
      BY <1>1, <2>1, ProcessAssumption
         DEF IInv, Lists, StatusMatchesList, Targets
    <3> QED BY <1>1, <2>1, <3>1, DispatchedIsReady
  <2> QED BY <2>1 DEF DeadStayOff
<1> QED BY <1>1, Invariance, PTL DEF Spec, DeadNeverDispatched

-----------------------------------------------------------------------------
(***************************************************************************)
(* The order of the lists.                                                 *)
(***************************************************************************)

\* Entries that are all moved by as much keep their order.
LEMMA ShiftKeepsOrder ==
    ASSUME NEW S, NEW s \in Seq(S), NEW t \in Seq(S), NEW k \in Int,
           IsInjective(t), ShiftedBy(t, s, k),
           NEW p \in ToSet(t), NEW q \in ToSet(t), Ahead(s, p, q)
    PROVE  ~Ahead(t, q, p)
<1>1. DOMAIN s \subseteq Int /\ DOMAIN t \subseteq Int
  BY LenProperties
<1>2. PICK i \in DOMAIN s, j \in DOMAIN s : i < j /\ s[i] = p /\ s[j] = q
  BY DEF Ahead
<1>3. /\ i + k \in DOMAIN t /\ t[i + k] = p
      /\ j + k \in DOMAIN t /\ t[j + k] = q
  BY <1>2 DEF ShiftedBy
<1> SUFFICES ASSUME NEW m \in DOMAIN t, NEW n \in DOMAIN t,
                    m < n, t[m] = q, t[n] = p
             PROVE  FALSE
  BY DEF Ahead
<1>4. m = j + k /\ n = i + k
  BY <1>3 DEF IsInjective
<1> QED BY <1>1, <1>2, <1>4

\* The READY list is only appended to, popped, or put behind others.
LEMMA ReadyShift ==
    ASSUME IInv, [Next]_vars
    PROVE  \E k \in Int : ShiftedBy(ready', ready, k)
<1>1. ready \in Seq(Process) /\ IsInjective(ready) /\ current \in Process
  BY DEF IInv, TypeOK, Lists, OnOneList
<1>2. CASE ready' = ready
  <2>1. ShiftedBy(ready, ready, 0)
    BY <1>1, LenProperties DEF ShiftedBy
  <2> QED BY <1>2, <2>1
<1>3. ASSUME Yield(current) PROVE \E k \in Int : ShiftedBy(ready', ready, k)
  <2> DEFINE queue == IF Requeued(current) THEN Append(ready, current) ELSE ready
  <2>1. ready' = IF queue = <<>> THEN <<>> ELSE Tail(queue)
    BY <1>3 DEF Yield, Pop
  <2>2. /\ queue \in Seq(Process) /\ IsInjective(queue)
        /\ ShiftedBy(queue, ready, 0) /\ DOMAIN ready \subseteq Int
        /\ ToSet(ready) \subseteq ToSet(queue)
    <3>1. CASE Requeued(current)
      <4>1. current \notin ToSet(ready)
        BY <3>1 DEF Requeued, IInv, Lists, StatusMatchesList, TypeOK
      <4> QED BY <3>1, <4>1, <1>1, AppendFacts, AppendShift, LenProperties
    <3>2. CASE ~Requeued(current)
      BY <3>2, <1>1, LenProperties DEF ShiftedBy
    <3> QED BY <3>1, <3>2
  <2> HIDE DEF queue
  <2>3. CASE queue = <<>>
    <3>1. ToSet(ready') = {}
      BY <2>1, <2>3 DEF ToSet
    <3> QED BY <3>1 DEF ShiftedBy
  <2>4. CASE queue # <<>>
    <3>1. ShiftedBy(Tail(queue), queue, -1)
      BY <2>2, <2>4, TailShift
    <3>2. ASSUME NEW i \in DOMAIN ready, ready[i] \in ToSet(ready')
          PROVE  i + -1 \in DOMAIN ready' /\ ready'[i + -1] = ready[i]
      <4>1. ready[i] \in ToSet(queue)
        BY <2>2 DEF ToSet
      <4>2. i \in DOMAIN queue /\ queue[i] = ready[i]
        BY <2>2, <4>1 DEF ShiftedBy
      <4> QED BY <2>1, <2>4, <3>1, <3>2, <4>2 DEF ShiftedBy
    <3> QED BY <3>2 DEF ShiftedBy
  <2> QED BY <2>3, <2>4
<1>4. CASE Tick
  <2> DEFINE woken == SubSeq(sleepers, 1, DueCount(left'))
  <2>1. woken \in Seq(Process)
    BY DueCountFacts, SplitFacts DEF IInv, TypeOK
  <2>2. ready' = Reverse(woken) \o ready
    BY <1>4 DEF Tick
  <2> HIDE DEF woken
  <2>3. Reverse(woken) \in Seq(Process)
    BY <2>1, ReverseFacts
  <2> QED BY <1>1, <2>2, <2>3, ConcatShift
<1>5. CASE \E p \in Process : Interrupt(p)
  BY <1>2, <1>3, <1>5 DEF Interrupt, TickYield, TickReturn
<1>6. CASE \E p \in Worker : Call(p)
  <2>1. ASSUME NEW p \in Worker, Terminate(p), CleanerMustWake
        PROVE  \E k \in Int : ShiftedBy(ready', ready, k)
    <3>1. ready' = <<cleaner>> \o ready
      BY <2>1 DEF Terminate
    <3>2. <<cleaner>> \in Seq(Process)
      BY DEF Process
    <3> QED BY <1>1, <3>1, <3>2, ConcatShift
  <2>2. ASSUME NEW p \in Worker, Terminate(p), ~CleanerMustWake
        PROVE  ready' = ready
    BY <2>2 DEF Terminate
  <2> QED BY <1>2, <1>6, <2>1, <2>2 DEF Call, CreateAllocate, SleepAllocate
<1>7. CASE \E p \in Worker \cup {cleaner} : Continue(p)
  <2>1. ASSUME NEW p \in Worker \cup {cleaner}, CreateReady(p)
        PROVE  \E k \in Int : ShiftedBy(ready', ready, k)
    <3>1. ready' = Append(ready, target[p]) /\ target[p] \in Process
      BY <2>1 DEF CreateReady, Executes, IInv, Targets, Process
    <3>2. ShiftedBy(Append(ready, target[p]), ready, 0)
      BY <1>1, <3>1, AppendShift
    <3> QED BY <3>1, <3>2
  <2> QED BY <1>2, <1>3, <1>7, <2>1
        DEF Continue, CallYield, Executes, SpawnUnlock, SleepStamp, SleepBlock
<1>8. CASE Clean
  BY <1>2, <1>8 DEF Clean, CleanerCheck, CleanerReap, CleanerDelete, CleanerBlock
<1>9. CASE UNCHANGED vars
  BY <1>2, <1>9 DEF vars
<1> QED BY <1>4, <1>5, <1>6, <1>7, <1>8, <1>9 DEF Next

\* Two processes that are READY keep their order until one of them runs.
THEOREM NobodyOvertakes == Spec => NoOvertaking
<1>1. ASSUME IInv, IInv', [Next]_vars,
             NEW p \in ToSet(ready) \cap ToSet(ready'),
             NEW q \in ToSet(ready) \cap ToSet(ready'), Ahead(ready, p, q)
      PROVE  ~Ahead(ready', q, p)
  <2>1. PICK k \in Int : ShiftedBy(ready', ready, k)
    BY <1>1, ReadyShift
  <2>2. /\ ready \in Seq(Process) /\ ready' \in Seq(Process)
        /\ IsInjective(ready')
    BY <1>1 DEF IInv, TypeOK, Lists, OnOneList
  <2> QED BY <1>1, <2>1, <2>2, ShiftKeepsOrder
<1>2. IInv /\ IInv' /\ [Next]_vars =>
      [\A p, q \in ToSet(ready) \cap ToSet(ready') :
           Ahead(ready, p, q) => ~Ahead(ready', q, p)]_vars
  BY <1>1
<1> QED BY <1>2, Invariance, PTL DEF Spec, NoOvertaking

\* sleep keeps the list in the order of the wake times.
LEMMA InsertSleeperSorts ==
    ASSUME TypeOK, SleepersInOrder, NEW p \in Process,
           sleepers' = InsertSleeper(p, left[p]), left' = left
    PROVE  SleepersInOrder'
<1>1. /\ sleepers \in Seq(Process) /\ Len(sleepers) \in Nat
      /\ DOMAIN sleepers = 1 .. Len(sleepers) /\ left \in [Process -> Nat]
      /\ \A i \in 1 .. Len(sleepers) : sleepers[i] \in Process
  BY LenProperties, ElementOfSeq DEF TypeOK
<1>2. PICK k \in 1 .. Len(sleepers) + 1 :
          /\ sleepers' = InsertAt(sleepers, k, p)
          /\ \A i \in 1 .. Len(sleepers) : i < k => ~(left[sleepers[i]] > left[p])
          /\ k <= Len(sleepers) => left[sleepers[k]] > left[p]
  BY <1>1, InsertSleeperPlace
<1>3. sleepers' \in Seq(Process) /\ Widened(sleepers', sleepers, k, p)
  BY <1>1, <1>2, InsertAtItems
<1>4. /\ DOMAIN sleepers' = 1 .. Len(sleepers) + 1
      /\ \A i \in 1 .. Len(sleepers) + 1 :
             sleepers'[i] = IF i < k THEN sleepers[i]
                            ELSE IF i = k THEN p ELSE sleepers[i - 1]
  BY <1>3, LenProperties DEF Widened
<1>5. ASSUME NEW i \in 1 .. Len(sleepers) PROVE left[sleepers[i]] \in Nat
  BY <1>1
<1>6. left[p] \in Nat
  BY <1>1
<1>7. ASSUME NEW i \in 1 .. Len(sleepers), NEW j \in 1 .. Len(sleepers), i <= j
      PROVE  left[sleepers[i]] <= left[sleepers[j]]
  <2>1. CASE i < j
    BY <2>1, <1>1 DEF SleepersInOrder
  <2>2. CASE i = j
    BY <2>2, <1>5
  <2> QED BY <2>1, <2>2, <1>1, <1>7
<1>8. ASSUME NEW i \in 1 .. Len(sleepers) + 1, NEW j \in 1 .. Len(sleepers) + 1, i < j
      PROVE  left[sleepers'[i]] <= left[sleepers'[j]]
  <2>1. CASE j < k
    <3>1. i \in 1 .. Len(sleepers) /\ j \in 1 .. Len(sleepers) /\ i < k
      BY <1>1, <1>8, <2>1
    <3> QED BY <1>4, <1>7, <1>8, <2>1, <3>1
  <2>2. CASE j = k
    <3>1. i \in 1 .. Len(sleepers) /\ i < k /\ ~(j < k)
      BY <1>1, <1>8, <2>2
    <3>2. sleepers'[i] = sleepers[i] /\ sleepers'[j] = p
      BY <1>4, <2>2, <3>1
    <3>3. ~(left[sleepers[i]] > left[p])
      BY <1>2, <3>1
    <3> QED BY <1>5, <1>6, <3>1, <3>2, <3>3
  <2>3. CASE j > k
    <3>1. j - 1 \in 1 .. Len(sleepers) /\ ~(j < k) /\ j # k
      BY <1>1, <1>8, <2>3
    <3>2. sleepers'[j] = sleepers[j - 1]
      BY <1>4, <3>1
    <3>3. CASE i < k
      <4>1. i \in 1 .. Len(sleepers) /\ i <= j - 1
        BY <1>1, <1>8, <2>3, <3>3
      <4> QED BY <1>4, <1>7, <3>1, <3>2, <3>3, <4>1
    <3>4. CASE i = k
      <4>1. k \in 1 .. Len(sleepers) /\ k <= j - 1 /\ ~(i < k)
        BY <1>1, <1>8, <2>3, <3>4
      <4>2. sleepers'[i] = p /\ left[sleepers[k]] > left[p]
        BY <1>2, <1>4, <3>4, <4>1
      <4>3. left[sleepers[k]] <= left[sleepers[j - 1]]
        BY <1>7, <3>1, <4>1
      <4>4. left[sleepers[k]] \in Nat /\ left[sleepers[j - 1]] \in Nat
        BY <1>5, <3>1, <4>1
      <4> QED BY <1>6, <3>2, <4>2, <4>3, <4>4
    <3>5. CASE i > k
      <4>1. i - 1 \in 1 .. Len(sleepers) /\ i - 1 <= j - 1 /\ ~(i < k) /\ i # k
        BY <1>1, <1>8, <3>5
      <4>2. sleepers'[i] = sleepers[i - 1]
        BY <1>4, <4>1
      <4> QED BY <1>7, <3>1, <3>2, <4>1, <4>2
    <3> QED BY <3>3, <3>4, <3>5
  <2> QED BY <1>1, <2>1, <2>2, <2>3
<1> QED BY <1>4, <1>8 DEF SleepersInOrder

\* The tick shortens all sleeps alike, and wakeUp takes a part off the front
\* of the list: those that are due, and nobody else.
LEMMA TickFacts ==
    ASSUME TypeOK, SleepersInOrder, Tick
    PROVE  /\ SleepersInOrder'
           /\ \A p \in ToSet(sleepers') : left'[p] > 0
           /\ \A p \in ToSet(sleepers) : p \notin ToSet(sleepers') => left'[p] = 0
<1> DEFINE n == DueCount(left')
           f == [p \in Process |-> IF left[p] = 0 THEN 0 ELSE left[p] - 1]
<1>1. /\ sleepers \in Seq(Process) /\ Len(sleepers) \in Nat
      /\ DOMAIN sleepers = 1 .. Len(sleepers) /\ left \in [Process -> Nat]
      /\ \A i \in 1 .. Len(sleepers) : sleepers[i] \in Process
  BY LenProperties, ElementOfSeq DEF TypeOK
<1>2. /\ n \in 0 .. Len(sleepers)
      /\ \A i \in 1 .. n : ~(left'[sleepers[i]] > 0)
      /\ n < Len(sleepers) => left'[sleepers[n + 1]] > 0
  BY <1>1, DueCountFacts
<1>3. /\ left' = f
      /\ sleepers' = SubSeq(sleepers, n + 1, Len(sleepers))
  BY DEF Tick
<1>4. /\ \A p \in Process : left'[p] \in Nat
      /\ \A p, q \in Process : left[p] <= left[q] => left'[p] <= left'[q]
  BY <1>1, <1>3
<1> HIDE DEF n, f
<1>5. /\ sleepers' \in Seq(Process) /\ Len(sleepers') = Len(sleepers) - n
      /\ \A i \in 1 .. Len(sleepers) - n : sleepers'[i] = sleepers[n + i]
  <2> DEFINE r == SubSeq(sleepers, n + 1, Len(sleepers))
  <2>0. n + 1 \in 1 .. Len(sleepers) + 1 /\ Len(sleepers) \in 0 .. Len(sleepers)
        /\ n + 1 <= Len(sleepers) + 1
    BY <1>1, <1>2
  <2>1. /\ r \in Seq(Process) /\ Len(r) = Len(sleepers) - (n + 1) + 1
        /\ \A i \in 1 .. Len(sleepers) - (n + 1) + 1 : r[i] = sleepers[n + 1 + i - 1]
    BY <1>1, <2>0, PartItems
  <2> HIDE DEF r
  <2>2. ASSUME NEW i \in 1 .. Len(sleepers) - n PROVE r[i] = sleepers[n + i]
    <3>1. i \in 1 .. Len(sleepers) - (n + 1) + 1 /\ n + 1 + i - 1 = n + i
      BY <1>1, <1>2
    <3> QED BY <2>1, <3>1
  <2>3. Len(r) = Len(sleepers) - n
    BY <1>1, <1>2, <2>1
  <2>4. sleepers' = r
    BY <1>3 DEF r
  <2> QED BY <2>1, <2>2, <2>3, <2>4
<1>6. DOMAIN sleepers' = 1 .. Len(sleepers) - n
  BY <1>5, LenProperties
<1>7. ASSUME NEW i \in 1 .. Len(sleepers), NEW j \in 1 .. Len(sleepers), i < j
      PROVE  left'[sleepers[i]] <= left'[sleepers[j]]
  <2>1. left[sleepers[i]] <= left[sleepers[j]]
    BY <1>1, <1>7 DEF SleepersInOrder
  <2> QED BY <1>1, <1>4, <2>1
<1>8. SleepersInOrder'
  <2>1. ASSUME NEW i \in DOMAIN sleepers', NEW j \in DOMAIN sleepers', i < j
        PROVE  left'[sleepers'[i]] <= left'[sleepers'[j]]
    <3>1. n + i \in 1 .. Len(sleepers) /\ n + j \in 1 .. Len(sleepers) /\ n + i < n + j
      BY <1>1, <1>2, <1>6, <2>1
    <3>2. sleepers'[i] = sleepers[n + i] /\ sleepers'[j] = sleepers[n + j]
      BY <1>5, <1>6
    <3> QED BY <1>7, <3>1, <3>2
  <2> QED BY <2>1 DEF SleepersInOrder
<1>9. ASSUME NEW i \in DOMAIN sleepers' PROVE left'[sleepers'[i]] > 0
  <2>1. /\ n < Len(sleepers) /\ n + 1 \in 1 .. Len(sleepers)
        /\ n + i \in 1 .. Len(sleepers) /\ n + 1 <= n + i
    BY <1>1, <1>2, <1>6
  <2>2. sleepers'[i] = sleepers[n + i] /\ left'[sleepers[n + 1]] > 0
    BY <1>2, <1>5, <1>6, <2>1
  <2>3. CASE i = 1
    BY <2>2, <2>3
  <2>4. CASE i # 1
    <3>1. n + 1 < n + i
      BY <1>1, <1>2, <1>6, <2>1, <2>4
    <3>2. left'[sleepers[n + 1]] <= left'[sleepers[n + i]]
      BY <1>7, <2>1, <3>1
    <3>3. left'[sleepers[n + 1]] \in Nat /\ left'[sleepers[n + i]] \in Nat
      BY <1>1, <1>4, <2>1
    <3> QED BY <2>2, <3>2, <3>3
  <2> QED BY <2>3, <2>4
<1>10. ASSUME NEW i \in DOMAIN sleepers, sleepers[i] \notin ToSet(sleepers')
       PROVE  left'[sleepers[i]] = 0
  <2>1. i \in 1 .. n
    <3>1. CASE i > n
      <4>1. i - n \in 1 .. Len(sleepers) - n /\ n + (i - n) = i
        BY <1>1, <1>2, <3>1
      <4>2. sleepers'[i - n] = sleepers[i]
        BY <1>5, <4>1
      <4> QED BY <1>6, <1>10, <4>1, <4>2 DEF ToSet
    <3> QED BY <1>1, <1>2, <3>1
  <2>2. ~(left'[sleepers[i]] > 0) /\ left'[sleepers[i]] \in Nat
    BY <1>1, <1>2, <1>4, <2>1
  <2> QED BY <2>2
<1> QED BY <1>8, <1>9, <1>10 DEF ToSet

\* The other steps leave the list alone or insert the caller; and sleep
\* stamps the wake time of a process that is not on the list.
LEMMA ListMoves ==
    ASSUME IInv, [Next]_vars, ~Tick
    PROVE  \/ sleepers' = sleepers /\ left' = left
           \/ \E p \in Process : sleepers' = InsertSleeper(p, left[p]) /\ left' = left
           \/ \E p \in Process \ ToSet(sleepers), n \in Nat :
                  sleepers' = sleepers /\ left' = [left EXCEPT ![p] = n]
<1>1. ASSUME NEW p \in Worker \cup {cleaner}, NEW ms \in SleepTicks, SleepStamp(p, ms)
      PROVE  \E q \in Process \ ToSet(sleepers), n \in Nat :
                 sleepers' = sleepers /\ left' = [left EXCEPT ![q] = n]
  <2>1. /\ p = current /\ pc[p] = "kmalloc" /\ p \in Process /\ p # idle
        /\ sleepers' = sleepers /\ left' = [left EXCEPT ![p] = ms]
    BY <1>1, ProcessAssumption DEF SleepStamp, Executes, Process
  <2>2. status[p] = "RUNNING"
    BY <2>1 DEF IInv, Threads
  <2>3. p \notin ToSet(sleepers)
    BY <2>1, <2>2 DEF IInv, Lists, StatusMatchesList
  <2>4. ms \in Nat
    BY TimeAssumption
  <2> QED BY <2>1, <2>3, <2>4
<1>2. ASSUME NEW p \in Worker \cup {cleaner}, SleepBlock(p)
      PROVE  \E q \in Process : sleepers' = InsertSleeper(q, left[q]) /\ left' = left
  BY <1>2 DEF SleepBlock, Process
<1>3. CASE \E p \in Process : Interrupt(p)
  BY <1>3 DEF Interrupt, TickYield, TickReturn
<1>4. CASE \E p \in Worker : Call(p)
  BY <1>4 DEF Call, CreateAllocate, SleepAllocate, Terminate
<1>5. CASE \E p \in Worker \cup {cleaner} : Continue(p)
  BY <1>1, <1>2, <1>5 DEF Continue, CallYield, SpawnUnlock, CreateReady
<1>6. CASE Clean
  BY <1>6 DEF Clean, CleanerCheck, CleanerReap, CleanerDelete, CleanerBlock
<1>7. CASE UNCHANGED vars
  BY <1>7 DEF vars
<1> QED BY <1>3, <1>4, <1>5, <1>6, <1>7 DEF Next

\* No step disturbs the order of the sleep list.
LEMMA OrderStep == IInv /\ SleepersInOrder /\ [Next]_vars => SleepersInOrder'
<1> SUFFICES ASSUME IInv, SleepersInOrder, [Next]_vars PROVE SleepersInOrder'
  OBVIOUS
<1>1. TypeOK /\ sleepers \in Seq(Process) /\ left \in [Process -> Nat]
  BY DEF IInv, TypeOK
<1>2. CASE Tick
  BY <1>1, <1>2, TickFacts
<1>3. CASE ~Tick
  <2>1. CASE sleepers' = sleepers /\ left' = left
    BY <2>1 DEF SleepersInOrder
  <2>2. ASSUME NEW p \in Process, sleepers' = InsertSleeper(p, left[p]), left' = left
        PROVE  SleepersInOrder'
    BY <1>1, <2>2, InsertSleeperSorts
  <2>3. ASSUME NEW p \in Process \ ToSet(sleepers), NEW n \in Nat,
               sleepers' = sleepers, left' = [left EXCEPT ![p] = n]
        PROVE  SleepersInOrder'
    <3>1. \A i \in DOMAIN sleepers : left'[sleepers[i]] = left[sleepers[i]]
      BY <1>1, <2>3 DEF ToSet
    <3> QED BY <2>3, <3>1 DEF SleepersInOrder
  <2> QED BY <1>3, <2>1, <2>2, <2>3, ListMoves
<1> QED BY <1>2, <1>3

\* The sleep list is always in the order of the wake times, the head being
\* the earliest, which is the only one wakeUp looks at.
THEOREM SleepListIsSorted == Spec => []SleepersInOrder
<1>1. Init => SleepersInOrder
  BY DEF Init, SleepersInOrder
<1> QED BY <1>1, OrderStep, Invariance, PTL DEF Spec

\* wakeUp leaves nobody asleep who is due, and wakes nobody early.
THEOREM EveryoneWakesOnTime == Spec => WokenOnTime
<1>1. ASSUME IInv, SleepersInOrder, [Next]_vars
      PROVE  [/\ Tick => \A p \in ToSet(sleepers') : left'[p] > 0
              /\ \A p \in ToSet(sleepers) :
                     p \notin ToSet(sleepers') => left'[p] = 0]_vars
  <2>1. TypeOK /\ sleepers \in Seq(Process)
    BY <1>1 DEF IInv, TypeOK
  <2>2. CASE Tick
    BY <1>1, <2>1, <2>2, TickFacts
  <2>3. CASE ~Tick
    <3>1. ToSet(sleepers) \subseteq ToSet(sleepers')
      BY <1>1, <2>1, <2>3, ListMoves, InsertSleeperFacts
    <3> QED BY <2>3, <3>1
  <2> QED BY <2>2, <2>3
<1> QED BY <1>1, SleepListIsSorted, Invariance, PTL DEF Spec, WokenOnTime

-----------------------------------------------------------------------------
(***************************************************************************)
(* The Scheduler implements the Lifecycle.                                 *)
(***************************************************************************)

FreePoint == {"none", "built"}

\* The places say nothing of what happens inside the running process.
LEMMA SamePlaces ==
    ASSUME current' = current,
           \A q \in Process \ {current} :
               /\ status'[q] = status[q]
               /\ pc'[q] \in FreePoint <=> pc[q] \in FreePoint
    PROVE  places' = places
BY DEF places, PlaceOf, FreePoint

\* The timer wakes the processes it finds due, except the running one.
LEMMA TickSimulates ==
    ASSUME IInv, Tick
    PROVE  [Life!Next]_places
<1> DEFINE n == DueCount(left')
           woken == SubSeq(sleepers, 1, n)
           S == ToSet(woken) \ {current}
<1>1. /\ status' = [p \in Process |-> IF p \in ToSet(woken) THEN "READY" ELSE status[p]]
      /\ UNCHANGED <<current, pc>>
  BY DEF Tick
<1>2. ToSet(woken) \subseteq ToSet(sleepers)
  <2>1. n \in 0 .. Len(sleepers)
    BY DueCountFacts DEF IInv, TypeOK
  <2> HIDE DEF n
  <2> QED BY <2>1, SplitFacts DEF IInv, TypeOK
<1> HIDE DEF n, woken
<1>3. ASSUME NEW p \in ToSet(woken)
      PROVE  /\ p \in Process /\ p # idle /\ status[p] = "BLOCKED"
             /\ pc[p] \notin FreePoint
  BY <1>2, ProcessAssumption
     DEF IInv, Leavers, Lists, StatusMatchesList, FreeBlocks, FreePoint, Process
<1>4. S \subseteq Life!At("blocked")
  BY <1>3 DEF Life!At, places, PlaceOf, FreePoint
<1>5. ASSUME NEW p \in Process
      PROVE  PlaceOf(p)' = IF p \in S THEN "ready" ELSE places[p]
  BY <1>1, <1>3 DEF places, PlaceOf
<1>6. places' = [p \in Process |-> IF p \in S THEN "ready" ELSE places[p]]
  BY <1>5 DEF places
<1>7. S \in SUBSET Life!At("blocked")
  BY <1>4
<1> QED BY <1>6, <1>7, Zenon DEF Life!Next, Life!Wake

\* yield gives the CPU to a ready process, or changes nothing.
LEMMA YieldSimulates ==
    ASSUME IInv, Yield(current),
           \A q \in Process : pc'[q] \in FreePoint <=> pc[q] \in FreePoint
    PROVE  [Life!Next]_places
<1> DEFINE p == current
           next == current'
<1>1. /\ next \in Process
      /\ next # idle => next \in ToSet(ready) \/ (next = p /\ Requeued(p))
      /\ next = idle => ToSet(ready) = {} /\ ~Requeued(p)
      /\ status' = [status EXCEPT ![p] = IF Requeued(p) THEN "READY" ELSE @,
                                  ![next] = "RUNNING"]
  BY YieldFacts DEF IInv, Lists
<1>2. p \in Process /\ idle \in Process /\ idle \notin Worker
  BY ProcessAssumption DEF IInv, TypeOK, Process
<1>3. pc[p] \notin FreePoint
  BY ProcessAssumption
     DEF IInv, TypeOK, Process, FreeBlocks, FreePoint, Threads, CleanerPoint
<1>4. /\ \A q \in Process : q # p /\ q # next => status'[q] = status[q]
      /\ p # next => status'[p] = IF Requeued(p) THEN "READY" ELSE status[p]
  BY <1>1, <1>2 DEF IInv, TypeOK
<1> HIDE DEF next, p
<1>5. CASE next = p
  BY <1>4, <1>5, SamePlaces DEF next, p
<1>6. CASE next # p
  <2> DEFINE where == places'[p]
  <2>1. places[p] = "running" /\ places[next] = "ready"
    BY <1>1, <1>2, <1>6 DEF places, PlaceOf, IInv, Lists, StatusMatchesList, p
  <2>2. /\ where \in {"ready", "blocked", "dead"}
        /\ p = idle => where = "ready"
    BY <1>1, <1>2, <1>3, <1>4, <1>6
       DEF places, PlaceOf, IInv, TypeOK, Threads, Requeued, next, FreePoint
  <2>3. next = idle => where # "ready"
    BY <1>1, <1>2, <1>4, <1>6
       DEF places, PlaceOf, IInv, Lists, StatusMatchesList, next, FreePoint
  <2>4. next = idle => Life!At("ready") = {idle}
    BY <1>1, <1>2, <1>6
       DEF Life!At, places, PlaceOf, IInv, Lists, StatusMatchesList, p
  <2>5. ASSUME NEW q \in Process
        PROVE  places'[q] = [places EXCEPT ![p] = where, ![next] = "running"][q]
    BY <1>2, <1>4, <1>6 DEF places, PlaceOf, next, p, FreePoint
  <2>6. places' = [places EXCEPT ![p] = where, ![next] = "running"]
    BY <2>5 DEF places
  <2> HIDE DEF where
  <2>7. Life!Switch(p, next)
    BY <2>1, <2>2, <2>3, <2>4, <2>6 DEF Life!Switch
  <2> QED BY <2>7, <1>1, <1>2 DEF Life!Next
<1> QED BY <1>5, <1>6

\* A new process is admitted.
LEMMA CreateReadySimulates ==
    ASSUME IInv, NEW p \in Worker \cup {cleaner}, CreateReady(p)
    PROVE  [Life!Next]_places
<1> DEFINE child == target[p]
<1>1. /\ p = current /\ pc[p] = "create"
      /\ status' = [status EXCEPT ![child] = "READY"]
      /\ pc' = [pc EXCEPT ![p] = "run", ![child] = "spawn"]
      /\ UNCHANGED current
  BY DEF CreateReady, Executes
<1>2. /\ child \in Process /\ child # idle /\ child # p /\ p \in Process
      /\ pc[child] = "built" /\ status[child] = "DEAD"
  BY <1>1, ProcessAssumption DEF IInv, Targets, FreeBlocks, Process
<1> HIDE DEF child
<1>3. places[child] = "free"
  BY <1>1, <1>2 DEF places, PlaceOf
<1>4. ASSUME NEW q \in Process
      PROVE  PlaceOf(q)' = [places EXCEPT ![child] = "ready"][q]
  BY <1>1, <1>2 DEF places, PlaceOf, IInv, TypeOK
<1>5. places' = [places EXCEPT ![child] = "ready"]
  BY <1>4 DEF places
<1> QED BY <1>2, <1>3, <1>5 DEF Life!Next, Life!Admit

\* terminate_task wakes the cleaner when it is blocked.
LEMMA TerminateSimulates ==
    ASSUME IInv, NEW p \in Worker, Terminate(p)
    PROVE  [Life!Next]_places
<1>1. p = current /\ UNCHANGED current /\ pc' = [pc EXCEPT ![p] = "yield"]
  BY DEF Terminate, Executes
<1>2. /\ p \in Process /\ cleaner \in Process /\ cleaner # p /\ cleaner # idle
      /\ pc[p] = "run"
  BY ProcessAssumption DEF Process, Terminate, Executes
<1>3. CASE CleanerMustWake
  <2>1. status' = [status EXCEPT ![p] = "DEAD", ![cleaner] = "READY"]
    BY <1>3 DEF Terminate
  <2>2. {cleaner} \subseteq Life!At("blocked")
    BY <1>1, <1>2, <1>3
       DEF Life!At, places, PlaceOf, CleanerMustWake, IInv, Threads, CleanerPoint
  <2>3. ASSUME NEW q \in Process
        PROVE  PlaceOf(q)' = IF q \in {cleaner} THEN "ready" ELSE places[q]
    BY <2>1, <1>1, <1>2 DEF places, PlaceOf, IInv, TypeOK
  <2>4. places' = [q \in Process |-> IF q \in {cleaner} THEN "ready" ELSE places[q]]
    BY <2>3 DEF places
  <2>5. {cleaner} \in SUBSET Life!At("blocked")
    BY <2>2
  <2> QED BY <2>4, <2>5, Zenon DEF Life!Next, Life!Wake
<1>4. CASE ~CleanerMustWake
  <2>1. status' = [status EXCEPT ![p] = "DEAD"]
    BY <1>4 DEF Terminate
  <2>2. places' = places
    BY <2>1, <1>1, <1>2, SamePlaces DEF IInv, TypeOK
  <2> QED BY <2>2
<1> QED BY <1>3, <1>4

\* The cleaner frees a dead process.
LEMMA CleanerDeleteSimulates ==
    ASSUME IInv, CleanerDelete
    PROVE  [Life!Next]_places
<1> DEFINE gone == target[cleaner]
<1>1. /\ cleaner = current /\ pc[cleaner] = "delete"
      /\ pc' = [pc EXCEPT ![gone] = "none", ![cleaner] = "check"]
      /\ UNCHANGED <<current, status>>
  BY DEF CleanerDelete, Executes
<1>2. /\ gone \in Process /\ gone # idle /\ gone # current /\ status[gone] = "DEAD"
      /\ pc[gone] \in {"run", "yield"} /\ cleaner \in Process /\ gone # cleaner
  BY <1>1, ProcessAssumption DEF IInv, Targets, Process
<1> HIDE DEF gone
<1>3. places[gone] = "dead"
  BY <1>2 DEF places, PlaceOf
<1>4. ASSUME NEW q \in Process
      PROVE  PlaceOf(q)' = [places EXCEPT ![gone] = "free"][q]
  BY <1>1, <1>2 DEF places, PlaceOf, IInv, TypeOK
<1>5. places' = [places EXCEPT ![gone] = "free"]
  BY <1>4 DEF places
<1> QED BY <1>2, <1>3, <1>5 DEF Life!Next, Life!Reap

\* Every other step leaves the places alone.
LEMMA LocalSteps ==
    ASSUME IInv,
           \/ \E p \in Process : TickReturn(p)
           \/ \E p \in Worker :
                 \/ \E child \in Worker : CreateAllocate(p, child)
                 \/ SleepAllocate(p)
           \/ \E p \in Worker \cup {cleaner} :
                 \/ SpawnUnlock(p) \/ SleepBlock(p)
                 \/ \E ms \in SleepTicks : SleepStamp(p, ms)
           \/ CleanerCheck \/ CleanerReap \/ CleanerBlock
    PROVE  places' = places
<1>1. current' = current
  BY DEF TickReturn, CreateAllocate, SleepAllocate, SpawnUnlock, SleepBlock,
         SleepStamp, CleanerCheck, CleanerReap, CleanerBlock
<1>2. \A q \in Process \ {current} : status'[q] = status[q]
  BY DEF IInv, TypeOK, TickReturn, CreateAllocate, SleepAllocate, SpawnUnlock,
         SleepBlock, SleepStamp, CleanerCheck, CleanerReap, CleanerBlock, Executes
<1>3. \A q \in Process \ {current} : pc'[q] \in FreePoint <=> pc[q] \in FreePoint
  BY DEF IInv, TypeOK, TickReturn, CreateAllocate, SleepAllocate, SpawnUnlock,
         SleepBlock, SleepStamp, CleanerCheck, CleanerReap, CleanerBlock, Executes,
         FreePoint
<1> QED BY <1>1, <1>2, <1>3, SamePlaces

\* Each step of the scheduler is a step of the life cycle, or a stutter.
LEMMA StepSimulates ==
    ASSUME IInv, [Next]_vars
    PROVE  [Life!Next]_places
<1>1. CASE Tick
  BY <1>1, TickSimulates
<1>2. ASSUME NEW p \in Process, TickYield(p) PROVE [Life!Next]_places
  BY <1>2, YieldSimulates DEF TickYield
<1>3. ASSUME NEW p \in Worker \cup {cleaner}, CallYield(p) PROVE [Life!Next]_places
  <2>1. \A q \in Process : pc'[q] \in FreePoint <=> pc[q] \in FreePoint
    BY <1>3 DEF CallYield, Executes, FreePoint, IInv, TypeOK
  <2> QED BY <2>1, <1>3, YieldSimulates DEF CallYield, Executes
<1>4. CASE UNCHANGED vars
  BY <1>4, SamePlaces DEF vars
<1> QED BY <1>1, <1>2, <1>3, <1>4, CreateReadySimulates, TerminateSimulates,
           CleanerDeleteSimulates, LocalSteps
        DEF Next, Interrupt, Call, Continue, Clean

\* The scheduler, with its lists, locks, interrupts and half-done calls, does
\* nothing that the life cycle of a process does not allow.
THEOREM Refinement == Spec => ImplementsLifecycle
<1>1. Init => Life!Init
  <2> SUFFICES ASSUME Init PROVE Life!Init
    OBVIOUS
  <2>1. PICK first \in Worker :
          /\ current = idle
          /\ status = [p \in Process |-> CASE p = idle -> "RUNNING"
                                           [] p = cleaner -> "BLOCKED"
                                           [] p = first -> "READY"
                                           [] OTHER -> "DEAD"]
          /\ pc = [p \in Process |-> CASE p = idle -> "run"
                                       [] p \in {cleaner, first} -> "spawn"
                                       [] OTHER -> "none"]
    BY Zenon DEF Init
  <2>2. idle \in Process /\ idle # cleaner /\ idle \notin Worker
    BY ProcessAssumption DEF Process
  <2>3. places \in [Process -> {"free", "ready", "running", "blocked"}]
    BY <2>1, <2>2 DEF places, PlaceOf, Process
  <2>4. Life!At("running") = {idle}
    BY <2>1, <2>2 DEF Life!At, places, PlaceOf
  <2> QED BY <2>3, <2>4 DEF Life!Init
<1>2. IInv /\ [Next]_vars => [Life!Next]_places
  BY StepSimulates
<1> QED BY <1>1, <1>2, Invariance, PTL DEF Spec, ImplementsLifecycle, Life!Spec
=============================================================================

----------------------------- MODULE Scheduler -----------------------------
(***************************************************************************)
(* The process scheduler of the kernel: src/src/kernel/scheduler/          *)
(* multitask.c, the context switch of multitask.asm and the timer          *)
(* interrupt of src/src/kernel/hal/pit.c, on the one CPU they run on.      *)
(*                                                                         *)
(* A step is a stretch of code that nothing can interrupt: a section run   *)
(* with interrupts disabled, or the code between two points where the      *)
(* timer may strike.  `intr` is the interrupt flag of EFLAGS and `count`   *)
(* the global disable_irq_count; they are two different things, and the    *)
(* code lets them disagree.                                                *)
(*                                                                         *)
(* Time is kept relative to now: left[p] stands for wake_time minus        *)
(* getTickCount() (0 once due) and phase for g_timeSinceBoot % QUANTUM,    *)
(* which is all the code ever asks of the 64-bit tick counter.             *)
(***************************************************************************)
EXTENDS Integers, Sequences, SequencesExt, FiniteSets

CONSTANTS
    Worker,      \* the process_t blocks kmalloc can return to create_process
    idle,        \* the boot thread, start() in main.c
    cleaner,     \* cleaner_process
    nobody,      \* NULL
    QUANTUM,     \* ticks between two preemptions: 5 in pit.c
    SleepTicks,  \* the arguments processes give to sleep()
    MaxNest      \* bound: timer interrupts nested on one kernel stack

ASSUME ProcessAssumption ==
    /\ IsFiniteSet(Worker)
    /\ idle # cleaner
    /\ {idle, cleaner, nobody} \cap Worker = {}
    /\ nobody \notin {idle, cleaner}

ASSUME TimeAssumption ==
    /\ QUANTUM \in Nat \ {0}
    /\ SleepTicks \subseteq Nat
    /\ MaxNest \in Nat \ {0}

Process == Worker \cup {idle, cleaner}

VARIABLES
    current,   \* current_process
    ready,     \* the READY list, first_READY_process .. last_READY_process
    dead,      \* the DEAD list
    sleepers,  \* the processes of sleep_list, in list order
    left,      \* ticks before the wake_time a sleeping process asked for
    status,    \* process_t.status
    pc,        \* where the thread of a process is
    frames,    \* the timer interrupts stacked on the kernel stack of a process
    target,    \* the process_t a thread is building or deleting
    count,     \* disable_irq_count
    intr,      \* the CPU accepts interrupts
    phase      \* g_timeSinceBoot % QUANTUM

vars == <<current, ready, dead, sleepers, left, status, pc, frames, target,
          count, intr, phase>>

(* The points of a thread.  "none": the block is not allocated; "built": a *)
(* create_process holds it, not yet in a list; "spawn": entered for the    *)
(* first time, before its first unlock_sheduler; "run": outside the        *)
(* scheduler; "create": in create_process, before add_READY_process;       *)
(* "kmalloc" and "stamped": in sleep, after kmalloc and after wake_time is *)
(* set; "yield": about to call yield; the others are in cleaner_task.      *)
Point == {"none", "built", "spawn", "run", "create", "kmalloc", "stamped",
          "yield", "check", "reap", "delete", "block"}

Frame == {"tick", "iret"}  \* in timer(): before its yield test, after it

TypeOK ==
    /\ current \in Process
    /\ ready \in Seq(Process)
    /\ dead \in Seq(Process)
    /\ sleepers \in Seq(Process)
    /\ left \in [Process -> Nat]
    /\ status \in [Process -> {"DEAD", "RUNNING", "READY", "BLOCKED"}]
    /\ pc \in [Process -> Point]
    /\ frames \in [Process -> Seq(Frame)]
    /\ target \in [Process -> Process \cup {nobody}]
    /\ count \in Nat
    /\ intr \in BOOLEAN
    /\ phase \in 0 .. QUANTUM - 1

-----------------------------------------------------------------------------
(***************************************************************************)
(* Mutated forms of the operators below, each with a mistake that could be *)
(* made in this code.  No action uses them: they serve to show that every  *)
(* property of the runs can fail.                                          *)
(***************************************************************************)

\* The switch that ends a section forgets sti.
LockedSectionWithoutSti == count' = count /\ intr' = FALSE

\* spawn_process starts the task with no unlock_sheduler.
UnlockForgotten == UNCHANGED <<count, intr>>

\* schedule_next_process requeues a blocked process; a dead one; the idle one.
RequeuedBlocked(p) == status[p] \in {"RUNNING", "BLOCKED"} /\ p # idle
RequeuedDead(p) == status[p] \in {"RUNNING", "DEAD"} /\ p # idle
RequeuedIdle(p) == status[p] = "RUNNING"

\* The process taken from the head of a list stays there.
PopForgotten(queue) == queue

\* The loop of wakeUp stops before the last node.
DueCountButLast(remaining) ==
    LET i == SelectInSeq(sleepers, LAMBDA p : remaining[p] > 0)
    IN  IF i # 0 THEN i - 1 ELSE IF sleepers = <<>> THEN 0 ELSE Len(sleepers) - 1

\* sleep pushes its node in front of the list, or loses it at the end.
InsertSleeperFirst(p, n) == <<p>> \o sleepers
InsertSleeperNotLast(p, n) ==
    LET i == SelectInSeq(sleepers, LAMBDA q : left[q] > n)
    IN  IF i # 0 THEN InsertAt(sleepers, i, p)
        ELSE IF sleepers = <<>> THEN <<p>> ELSE sleepers

\* The tick that ends a quantum is counted twice.
NextPhaseLate(n) == IF n = QUANTUM THEN 0 ELSE n + 1

\* The tick counter stops at the end of a quantum.
NextPhaseStuck(n) == IF n = QUANTUM - 1 THEN n ELSE n + 1

\* terminate_task unblocks the cleaner in any state.
CleanerAlwaysWoken == TRUE

\* The cleaner takes a list of one process for an empty one.
NobodyDeadOffByOne == Len(dead) <= 1

-----------------------------------------------------------------------------
(***************************************************************************)
(* Operators                                                               *)
(***************************************************************************)

\* A section from lock_sheduler to the matching unlock_sheduler: only the
\* outermost unlock, the one that brings the count back to 0, executes sti.
LockedSection ==
    /\ count' = count
    /\ intr' = (count = 0)

\* unlock_sheduler on its own.
Unlock ==
    IF count = 0
        THEN UNCHANGED <<count, intr>>
        ELSE /\ count' = count - 1
             /\ intr' = (count = 1 \/ intr)

\* A process that no switch has reached: its stack holds the frame that
\* create_process built, EFLAGS 0x202 and the address of spawn_process.
Fresh(p) == pc[p] = "spawn" /\ frames[p] = <<>>

\* The thread of p executes its next instructions, outside any interrupt.
Executes(p, point) ==
    /\ current = p
    /\ frames[p] = <<>>
    /\ pc[p] = point

\* schedule_next_process puts the process it takes the CPU from back on the
\* READY list.
Requeued(p) == status[p] = "RUNNING" /\ p # idle

\* A list once its first process is taken.
Pop(queue) == Tail(queue)

\* yield by the current process p: schedule_next_process, then the switch.
\* A process resumed inside yield comes back with interrupts off and runs
\* the unlock_sheduler there; a fresh one starts with them on, the count
\* still up.
Yield(p) ==
    LET queue == IF Requeued(p) THEN Append(ready, p) ELSE ready
        next == IF queue = <<>> THEN idle ELSE Head(queue)
    IN  /\ current' = next
        /\ ready' = IF queue = <<>> THEN <<>> ELSE Pop(queue)
        /\ status' = [status EXCEPT ![p] = IF Requeued(p) THEN "READY" ELSE @,
                                    ![next] = "RUNNING"]
        /\ IF next # p /\ Fresh(next)
               THEN count' = count + 1 /\ intr' = TRUE
               ELSE LockedSection

\* How many processes at the head of sleep_list wakeUp finds due.
DueCount(remaining) ==
    LET i == SelectInSeq(sleepers, LAMBDA p : remaining[p] > 0)
    IN  IF i = 0 THEN Len(sleepers) ELSE i - 1

\* The sleep list once p is inserted, with n ticks to sleep: before the
\* first process that sleeps longer, at the end when there is none.
InsertSleeper(p, n) ==
    LET i == SelectInSeq(sleepers, LAMBDA q : left[q] > n)
    IN  InsertAt(sleepers, IF i = 0 THEN Len(sleepers) + 1 ELSE i, p)

\* The tick counter modulo the quantum, which timer() tests against 0.
NextPhase(n) == (n + 1) % QUANTUM

\* terminate_task finds the cleaner asleep.
CleanerMustWake == status[cleaner] = "BLOCKED"

\* The cleaner finds nothing to clean.
NobodyDead == dead = <<>>

-----------------------------------------------------------------------------
(***************************************************************************)
(* The state start() leaves when it has run initialize_multitasking,       *)
(* create_process(init_process) and enable_multitasking.                   *)
(***************************************************************************)
Init ==
    \E first \in Worker :
        /\ current = idle
        /\ ready = <<first>>
        /\ dead = <<>>
        /\ sleepers = <<>>
        /\ left = [p \in Process |-> 0]
        /\ status = [p \in Process |-> CASE p = idle -> "RUNNING"
                                         [] p = cleaner -> "BLOCKED"
                                         [] p = first -> "READY"
                                         [] OTHER -> "DEAD"]
        /\ pc = [p \in Process |-> CASE p = idle -> "run"
                                     [] p \in {cleaner, first} -> "spawn"
                                     [] OTHER -> "none"]
        /\ frames = [p \in Process |-> <<>>]
        /\ target = [p \in Process |-> nobody]
        /\ count = 0
        /\ intr = TRUE
        /\ phase \in 0 .. QUANTUM - 1

-----------------------------------------------------------------------------
(***************************************************************************)
(* The timer interrupt                                                     *)
(***************************************************************************)

\* timer() up to the return of wakeUp: the tick, then every due process at
\* the head of sleep_list goes to the front of the READY list, one by one.
\* The unlock_sheduler that ends wakeUp turns interrupts back on.
Tick ==
    /\ intr
    /\ Len(frames[current]) < MaxNest
    /\ phase' = NextPhase(phase)
    /\ left' = [p \in Process |-> IF left[p] = 0 THEN 0 ELSE left[p] - 1]
    /\ LET n == DueCount(left')
           woken == SubSeq(sleepers, 1, n)
       IN  /\ ready' = Reverse(woken) \o ready
           /\ sleepers' = SubSeq(sleepers, n + 1, Len(sleepers))
           /\ status' = [p \in Process |-> IF p \in ToSet(woken) THEN "READY"
                                                               ELSE status[p]]
    /\ frames' = [frames EXCEPT ![current] = Append(@, "tick")]
    /\ LockedSection
    /\ UNCHANGED <<current, dead, pc, target>>

\* The end of a quantum: timer() calls yield on the stack of p.
TickYield(p) ==
    /\ current = p
    /\ frames[p] # <<>>
    /\ Last(frames[p]) = "tick"
    /\ phase = 0
    /\ Yield(p)
    /\ frames' = [frames EXCEPT ![p] = Append(Front(@), "iret")]
    /\ UNCHANGED <<dead, sleepers, left, pc, target, phase>>

\* timer() returns; iret restores the flag the interrupt found set.
TickReturn(p) ==
    /\ current = p
    /\ frames[p] # <<>>
    /\ Last(frames[p]) = "tick" => phase # 0
    /\ frames' = [frames EXCEPT ![p] = Front(@)]
    /\ intr' = TRUE
    /\ UNCHANGED <<current, ready, dead, sleepers, left, status, pc, target,
                   count, phase>>

-----------------------------------------------------------------------------
(***************************************************************************)
(* The threads                                                             *)
(***************************************************************************)

\* yield called by the thread itself, at the end of sleep, terminate_task,
\* and of a round of cleaner_task.
CallYield(p) ==
    /\ Executes(p, "yield")
    /\ Yield(p)
    /\ pc' = [pc EXCEPT ![p] = IF p = cleaner THEN "check" ELSE "run"]
    /\ UNCHANGED <<dead, sleepers, left, frames, target, phase>>

\* The first unlock_sheduler of spawn_process and of cleaner_task, which
\* undoes the lock taken by the yield that switched to this process.
SpawnUnlock(p) ==
    /\ Executes(p, "spawn")
    /\ Unlock
    /\ pc' = [pc EXCEPT ![p] = IF p = cleaner THEN "check" ELSE "run"]
    /\ UNCHANGED <<current, ready, dead, sleepers, left, status, frames,
                   target, phase>>

\* create_process up to the call of add_READY_process.  vmalloc maps a new
\* page, and flushTLB ends with sti whatever the flag was.
CreateAllocate(p, child) ==
    /\ Executes(p, "run")
    /\ pc[child] = "none"
    /\ pc' = [pc EXCEPT ![p] = "create", ![child] = "built"]
    /\ target' = [target EXCEPT ![p] = child]
    /\ intr' = TRUE
    /\ UNCHANGED <<current, ready, dead, sleepers, left, status, frames,
                   count, phase>>

CreateReady(p) ==
    /\ Executes(p, "create")
    /\ ready' = Append(ready, target[p])
    /\ status' = [status EXCEPT ![target[p]] = "READY"]
    /\ pc' = [pc EXCEPT ![p] = "run", ![target[p]] = "spawn"]
    /\ target' = [target EXCEPT ![p] = nobody]
    /\ LockedSection
    /\ UNCHANGED <<current, dead, sleepers, left, frames, phase>>

\* sleep up to the return of kmalloc.  The scheduler is locked, but a
\* kmalloc that extends the heap maps a page, and flushTLB executes sti.
SleepAllocate(p) ==
    /\ Executes(p, "run")
    /\ SleepTicks # {}
    /\ count' = count + 1
    /\ intr' \in BOOLEAN
    /\ pc' = [pc EXCEPT ![p] = "kmalloc"]
    /\ UNCHANGED <<current, ready, dead, sleepers, left, status, frames,
                   target, phase>>

SleepStamp(p, ms) ==
    /\ Executes(p, "kmalloc")
    /\ left' = [left EXCEPT ![p] = ms]
    /\ pc' = [pc EXCEPT ![p] = "stamped"]
    /\ UNCHANGED <<current, ready, dead, sleepers, status, frames, target,
                   count, intr, phase>>

\* sleep from block_current_task, whose cli closes the window, to its unlock.
SleepBlock(p) ==
    /\ Executes(p, "stamped")
    /\ status' = [status EXCEPT ![p] = "BLOCKED"]
    /\ sleepers' = InsertSleeper(p, left[p])
    /\ count' = count - 1
    /\ intr' = (count = 1)
    /\ pc' = [pc EXCEPT ![p] = "yield"]
    /\ UNCHANGED <<current, ready, dead, left, frames, target, phase>>

\* terminate_task up to its yield: the caller joins the DEAD list, and a
\* cleaner that is BLOCKED goes to the front of the READY list.
Terminate(p) ==
    /\ Executes(p, "run")
    /\ dead' = Append(dead, p)
    /\ IF CleanerMustWake
           THEN /\ ready' = <<cleaner>> \o ready
                /\ status' = [status EXCEPT ![p] = "DEAD",
                                            ![cleaner] = "READY"]
           ELSE /\ status' = [status EXCEPT ![p] = "DEAD"]
                /\ UNCHANGED ready
    /\ pc' = [pc EXCEPT ![p] = "yield"]
    /\ LockedSection
    /\ UNCHANGED <<current, sleepers, left, frames, target, phase>>

-----------------------------------------------------------------------------
(***************************************************************************)
(* cleaner_task.  Its test of the DEAD list is made with no lock held.     *)
(***************************************************************************)
CleanerCheck ==
    /\ Executes(cleaner, "check")
    /\ pc' = [pc EXCEPT ![cleaner] = IF NobodyDead THEN "block" ELSE "reap"]
    /\ UNCHANGED <<current, ready, dead, sleepers, left, status, frames,
                   target, count, intr, phase>>

CleanerReap ==
    /\ Executes(cleaner, "reap")
    /\ target' = [target EXCEPT ![cleaner] = Head(dead)]
    /\ dead' = Pop(dead)
    /\ pc' = [pc EXCEPT ![cleaner] = "delete"]
    /\ LockedSection
    /\ UNCHANGED <<current, ready, sleepers, left, status, frames, phase>>

\* delete_process frees the address space, the stack and the process_t;
\* unmapping the pages goes through flushTLB, hence sti.
CleanerDelete ==
    /\ Executes(cleaner, "delete")
    /\ pc' = [pc EXCEPT ![target[cleaner]] = "none", ![cleaner] = "check"]
    /\ frames' = [frames EXCEPT ![target[cleaner]] = <<>>]
    /\ target' = [target EXCEPT ![cleaner] = nobody]
    /\ intr' = TRUE
    /\ UNCHANGED <<current, ready, dead, sleepers, left, status, count, phase>>

CleanerBlock ==
    /\ Executes(cleaner, "block")
    /\ status' = [status EXCEPT ![cleaner] = "BLOCKED"]
    /\ pc' = [pc EXCEPT ![cleaner] = "yield"]
    /\ LockedSection
    /\ UNCHANGED <<current, ready, dead, sleepers, left, frames, target, phase>>

-----------------------------------------------------------------------------
\* What the program of a process asks of the scheduler, when it chooses to.
Call(p) ==
    \/ \E child \in Worker : CreateAllocate(p, child)
    \/ SleepAllocate(p)
    \/ Terminate(p)

\* What a thread goes on with, once inside the scheduler.
Continue(p) ==
    \/ CallYield(p)
    \/ SpawnUnlock(p)
    \/ CreateReady(p)
    \/ \E ms \in SleepTicks : SleepStamp(p, ms)
    \/ SleepBlock(p)

Clean == CleanerCheck \/ CleanerReap \/ CleanerDelete \/ CleanerBlock

Interrupt(p) == TickYield(p) \/ TickReturn(p)

Next ==
    \/ Tick
    \/ \E p \in Process : Interrupt(p)
    \/ \E p \in Worker : Call(p)
    \/ \E p \in Worker \cup {cleaner} : Continue(p)
    \/ Clean

Spec == Init /\ [][Next]_vars

-----------------------------------------------------------------------------
(***************************************************************************)
(* Fairness.  A pending timer interrupt is taken as soon as the flag       *)
(* allows, and the PIT never stops; a thread that is dispatched again and  *)
(* again executes instructions, a quantum being a few milliseconds.        *)
(***************************************************************************)
KernelFairness ==
    /\ SF_vars(Tick)
    /\ \A p \in Process : WF_vars(Interrupt(p))
    /\ \A p \in Worker \cup {cleaner} : SF_vars(Continue(p))
    /\ SF_vars(Clean)

\* Processes written as the tasks of main.c are: each one calls the
\* scheduler again after a while.
CallingProcesses == \A p \in Worker : SF_vars(Call(p))

\* A process may also compute for ever.
FairSpec == Spec /\ KernelFairness

CallingSpec == FairSpec /\ CallingProcesses

-----------------------------------------------------------------------------
(***************************************************************************)
(* Safety                                                                  *)
(***************************************************************************)

\* The intrusive lists of multitask.c share one `next` field per process: a
\* process is on at most one of them, and at most once, whatever the timer
\* interrupts.
OnOneList ==
    /\ IsInjective(ready) /\ IsInjective(dead) /\ IsInjective(sleepers)
    /\ ToSet(ready) \cap ToSet(dead) = {}
    /\ ToSet(ready) \cap ToSet(sleepers) = {}
    /\ ToSet(dead) \cap ToSet(sleepers) = {}

\* The status field agrees with the lists: READY exactly on the READY list,
\* where the idle process never is, DEAD on the DEAD list, BLOCKED on the
\* sleep list, and no process but the current one is RUNNING.
StatusMatchesList ==
    /\ \A p \in Process \ {idle} :
        /\ status[p] = "READY" <=> p \in ToSet(ready)
        /\ status[p] = "RUNNING" => p = current
        /\ p \in ToSet(dead) => status[p] = "DEAD"
        /\ p \in ToSet(sleepers) => status[p] = "BLOCKED"
    /\ idle \notin ToSet(ready) \cup ToSet(dead) \cup ToSet(sleepers)

\* No process is lost: one that is BLOCKED is on the sleep list, and one that
\* is DEAD is on the DEAD list until the cleaner takes it to delete it.
NoneLost ==
    \A p \in Worker :
        /\ status[p] = "BLOCKED" => p \in ToSet(sleepers)
        /\ status[p] = "DEAD" /\ pc[p] \notin {"none", "built"}
               => p \in ToSet(dead) \/ p = target[cleaner]

\* A process_t that kfree took back, or that create_process is still filling,
\* is on no list and never the current process; one taken back is in no
\* thread's hands either.
FreedIsUnreferenced ==
    \A p \in Worker : pc[p] \in {"none", "built"} =>
        /\ p \notin ToSet(ready) \cup ToSet(dead) \cup ToSet(sleepers)
        /\ p # current
        /\ pc[p] = "none" => \A q \in Process : target[q] # p

\* The process that entered the CPU through a fresh stack or a kmalloc that
\* enabled interrupts, and still has to give back one unlock_sheduler.
HoldsLock(p) ==
    \/ pc[p] = "spawn" /\ (p = current \/ frames[p] # <<>>)
    \/ pc[p] \in {"kmalloc", "stamped"}

Holders == {p \in Process : HoldsLock(p)}

\* disable_irq_count is the number of lock_sheduler calls whose unlock is
\* still to come: no path leaks one and none gives one back twice.
LockBalance == count = Cardinality(Holders)

\* Interrupts are off only on account of a lock some process still holds.
InterruptsOnUnlessLocked == count = 0 => intr

-----------------------------------------------------------------------------
(***************************************************************************)
(* Action properties                                                       *)
(***************************************************************************)

\* Whoever is dead and off the CPU stays off it.
DeadStayOff ==
    \A p \in Process :
        /\ p # current
        /\ \/ p \in ToSet(dead)
           \/ pc[cleaner] = "delete" /\ p = target[cleaner]
        => p # current'

\* A terminated process is never given the CPU again: once switched away it
\* stays away until its process_t is deleted and built anew.
DeadNeverDispatched == [][DeadStayOff]_vars

\* wakeUp leaves no process asleep past its wake_time, and wakes none before:
\* the head of sleep_list, the only one it looks at, is always the earliest.
WokenOnTime ==
    [][/\ Tick => \A p \in ToSet(sleepers') : left'[p] > 0
       /\ \A p \in ToSet(sleepers) :
              p \notin ToSet(sleepers') => left'[p] = 0]_vars

\* Process p is ahead of q in list s.
Ahead(s, p, q) == \E i, j \in DOMAIN s : i < j /\ s[i] = p /\ s[j] = q

\* Two processes that wait on the READY list keep their order until one of
\* them runs, though others are put in front of them.
NoOvertaking ==
    [][\A p, q \in ToSet(ready) \cap ToSet(ready') :
           Ahead(ready, p, q) => ~Ahead(ready', q, p)]_vars

-----------------------------------------------------------------------------
(***************************************************************************)
(* Liveness                                                                *)
(***************************************************************************)

\* A process that sleeps is woken up by the timer, whatever the others do.
SleeperIsWoken ==
    \A p \in Worker : p \in ToSet(sleepers) ~> p \notin ToSet(sleepers)

\* Every process on the READY list gets the CPU.
ReadyRuns ==
    \A p \in Worker : p \in ToSet(ready) ~> p = current

\* A dead process is deleted.  The cleaner may go to sleep with one on its
\* list, when it died between the test of the list and the sleep; that one
\* waits for the cleaner to be woken up, by the next termination.
DeadAreDeleted ==
    \A p \in Worker :
        /\ p \in ToSet(dead)
        /\ status[cleaner] # "BLOCKED"
        /\ pc[cleaner] # "block"
        ~> pc[p] = "none"
=============================================================================

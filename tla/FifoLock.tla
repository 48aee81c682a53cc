------------------------------ MODULE FifoLock ------------------------------
(***************************************************************************)
(* What a mutex_t promises: a recursive lock whose waiters get it in the   *)
(* order they came, each acquisition and each release one step.            *)
(***************************************************************************)
EXTENDS Naturals, Sequences

CONSTANTS Client, nobody

VARIABLES holder, depth, queue

lockVars == <<holder, depth, queue>>

Init == holder = nobody /\ depth = 0 /\ queue = <<>>

\* A free lock is taken, a nested acquisition counted, another one queued.
Acquire(p) ==
    \/ holder = nobody /\ holder' = p /\ UNCHANGED <<depth, queue>>
    \/ holder = p /\ depth' = depth + 1 /\ UNCHANGED <<holder, queue>>
    \/ /\ holder \notin {nobody, p}
       /\ queue' = Append(queue, p)
       /\ UNCHANGED <<holder, depth>>

\* The holder leaves: one level, or the lock to the first in the queue.
Release(p) ==
    /\ holder = p
    /\ \/ depth > 0 /\ depth' = depth - 1 /\ UNCHANGED <<holder, queue>>
       \/ /\ depth = 0 /\ queue # <<>>
          /\ holder' = Head(queue) /\ queue' = Tail(queue) /\ UNCHANGED depth
       \/ depth = 0 /\ queue = <<>> /\ holder' = nobody /\ UNCHANGED <<depth, queue>>

Next == \E p \in Client : Acquire(p) \/ Release(p)

Spec == Init /\ [][Next]_lockVars
=============================================================================

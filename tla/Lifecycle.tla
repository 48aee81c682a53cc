----------------------------- MODULE Lifecycle -----------------------------
(***************************************************************************)
(* What the scheduler promises, with no list, lock, interrupt or program   *)
(* counter: one CPU, and for every process block the place it is in.  The  *)
(* status_t of multitask.h, seen from outside: a process that was woken    *)
(* up, blocked or killed while it holds the CPU is running until the next  *)
(* switch.                                                                 *)
(***************************************************************************)
CONSTANTS Process, idle

VARIABLE place

At(where) == {p \in Process : place[p] = where}

Init ==
    /\ place \in [Process -> {"free", "ready", "running", "blocked"}]
    /\ At("running") = {idle}

\* A free block becomes a process that waits for the CPU.
Admit(p) ==
    /\ place[p] = "free"
    /\ place' = [place EXCEPT ![p] = "ready"]

\* The CPU goes from p to q.  A process never goes back from "dead", and the
\* idle process, which is always ready, gets the CPU only when no other can.
Switch(p, q) ==
    /\ place[p] = "running"
    /\ place[q] = "ready"
    /\ \E where \in {"ready", "blocked", "dead"} :
           /\ p = idle => where = "ready"
           /\ q = idle => where # "ready" /\ At("ready") = {idle}
           /\ place' = [place EXCEPT ![p] = where, ![q] = "running"]

\* The blocked processes in S become ready, several at once on a timer tick.
Wake(S) ==
    place' = [p \in Process |-> IF p \in S THEN "ready" ELSE place[p]]

\* A dead process gives its memory back.
Reap(p) ==
    /\ place[p] = "dead"
    /\ place' = [place EXCEPT ![p] = "free"]

Next ==
    \/ \E p \in Process : Admit(p) \/ Reap(p)
    \/ \E p, q \in Process : Switch(p, q)
    \/ \E S \in SUBSET At("blocked") : Wake(S)

Spec == Init /\ [][Next]_place
=============================================================================

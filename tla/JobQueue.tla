------------------------------ MODULE JobQueue -------------------------------
(***************************************************************************)
(* What the PostgreSQL task queue promises of a task (the comments of      *)
(* app/task_queue_daemon.py:75-76 and 184: claiming a task prevents its    *)
(* double execution): it is taken by at most one process, only the process *)
(* that holds it executes it, at most once, and only that process closes   *)
(* it.  A task that has been taken never waits again.                      *)
(***************************************************************************)
EXTENDS Integers

CONSTANTS Tasks, Daemons, NoDaemon

VARIABLES
    job,     \* [Tasks -> {"none", "waiting", "taken", "over"}]
    holder,  \* [Tasks -> Daemons \cup {NoDaemon}]
    runs     \* [Tasks -> Nat]: executions started

Init ==
    /\ job = [t \in Tasks |-> "none"]
    /\ holder = [t \in Tasks |-> NoDaemon]
    /\ runs = [t \in Tasks |-> 0]

Put(t) ==
    /\ job[t] = "none"
    /\ job' = [job EXCEPT ![t] = "waiting"]
    /\ UNCHANGED <<holder, runs>>

Take(d, B) ==
    /\ \A t \in B : job[t] = "waiting"
    /\ job' = [t \in Tasks |-> IF t \in B THEN "taken" ELSE job[t]]
    /\ holder' = [t \in Tasks |-> IF t \in B THEN d ELSE holder[t]]
    /\ UNCHANGED runs

Execute(t) ==
    /\ holder[t] # NoDaemon /\ runs[t] = 0
    /\ runs' = [runs EXCEPT ![t] = 1]
    /\ UNCHANGED <<job, holder>>

Close(t) ==
    /\ holder[t] # NoDaemon
    /\ job' = [job EXCEPT ![t] = "over"]
    /\ holder' = [holder EXCEPT ![t] = NoDaemon]
    /\ UNCHANGED runs

\* Some tasks lose their process; nobody takes them again.
Lose(B) ==
    /\ holder' = [t \in Tasks |-> IF t \in B THEN NoDaemon ELSE holder[t]]
    /\ UNCHANGED <<job, runs>>

Next ==
    \/ \E t \in Tasks : Put(t) \/ Execute(t) \/ Close(t)
    \/ \E B \in SUBSET Tasks : Lose(B) \/ \E d \in Daemons : Take(d, B)

Spec == Init /\ [][Next]_<<job, holder, runs>>
=============================================================================

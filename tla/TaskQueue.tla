------------------------------ MODULE TaskQueue ------------------------------
(***************************************************************************)
(* The task queue of app/task_queue_daemon.py: rows of agent_task_queue,   *)
(* inserted by the scheduler and by webhooks, and the daemon process that  *)
(* claims a batch of pending rows in one UPDATE ... FOR UPDATE SKIP        *)
(* LOCKED, executes them concurrently under a semaphore that lives as long *)
(* as the process, and polls again when all of them are over or one of     *)
(* them raised.  Nothing in the row tells a live claim from a lost one.    *)
(*                                                                         *)
(* Left out: the dead functions _mark_running and _check_retry, and the    *)
(* life of the sessions that tasks start (module AgentSessions).           *)
(***************************************************************************)
EXTENDS Integers, FiniteSets

CONSTANTS
    Tasks,          \* rows of agent_task_queue
    Daemons,        \* processes that run the daemon loop
    BatchSize,      \* LIMIT of the claim: 10
    MaxConcurrent,  \* TASK_QUEUE_MAX_CONCURRENT: 4
    MaxFailures,    \* bound: failing statements and crashes of a daemon
    NoDaemon

ASSUME TasksAssumption == IsFiniteSet(Tasks)
ASSUME SizesAssumption ==
    BatchSize \in Nat \ {0} /\ MaxConcurrent \in Nat \ {0} /\ MaxFailures \in Nat
ASSUME NoDaemonAssumption == NoDaemon \notin Daemons

VARIABLES
    status,    \* [Tasks -> Status]: the status column
    owner,     \* [Tasks -> Daemons \cup {NoDaemon}]: whose coroutine run_one it has
    place,     \* [Tasks -> Places]: where that coroutine is
    batch,     \* [Daemons -> SUBSET Tasks]: what the daemon's gather waits for
    sessions,  \* [Tasks -> Nat]: session rows created for the task
    failures

vars == <<status, owner, place, batch, sessions, failures>>

Status == {"none", "pending", "running", "completed", "failed"}

\* wait: for the semaphore; load: before the session row; run: in run_loop;
\* mark: about to mark it completed; late: about to mark it timed out.
Places == {"none", "wait", "load", "run", "mark", "late"}

\* The coroutines of daemon d that are inside the semaphore.
Executing(d) == {t \in Tasks : owner[t] = d /\ place[t] \in {"load", "run", "mark", "late"}}

Pending == {t \in Tasks : status[t] = "pending"}

Init ==
    /\ status = [t \in Tasks |-> "none"]
    /\ owner = [t \in Tasks |-> NoDaemon]
    /\ place = [t \in Tasks |-> "none"]
    /\ batch = [d \in Daemons |-> {}]
    /\ sessions = [t \in Tasks |-> 0]
    /\ failures = 0

-----------------------------------------------------------------------------
(* Faulty variants of actions below, not part of Next: each property is shown *)
(* to fail when one of them takes the place of its original.                  *)

\* The claim also takes running rows, to recover those whose daemon died.
Claim_Recovers(d, B) ==
    /\ batch[d] = {}
    /\ B # {} /\ Cardinality(B) <= BatchSize
    /\ B \subseteq {t \in Tasks : status[t] \in {"pending", "running"}}
    /\ status' = [t \in Tasks |-> IF t \in B THEN "running" ELSE status[t]]
    /\ owner' = [t \in Tasks |-> IF t \in B THEN d ELSE owner[t]]
    /\ place' = [t \in Tasks |-> IF t \in B THEN "wait" ELSE place[t]]
    /\ batch' = [batch EXCEPT ![d] = B]
    /\ UNCHANGED <<sessions, failures>>

\* Each poll makes a semaphore of its own.
Enter_NewSemaphore(t) ==
    /\ place[t] = "wait"
    /\ Cardinality(Executing(owner[t]) \cap batch[owner[t]]) < MaxConcurrent
    /\ place' = [place EXCEPT ![t] = "load"]
    /\ UNCHANGED <<status, owner, batch, sessions, failures>>

\* gather does not notice the end of the coroutine.
Leave_Unnoticed(t) ==
    /\ owner' = [owner EXCEPT ![t] = NoDaemon]
    /\ place' = [place EXCEPT ![t] = "none"]
    /\ UNCHANGED <<batch, sessions, failures>>

-----------------------------------------------------------------------------
\* enqueue_task.
Enqueue(t) ==
    /\ status[t] = "none"
    /\ status' = [status EXCEPT ![t] = "pending"]
    /\ UNCHANGED <<owner, place, batch, sessions, failures>>

\* The claim of _poll_once, for the B that come first by priority and age.
Claim(d, B) ==
    /\ batch[d] = {}
    /\ B # {} /\ B \subseteq Pending
    /\ Cardinality(B) = BatchSize \/ (B = Pending /\ Cardinality(B) <= BatchSize)
    /\ status' = [t \in Tasks |-> IF t \in B THEN "running" ELSE status[t]]
    /\ owner' = [t \in Tasks |-> IF t \in B THEN d ELSE owner[t]]
    /\ place' = [t \in Tasks |-> IF t \in B THEN "wait" ELSE place[t]]
    /\ batch' = [batch EXCEPT ![d] = B]
    /\ UNCHANGED <<sessions, failures>>

-----------------------------------------------------------------------------
(* run_one and _execute_task. *)

Move(t, from, to) ==
    /\ place[t] = from
    /\ place' = [place EXCEPT ![t] = to]
    /\ UNCHANGED <<status, owner, batch, failures>>

\* async with _semaphore.
Enter(t) ==
    /\ Move(t, "wait", "load")
    /\ Cardinality(Executing(owner[t])) < MaxConcurrent
    /\ UNCHANGED sessions

\* _fire_session_inner commits the session row.
FireSession(t) ==
    /\ Move(t, "load", "run")
    /\ sessions' = [sessions EXCEPT ![t] = @ + 1]

\* The agent is gone, archived or inactive, or an error was logged and dropped.
NoSession(t) == Move(t, "load", "mark") /\ UNCHANGED sessions

\* run_loop has returned or raised: the outcome of the session is not looked at.
SessionEnds(t) == Move(t, "run", "mark") /\ UNCHANGED sessions

\* TASK_TIMEOUT cancels the call, whatever the session has done.
Timeout(t) ==
    /\ Move(t, "load", "late") \/ Move(t, "run", "late")
    /\ UNCHANGED sessions

\* The coroutine is over; gather waits for those that are left.
Leave(t) ==
    /\ owner' = [owner EXCEPT ![t] = NoDaemon]
    /\ place' = [place EXCEPT ![t] = "none"]
    /\ batch' = [d \in Daemons |-> batch[d] \ {t}]
    /\ UNCHANGED <<sessions, failures>>

MarkCompleted(t) ==
    /\ place[t] \in {"mark", "late"}
    /\ status' = [status EXCEPT ![t] = IF place[t] = "mark" THEN "completed"
                                                          ELSE "failed"]
    /\ Leave(t)

\* Marking fails.  The handler calls _mark_retry or _mark_failed, which nobody
\* defines, and the NameError leaves gather, which waits for the others no more.
MarkRaises(t) ==
    /\ place[t] \in {"mark", "late"}
    /\ failures < MaxFailures
    /\ failures' = failures + 1
    /\ owner' = [owner EXCEPT ![t] = NoDaemon]
    /\ place' = [place EXCEPT ![t] = "none"]
    /\ batch' = [d \in Daemons |-> IF t \in batch[d] THEN {} ELSE batch[d]]
    /\ UNCHANGED <<status, sessions>>

\* The daemon process dies and supervisord starts it again.
Crash(d) ==
    /\ failures < MaxFailures
    /\ failures' = failures + 1
    /\ owner' = [t \in Tasks |-> IF owner[t] = d THEN NoDaemon ELSE owner[t]]
    /\ place' = [t \in Tasks |-> IF owner[t] = d THEN "none" ELSE place[t]]
    /\ batch' = [batch EXCEPT ![d] = {}]
    /\ UNCHANGED <<status, sessions>>

-----------------------------------------------------------------------------
Poll(d) == \E B \in SUBSET Tasks : Claim(d, B)

Run(t) ==
    \/ Enter(t) \/ FireSession(t) \/ NoSession(t) \/ SessionEnds(t)
    \/ MarkCompleted(t)

Next ==
    \/ \E t \in Tasks : Enqueue(t) \/ Run(t) \/ Timeout(t) \/ MarkRaises(t)
    \/ \E d \in Daemons : Poll(d) \/ Crash(d)

Spec == Init /\ [][Next]_vars

-----------------------------------------------------------------------------
(* Properties. *)

TypeOK ==
    /\ status \in [Tasks -> Status]
    /\ owner \in [Tasks -> Daemons \cup {NoDaemon}]
    /\ place \in [Tasks -> Places]
    /\ batch \in [Daemons -> SUBSET Tasks]
    /\ sessions \in [Tasks -> Nat] /\ failures \in Nat
    /\ \A t \in Tasks : place[t] = "none" <=> owner[t] = NoDaemon

\* A process executes at most MaxConcurrent tasks, also when gather has raised
\* and a new batch joins the tasks of the last (task_queue_daemon.py:207-217).
ConcurrencyBound == \A d \in Daemons : Cardinality(Executing(d)) <= MaxConcurrent

\* The queue keeps its promise: refinement of JobQueue (task_queue_daemon.py:184).
Job(t) == CASE status[t] = "none"    -> "none"
            [] status[t] = "pending" -> "waiting"
            [] status[t] = "running" -> "taken"
            [] OTHER                 -> "over"

Jobs == INSTANCE JobQueue WITH job <- [t \in Tasks |-> Job(t)],
                               holder <- owner, runs <- sessions
ClaimedOnce == Jobs!Spec

Settled(t) == status[t] \in {"completed", "failed"}

\* Without crashes and failing statements every task is settled, though a batch
\* waits for its slowest task and tasks compete for the semaphore.
TasksSettle ==
    \A t \in Tasks : status[t] = "pending" ~> (Settled(t) \/ failures > 0)
=============================================================================

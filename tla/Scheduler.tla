------------------------------ MODULE Scheduler ------------------------------
(***************************************************************************)
(* The schedule poller of app/scheduler_daemon.py.  Every uvicorn worker   *)
(* runs one.  A poll SELECTs the due rows without locking them, and then,  *)
(* row by row, UPDATEs next_run_at and run_count inside the transaction of *)
(* the poll and INSERTs a task in a transaction of its own.  The rows it   *)
(* has updated are locked, and their new values hidden, until the poll     *)
(* commits once for all of them; an error undoes the updates but not the   *)
(* tasks.  agent_schedules and workflow_triggers are polled one after the  *)
(* other in the same way.                                                  *)
(*                                                                         *)
(* next_run_at is abstracted to whether the row is due: it is NULL or past.*)
(***************************************************************************)
EXTENDS Integers, FiniteSets

CONSTANTS
    Schedules,    \* rows of agent_schedules
    Triggers,     \* rows of workflow_triggers
    Workers,      \* uvicorn worker processes, each with its poller
    BadCron,      \* rows whose cron expression croniter rejects
    MaxTicks,     \* bound: how often a row falls due
    MaxFires,     \* bound: a bad expression is repaired after so many tasks
    MaxPollFailures,  \* bound: errors and crashes during polls
    NoRow

Rows == Schedules \cup Triggers

ASSUME SchedulerBounds == MaxTicks \in Nat /\ MaxFires \in Nat /\ MaxPollFailures \in Nat
ASSUME BadCronAssumption == BadCron \subseteq Rows
ASSUME NoRowAssumption == NoRow \notin Rows

VARIABLES
    due,       \* SUBSET Rows: enabled and due, as committed
    runCount,  \* [Rows -> Nat]: run_count or trigger_count, as committed
    enqueued,  \* [Rows -> Nat]: tasks inserted for the row
    pc,        \* [Workers -> PCs]
    todo,      \* [Workers -> SUBSET Rows]: what the SELECT returned, not yet read
    want,      \* [Workers -> Rows \cup {NoRow}]: its UPDATE waits for the row's lock
    ahead,     \* [Workers -> SUBSET Workers]: who queued for that lock before it
    current,   \* [Workers -> Rows \cup {NoRow}]: updated, its task not inserted yet
    held,      \* [Workers -> SUBSET Rows]: updated, not committed
    ticks,     \* [Rows -> Nat]: how often the row has fallen due
    pollFailures

poll == <<pc, todo, want, ahead, current, held>>
PollerVars == <<due, runCount, enqueued, pc, todo, want, ahead, current, held,
                ticks, pollFailures>>

\* idle: asleep; schedules, triggers: in the for loop over the rows of that
\* table; between: about to SELECT the triggers.
PCs == {"idle", "schedules", "between", "triggers"}

Goto(w, l) == pc' = [pc EXCEPT ![w] = l]

InLoop(w) == pc[w] \in {"schedules", "triggers"}
\* A faulty variant: the poll returns after the first table.
AfterLoop_Returns(w) == "idle"

\* What follows the loop over a table.
AfterLoop(w) == IF pc[w] = "schedules" THEN "between" ELSE "idle"

\* No other transaction holds the lock of row r.
Free(w, r) == \A v \in Workers \ {w} : r \notin held[v]

\* w does not wait for a lock any more; the database serves those behind it.
LeaveQueue(w) ==
    /\ want'  = [want EXCEPT ![w] = NoRow]
    /\ ahead' = [v \in Workers |-> IF v = w THEN {} ELSE ahead[v] \ {w}]

PollerInit ==
    /\ due = {}
    /\ runCount = [r \in Rows |-> 0]
    /\ enqueued = [r \in Rows |-> 0]
    /\ pc   = [w \in Workers |-> "idle"]
    /\ todo = [w \in Workers |-> {}]
    /\ want = [w \in Workers |-> NoRow]
    /\ ahead = [w \in Workers |-> {}]
    /\ current = [w \in Workers |-> NoRow]
    /\ held = [w \in Workers |-> {}]
    /\ ticks = [r \in Rows |-> 0]
    /\ pollFailures = 0

-----------------------------------------------------------------------------
(* Faulty variants of actions below, not part of PollerNext: each property is shown *)
(* to fail when one of them takes the place of its original.                  *)

\* A failing insertion is logged and dropped, as webhooks.py does it.
InsertTask_Dropped(w) ==
    /\ current[w] # NoRow
    /\ \E n \in {0, 1} : enqueued' = [enqueued EXCEPT ![current[w]] = @ + n]
    /\ current' = [current EXCEPT ![w] = NoRow]
    /\ UNCHANGED <<due, runCount, pc, todo, want, ahead, held, ticks, pollFailures>>

-----------------------------------------------------------------------------
\* Time passes: next_run_at of row r is reached, or the row is new.
Tick(r) ==
    /\ r \notin due
    /\ ticks[r] < MaxTicks
    /\ due' = due \cup {r}
    /\ ticks' = [ticks EXCEPT ![r] = @ + 1]
    /\ UNCHANGED <<runCount, enqueued, poll, pollFailures>>

-----------------------------------------------------------------------------
(* _poll_once. *)

\* The SELECT of one table: no lock, and no order.
Select(w, from, to, table) ==
    /\ pc[w] = from
    /\ Goto(w, to)
    /\ todo' = [todo EXCEPT ![w] = due \cap table]
    /\ UNCHANGED <<due, runCount, enqueued, want, ahead, current, held, ticks, pollFailures>>

SelectSchedules(w) == Select(w, "idle", "schedules", Schedules)
SelectTriggers(w)  == Select(w, "between", "triggers", Triggers)

\* The next row of the result: its UPDATE has no condition on next_run_at.
UpdateRow(w, r) ==
    /\ InLoop(w) /\ current[w] = NoRow /\ want[w] = NoRow
    /\ r \in todo[w]
    /\ Free(w, r) /\ \A v \in Workers : want[v] # r
    /\ todo' = [todo EXCEPT ![w] = @ \ {r}]
    /\ held' = [held EXCEPT ![w] = @ \cup {r}]
    /\ current' = [current EXCEPT ![w] = r]
    /\ UNCHANGED <<due, runCount, enqueued, pc, want, ahead, ticks, pollFailures>>

\* Another transaction has the row, or waits for it already: queue for its lock.
WaitForRow(w, r) ==
    /\ InLoop(w) /\ current[w] = NoRow /\ want[w] = NoRow
    /\ r \in todo[w]
    /\ ~Free(w, r) \/ \E v \in Workers : want[v] = r
    /\ todo' = [todo EXCEPT ![w] = @ \ {r}]
    /\ want' = [want EXCEPT ![w] = r]
    /\ ahead' = [ahead EXCEPT ![w] = {v \in Workers : want[v] = r}]
    /\ UNCHANGED <<due, runCount, enqueued, pc, current, held, ticks, pollFailures>>

\* The other transaction is over: the waiting UPDATE goes through.
GrantRow(w) ==
    /\ want[w] # NoRow
    /\ Free(w, want[w]) /\ ahead[w] = {}
    /\ held' = [held EXCEPT ![w] = @ \cup {want[w]}]
    /\ current' = [current EXCEPT ![w] = want[w]]
    /\ LeaveQueue(w)
    /\ UNCHANGED <<due, runCount, enqueued, pc, todo, ticks, pollFailures>>

\* enqueue_task commits in a session of its own.
InsertTask(w) ==
    /\ current[w] # NoRow
    /\ enqueued' = [enqueued EXCEPT ![current[w]] = @ + 1]
    /\ current' = [current EXCEPT ![w] = NoRow]
    /\ UNCHANGED <<due, runCount, pc, todo, want, ahead, held, ticks, pollFailures>>

\* A rejected expression leaves next_run_at NULL, and the row is due at once.
StillDue(r) == r \in BadCron /\ enqueued[r] < MaxFires

Commit(w) ==
    /\ InLoop(w) /\ todo[w] = {} /\ want[w] = NoRow /\ current[w] = NoRow
    /\ due' = (due \ held[w]) \cup {r \in held[w] : StillDue(r)}
    /\ runCount' = [r \in Rows |->
                      IF r \in held[w] THEN runCount[r] + 1 ELSE runCount[r]]
    /\ held' = [held EXCEPT ![w] = {}]
    /\ Goto(w, AfterLoop(w))
    /\ UNCHANGED <<enqueued, todo, want, ahead, current, ticks, pollFailures>>

\* The transaction of w is rolled back and w goes on at l.
Abandon(w, l) ==
    /\ todo' = [todo EXCEPT ![w] = {}]
    /\ LeaveQueue(w)
    /\ current' = [current EXCEPT ![w] = NoRow]
    /\ held' = [held EXCEPT ![w] = {}]
    /\ Goto(w, l)
    /\ UNCHANGED <<due, runCount, enqueued, ticks>>

\* A statement of the loop, the insertion of a task or the commit fails.
Rollback(w) ==
    /\ InLoop(w)
    /\ pollFailures < MaxPollFailures
    /\ pollFailures' = pollFailures + 1
    /\ Abandon(w, AfterLoop(w))

\* Workers that wait for each other's rows: the database fails one of them.
Deadlocked(w) ==
    \E S \in SUBSET Workers :
        /\ w \in S
        /\ \A v \in S : \E u \in S \ {v} : want[v] \in held[u]

DeadlockVictim(w) ==
    /\ Deadlocked(w)
    /\ Abandon(w, AfterLoop(w))
    /\ UNCHANGED pollFailures

\* The worker process dies in a poll and is started again.
WorkerDies(w) ==
    /\ pc[w] # "idle"
    /\ pollFailures < MaxPollFailures
    /\ pollFailures' = pollFailures + 1
    /\ Abandon(w, "idle")

-----------------------------------------------------------------------------
PollStep(w) ==
    \/ SelectSchedules(w) \/ SelectTriggers(w)
    \/ \E r \in Rows : UpdateRow(w, r) \/ WaitForRow(w, r)
    \/ GrantRow(w) \/ InsertTask(w) \/ Commit(w) \/ DeadlockVictim(w)

PollerNext ==
    \/ \E r \in Rows : Tick(r)
    \/ \E w \in Workers : PollStep(w) \/ Rollback(w) \/ WorkerDies(w)

PollerSpec == PollerInit /\ [][PollerNext]_PollerVars

-----------------------------------------------------------------------------
(* Properties. *)

PollerTypeOK ==
    /\ due \subseteq Rows
    /\ runCount \in [Rows -> Nat] /\ enqueued \in [Rows -> Nat]
    /\ pc \in [Workers -> PCs]
    /\ todo \in [Workers -> SUBSET Rows]
    /\ want \in [Workers -> Rows \cup {NoRow}]
    /\ ahead \in [Workers -> SUBSET Workers]
    /\ current \in [Workers -> Rows \cup {NoRow}]
    /\ held \in [Workers -> SUBSET Rows]
    /\ ticks \in [Rows -> Nat] /\ pollFailures \in Nat
    /\ \A w \in Workers : current[w] # NoRow => current[w] \in held[w]
    /\ \A w \in Workers : want[w] # NoRow => current[w] = NoRow

\* A task of row r is in the queue whose run is not counted yet.
Uncounted(r) == IF \E w \in Workers : r \in held[w] /\ current[w] # r THEN 1 ELSE 0

\* A row is never moved on to its next run without a task for this one: whatever
\* fails, every counted run has its own task (scheduler_daemon.py:98-122).
RunsBacked == \A r \in Rows : runCount[r] + Uncounted(r) <= enqueued[r]

\* A due row is run, however the polls of the workers overlap, wait for each
\* other and deadlock, and after failures too.
DueIsRun == \A r \in Rows : r \in due ~> r \notin due
=============================================================================

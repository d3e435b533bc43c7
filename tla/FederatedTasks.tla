--------------------------- MODULE FederatedTasks ---------------------------
(***************************************************************************)
(* The queue of federated tasks (routers.py, /federation/tasks and the     *)
(* federated branch of start_session).  A start creates a session and a    *)
(* task; the user's connectors poll for tasks, send live steps and then a  *)
(* result.  Each handler reads its rows, and writes them in a later        *)
(* statement: the steps of this module are its transactions' reads and     *)
(* commits.  All tasks belong to one agent of one user.                    *)
(***************************************************************************)
EXTENDS Integers, Sequences, FiniteSets

CONSTANTS
    Tasks,          \* the tasks, each with its session
    Connectors,     \* poll loops: machines, or repeated requests of one machine
    MaxRetries,     \* MAX_RETRIES
    Outcomes,       \* the results connectors send: "completed", "failed"
    Interruptions,  \* what else happens: "cancel", "stop", "restart"
    MaxCrashes,     \* bound on the poll requests that die half-way
    NoTask

ASSUME FiniteAssumption == IsFiniteSet(Tasks) /\ IsFiniteSet(Connectors)
ASSUME RetriesAssumption == MaxRetries \in Nat /\ MaxCrashes \in Nat
ASSUME NoTaskAssumption == NoTask \notin Tasks
ASSUME OutcomesAssumption == Outcomes \subseteq {"completed", "failed"}
ASSUME InterruptionsAssumption == Interruptions \subseteq {"cancel", "stop", "restart"}

VARIABLES
    task,        \* federated_tasks.status
    sess,        \* agent_sessions.status of the task's session
    retries,     \* federated_tasks.retry_count
    old,         \* the tasks dispatched longer ago than STALE_TIMEOUT
    order,       \* the tasks in the order of created_at
    pc,          \* of each connector and the request it has under way
    held,        \* the task a connector was given, or its request picked
    mem,         \* the rows the request under way has loaded
    cancelling,  \* the sessions a cancel request has read as running
    stopping,    \* an emergency stop is between its first and its last statement
    hit,         \* the sessions it has updated: their rows are locked until it commits
    crashes,     \* requests that have died
    requeues,    \* history: how often polls have put the task back
    raced,       \* history: the tasks that two polls had loaded as stale at once
    overlapped   \* history: the tasks queued while an emergency stop was under way

rows == <<task, sess, retries, old>>
stop == <<stopping, hit>>
others == <<cancelling, stop, crashes>>
history == <<requeues, raced, overlapped>>
vars == <<rows, order, pc, held, mem, others, history>>

Live == {"queued", "initializing", "running"}

Unloaded == [task |-> "none", stale |-> FALSE, retries |-> 0, sess |-> "none"]
Blank == [t \in Tasks |-> Unloaded]

Init ==
    /\ task = [t \in Tasks |-> "none"] /\ sess = [t \in Tasks |-> "none"]
    /\ retries = [t \in Tasks |-> 0] /\ old = {} /\ order = <<>>
    /\ pc = [c \in Connectors |-> "idle"]
    /\ held = [c \in Connectors |-> NoTask]
    /\ mem = [c \in Connectors |-> Blank]
    /\ cancelling = {} /\ crashes = 0
    /\ stopping = FALSE /\ hit = {}
    /\ requeues = [t \in Tasks |-> 0] /\ raced = {} /\ overlapped = {}

-----------------------------------------------------------------------------
(* Starting a session of a federated agent: two commits.  Here and below, a   *)
(* writer of a session's row waits while an emergency stop has locked it.    *)

Create(t) ==
    /\ sess[t] = "none"
    /\ sess' = [sess EXCEPT ![t] = "initializing"]
    /\ UNCHANGED <<task, retries, old, order, pc, held, mem, others, history>>

Enqueue(t) ==
    /\ sess[t] # "none" /\ task[t] = "none" /\ t \notin hit
    /\ sess' = [sess EXCEPT ![t] = "queued"]
    /\ task' = [task EXCEPT ![t] = "pending"]
    /\ order' = Append(order, t)
    /\ overlapped' = IF stopping THEN overlapped \cup {t} ELSE overlapped
    /\ UNCHANGED <<retries, old, pc, held, mem, others, requeues, raced>>

-----------------------------------------------------------------------------
(* The poll of a connector.                                                  *)

\* The stale tasks that some poll has loaded and not yet decided about.
Scanned == {t \in Tasks : \E c \in Connectors : pc[c] = "scanned" /\ mem[c][t].stale}

\* The dispatched tasks are loaded, and of the stale ones' sessions the status.
PollScan(c) ==
    /\ pc[c] = "idle"
    /\ mem' = [mem EXCEPT ![c] = [t \in Tasks |->
                  IF task[t] = "dispatched"
                  THEN [task |-> task[t], stale |-> t \in old,
                        retries |-> retries[t], sess |-> sess[t]]
                  ELSE Unloaded]]
    /\ pc' = [pc EXCEPT ![c] = "scanned"]
    /\ raced' = raced \cup {t \in Scanned : task[t] = "dispatched" /\ t \in old}
    /\ UNCHANGED <<rows, order, held, others, requeues, overlapped>>

\* One retry too many.
Requeues_OneMore(c, t) == mem[c][t].stale /\ mem[c][t].retries <= MaxRetries

\* What the request decided about the rows it has loaded.
Requeues(c, t) == mem[c][t].stale /\ mem[c][t].retries < MaxRetries
GivesUp(c, t) == mem[c][t].stale /\ mem[c][t].retries >= MaxRetries
Fails(c, t) == GivesUp(c, t) /\ mem[c][t].sess \in Live

\* The session of a task that is given up is left alone.
PollFlush_TaskOnly(c) ==
    /\ pc[c] = "scanned"
    /\ task' = [t \in Tasks |-> IF Requeues(c, t) THEN "pending"
                                ELSE IF GivesUp(c, t) THEN "failed" ELSE task[t]]
    /\ retries' = [t \in Tasks |-> IF Requeues(c, t) THEN mem[c][t].retries + 1
                                                    ELSE retries[t]]
    /\ old' = {t \in old : ~Requeues(c, t)}
    /\ requeues' = [t \in Tasks |-> IF Requeues(c, t) THEN requeues[t] + 1 ELSE requeues[t]]
    /\ pc' = [pc EXCEPT ![c] = "flushed"]
    /\ UNCHANGED <<sess, order, held, mem, others, raced, overlapped>>

\* The commit of those decisions: it overwrites what has changed since the scan.
PollFlush(c) ==
    /\ pc[c] = "scanned" /\ \A t \in hit : ~Fails(c, t)
    /\ task' = [t \in Tasks |-> IF Requeues(c, t) THEN "pending"
                                ELSE IF GivesUp(c, t) THEN "failed" ELSE task[t]]
    /\ retries' = [t \in Tasks |-> IF Requeues(c, t) THEN mem[c][t].retries + 1
                                                    ELSE retries[t]]
    /\ old' = {t \in old : ~Requeues(c, t)}
    /\ sess' = [t \in Tasks |-> IF Fails(c, t) THEN "failed" ELSE sess[t]]
    /\ requeues' = [t \in Tasks |-> IF Requeues(c, t) THEN requeues[t] + 1 ELSE requeues[t]]
    /\ pc' = [pc EXCEPT ![c] = "flushed"]
    /\ UNCHANGED <<order, held, mem, others, raced, overlapped>>

Pending(t) == task[t] = "pending"

Oldest(t) == /\ Pending(t)
             /\ \E i \in 1 .. Len(order) :
                   order[i] = t /\ \A j \in 1 .. i - 1 : ~Pending(order[j])

PollPick(c) ==
    /\ pc[c] = "flushed"
    /\ \/ /\ \E t \in Tasks : Oldest(t) /\ held' = [held EXCEPT ![c] = t]
          /\ pc' = [pc EXCEPT ![c] = "picked"]
          /\ UNCHANGED mem
       \/ /\ \A t \in Tasks : ~Pending(t)
          /\ pc' = [pc EXCEPT ![c] = "idle"]
          /\ mem' = [mem EXCEPT ![c] = Blank]
          /\ UNCHANGED held
    /\ UNCHANGED <<rows, order, others, history>>

\* An object the request loaded as dispatched, and has not requeued, still says
\* so: the assignment is then no change, and is not written.
AlreadyDispatched(c) ==
    mem[c][held[c]].task = "dispatched" /\ ~mem[c][held[c]].stale

\* The commit, and the answer, which may be lost on the way.
PollDispatch(c) ==
    /\ pc[c] = "picked"
    /\ task' = IF AlreadyDispatched(c) THEN task
                                       ELSE [task EXCEPT ![held[c]] = "dispatched"]
    /\ old' = old \ {held[c]}
    /\ mem' = [mem EXCEPT ![c] = Blank]
    /\ \/ pc' = [pc EXCEPT ![c] = "working"] /\ held' = held
       \/ pc' = [pc EXCEPT ![c] = "idle"] /\ held' = [held EXCEPT ![c] = NoTask]
    /\ UNCHANGED <<sess, retries, order, others, history>>

\* A server worker dies with the poll request it was serving.
PollDies(c) ==
    /\ pc[c] \in {"scanned", "flushed", "picked"} /\ crashes < MaxCrashes
    /\ crashes' = crashes + 1
    /\ pc' = [pc EXCEPT ![c] = "idle"]
    /\ held' = [held EXCEPT ![c] = NoTask]
    /\ mem' = [mem EXCEPT ![c] = Blank]
    /\ UNCHANGED <<rows, order, cancelling, stop, history>>

-----------------------------------------------------------------------------
(* The connector at work.                                                    *)

StepRead(c) ==
    /\ pc[c] = "working"
    /\ mem' = [mem EXCEPT ![c][held[c]].sess = sess[held[c]]]
    /\ pc' = [pc EXCEPT ![c] = "stepping"]
    /\ UNCHANGED <<rows, order, held, others, history>>

Starts(c) == mem[c][held[c]].sess \in {"queued", "initializing"}

StepWrite(c) ==
    /\ pc[c] = "stepping" /\ ~(Starts(c) /\ held[c] \in hit)
    /\ sess' = IF Starts(c) THEN [sess EXCEPT ![held[c]] = "running"] ELSE sess
    /\ mem' = [mem EXCEPT ![c] = Blank]
    /\ pc' = [pc EXCEPT ![c] = "working"]
    /\ UNCHANGED <<task, retries, old, order, held, others, history>>

Stop(c) ==
    /\ pc' = [pc EXCEPT ![c] = "idle"]
    /\ held' = [held EXCEPT ![c] = NoTask]
    /\ mem' = [mem EXCEPT ![c] = Blank]

\* The result is written whatever the two rows say.
Result(c, outcome) ==
    /\ pc[c] = "working" /\ held[c] \notin hit
    /\ task' = [task EXCEPT ![held[c]] = outcome]
    /\ sess' = [sess EXCEPT ![held[c]] = outcome]
    /\ Stop(c)
    /\ UNCHANGED <<retries, old, order, others, history>>

ConnectorDies(c) ==
    /\ pc[c] \in {"working", "stepping"}
    /\ Stop(c)
    /\ UNCHANGED <<rows, order, others, history>>

\* Three minutes pass.
Age(t) ==
    /\ task[t] = "dispatched" /\ t \notin old
    /\ old' = old \cup {t}
    /\ UNCHANGED <<task, sess, retries, order, pc, held, mem, others, history>>

-----------------------------------------------------------------------------
(* What the rest of the server does to the rows.                             *)

CancelRead(t) ==
    /\ "cancel" \in Interruptions
    /\ sess[t] = "running"
    /\ cancelling' = cancelling \cup {t}
    /\ UNCHANGED <<rows, order, pc, held, mem, stop, crashes, history>>

CancelWrite(t) ==
    /\ t \in cancelling /\ t \notin hit
    /\ cancelling' = cancelling \ {t}
    /\ sess' = [sess EXCEPT ![t] = "cancelled"]
    /\ UNCHANGED <<task, retries, old, order, pc, held, mem, stop, crashes, history>>

\* The emergency stop's first statement updates the sessions it can see, which
\* nobody else sees before the commit (one stop at a time).
StopSessions ==
    /\ "stop" \in Interruptions /\ ~stopping
    /\ stopping' = TRUE
    /\ hit' = {t \in Tasks : sess[t] \in Live}
    /\ UNCHANGED <<rows, order, pc, held, mem, cancelling, crashes, history>>

\* Its last statement fails the tasks it can see, by then perhaps more of them
\* than it has sessions; and it commits.
StopTasks ==
    /\ stopping
    /\ sess' = [t \in Tasks |-> IF t \in hit THEN "cancelled" ELSE sess[t]]
    /\ task' = [t \in Tasks |-> IF task[t] \in {"pending", "dispatched"} THEN "failed"
                                                                     ELSE task[t]]
    /\ stopping' = FALSE /\ hit' = {}
    /\ UNCHANGED <<retries, old, order, pc, held, mem, cancelling, crashes, history>>

\* A statement fails or the worker dies: everything is rolled back.
StopFails ==
    /\ stopping /\ crashes < MaxCrashes
    /\ crashes' = crashes + 1
    /\ stopping' = FALSE /\ hit' = {}
    /\ UNCHANGED <<rows, order, pc, held, mem, cancelling, history>>

\* The start-up hook of a server worker.
WorkerStarts ==
    /\ "restart" \in Interruptions /\ \A t \in hit : sess[t] # "running"
    /\ sess' = [t \in Tasks |-> IF sess[t] = "running" THEN "failed" ELSE sess[t]]
    /\ UNCHANGED <<task, retries, old, order, pc, held, mem, others, history>>

-----------------------------------------------------------------------------

Request(c) == PollScan(c) \/ PollFlush(c) \/ PollPick(c) \/ PollDispatch(c) \/ StepWrite(c)

Leave(c) == ConnectorDies(c) \/ \E outcome \in Outcomes : Result(c, outcome)

Next ==
    \/ \E t \in Tasks : \/ Create(t) \/ Enqueue(t) \/ Age(t)
                        \/ CancelRead(t) \/ CancelWrite(t)
    \/ \E c \in Connectors : Request(c) \/ PollDies(c) \/ StepRead(c) \/ Leave(c)
    \/ StopSessions \/ StopTasks \/ StopFails
    \/ WorkerStarts

Spec == Init /\ [][Next]_vars

-----------------------------------------------------------------------------
(* Properties. *)

TaskStatus == {"none", "pending", "dispatched", "completed", "failed"}
SessStatus == {"none", "cancelled", "completed", "failed"} \cup Live
Row == [task : TaskStatus, stale : BOOLEAN, retries : Nat, sess : SessStatus]

\* Types of the state.
TypeOK ==
    /\ task \in [Tasks -> TaskStatus] /\ sess \in [Tasks -> SessStatus]
    /\ mem \in [Connectors -> [Tasks -> Row]]
    /\ retries \in [Tasks -> Nat] /\ requeues \in [Tasks -> Nat]
    /\ old \subseteq Tasks /\ cancelling \subseteq Tasks /\ crashes \in Nat
    /\ order \in Seq(Tasks) /\ stopping \in BOOLEAN
    /\ hit \subseteq Tasks /\ raced \subseteq Tasks /\ overlapped \subseteq Tasks
    /\ pc \in [Connectors -> {"idle", "scanned", "flushed", "picked", "working", "stepping"}]
    /\ held \in [Connectors -> Tasks \cup {NoTask}]
    /\ \A c \in Connectors : (held[c] # NoTask) <=> pc[c] \in {"picked", "working", "stepping"}

\* No task is put back more often than the limit (routers.py:2747): the polls
\* overlap and overwrite each other, connectors and requests die, but only when
\* two polls have loaded the same stale task at once are there more retries than
\* the counter says (2735-2766 is a read and a write without a lock).
RetryLimit == \A t \in Tasks : requeues[t] > MaxRetries => t \in raced

\* A session that waits to be executed has a task that some connector can still
\* get or finish: no order of polls, results, stops and crashes leaves a queued
\* session whose task is over (routers.py:2729-2783, 2896-2902, 4596-4636).  The
\* exception is a session queued between the two statements of an emergency stop:
\* the first does not see it, the last fails its task.
QueuedHasTask ==
    \A t \in Tasks \ overlapped : sess[t] = "queued" => task[t] \in {"pending", "dispatched"}

\* A queued session is executed or given up: dispatches that get lost, connectors
\* that die, stops that are rolled back and races between polls cannot put it off
\* for ever.  A session queued while an emergency stop is under way stays queued
\* for ever if the stop fails its task.
QueuedAdvances ==
    \A t \in Tasks : (sess[t] = "queued" /\ t \notin overlapped) ~> sess[t] # "queued"
=============================================================================

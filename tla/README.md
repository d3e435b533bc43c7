# Specifications of the agent engine

The agent engine (`app/`) runs language-model agents for users: a FastAPI server
(four uvicorn workers, `docker/supervisord.conf`), a PostgreSQL database, one task
queue daemon, and connectors on users' machines that execute federated sessions.
`shared/` is a library of helpers. These TLA+ modules describe the parts in which
several actors work on the same rows, and the decisions of the agent loop. TLC
checks them on small instances, and TLAPS proves some of the results for every
value of the constants.

All source positions are relative to `src/`.

## 1. Inventory

| Part | State | Operations | Interacts with |
|---|---|---|---|
| Agent sessions (`app/routers.py`, `executor.py`, `main.py`, `tasks.py`) | `agent_sessions`, `agent_steps`; per worker the semaphore `_agent_run_semaphore` | start, cancel, approve or reject a step, emergency stop, background run, resume, start-up clean-up, health sweep | everything that runs an agent |
| Run loop (`executor.py`, `loop_stabilizer.py`, `verifier.py`) | loop count, context given to the model, the windows of the stabilizer and of the verifier, checkpoints | step, verify, record, checkpoint, roll back, replan, recover | sessions |
| Federated tasks (`routers.py`) | `federated_tasks`, the sessions behind them | create, poll (requeue stale ones, dispatch one), step, result, cancel, stop | sessions; remote connectors |
| Schedule poller (`scheduler_daemon.py`) | `agent_schedules`, `workflow_triggers` | poll both tables, advance rows, enqueue tasks | task queue; one poller per worker |
| Task queue (`task_queue_daemon.py`) | `agent_task_queue`, the daemon's coroutines and semaphore | enqueue, claim, execute, time out, mark | scheduler, webhooks, sessions |
| Gates and approvals (`safety.py`, `policy_engine.py`) | limits, pending approvals | evaluate an action, ask, decide | the step of a run |
| Execution gate, autonomy modes, wallet (`shared/agent`) | mode and budget per agent, balances, pending transactions | evaluate, approve, spend, transfer, freeze | callers await approvals in between |
| Task graph (`shared/agent/concurrency.py`) | task states, running tasks | ready, complete, fail, block, execute the graph | caller's coroutines |
| Messaging (`shared/messaging`) | reordering buffer; flows and queues per connection; connections with their indexes | receive, deliver, flush; send, drain; connect, disconnect, clean up | concurrent callers, sockets |
| Circuit breaker, shared scheduler (`shared/resilience`, `shared/agent/scheduler.py`) | breaker state; a heap, a semaphore, retries | call, report; schedule, pop, execute, retry | callers' coroutines |
| Event stream (`routers.py`) | the last step sent, the idle polls | poll, send, end | session rows and steps, the browser |
| Autonomous daemon, autonomy queue (`autonomous_*.py`, `self_trigger.py`, `routers_autonomy.py`) | contexts, triggers, an in-memory queue | load, register, decide, think, freeze | sessions, kill switch of another service |
| Orchestrator and swarms (`multi_agent_orchestrator.py`, `swarm_controller.py`) | goals, tasks, agents in memory | submit, assign, report, unlock; execute in five modes, scale | language model, blockchain record |
| Teams and workflows (`routers_teams.py`, `workflow_executor.py`) | workflow rows | execute, cancel, delete, archive | sessions of the members |
| Agents and versions (`routers.py`, `settings_routes.py`) | configuration, hash, history | edit, restore, re-hash | |
| Billing (`services/billing_service.py`, `usage_service.py`) | plan, tokens, usage records of an organisation | Stripe events, purchases, usage | Stripe |
| Project builder (`project_builder/`) | workspaces on disk and in caches, builds | create, build, modify, promote, delete | other processes |
| Goals, memory, learning, world model, simulated faculties, tool registry, classifier, webhooks, rate limits, observability, other routers | mostly data, text or I/O | | |

`PROJECT.json` lists every part with its files and what is, or why it is not,
modelled.

### What is hard

* **No locks.** A handler SELECTs a row, awaits, and commits an UPDATE of the columns
  it changed. Another worker, a runner, a poll or a sweep may have committed in
  between. SQLAlchemy writes a column only if its value differs from the one the
  session loaded, so some overwrites are *not* written: the models keep each
  actor's copy (`mem`) and have the same rule (`CommitStatus`).
* **Two levels of cancellation.** A cancelled row is noticed by the runner at the top
  of its next iteration; a hard time-out cancels its coroutine between two commits.
* **Crashes.** Workers and the daemon restart alone, in any state; semaphores and
  coroutines are gone, rows stay.
* **Overlapping stop rules.** Five checks of the stabilizer, the verifier and the
  executor's own conditions each decide whether a run goes on.
* **Several pollers.** Every worker polls the schedules, and every connector request
  is a poll of its own.

### What makes the parts correct

* Sessions: a running row has someone who will end it; a settled one stays settled;
  the semaphore counts the runs; the run that a start spawned is never doubled;
  accepted sessions advance.
* Run loop: every run is bounded and ends; a rollback forgets what it undoes.
* Federated tasks: retries are bounded unless polls race; a queued session has a task
  that can still be executed, and advances.
* Scheduler: no due run is lost; a due row is run, at most once per worker.
* Task queue: at most one holder and one execution per task; the bound on
  concurrency; tasks settle.
* Event stream: every stream ends, and one that says completed has shown every step.
* Money: ledgers balance, counters agree with what was spent, an organisation is not
  charged more in a period than was recorded in it, an action is judged by what was let
  through that day, a binding contract was approved.
* Libraries: the graph terminates when its tasks do, in the order of its edges;
  messages are delivered once and in order; a breaker leaves the half-open state; a
  paused flow has a send that resumes it; no index names a closed connection, and
  silent ones are removed; a scheduled task comes to an end.
* Orchestrator, swarms, teams: no task is forgotten, every agent of a swarm is heard,
  a completed workflow has run its members, and every workflow comes to an end.
* Versions and workspaces: a version in the history can be restored; the limit on
  projects is kept; builds come to an end.

Some of these the code promises only up to a race of its own. The property then names
the race as its exception, by a history variable that records that it has happened
(`raced`, `overlapped`, `overtaken`, `carried`, `shared`, `revived`, `compacted`) or by
the state it leaves (`Abandoned`, a `lost` task), and section 3 lists what happens then:
the property says that nothing *else* breaks the promise.

## 2. Modules

| Module | Models | Checked by | Proofs |
|---|---|---|---|
| `AgentSessions` | life of session rows | `MCAgentSessions`, `AgentSessionsClaims` | `AgentSessionsProofs` |
| `RunLoop` | one run of `_run_loop_inner` | `MCDispatch` | `RunLoopProofs` |
| `FederatedTasks` | federated tasks and connectors | `MCFederatedTasks`, `FederatedTasksClaims` | `FederatedTasksProofs` |
| `Scheduler` | the schedule pollers | `MCDispatch` | `SchedulerProofs` |
| `SessionStream` | the event stream of a session | `MCDispatch` | `RunLoopProofs` |
| `JobQueue` | what the task queue promises | refined by `TaskQueue` | |
| `TaskQueue` | the task queue daemon | `MCDispatch` | `TaskQueueProofs` |
| `CircuitBreaker` | a breaker under concurrent calls | `MCLibraries` | `LibrariesProofs` |
| `MessageOrdering` | an ordered channel over a lossy network | `MCLibraries` | `LibrariesProofs` |
| `TaskGraph` | dependency graphs on shared slots | `MCLibraries` | `LibrariesProofs` |
| `WebSockets` | the connection manager | `MCLibraries` | `LibrariesProofs` |
| `PriorityScheduler` | the shared library's scheduler | `MCLibraries` | |
| `Backpressure` | flow control of one connection id | `MCEconomy` | `LibrariesProofs` |
| `ModeManager` | the agents' modes and the calendar, which the next three read | `MCEconomy` | |
| `AgentWallet` | wallets and their transactions | `MCEconomy` | `EconomyProofs` |
| `ExecutionGate` | the gate's verdicts and daily figures | `MCEconomy` | `EconomyProofs` |
| `Negotiation` | auctions, bids, contracts, approvals | `MCEconomy` | `EconomyProofs` |
| `OrgBilling` | one organisation under Stripe's webhooks | `MCEconomy`, itself | `EconomyProofs` |
| `Orchestrator` | goals of dependent tasks on a pool of agents | `MCAgents` | `AgentsProofs` |
| `Swarm` | one swarm in each of its modes | `MCAgents` | `AgentsProofs` |
| `TeamWorkflows` | workflow rows and their background tasks | `MCAgents` | `AgentsProofs` |
| `AgentVersions` | an agent's configuration and its history | `MCAgents`, itself | `AgentsProofs` |
| `ProjectWorkspaces` | a user's projects on disk and in caches, builds | `MCAgents` | `AgentsProofs` |
| `AutonomousDaemon` | self-triggered agents and their kill switch | itself | |

How they meet: the loop that `AgentSessions` has as a nondeterministic runner
(`ExecuteStep`, `RecordStep`, `CutOff`, `FinishLoop`) is `RunLoop`'s `Iterate`, whose
outcome for the row is its `status`; `Scheduler`'s `InsertTask` is `TaskQueue`'s
`Enqueue`; `TaskQueue`'s `FireSession` creates a session row and runs `RunLoop`.
`FederatedTasks` has the session rows of federated sessions, on which it shares the
emergency stop, the cancellation and the start-up hook with `AgentSessions`. The wallet,
the gate and the negotiations read the modes of `ModeManager` while `ModeNext` changes
them.

The modules `MCDispatch`, `MCLibraries`, `MCEconomy` and `MCAgents` put components that
share no state, or nothing but a row one of them inserts, into one specification: a
variable `part` says which of them this behaviour exercises, and the others rest in an
initial state in which their fairness asks nothing of them. That is a disjoint union of
state spaces and not a product, so each part is explored in full.

Each module has, beside its actions, a few *faulty variants* of them ("As the code
must not be"): what a plausible slip in the code would do. They are not part of the
specification; for each checked property there is one that breaks it.

The types of the variables are stated by `TypeOK` of `AgentSessions`, which a run
checks, and by the type invariants of the proofs.

### AgentSessions

A *call* is a request with the background runner it spawns; `pc[c]` is the await it
is at, `mem[c]` its ORM copy of the status, `cnt[c]` of the loop count, `home[c]` its
worker. `row` and `loops` are committed columns; `free[w]` is the worker's semaphore.

| Action | Code |
|---|---|
| `StartSession`, `QueueSession` | `executor.start_session`, the start handler |
| `AcquireSlot`, `AcquireTimeout`, `FailureRead`, `FailureWrite`, `HardTimeout`, `ReleaseSlot` | `_run_agent_session_background` (`routers.py:3891-3957`) |
| `LoadSession`, `ReloadSession` | `_run_agent_session_background_inner`, `_resume_session_after_approval` |
| `Intercept`, `MarkRunning`, `Plan`, `LoopTop`, `ExecuteStep`, `RecordStep`, `CutOff`, `FinishLoop`, `LoopLimit` | `_run_loop_inner` (`executor.py`) |
| `CancelRead/Write`, `Decide`, `DecideRead`, `ApproveWrite`, `RejectWrite`, `EmergencyStop` | the handlers (`routers.py:4552-4800`) |
| `HandlerFails`, `RunFails` | a statement that raises in a handler, in a failure path, in a run |
| `SweepRead/Write` | the health tasks (`tasks.py`) |
| `Crash`, `Startup` | a worker dying and its start-up hook (`main.py:137-147`) |

A decision names a step, and `grant_approval` (`safety.py:575-581`) writes a verdict on
it if there is one, of whichever session; nothing reads a verdict back. So `Decide` is
possible for any session at any time, and what counts is the status that `DecideRead`
finds and `ApproveWrite` acts on later. A failure path that fails itself is swallowed
(`except: pass`, `routers.py:3913`, `3939-3976`), and a resume whose agent is gone
returns without a word (`4779`): the run is then *abandoned* and its row stays as it is.
The update of the emergency stop is one statement as far as sessions are concerned;
`FederatedTasks` has the two of them, with what comes between.

### RunLoop

One action `Iterate(k)` per result `k` a step may have: it counts the step, lets the
verifier and the stabilizer look at it, and picks the advice that the most severe
report gives (`Worst`), then rolls back, replans, recovers, ends or goes on. Texts
are abstracted to what is hashed, the time to early, near and over the limit.

### FederatedTasks

A connector's poll has the two transactions of the handler: `PollScan` reads the
dispatched tasks, `PollFlush` writes what it decided, `PollPick` and `PollDispatch`
read and mark a pending one. `Result`, `StepRead/Write`, `ConnectorDies`, `PollDies`
are the connector's other calls and its failures; `Age` is the passing of the
stale time-out. `Interruptions` says which of cancel, stop and restart a run
exercises.

The emergency stop has the statements of the handler (`routers.py:4599-4636`):
`StopSessions` updates the sessions it sees, whose rows are locked (`hit`) until
`StopTasks` updates the tasks and commits; between the two anything happens that needs
no locked row, a start in particular, and the request may die. One stop is under way at a
time. A session queued meanwhile is not seen by the first statement while its task is
failed by the second; `overlapped` remembers those sessions. `retries` is the column,
`requeues` counts how often a poll really put the task back, and `raced` holds the tasks
that two polls had loaded as stale at once: both then write the same count.

### Scheduler

`next_run_at` is abstracted to membership in `due`. `UpdateRow`, `WaitForRow` and
`GrantRow` are the database's row locks (external: a FIFO of waiters, as PostgreSQL
has), `DeadlockVictim` its deadlock detector. `Commit` makes all updates of a poll
visible at once. A row with a cron expression that croniter rejects (`BadCron`) gets
NULL and is due again at once; the model repairs it after `MaxFires` tasks, to stay
finite. Not modelled: a row deleted or disabled during a poll.

### TaskQueue and JobQueue

`JobQueue` says what `FOR UPDATE SKIP LOCKED` is there for: one holder, one
execution. `TaskQueue` has the daemon's coroutines: `Claim` takes a batch, `Enter` is
the semaphore, `FireSession`, `NoSession`, `SessionEnds`, `Timeout` what becomes of the
session, `MarkCompleted` both of `_mark_completed`'s branches, and `MarkRaises` the
error path, which ends in a NameError because `_mark_retry` and `_mark_failed` do not
exist. Which rows come first by priority is left open.

### SessionStream

The stream reads the row (`ReadStatus`) and then the steps (`ReadSteps`) in two
transactions; between them, and between polls, the runners commit. A runner is that of
`executor.py` reduced to what the stream can see: it inserts a step, numbered by its own
copy of the loop count, before it asks the model (`BeginStep`), may be cut off (`Cut`),
cancelled, or paused for an approval. `DecideRead` and `ApproveWrite` are the two halves
of `approve_step` (`routers.py:4738-4747`): two approvals that have both read a waiting
session start two runners, with a session object each, which give their steps the same
numbers. `overtaken` remembers that an approval was written to a session that waited no
more. `unsent` holds the numbers of the committed steps that the stream has not sent.

### CircuitBreaker, MessageOrdering, TaskGraph

`shared/` is asyncio code: a step runs from one suspension to the next. In the breaker
a call is admitted or refused (`Admit`, `Refuse`) and ends (`Succeed`, `Fail`,
`EndUnrecorded`) under the lock, and runs outside it. In the channel the only
suspension is the handler, so `ReceiveNext` hands a message over and `Flush` is the
handler's return with the rest of `_flush_buffer`; `Wake` and `DeliverStale` are the
loop that gives up waiting. `TaskGraph` has `execute_graph` of several graphs over the
manager's shared slots: what is ready, what has been started, what a wait returns, and
`_running_tasks`, which only shrinks by the tasks of the batch waited for.

### WebSockets, PriorityScheduler, Backpressure

In the connection manager the close of a socket and a send suspend. `BeginDisconnect` and
`EndDisconnect` are the two halves of `disconnect`; the clean-up (`SweepStarts`,
`SweepCloses`) and `stop` (`StopManager`, `StopCloses`) run the same halves over a list
of ids that others disconnect meanwhile. In the scheduler `LoopRound` is a round of a
loop that `start` has made, of which there may be two; a popped task waits for its
coroutine (`BeginTask`), and keeps its place of the semaphore through the back-off that
`RetryTask` ends. In `Backpressure` a send is pending from its increment to its end
(`SendMessage`, `Proceed`, `EndSend`), and a cancelled one for ever (`leaked`);
`DrainQueue` and `DrainEnds` are the drain around each message it sends.

### ModeManager, AgentWallet, ExecutionGate, Negotiation

Nothing in them suspends (no approval callback is ever set), so an operation is a step;
what interleaves is the sequence of operations, the mode of an agent and the date
(`Tomorrow`). The lazy resets are part of the operations that make them (`Reset`,
`SpendToday`). Costs of the gate, credits and opening balances of a wallet may be
negative: no request model bounds them (`routers_autonomy.py:93`, `125`, `667-689`).
`ExecutionGate` is the gate of one process, since its start.

### OrgBilling

A request loads the row of the organisation, awaits, and commits the columns it
changed, those whose value differs from the one it loaded. Stripe's events are
delivered at any time, more than once and out of order; a period ends by Stripe's
clock. `recorded` is the sum of the positive quantities recorded since the last reset; a
reset puts it to zero and marks the requests that had loaded the row before it (`behind`). When
one of those writes its figure, `carried` says so until the next reset. Quantities of
usage may be negative (`routers_billing.py:64`).

### Orchestrator, Swarm

One event loop. In the orchestrator the blockchain record in the middle of
`report_task_complete` suspends, so a report has two or three steps (`ReportSuccess`,
`Unlock`, `CloseGoal`) with the loop's assignments in between. In the swarm an agent's
work is a request to the model; `cursor` is the iterator over the live dictionary, with
the interpreter's error when the size has changed. The dictionary is modelled with its
table (external: CPython 3.11, the image's): a deletion leaves a hole in `slots`, an
insertion takes a place of `room`, and one that finds none moves the entries together
(`Insert`), after which the position of the iterator is another agent's. `compacted`
remembers that this happened during the execution.

### TeamWorkflows, AgentVersions

`TeamWorkflows` has the handlers of both sets of endpoints and the background task with
its own session, which writes its result over what it finds; when the database refuses
that, the error is logged and nothing else (`LoseWorkflow`, `workflow_executor.py:110`).
In `AgentVersions` the columns of an agent are three groups by how versions treat them:
hashed and versioned by a patch (`main`), hashed only (`tuning`), neither (`extra`); all
three are restored.

### ProjectWorkspaces

A manager's operation does not suspend, so it is one step in its own process; where
it writes two files, another process or a crash may come between (`MakeFolder` and
`SaveProject`). A build suspends between its phases. `cache[s]` is what the process `s`
believes of the workspace, and what it writes. `shared` remembers that two processes had
the workspace loaded at once, `revived` the projects that a promotion has set back to
`building` from a record it had read before the build's end.

### AutonomousDaemon

A trigger is a coroutine per agent: it decides (`DecideTrigger`), calls back
(`CallBack`), asks the kill switch (`AskSwitch`), thinks, performs and ends its thought.
A main loop (`CheckSwitch`, `Freeze`, `StopTriggers`, `StartTriggers`, `Rest`) sets the
internal state the triggers decide by (`Monitor`); each `Start` of the daemon begins one
more and loads the agents again, which may fail. `Register` and `SetGoal` are the
requests of other routers and of swarms, `TurnSwitch` the operators of another service.
Spawning a child agent raises in the code before it changes anything (section 3).

## 3. Runs

| Run | Question | Instance |
|---|---|---|
| `sessions_safety` | interleavings of three requests of any kind about one session | 2 workers, 1 slot, 1 crash, failing statements; symmetric |
| `sessions_live` | two sessions compete for a slot; do they advance, do slots come back | 1 worker, 1 crash, failing statements, start and approve |
| `fed_tasks` | two connectors with all interruptions, and polls that do not overlap | 1 retry; scope `races`: 1 task, 2 connectors, 1 crash; scope `single`: 2 tasks, 1 connector, emergency stops and restarts |
| `dispatch` | pollers with lock waits and deadlocks; `TaskQueue` refines `JobQueue`; every order of step results; a stream over a run that anything may interrupt | 2 schedules, 1 trigger with a bad expression; 2 daemons, 3 tasks, batch 2, 1 at a time; 7 kinds of result, cap 6, windows 3 and 4; 2 steps, 2 idle polls, 2 runners, 2 decisions |
| `libraries` | the five library protocols | 3 callers, 2 trials; 3 messages in 2 copies, room for 2; graphs with chains of 3 and 2 on 2 slots; 2 connections; 2 tasks, 1 at a time, room for 1, 2 tries, 2 starts |
| `economy` | money and limits across resets, modes and late decisions; flow control | 2 agents, 3 days in 2 months, amounts of both signs; 2 requests at a time, 2 periods, each event twice; 2 sends, 1 drain, 2 registrations |
| `agents` | goals, swarms, workflows, versions, builds | 2 goals with equal ids, 2 reports; swarms up to 3 in 5 modes, 6 agents in all; teams up to 3; 4 edits; 2 projects, room for 1, 2 processes side by side or one after the other with a crash |
| `sessions_cancelled`, `fed_double`, `billing_reset`, `versions_restore`, `daemon_idle` | a statement in a comment or docstring that the code refutes | as small as shows it |

**Bounds.** One session is enough for the races on a row, since no action but the
semaphore couples two of them (the emergency stop treats them alike); two sessions
are there where the slot is shared. Three calls allow a runner and two requests that
race with it and with each other. Loop limits of 1 and 2 let a run end by its limit,
by its result and after a replanned error. In `RunLoop` the cap, the windows and the
thresholds are smaller than the defaults but in the same order, so that every check
reports, and masks another, in some run. One retry is enough for a limit to be met by
two polls at once. One failure or crash at any point shows what it leaves behind;
more would only repeat it, except for resource leaks, which the accounting invariants
exclude for every number of crashes by proof. A batch of two with room for one makes
tasks wait for the semaphore, and the third task joins a batch whose gather has
raised. Three callers with two trials leave one refused, or still running from before
the breaker opened. Two copies of three messages contain every gap, duplicate and
overtaking a buffer of two tells apart, an overflow included. Two months of two days
make the daily and the monthly reset fall apart and together. Two requests about one
organisation are what it takes to lose an update; each event twice covers a repeated and
a late delivery. Two reports may cross on one goal. A team of three has a member before
and after the one that fails. Four edits are an edit, one that makes no version, a
restore and one after it. Two connections let the clean-up meet one that its own handler
closes while it waits for the other. A queue with room for one and two tries make a
retried task join a full queue; two starts make two loops. A second registration of an
id gives sends under way a flow that the id no longer stands for. Two steps and two idle
polls let a stream time out before, between and after the steps. Two runners need two
decisions that overlap, and a third adds nothing to what two numbers can collide in. A
swarm of three that is scaled down and up again spawns six agents, with which its
dictionary runs out of room and is moved together while it is iterated over. Two
processes are what it takes to count the same projects twice; a crash is explored where
one process follows the other, so that the exception of `LimitKept` is not all there is.

**Views.** `sessions_*`, `fed_tasks`, `dispatch` and `agents` have a `VIEW` that leaves out
what nothing can read any more: a copy that a request has used, what a call that is over
was about, the parts a behaviour does not exercise. Each is defined, with its reason, in
the MC module of its run.

`CHECK_DEADLOCK FALSE` is set where all bounded requests may be over.

**Fairness.** `FairSpec` of `AgentSessions`: each handler and runner of a live worker
takes its next step (the event loop is fair and every await has a client time-out) and
supervisord restarts a dead worker; nothing forces a request, a crash or a time-out.
`FederatedTasks`: connectors poll periodically and leave a task in finite time; time
passes (`Age`); an emergency stop that has begun ends (`StopTasks`). `Scheduler` and
`TaskQueue`: the daemon loops poll for ever, whatever a poll raises, and the database
answers; `TASK_TIMEOUT` bounds a session, which is why `Run` is fair without `Timeout`
being so. `CircuitBreaker`: callers keep calling and calls end, time passes.
`MessageOrdering`: handlers return and the loop wakes up; arrivals are not forced.
`TaskGraph`, `Orchestrator`, `Swarm`, `TeamWorkflows` and `ProjectWorkspaces`:
coroutines under way go on, and a request to the model ends (its client has a time-out);
nothing forces a request, a cancellation, a crash or a switch. `SessionStream`: the
generator polls on; nothing makes its runner do anything. `WebSockets`: the clean-up
wakes up and a close of a socket returns, whatever the handlers do. `PriorityScheduler`:
loops and coroutines go on, and a handler ends, as its time-out sees to; the quotas per
minute need not be reset. `AutonomousDaemon`: triggers and main loop go on, sleeps end.
`economy` has no fairness: its questions are of safety.

**What they show.** The passing runs find no violation. In particular: while all
workers are up a running row has someone behind it, though no writer locks it, unless a
failure that was swallowed has ended its run; the run that a start spawned is never
doubled, whatever is approved when; the rules that stop a run neither let it pass the cap
nor go on for ever; a poll that loses its race cannot leave a queued session without a
task; the scheduler never loses a run, at the price of duplicates; a breaker closes again
unless a trial call ends without a record; messages are delivered in order, though some
are dropped that need not be; the books of the wallets balance although approvals look at
nothing but the balance; an organisation is charged too little by lost updates, and too
much only when an old figure survives a reset; no task of the orchestrator is lost by
crossing reports; a vote hears every agent unless the dictionary was moved under it; and
versions stay restorable while edits do not overlap.

The violation runs show five disagreements between code and comments, described in
`PROJECT.json`: a cancelled session that its runner marks completed; a task dispatched
twice; used tokens that every update resets; an edit that a restore destroys; autonomous
agents that never act.

### Further divergences

Found while modelling, confirmed with TLC, and not kept as runs:

* `routers.py:4578` "stops every active session": a queued session that the stop
  cancelled is set running by its runner (`executor.py:2631`).
* `executor.py:3081` "Stop execution if credits exhausted": the loop goes on after the
  step, as after any error.
* `main.py:137` "they died with the previous process": the hook of a restarted worker
  fails the sessions of the other three workers.
* `models.py:126` lists the statuses without `queued` and `stale`, which are written.
* `loop_stabilizer.py:52` says that similar steps abort the run; they ask for a rollback.
* `loop_stabilizer.py:299` "A->B->A->B": an alternation is not reported with the default
  window of six, whose halves are A B A and B A B.
* `executor.py:2917` is unreachable by its condition with the default limits: the
  stabilizer aborts in that iteration.
* `executor.py:2888` "Allow a few retries": the third identical error is rejected as a
  repetition, and a rejected step's error is never fatal.
* `loop_stabilizer.py:401` "successful iterations": failed ones count too.
* `routers.py:2735-2762`: a stale scan requeues a task whose result came in meanwhile;
  a late result completes a task that was given up; a task is given up after
  `MAX_RETRIES + 1` dispatches, one more than the message says; a poll under way
  requeues a task that the emergency stop has failed. Polls that scan the same stale
  task at once write the same `retry_count`, so it is retried more often than
  `MAX_RETRIES` (`RetryLimit` without its exception is violated).
* `routers.py:4599-4636`: a session started between the two updates of an emergency stop
  is not cancelled and its task is failed: it stays queued for ever (`QueuedHasTask` and
  `QueuedAdvances` without their exception).
* `routers.py:4734-4747`: two approvals that overlap start two runners of one session. One
  completes it while the other, which looks for a cancellation or a pause only
  (`executor.py:2701`), goes on: a finished stream has steps it never sends
  (`CompletedIsWhole` without its exception).
* `billing_service.py:257-259`, `usage_service.py:84-106`: a usage request that loaded the
  row before a reset writes the old figure back, and the organisation pays for the last
  period's tokens again (`NeverOvercharged` without its exception).
* `swarm_controller.py:196`: an insertion into the dictionary of agents may move its
  entries together while a vote iterates over it; with the size as before, the iterator
  goes on and the vote completes with an agent that was never asked (`AllHeard` without
  its exception). With another size the interpreter raises and the swarm fails.
* `workspace_manager.py:258-268`: each of the four workers has a cache of its own, and two
  that have the workspace loaded let a user pass the limit (`LimitKept` without its
  exception). `workspace_manager.py:479-522`: a promotion that has read `building` writes
  that record after another worker's build has ended (`builder_agent.py:376`), and the
  project says building for ever (`BuildSettles` without its exception).
* `workflow_executor.py:110-113`: an error of the background task itself is logged; the
  workflow stays pending or running for ever.

Read in the code while modelling; where a model has the part it has the behaviour, and no
run is about it:

* `safety.py:575-581`: an approval may name any step, of another session or of none; the
  session that the URL names is resumed all the same, and `check_approval`, which would
  read a verdict, has no caller. `routers.py:3913`, `3939-3976`, `4779`: a failure inside a
  failure path, or an agent that is gone, leaves the row running or queued. Rows that
  were queued when a worker died are found by nothing.
* `executor.py:2787-2788`: a rollback restores the context and, for its own message, the
  history of the checkpoint; the plan stays that of the steps it undoes.
* `task_queue_daemon.py:5-6` "survive restarts, support retries": rows that are pending
  survive; a row that was claimed when its daemon died stays running for ever, no code
  retries a task, and the error path ends in a NameError.

* `shared/messaging/ordering.py:70`: a message that arrives early moves the expected
  number past the gap, so the late one is dropped as a duplicate, though the docstring at
  123-126 promises gap recovery; `fill_gap` has no caller. A channel whose handler
  suspends may deliver out of order: `DeliveredInOrder` claims the order only when none
  does, and that nothing is delivered twice always.
* `shared/resilience/circuit_breaker.py:161`: a trial that ends by an excluded exception
  or a cancellation is never given back; after `half_open_max_calls` of them the breaker
  stays half-open.
* `shared/agent/concurrency.py:346`: `execute_graph` may wait for ever for a task that
  another graph runs, without suspending.
* `shared/agent/wallet.py`: `daily_limit` and `monthly_limit` are never enforced; the
  approval of a transfer debits the source and credits nobody, and looks neither at a
  freeze nor at the limits; an approval adds to the figures of a day that nobody has
  reset, which the next reset clears, so that the new day counts less than was spent; a
  credit may be negative and an opening balance too; no endpoint approves a pending
  transaction.
* `shared/agent/execution_gate.py`: a negative `estimated_cost` (`routers_autonomy.py:93`)
  lowers the spend of the day, and makes room for more. Each of the four workers has a
  gate of its own and forgets it at a restart, so the budget of a day is kept by no more
  than one process at a time: `JudgedByTheDay` is about the verdicts of one of them.
* `shared/agent/negotiation.py`: a deadline is never looked at; accepting again makes a
  second contract of one auction; rejecting an old contract reopens an auction whose
  newer contract is active; a rejected request does not reach its contract
  (`routers_autonomy.py`).
* `services/billing_service.py`: a token purchase is credited once per delivery;
  purchased tokens (368-369 "don't expire") are lost at every change of plan and renewed
  by every period; a pack bought on an unlimited plan makes it limited; an event "created"
  that comes after "deleted" restores the paid plan; `reset_monthly_usage` has no caller.
* `services/usage_service.py:84`: lost updates let the limit be exceeded; overage counts
  the cumulative excess each time; a negative quantity takes tokens back.
* `multi_agent_orchestrator.py`: `get_runtime` is awaited and is no coroutine, so every
  trigger fails; equal task ids of two goals collide; an empty goal never completes; a
  goal stays completed while a task of it runs again.
* `workflow_executor.py:89-93`: a parallel run with failed members is completed;
  `:110`: the result overwrites a cancellation. A workflow that waits for an approval
  goes on waiting after it was given. Workflows of a dead process are never swept and
  block the deletion of their team.
* `routers.py`, versions: two edits that overlap give two versions one number, and
  restoring it raises; `settings_routes.py` mutates `safety_config` in place, so SQLAlchemy
  writes nothing; a hard delete fails on the foreign key of the versions.
* `workspace_manager.py`: the counters of two processes may become negative; a deletion
  during a build leaves a directory that blocks the name for ever; a stale
  `.workspace.json` brings a deleted project back.
* `builder_agent.py`: a build that the kill switch stops ends completed and gains trust;
  `cancel_build` has no effect; `MutationType.WRITE_FILE` does not exist, so a
  modification saves nothing and says success.
* `workspace_manager.py:405`: an update writes the cached record over one that another
  process has promoted meanwhile, and takes the only transition of 43-44 back.
* `app/autonomous_queue.py:290`, `app/goal_pursuit.py:429`, `routers.py:6570` call
  `agent_executor.run_session`, which does not exist; `register_agent` of the queue has no
  caller.
* `routers.py:6627` "event: step" for each new step: a step is sent when it is committed
  as an empty "think" (`executor.py:3017`), and not again when it is filled in; the
  result step of a federated session has number 0 (`routers.py:2909`) and is never sent
  after another, so the stream of such a session is not whole (`SessionStream` has no
  federated steps); a stream ends at a cancellation, or at the end of the credits, while
  the runner goes on and adds steps.
* `autonomous_daemon.py`: an agent that registers while the triggers are being stopped
  breaks the loop over `_agents`, and those already stopped stay so; `record_failure` is
  unreachable, since the state is idle by then; registered agents get no callback; spawning
  a child always raises, since `AgentDefinition` (`models.py:14-82`) has neither the
  `parent_agent_id` nor the `capabilities` that 729-737 give it; `stop` does not stop the
  triggers; a second `start` (`routers_autonomous.py:53-57`) loads again and doubles the
  main loop.
* `swarm_controller.py:338`: the health check replaces failed agents in the dictionary it
  iterates over, and may skip some of them until its next pass.
* `shared/messaging/websocket_manager.py`: a second disconnect of an id raises a
  KeyError, which ends a round of the clean-up, or `stop` before its last connections;
  the close of a socket has no time-out.
* `shared/agent/scheduler.py`: a retried task keeps its place of the semaphore while it
  waits; it joins a full queue; a cancelled handler is recorded nowhere.
* `shared/messaging/backpressure.py`: a cancelled send stays pending; enough of them
  pause a flow for ever.
* `shared/security/idempotency.py` (no caller): between the lock and the first write a
  second request processes too; a waiter returns at once while there is no record, and
  a failure lets all waiters process; a completion after the expiry makes a key without
  one. In its credit manager a confirmation and a cancellation may both succeed.
* `executor.py:2563`: the runs of a day are checked again on a resume, and count rejected
  sessions; a step that was approved is not itself executed by the resume.
* `shared_state.py` iterates a set of listeners across awaits; `system_watchdog.py` never
  counts two failures in a row; `agent_collaboration.py` lets closed sessions receive
  messages; `parallel_agent_runtime.py` does not enforce `max_concurrent`.

## 4. Proofs

All theorems are proved by TLAPS from the named assumptions of the modules (finite
sets of calls and tasks, positive sizes, null values outside their sets).

* **`AgentSessionsProofs`.** `TypeCorrect` and `SlotsAccounted` come from
  `IInv == TypeOK /\ ProcessShape /\ SlotAccounting`. `SlotAccounting` alone is not
  inductive: releasing a slot is right only because a call at a slot-holding place
  is a start request with a worker (`ProcessShape`). The proof has one lemma per kind
  of step: takes a slot, gives one back, moves within, crash.
  `RunningRowsHaveRunners` adds `RInv`: behind each running row is a call that
  executes it and whose *copy* of the status is such that its next commit is not
  swallowed (`Behind`); without the copies the invariant is not preserved, because an
  equal value is not written. `AcceptedRowsHaveRunners` is the same argument for the
  rows not yet running, with the start call that carries them (`QInv`, `Carries`).
  `SettledSessionsStay` goes through the steps: one that writes a row belongs to a call
  that is active on it, or is a sweep or a start-up hook, which touch no settled row.
  `StartedRunIsAlone` needs `GInv`: a session is started by one call (`OneStart`), and
  until that call's run leaves the loop the row has never said that it waits for a human,
  so that no approval has got past its check (`FreshStart`).
* **`RunLoopProofs`.** `RunsAreBounded`: an iteration that reaches the cap reports
  critical and abort, no earlier check in the list is as severe, and the first of the
  most severe reports wins. `NeverALoopVerdict`: no hash occurs more than twice in the
  verifier's window (`VInv`), since the third occurrence is not remembered; cutting
  the window off does not add any. `RollbacksForget`: the history is in the order of the
  iterations, and the checkpoint is of one of them (`HInv`).
  `CompletedStreamIsWhole` from `StreamInv`: as long as no approval was overtaken, at most
  one runner is at work and none on a session that waits or is completed, also when a
  stream has only read it as completed (`Alone`), and no committed step has a number that
  the stream has passed (`Numbered`); so what the stream reads next is all there will be.
* **`FederatedTasksProofs`.** `RetriesBounded` and `QueuedSessionsHaveTasks` from
  `FInv`. `Loaded`: a queued session's task was dispatched and its session queued when a
  scan read them, so that a stale write moves task and session together. `Hit`: a stop
  under way has hit every queued session but those queued since (`overlapped`), so that
  the tasks it fails have sessions it cancels. `Counted`: the real number of requeues is
  the column, and a poll that has a task loaded as stale knows that number and is the
  only one that has, unless the task is in `raced`.
* **`SchedulerProofs`.** `EveryRunHasATask` from `LocksExclusive`: at most one
  transaction holds a row, so at most one of its runs is uncounted, and its task is
  inserted before the commit counts it.
* **`TaskQueueProofs`.** `Implements`: every step of the queue is a step of `JobQueue`
  or a stutter, under the mapping of `status`, `owner` and `sessions`; it needs `Held`
  (a held task says running; a task that has not reached its session has none).
  `ConcurrencyIsBounded` counts the coroutines inside the semaphore.
* **`EconomyProofs`.** `NeverOverchargedHolds` from `BInv`: the row that a request has
  loaded since the last reset is `Covered` by the records of the period for as long as the
  request holds it, since they only grow between resets; a commit writes that row's
  figure, zero, or that figure with a cost recorded in the same step, so a lost update can
  only lose. A request of an earlier row is in `behind`, and its commit sets `carried`.
  `NeverOvercharged` alone is not inductive: nothing in it says what the pending commits
  will write.
  `WalletTypeCorrect` and `CountersAlwaysAgree` from `WInv`: every
  operation rewrites one wallet by `Added`, `Reset` and `Spent`, and each keeps it `Fits`.
  The month of a wallet is that of its day, which is why the lazy reset never resets the
  month without the day.
  `BindingContractsApproved` from `NInv`: bids and contracts stay within the maximum of
  their auction, which no operation changes (`AuctionsStay`), and a contract that waited
  is binding only with its approval (`Sound`), which survives a second acceptance, a
  rejection that reopens the auction and a decision that comes late.
  `BooksAlwaysBalance` from `LInv`: a step completes one transaction, or the two of a
  transfer, and moves the totals of the wallet by the same amounts; a transaction that
  waits is a payment, so that its approval moves what was spent and nothing else.
  `AlwaysJudgedByTheDay` from `GInv`: the daily figure is the sum of what was allowed since
  the reset (`CountsTheDay`), with the negative costs it contains, and no entry of the
  history is later than the reset of its agent (`NothingAhead`), so that a lazy reset
  begins a day with nothing in it and no verdict is given by the figure of another day.
* **`LibrariesProofs`.** `TrialsStayBounded`: a trial is a call under way, so that a call
  that ends unrecorded leaves the trials in the same step. `IndexesHaveNoGhosts`: whoever
  awaits the close of a socket has detached its connection, and nothing attaches it again
  (`CloserInv`), so that the deletion leaves no reference. `PausesAreBacked` from
  `FlowInv`: each step changes the set of the sends under way by at most one (`CountMoves`)
  and the count of its flow alike (`ActorSteps`), and the step that makes a flow flow again
  wakes all who wait on it (`WokenWait`).
  `DependenciesAlwaysRespected`: what a failure
  blocks is the least set of pending tasks closed under dependents, from which follows
  that a pending task outside it depends on nothing failed or blocked.
  `DeliveryAlwaysInOrder` from `ChannelInv`: an accepted number is in one place, the
  buffer, a handler's hands or the delivered ones (`Once`), and arrives no second time
  because it is below the next one expected (`Accepted`); while no handler has
  suspended, those three follow each other in order (`InSequence`), also when the loop
  takes the aged ones first (`OldestFirst`).
* **`AgentsProofs`.** `CompletedAlwaysComplete` from `Inv`: a row says completed only
  when its task is over, so that no session changes any more; and a sequence with
  nothing due and nothing running has run every member, since a first one left over
  (`FirstMember`, by well-foundedness) would be due.
  `VersionsStayRestorable` from `VersionsInv`: while one request is under way, what it has
  read is what the row still says (`Current`), so the number it gives out is above all
  others. Its hypothesis `OneRequest` is the condition of the property: with two requests
  the number is read twice and given out twice (section 3).
  `LimitAlwaysKept` from `WorkspaceInv`, for any number of processes: as long as no two have
  had the workspace loaded at once, a loaded workspace counts the projects it knows
  (`Counted`) and knows every one on the disk but the one being created (`Found`); the
  count, not the disk, is what the code compares with the limit. What an operation in
  the middle has done is stated per operation (`Halfway`), so that a crash there
  leaves what the next load, in whichever process, can mend.
  `NothingEverForgotten` from `OrchestratorInv`, which adds that an assigned, blocked or
  failed task is in the hands of the loop or of a report (`Held`): a report that looks
  for tasks to unlock looks at pending ones only.
  `EveryoneIsHeard` from `HeardInv`: as long as the table was not moved together, every
  member whose entry the iterator has passed was asked; new agents stand behind it, and
  when it comes to the end of the table it has passed all.

Sums and counts are over sets that grow, and `MapThenSumSet` is a recursive function over
finite sets. The library's induction theorems cannot be cited with a predicate, but
those about well-founded relations speak of sets: a set of numbers that holds 0 and is
closed under + 1 misses none, because what it misses would have a least element
(`Reached`). By it `EconomyProofs` shows that the sum is defined, is a number, and
grows by the element that is added, whichever element the definition chooses first.

Every invariant and every safety action property of the passing runs is stated by a
theorem, as is the refinement of `JobQueue` by `TaskQueue`. Only model-checked is what the
prover cannot do, liveness under fairness: `SessionsAdvance`, `QueuedAdvances`, `DueIsRun`,
`TasksSettle`, `StreamEnds`, `Recovers`, `GraphReturns`, `StaleRemoved`, `ScheduledSettles`,
`WorkflowSettles` and `BuildSettles`.

## 5. Not modelled

Prompts, tools, language-model and billing calls are choices of the environment: any
outcome, any time. CRUD handlers, text heuristics, generated files and external
services have no protocol of their own, and they are the larger part of the lines: the
routers' listings, the tool implementations and prompts of `executor.py`, the templates
of the project builder, the classifier's training data. `agent_task_queue` is created by
no migration in the repository; its `status` is taken to default to `pending`. The Celery
tasks other than the health sweep refer to a name that is not imported, and no Celery
worker is deployed. `autonomous_queue.py` and `goal_pursuit.py` have state machines whose
every execution fails at a call that does not exist, and the idempotency manager, the
delegation and the sandbox have no caller in the service. The parallel runtime, the
watchdog, the shared state and the collaboration sessions are tables in memory with one
operation per request; reading them showed what is listed above.

## 6. What is left

1. `TaskQueue` composed with `AgentSessions`, for the rows that a timed-out or crashed
   task leaves running: the one listed hazard without a property.
2. The idempotency manager and the rate limits, with the store they share, when
   something calls them.
3. The resume of a session with its history, and the partitioned and causal channels.
4. Proofs: an abstract specification of a session's life, implemented by `AgentSessions`
   step by step; how far two server
   processes can pass the limit on projects, and two overlapping edits of the versions.

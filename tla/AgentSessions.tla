---------------------------- MODULE AgentSessions ----------------------------
(***************************************************************************)
(* The life of agent_sessions rows.  A session row is shared by the API    *)
(* handlers of app/routers.py, by the runner that executes the agent loop  *)
(* (app/executor.py), by the start-up hook of every uvicorn worker         *)
(* (app/main.py) and by the periodic health tasks (app/tasks.py).  None of *)
(* them locks the row: each SELECTs it, awaits, and later commits an       *)
(* UPDATE of the columns it changed (async_session is created with         *)
(* expire_on_commit=False), so every actor works on a copy of the status   *)
(* that another actor may have overwritten meanwhile.                      *)
(*                                                                         *)
(* A call is one request, together with the background runner it spawns.   *)
(* A call is used once, so Calls bounds the number of requests.            *)
(***************************************************************************)
EXTENDS Integers, FiniteSets

CONSTANTS
    Sessions,      \* sessions of one agent
    Calls,         \* API requests and periodic tasks; each happens at most once
    Workers,       \* uvicorn worker processes
    Kinds,         \* the kinds of request a run exercises
    Slots,         \* AGENT_ENGINE_MAX_CONCURRENT_RUNS, per worker process
    MaxLoops,      \* max_loops of the agent
    ErrorRetries,  \* an execution error ends the loop from this loop_count on
    MaxCrashes,    \* bound: worker crashes
    NoSession, NoWorker

AllKinds == {"start", "cancel", "approve", "reject", "stop", "sweep"}

ASSUME SlotsAssumption == Slots \in Nat \ {0}
ASSUME BoundsAssumption ==
    MaxLoops \in Nat /\ ErrorRetries \in Nat /\ MaxCrashes \in Nat
ASSUME KindsAssumption == Kinds \subseteq AllKinds
ASSUME CallsAssumption == IsFiniteSet(Calls)
ASSUME NullAssumption == NoSession \notin Sessions /\ NoWorker \notin Workers

VARIABLES
    row,      \* [Sessions -> Status]: the committed status column
    loops,    \* [Sessions -> Nat]: the committed loop_count column
    free,     \* [Workers -> Nat]: value of the worker's _agent_run_semaphore
    up,       \* [Workers -> BOOLEAN]
    crashes,  \* crashes so far
    pc, kind, sess, home,   \* of a call: place, kind, session, worker
    mem, cnt,               \* of a call: its copy of status and of loop_count
    res                     \* of a runner: outcome of its last step

rowVars  == <<row, loops>>
procVars == <<free, up, crashes>>
callVars == <<pc, kind, sess, home, mem, cnt, res>>
vars == <<row, loops, free, up, crashes,
          pc, kind, sess, home, mem, cnt, res>>

-----------------------------------------------------------------------------
(* Statuses. *)

Live     == {"initializing", "queued", "running", "waiting_approval", "paused"}
Terminal == {"completed", "failed", "cancelled"}
Status   == Live \cup Terminal \cup {"none", "stale"}
Outcome  == {"none", "work", "error", "credits", "goal", "gate"}

\* Statuses the background runner's own failure paths may turn into failed.
Unfinished == {"initializing", "queued", "running"}

\* _run_loop_inner is on the stack, between the load of the row and its exit.
LoopPCs == {"enter", "plan", "top", "step", "record", "finish", "limit"}
\* The background runner owns a semaphore slot.
SlotPCs == {"load"} \cup LoopPCs \cup {"expire", "expirewrite", "release", "quit"}
PCs == {"unused", "created", "slot", "busy", "busywrite", "cancel", "granted",
        "approve", "reload", "refused", "reject", "sweep", "dropped", "done"}
       \cup SlotPCs

Active(c)   == pc[c] \notin {"unused", "dropped", "done"}
InLoop(c)   == pc[c] \in LoopPCs
HoldsSlot(c) == kind[c] = "start" /\ pc[c] \in SlotPCs
Holders(w)  == {c \in Calls : HoldsSlot(c) /\ home[c] = w}

-----------------------------------------------------------------------------
(* Helpers: what the ORM does. *)

\* Setting the status attribute and committing: SQLAlchemy emits the column in
\* the UPDATE only when the value differs from the one it loaded or last wrote.
CommitStatus(c, v) ==
    /\ row' = IF mem[c] = v THEN row ELSE [row EXCEPT ![sess[c]] = v]
    /\ mem' = [mem EXCEPT ![c] = v]

Goto(c, l) == pc' = [pc EXCEPT ![c] = l]

\* Where a runner goes when the loop returns: only a background runner holds a
\* slot to give back (routers.py wraps it in try/finally).
AfterLoop(c) == IF kind[c] = "start" THEN "release" ELSE "done"

\* _synthesize_recovery_output looks for entries whose action is "tool_call",
\* but the loop stores step_result["step_type"], a key no step result has, so
\* has_deliverable is False on every path (see module RunLoop).
RecoveryStatus == "failed"

-----------------------------------------------------------------------------
Init ==
    /\ row     = [s \in Sessions |-> "none"]
    /\ loops   = [s \in Sessions |-> 0]
    /\ free    = [w \in Workers |-> Slots]
    /\ up      = [w \in Workers |-> TRUE]
    /\ crashes = 0
    /\ pc      = [c \in Calls |-> "unused"]
    /\ kind    = [c \in Calls |-> "start"]
    /\ sess    = [c \in Calls |-> NoSession]
    /\ home    = [c \in Calls |-> NoWorker]
    /\ mem     = [c \in Calls |-> "none"]
    /\ cnt     = [c \in Calls |-> 0]
    /\ res     = [c \in Calls |-> "none"]

-----------------------------------------------------------------------------
(* Requests. *)

\* Worker w receives call c of kind k about session s; the handler is at l.
Receive(c, k, s, w, l) ==
    /\ pc[c] = "unused"
    /\ k \in Kinds
    /\ up[w]
    /\ Goto(c, l)
    /\ kind' = [kind EXCEPT ![c] = k]
    /\ sess' = [sess EXCEPT ![c] = s]
    /\ home' = [home EXCEPT ![c] = w]

-----------------------------------------------------------------------------
(* Faulty variants of actions below, not part of Next: each property is shown *)
(* to fail when one of them takes the place of its original.                  *)

\* The hard timeout gives the slot back, and so does the finally clause.
HardTimeout_ReleasesTwice(c) ==
    /\ kind[c] = "start"
    /\ pc[c] = "load" \/ InLoop(c)
    /\ Goto(c, "expire")
    /\ free' = [free EXCEPT ![home[c]] = @ + 1]
    /\ UNCHANGED <<rowVars, up, crashes, kind, sess, home, mem, cnt, res>>

FaultyFailureWrite(c, failing, next) ==
    /\ pc[c] \in {"busywrite", "expirewrite"}
    /\ IF mem[c] \in failing THEN CommitStatus(c, "failed")
                              ELSE UNCHANGED <<row, mem>>
    /\ Goto(c, next)
    /\ UNCHANGED <<loops, procVars, kind, sess, home, cnt, res>>

\* A return that skips the release of the slot.
FailureWrite_Leaks(c) == FaultyFailureWrite(c, Unfinished, "done")

\* The list of statuses lacks "running", or has nothing else.
FailureWrite_KeepsRunning(c) ==
    FaultyFailureWrite(c, Unfinished \ {"running"},
                       IF pc[c] = "busywrite" THEN "done" ELSE "release")
FailureWrite_OnlyRunning(c) ==
    FaultyFailureWrite(c, {"running"},
                       IF pc[c] = "busywrite" THEN "done" ELSE "release")

\* An approval goes on whatever the status it has read.
DecideRead_NoCheck(c) ==
    /\ pc[c] \in {"granted", "refused"}
    /\ mem' = [mem EXCEPT ![c] = row[sess[c]]]
    /\ Goto(c, IF pc[c] = "granted" THEN "approve" ELSE "reject")
    /\ UNCHANGED <<rowVars, procVars, kind, sess, home, cnt, res>>

\* WHERE status <> 'completed', or no clean-up at all.
Startup_FailsMore(w) ==
    /\ ~up[w]
    /\ up'  = [up EXCEPT ![w] = TRUE]
    /\ row' = [s \in Sessions |->
                 IF row[s] \in {"none", "completed"} THEN row[s] ELSE "failed"]
    /\ UNCHANGED <<loops, free, crashes, callVars>>

-----------------------------------------------------------------------------
(* The handlers. *)

\* POST /{agent_id}/sessions: executor.start_session commits the new row.
StartSession(c, s, w) ==
    /\ row[s] = "none"
    /\ Receive(c, "start", s, w, "created")
    /\ row' = [row EXCEPT ![s] = "initializing"]
    /\ mem' = [mem EXCEPT ![c] = "initializing"]
    /\ UNCHANGED <<loops, procVars, cnt, res>>

\* The handler marks the row queued and schedules the background runner.
QueueSession(c) ==
    /\ pc[c] = "created"
    /\ CommitStatus(c, "queued")
    /\ Goto(c, "slot")
    /\ UNCHANGED <<loops, procVars, kind, sess, home, cnt, res>>

\* POST /sessions/{id}/cancel: the SELECT and the check of the status.
CancelRead(c, s, w) ==
    /\ row[s] # "none"
    /\ Receive(c, "cancel", s, w,
               IF row[s] \in {"running", "waiting_approval", "paused"}
               THEN "cancel" ELSE "done")
    /\ mem' = [mem EXCEPT ![c] = row[s]]
    /\ UNCHANGED <<rowVars, procVars, cnt, res>>

CancelWrite(c) ==
    /\ pc[c] = "cancel"
    /\ CommitStatus(c, "cancelled")
    /\ Goto(c, "done")
    /\ UNCHANGED <<loops, procVars, kind, sess, home, cnt, res>>

\* POST /{agent_id}/emergency-stop: UPDATE ... WHERE status IN (...).  The rows it
\* hits are locked until the commit, and until then others read what they were.
EmergencyStop(c, s, w) ==
    /\ row[s] # "none"
    /\ Receive(c, "stop", s, w, "done")
    /\ row' = [t \in Sessions |->
                 IF row[t] \in Live THEN "cancelled" ELSE row[t]]
    /\ UNCHANGED <<loops, procVars, mem, cnt, res>>

\* POST /sessions/{id}/approve/{step}: grant_approval commits the verdict on the
\* step that the request names, if there is one: of this session or of another,
\* gated or not.  Nothing in the program reads a verdict back (check_approval
\* has no caller), so what is recorded is left out.
Decide(c, s, w) ==
    /\ \/ Receive(c, "approve", s, w, "granted")
       \/ Receive(c, "reject", s, w, "refused")
    /\ UNCHANGED <<rowVars, procVars, mem, cnt, res>>

\* It then SELECTs the session, and goes on only if it is waiting for approval.
DecideRead(c) ==
    /\ pc[c] \in {"granted", "refused"}
    /\ mem' = [mem EXCEPT ![c] = row[sess[c]]]
    /\ Goto(c, IF row[sess[c]] # "waiting_approval" THEN "done"
               ELSE IF pc[c] = "granted" THEN "approve" ELSE "reject")
    /\ UNCHANGED <<rowVars, procVars, kind, sess, home, cnt, res>>

\* Approved: the row is running again and a resume runner is spawned.
ApproveWrite(c) ==
    /\ pc[c] = "approve"
    /\ CommitStatus(c, "running")
    /\ Goto(c, "reload")
    /\ UNCHANGED <<loops, procVars, kind, sess, home, cnt, res>>

RejectWrite(c) ==
    /\ pc[c] = "reject"
    /\ CommitStatus(c, "failed")
    /\ Goto(c, "done")
    /\ UNCHANGED <<loops, procVars, kind, sess, home, cnt, res>>

\* check_agent_health and cleanup_stale_sessions SELECT the rows they may age
\* (running: 5 minutes without activity; waiting or stale: 30 or 60 minutes).
SweepRead(c, s, w) ==
    /\ row[s] \in {"running", "waiting_approval", "stale"}
    /\ Receive(c, "sweep", s, w, "sweep")
    /\ mem' = [mem EXCEPT ![c] = row[s]]
    /\ UNCHANGED <<rowVars, procVars, cnt, res>>

SweepWrite(c) ==
    /\ pc[c] = "sweep"
    /\ CommitStatus(c, IF mem[c] = "running" THEN "stale" ELSE "failed")
    /\ Goto(c, "done")
    /\ UNCHANGED <<loops, procVars, kind, sess, home, cnt, res>>

-----------------------------------------------------------------------------
(* The runner around the loop. *)

\* _run_agent_session_background: wait_for(semaphore.acquire(), 30).
AcquireSlot(c) ==
    /\ pc[c] = "slot"
    /\ free[home[c]] > 0
    /\ free' = [free EXCEPT ![home[c]] = @ - 1]
    /\ Goto(c, "load")
    /\ UNCHANGED <<rowVars, up, crashes, kind, sess, home, mem, cnt, res>>

\* No slot came free for 30 seconds.
AcquireTimeout(c) ==
    /\ pc[c] = "slot"
    /\ free[home[c]] = 0
    /\ Goto(c, "busy")
    /\ UNCHANGED <<rowVars, procVars, kind, sess, home, mem, cnt, res>>

\* A failure path reads the row (pc "busy": no slot, or a resumed run raised; pc
\* "expire": the background run was cancelled by wait_for, or raised) and then
\* fails it if it was unfinished when read.
FailureRead(c) ==
    /\ pc[c] \in {"busy", "expire"}
    /\ mem' = [mem EXCEPT ![c] = row[sess[c]]]
    /\ Goto(c, IF pc[c] = "busy" THEN "busywrite" ELSE "expirewrite")
    /\ UNCHANGED <<rowVars, procVars, kind, sess, home, cnt, res>>

FailureWrite(c) ==
    /\ pc[c] \in {"busywrite", "expirewrite"}
    /\ LET failing == CASE kind[c] = "approve"   -> {"running"}
                         [] pc[c] = "expirewrite" -> Unfinished
                         [] OTHER                 -> Unfinished \ {"running"}
       IN IF mem[c] \in failing THEN CommitStatus(c, "failed")
                                ELSE UNCHANGED <<row, mem>>
    /\ Goto(c, IF pc[c] = "busywrite" THEN "done" ELSE "release")
    /\ UNCHANGED <<loops, procVars, kind, sess, home, cnt, res>>

\* _run_agent_session_background_inner: the row is taken in any status, and
\* failed if the agent is not found.
LoadSession(c) ==
    /\ pc[c] = "load"
    /\ cnt' = [cnt EXCEPT ![c] = loops[sess[c]]]
    /\ \/ /\ mem' = [mem EXCEPT ![c] = row[sess[c]]]
          /\ Goto(c, "enter")
          /\ UNCHANGED row
       \/ /\ row' = [row EXCEPT ![sess[c]] = "failed"]
          /\ mem' = [mem EXCEPT ![c] = "failed"]
          /\ Goto(c, "release")
    /\ UNCHANGED <<loops, procVars, kind, sess, home, res>>

\* _resume_session_after_approval gives up unless the row is still running, and
\* returns without a word, the row left running, if the agent is not found.
ReloadSession(c) ==
    /\ pc[c] = "reload"
    /\ mem' = [mem EXCEPT ![c] = row[sess[c]]]
    /\ cnt' = [cnt EXCEPT ![c] = loops[sess[c]]]
    /\ IF row[sess[c]] = "running" THEN Goto(c, "enter") \/ Goto(c, "dropped")
                                   ELSE Goto(c, "done")
    /\ UNCHANGED <<rowVars, procVars, kind, sess, home, res>>

\* wait_for(..., SAFETY_TIMEOUT_SECONDS) cancels the coroutine: whatever it had
\* not committed is rolled back.  Resume runners have no such limit.
HardTimeout(c) ==
    /\ kind[c] = "start"
    /\ pc[c] = "load" \/ InLoop(c)
    /\ Goto(c, "expire")
    /\ UNCHANGED <<rowVars, procVars, kind, sess, home, mem, cnt, res>>

ReleaseSlot(c) ==
    /\ pc[c] \in {"release", "quit"}
    /\ free' = [free EXCEPT ![home[c]] = @ + 1]
    /\ Goto(c, IF pc[c] = "release" THEN "done" ELSE "dropped")
    /\ UNCHANGED <<rowVars, up, crashes, kind, sess, home, mem, cnt, res>>

-----------------------------------------------------------------------------
(* The loop: AgentExecutor._run_loop_inner. *)

\* Empty or impossible goals and the daily run limit settle the session.
Intercept(c) ==
    /\ pc[c] = "enter"
    /\ \E v \in {"failed", "completed"} : CommitStatus(c, v)
    /\ Goto(c, AfterLoop(c))
    /\ UNCHANGED <<loops, procVars, kind, sess, home, cnt, res>>

\* "Mark session as running early": no look at what the row says by now.
MarkRunning(c) ==
    /\ pc[c] = "enter"
    /\ CommitStatus(c, "running")
    /\ Goto(c, "plan")
    /\ UNCHANGED <<loops, procVars, kind, sess, home, cnt, res>>

Plan(c) ==
    /\ pc[c] = "plan"
    /\ \/ Goto(c, "top") /\ UNCHANGED <<row, mem>>
       \/ CommitStatus(c, "failed") /\ Goto(c, AfterLoop(c))
    /\ UNCHANGED <<loops, procVars, kind, sess, home, cnt, res>>

\* The while condition, then refresh(session) and the check for cancellation.
\* Both ways out of the loop reach the code after it.
LoopTop(c) ==
    /\ pc[c] = "top"
    /\ IF cnt[c] >= MaxLoops
       THEN Goto(c, "limit") /\ UNCHANGED <<mem, cnt>>
       ELSE /\ mem' = [mem EXCEPT ![c] = row[sess[c]]]
            /\ cnt' = [cnt EXCEPT ![c] = loops[sess[c]]]
            /\ Goto(c, IF row[sess[c]] \in {"cancelled", "paused"}
                       THEN "limit" ELSE "step")
    /\ UNCHANGED <<rowVars, procVars, kind, sess, home, res>>

\* _execute_step: the LLM call, the billing call, the chain of gates and the
\* tool.  A 402 from billing fails the session and returns an error; a gate
\* that wants a human leaves the step pending.
ExecuteStep(c) ==
    /\ pc[c] = "step"
    /\ \E o \in Outcome \ {"none"} :
         /\ res' = [res EXCEPT ![c] = o]
         /\ IF o = "credits" THEN CommitStatus(c, "failed")
                             ELSE UNCHANGED <<row, mem>>
    /\ Goto(c, "record")
    /\ UNCHANGED <<loops, procVars, kind, sess, home, cnt>>

CountStep(c) ==
    /\ cnt'   = [cnt EXCEPT ![c] = @ + 1]
    /\ loops' = [loops EXCEPT ![sess[c]] = cnt[c] + 1]

\* Token budget, loop stabilizer, verifier or an exception cut the loop off:
\* status and loop_count go into one commit.
CutOff(c) ==
    /\ pc[c] = "record"
    /\ CountStep(c)
    /\ CommitStatus(c, RecoveryStatus)
    /\ Goto(c, AfterLoop(c))
    /\ UNCHANGED <<procVars, kind, sess, home, res>>

\* The step is committed and the loop goes on, unless its result ends it.  An
\* error is fatal from ErrorRetries on, unless the verifier turned it into
\* feedback.
RecordStep(c) ==
    /\ pc[c] = "record"
    /\ CountStep(c)
    /\ \/ res[c] \in {"goal", "gate"} /\ Goto(c, "finish")
       \/ res[c] \in {"work", "error", "credits"} /\ Goto(c, "top")
       \/ /\ res[c] \in {"error", "credits"}
          /\ cnt[c] + 1 >= ErrorRetries
          /\ Goto(c, "finish")
    /\ UNCHANGED <<row, procVars, kind, sess, home, mem, res>>

\* The second commit: the status that the last step calls for.
FinishLoop(c) ==
    /\ pc[c] = "finish"
    /\ CommitStatus(c, CASE res[c] = "goal" -> "completed"
                         [] res[c] = "gate" -> "waiting_approval"
                         [] OTHER -> RecoveryStatus)
    /\ Goto(c, AfterLoop(c))
    /\ UNCHANGED <<loops, procVars, kind, sess, home, cnt, res>>

\* The code after the while loop, reached at the loop limit and by the break.
LoopLimit(c) ==
    /\ pc[c] = "limit"
    /\ CommitStatus(c, "completed")
    /\ Goto(c, AfterLoop(c))
    /\ UNCHANGED <<loops, procVars, kind, sess, home, cnt, res>>

-----------------------------------------------------------------------------
(* Failures of the database. *)

\* A statement of a handler or of a failure path raises.  A request ends with an
\* error; the start of a session has committed the row by then, and nobody will
\* run it.  What fails in a failure path is swallowed (except: pass): the row
\* stays as it is, and the slot, if there is one, is given back.
HandlerFails(c) ==
    /\ \/ /\ pc[c] \in {"cancel", "sweep", "granted", "approve", "refused", "reject"}
          /\ Goto(c, "done")
       \/ pc[c] \in {"created", "busy", "busywrite"} /\ Goto(c, "dropped")
       \/ pc[c] \in {"expire", "expirewrite"} /\ Goto(c, "quit")
    /\ UNCHANGED <<rowVars, procVars, kind, sess, home, mem, cnt, res>>

\* A statement of a run raises.  The background run rolls back and writes failed,
\* whatever the row says; when that fails as well it gives up.  An error before
\* the loop, and one of a resumed run, is left to the failure path.
RunFails(c) ==
    /\ \/ /\ InLoop(c) /\ kind[c] = "start"
          /\ \/ row' = [row EXCEPT ![sess[c]] = "failed"] /\ Goto(c, "release")
             \/ UNCHANGED row /\ Goto(c, "quit")
       \/ /\ pc[c] = "load" /\ Goto(c, "expire")
          /\ UNCHANGED row
       \/ /\ pc[c] = "reload" \/ (InLoop(c) /\ kind[c] = "approve")
          /\ Goto(c, "busy")
          /\ UNCHANGED row
    /\ UNCHANGED <<loops, procVars, kind, sess, home, mem, cnt, res>>

-----------------------------------------------------------------------------
(* Worker processes. *)

\* A worker dies with its handlers, its runners and its semaphore.
Crash(w) ==
    /\ up[w] /\ crashes < MaxCrashes
    /\ crashes' = crashes + 1
    /\ up'   = [up EXCEPT ![w] = FALSE]
    /\ free' = [free EXCEPT ![w] = Slots]
    /\ pc'   = [c \in Calls |->
                  IF Active(c) /\ home[c] = w THEN "done" ELSE pc[c]]
    /\ UNCHANGED <<rowVars, kind, sess, home, mem, cnt, res>>

\* Start-up hook: every running row is failed, whoever runs it.
Startup(w) ==
    /\ ~up[w]
    /\ up'  = [up EXCEPT ![w] = TRUE]
    /\ row' = [s \in Sessions |->
                 IF row[s] = "running" THEN "failed" ELSE row[s]]
    /\ UNCHANGED <<loops, free, crashes, callVars>>

-----------------------------------------------------------------------------
Request(c) ==
    \E s \in Sessions, w \in Workers :
        \/ StartSession(c, s, w)
        \/ CancelRead(c, s, w)
        \/ EmergencyStop(c, s, w)
        \/ Decide(c, s, w)
        \/ SweepRead(c, s, w)

Handler(c) ==
    \/ QueueSession(c) \/ CancelWrite(c) \/ SweepWrite(c)
    \/ DecideRead(c) \/ ApproveWrite(c) \/ RejectWrite(c)

Runner(c) ==
    \/ AcquireSlot(c) \/ AcquireTimeout(c) \/ FailureRead(c) \/ FailureWrite(c)
    \/ LoadSession(c) \/ ReloadSession(c) \/ ReleaseSlot(c)
    \/ Intercept(c) \/ MarkRunning(c) \/ Plan(c) \/ LoopTop(c)
    \/ ExecuteStep(c) \/ CutOff(c) \/ RecordStep(c) \/ FinishLoop(c)
    \/ LoopLimit(c)

Process == \E w \in Workers : Crash(w) \/ Startup(w)

\* What may interrupt a call at any time, and need not.
Interrupt(c) == HardTimeout(c) \/ HandlerFails(c) \/ RunFails(c)

Next ==
    \/ \E c \in Calls : Request(c) \/ Handler(c) \/ Runner(c) \/ Interrupt(c)
    \/ Process

Spec == Init /\ [][Next]_vars

\* The event loop of a live worker runs every ready coroutine again and again,
\* every await in a handler or a runner is bounded by a client timeout, and
\* supervisord restarts what has died.  Nothing obliges a user to send a
\* request, a worker to crash, a statement to fail or a run to exceed its limit.
FairSpec ==
    /\ Spec
    /\ \A c \in Calls : WF_vars(Handler(c) \/ Runner(c))
    /\ \A w \in Workers : WF_vars(Startup(w))

-----------------------------------------------------------------------------
TypeOK ==
    /\ row   \in [Sessions -> Status]
    /\ loops \in [Sessions -> Nat]
    /\ free  \in [Workers -> 0 .. Slots]
    /\ up    \in [Workers -> BOOLEAN]
    /\ crashes \in 0 .. MaxCrashes
    /\ pc    \in [Calls -> PCs]
    /\ kind  \in [Calls -> AllKinds]
    /\ sess  \in [Calls -> Sessions \cup {NoSession}]
    /\ home  \in [Calls -> Workers \cup {NoWorker}]
    /\ mem   \in [Calls -> Status]
    /\ cnt   \in [Calls -> Nat]
    /\ res   \in [Calls -> Outcome]

\* Places only a start request, or only an approval, gets to.
StartPCs   == {"created", "slot", "load", "expire", "expirewrite", "release", "quit"}
ApprovePCs == {"granted", "approve", "reload"}

\* A call that was received has a session and a worker, and the place it has
\* reached fits its kind.
ProcessShape ==
    \A c \in Calls :
        /\ pc[c] # "unused" => sess[c] \in Sessions /\ home[c] \in Workers
        /\ pc[c] \in StartPCs => kind[c] = "start"
        /\ pc[c] \in ApprovePCs => kind[c] = "approve"
        /\ InLoop(c) => kind[c] \in {"start", "approve"}

-----------------------------------------------------------------------------
(* Safety. *)

\* The semaphore counts the background runs of its worker exactly: a timeout,
\* a failure, an early return and a crash each give back the slot they took, so
\* at most Slots background runs are in progress on a worker.
SlotAccounting ==
    \A w \in Workers : free[w] + Cardinality(Holders(w)) = Slots

\* Some call is executing the session, or is about to load it or to fail it.
Executing(c, s) ==
    /\ sess[c] = s
    /\ \/ InLoop(c)
       \/ pc[c] \in {"reload", "expire", "expirewrite"}
       \/ kind[c] = "approve" /\ pc[c] \in {"busy", "busywrite"}

\* A failure that was swallowed, or an agent that was not found, has ended a run
\* of the session without a word.
Abandoned(s) == \E c \in Calls : sess[c] = s /\ pc[c] \in {"quit", "dropped"}

\* While every worker is up, a row that says running has someone behind it who
\* will change it, unless a run of the session was abandoned: no exit of the
\* loop, timeout, approval or lost update leaves a running row to nobody.
RunningHasRunner ==
    (\A w \in Workers : up[w]) =>
        \A s \in Sessions :
            row[s] = "running" => Abandoned(s) \/ \E c \in Calls : Executing(c, s)

\* As long as no worker has crashed, a row that is still initializing or queued
\* has a start handler or a background runner on its way, unless that one was
\* abandoned.
QueuedHasRunner ==
    crashes = 0 =>
        \A s \in Sessions : row[s] \in {"initializing", "queued"} =>
            \/ Abandoned(s)
            \/ \E c \in Calls : sess[c] = s /\ kind[c] = "start" /\ Active(c)

\* While the run that the start of a session spawned is in the loop, nobody else
\* executes the session: however approvals, late sweeps, time-outs and crashes
\* fall, approve_step's check, made without a lock and acted on later, can only
\* double a run that an approval has resumed.
StartRunsAlone ==
    \A c, d \in Calls :
        (kind[c] = "start" /\ InLoop(c) /\ Executing(d, sess[c])) => c = d

-----------------------------------------------------------------------------
(* Steps. *)

\* A settled session that no request and no runner is working on stays as it
\* is: nothing reopens it, not even an approval, a sweep or a worker's start-up.
SettledStays ==
    [][\A s \in Sessions :
         (row[s] \in Terminal /\ \A c \in Calls : sess[c] = s => ~Active(c))
            => row'[s] = row[s]]_vars

-----------------------------------------------------------------------------
(* Progress, under FairSpec. *)

\* A session that was accepted leaves initializing, queued and running: it is
\* settled, or it waits for a human; unless a worker crashes or a run of the
\* session is abandoned.
SessionsAdvance ==
    \A s \in Sessions :
        row[s] \in Unfinished ~>
            (row[s] \notin Unfinished \/ crashes > 0 \/ Abandoned(s))
=============================================================================

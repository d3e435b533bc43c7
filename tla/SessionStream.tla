--------------------------- MODULE SessionStream ----------------------------
(***************************************************************************)
(* The event stream of one session (sse_session_stream of app/routers.py). *)
(* A poll reads the session's row, then the steps whose number is greater  *)
(* than the last one sent, and sends what it read; it sends done when the  *)
(* row it read was settled.  What it polls is written by the session's     *)
(* runners (_run_loop_inner and _execute_step of app/executor.py), which   *)
(* insert each step, numbered by their loop count, before they ask the     *)
(* language model what it is to be, and by requests.  An approval reads    *)
(* the row in one statement and starts a runner after another, so that two *)
(* may run; the other requests are one step here, and what comes between   *)
(* their statements is the matter of module AgentSessions.  The steps of a *)
(* connector (module FederatedTasks) are not in this one.                  *)
(***************************************************************************)
EXTENDS Integers

CONSTANTS
    MaxSteps,       \* max_loops of the agent
    MaxRunners,     \* bound on the runners at the same time
    MaxDecisions,   \* bound on the decisions under way
    FatalErrorsFrom,\* an error ends the loop from this number of steps on
    MaxIdle         \* polls without a new step until the stream times out

VARIABLES
    row,        \* the committed status of the session
    loops,      \* the committed loop_count
    runner,     \* where each runner is
    believed,   \* the status as the runner's session object has it
    count,      \* the loop count as the runner's session object has it
    outcome,    \* of the runner's last step
    asked,      \* decisions that have read the row as waiting for approval
    overtaken,  \* history: an approval was written when the row waited no more
    reader,     \* where the stream is
    polled,     \* the status of the present poll
    idle,       \* polls since the last new step
    lastSent,   \* last_step_number
    unsent      \* the numbers of committed steps that were not sent

RowVars == <<row, loops>>
RunnerVars == <<runner, believed, count, outcome>>
ReaderVars == <<reader, polled, idle, lastSent>>
StreamVars == <<RowVars, RunnerVars, asked, overtaken, ReaderVars, unsent>>

Runners == 1 .. MaxRunners
SettledRow == {"completed", "failed", "cancelled"}

\* Somebody watches the session, or nobody.
StreamInit ==
    /\ row = "initializing" /\ loops = 0
    /\ runner = [r \in Runners |-> IF r = 1 THEN "plan" ELSE "none"]
    /\ believed = [r \in Runners |-> "initializing"] /\ count = [r \in Runners |-> 0]
    /\ outcome = [r \in Runners |-> "none"]
    /\ asked = 0 /\ overtaken = FALSE
    /\ reader \in {"closed", "status"} /\ polled = "none" /\ idle = 0 /\ lastSent = -1 /\ unsent = {}

-----------------------------------------------------------------------------
(* The runners.                                                              *)

Active(r) == runner[r] \notin {"none", "done"}

\* An update without a change of the attribute writes nothing.
SetStatus(r, s) ==
    /\ row' = IF believed[r] = s THEN row ELSE s
    /\ believed' = [believed EXCEPT ![r] = s]

GoTo(r, place) == runner' = [runner EXCEPT ![r] = place]

EndRun(r, s) == SetStatus(r, s) /\ GoTo(r, "done")

BeginPlan(r) ==
    /\ runner[r] = "plan"
    /\ SetStatus(r, "running") /\ GoTo(r, "planning")
    /\ UNCHANGED <<loops, count, outcome, unsent>>

\* A goal the agent is not able to reach: the answer is a step of its own.  No goal,
\* or too many runs today: none.
Intercept(r) ==
    /\ runner[r] = "plan"
    /\ \/ count[r] = 0 /\ EndRun(r, "completed") /\ unsent' = unsent \cup {1}
       \/ EndRun(r, "failed") /\ UNCHANGED unsent
    /\ UNCHANGED <<loops, count, outcome>>

EndPlan(r) ==
    /\ runner[r] = "planning"
    /\ \/ GoTo(r, "top") /\ UNCHANGED <<row, believed>>
       \/ EndRun(r, "failed")
    /\ UNCHANGED <<loops, count, outcome, unsent>>

\* The loop ends at its limit; the session is read again, and the loop ends if it was
\* cancelled; the step is committed with the number that was read.
BeginStep(r) ==
    /\ runner[r] = "top"
    /\ \/ /\ count[r] >= MaxSteps
          /\ GoTo(r, "limit") /\ UNCHANGED <<believed, count, unsent>>
       \/ /\ count[r] < MaxSteps
          /\ believed' = [believed EXCEPT ![r] = row]
          /\ count' = [count EXCEPT ![r] = loops]
          /\ IF row = "cancelled"
             THEN GoTo(r, "limit") /\ UNCHANGED unsent
             ELSE GoTo(r, "thinking") /\ unsent' = unsent \cup {loops}
    /\ UNCHANGED <<row, loops, outcome>>

\* What the model answered, what the gates decided or the tool returned.  Without
\* credits the session is failed at once.
EndStep(r) ==
    /\ runner[r] = "thinking"
    /\ GoTo(r, "decide")
    /\ count' = [count EXCEPT ![r] = @ + 1] /\ loops' = count[r] + 1
    /\ \/ /\ \E o \in {"work", "goal", "gate", "error", "abort"} :
                outcome' = [outcome EXCEPT ![r] = o]
          /\ UNCHANGED <<row, believed>>
       \/ outcome' = [outcome EXCEPT ![r] = "error"] /\ SetStatus(r, "failed")
    /\ UNCHANGED unsent

FatalError(r) == outcome[r] = "error" /\ count[r] >= FatalErrorsFrom

\* A run that is given up is completed if it has anything to show for.
Decide(r) ==
    /\ runner[r] = "decide"
    /\ \/ outcome[r] = "goal" /\ EndRun(r, "completed")
       \/ outcome[r] = "gate" /\ EndRun(r, "waiting_approval")
       \/ /\ outcome[r] = "abort" \/ FatalError(r)
          /\ \E s \in {"completed", "failed"} : EndRun(r, s)
       \/ /\ outcome[r] \in {"work", "error"} /\ ~FatalError(r)
          /\ GoTo(r, "top") /\ UNCHANGED <<row, believed>>
    /\ UNCHANGED <<loops, count, outcome, unsent>>

Limit(r) ==
    /\ runner[r] = "limit" /\ EndRun(r, "completed")
    /\ UNCHANGED <<loops, count, outcome, unsent>>

\* The hard time-out, or the end of the process.
Cut(r) ==
    /\ Active(r)
    /\ GoTo(r, "done")
    /\ row' \in {row, IF row \in SettledRow \cup {"waiting_approval"} THEN row ELSE "failed"}
    /\ UNCHANGED <<loops, believed, count, outcome, unsent>>

\* A new session object, read once.
Resume(r) ==
    /\ runner[r] = "resume"
    /\ believed' = [believed EXCEPT ![r] = row]
    /\ count' = [count EXCEPT ![r] = loops]
    /\ GoTo(r, IF row = "running" THEN "plan" ELSE "done")
    /\ UNCHANGED <<row, loops, outcome, unsent>>

RunnerStep(r) ==
    \/ Intercept(r) \/ BeginPlan(r) \/ EndPlan(r) \/ BeginStep(r) \/ EndStep(r)
    \/ Decide(r) \/ Limit(r) \/ Cut(r) \/ Resume(r)

-----------------------------------------------------------------------------
(* The requests.                                                             *)

\* cancel_session, or the emergency stop.
Cancel ==
    /\ row \in {"initializing", "running", "waiting_approval"}
    /\ row' = "cancelled"
    /\ UNCHANGED <<loops, RunnerVars, asked, overtaken, unsent>>

\* The start-up hook of another worker.
FailOrphans ==
    /\ row = "running" /\ row' = "failed"
    /\ UNCHANGED <<loops, RunnerVars, asked, overtaken, unsent>>

\* approve_step has found the session waiting.
DecideRead ==
    /\ row = "waiting_approval" /\ asked < MaxDecisions
    /\ asked' = asked + 1
    /\ UNCHANGED <<RowVars, RunnerVars, overtaken, unsent>>

\* And writes what it was asked to, whatever the row has come to say; an approval
\* starts a runner.
ApproveWrite ==
    /\ asked > 0 /\ asked' = asked - 1
    /\ row' = "running"
    /\ \E r \in Runners : ~Active(r) /\ GoTo(r, "resume")
    /\ overtaken' = (overtaken \/ row # "waiting_approval")
    /\ UNCHANGED <<loops, believed, count, outcome, unsent>>

RejectWrite ==
    /\ asked > 0 /\ asked' = asked - 1
    /\ row' = "failed"
    /\ UNCHANGED <<loops, RunnerVars, overtaken, unsent>>

RowNext ==
    \/ \E r \in Runners : RunnerStep(r) /\ UNCHANGED <<asked, overtaken>>
    \/ Cancel \/ FailOrphans \/ DecideRead \/ ApproveWrite \/ RejectWrite

-----------------------------------------------------------------------------
(* The stream.                                                               *)

WriterVars == <<RowVars, RunnerVars, asked, overtaken>>

\* The first poll comes at any time: so the stream is opened at any time.
ReadStatus ==
    /\ reader = "status"
    /\ polled' = row /\ reader' = "steps"
    /\ UNCHANGED <<WriterVars, idle, lastSent, unsent>>

\* As the code must not be: the last number sent is 0 at the beginning.
Fresh_FromOne == {n \in unsent : n > lastSent /\ n > 0}

\* The steps with a greater number than the last one sent.
Fresh == {n \in unsent : n > lastSent}

\* As the code must not be: every poll counts as news.
PollAgain_NeverIdle(settled) ==
    /\ idle' = 1
    /\ reader' = IF settled THEN "done" ELSE IF idle' >= MaxIdle THEN "timed_out" ELSE "status"

\* The next poll, unless the session was settled or the stream is idle too long.
PollAgain(settled) ==
    /\ idle' = IF Fresh = {} THEN idle + 1 ELSE 1
    /\ reader' = IF settled THEN "done" ELSE IF idle' >= MaxIdle THEN "timed_out" ELSE "status"

ReadSteps ==
    /\ reader = "steps"
    /\ \/ Fresh = {} /\ lastSent' = lastSent
       \/ lastSent' \in {n \in Fresh : \A m \in Fresh : m <= n}
    /\ unsent' = unsent \ Fresh
    /\ PollAgain(polled \in SettledRow)
    /\ UNCHANGED <<WriterVars, polled>>

\* The client has gone, or the database raised.
Break ==
    /\ reader \in {"status", "steps"} /\ reader' = "broken"
    /\ UNCHANGED <<WriterVars, polled, idle, lastSent, unsent>>

StreamNext ==
    \/ RowNext /\ UNCHANGED ReaderVars
    \/ ReadStatus \/ ReadSteps \/ Break

\* The server's event loop runs the generator, and the database answers.
StreamFairness == WF_StreamVars(ReadStatus \/ ReadSteps)

StreamSpec == StreamInit /\ [][StreamNext]_StreamVars /\ StreamFairness

-----------------------------------------------------------------------------
\* A stream that reported completion has sent every step there is or ever will be:
\* whatever was cancelled, timed out, rejected or resumed before, nobody adds a step
\* to a completed session, and none that was committed before it escapes the poll.
\* The exception is a session whose approval was written when it waited no more
\* (routers.py:4738-4747 reads and sets the status in two statements): a second
\* runner then repeats numbers the stream has passed, or adds steps after its end.
\* The session is one that the server runs: the step of a connector's result has
\* number 0 (2909), which a stream that has sent any step does not send.
CompletedIsWhole ==
    reader = "done" /\ polled = "completed" => unsent = {} \/ overtaken

\* Every stream ends, also that of a session nobody finishes or two runners work on:
\* new steps put the time-out off, and there are finitely many numbers to send.
StreamEnds == reader \in {"status", "steps"} ~> reader \notin {"status", "steps"}
=============================================================================

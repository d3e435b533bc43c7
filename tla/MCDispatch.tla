----------------------------- MODULE MCDispatch -----------------------------
(***************************************************************************)
(* The model of the run "dispatch": the schedule pollers, which insert     *)
(* tasks, the daemons that claim and execute them, the loop of the session *)
(* that such a task starts, and the stream its user watches it by.  All    *)
(* that passes between the first two is a row of agent_task_queue, and     *)
(* between the others rows of a session and its steps, so each behaviour   *)
(* exercises one of them (part): the tasks the pollers insert are not      *)
(* executed, those the daemons find come from anywhere, the decisions of a *)
(* run are its own, and the stream has runners that decide anything.       *)
(***************************************************************************)
EXTENDS Scheduler, TaskQueue, RunLoop, SessionStream

VARIABLE part

DispatchVars == <<part, PollerVars, vars, LoopVars, StreamVars>>

\* What a runner that has ended a step will do; what is left of one that is done, or
\* was never started, is of no use; and the runners are alike.
Answer(r) == IF FatalError(r) THEN "abort" ELSE IF outcome[r] = "error" THEN "work"
                                                                       ELSE outcome[r]
Own(r) == <<IF Active(r) THEN runner[r] ELSE "done",
            IF Active(r) /\ runner[r] # "resume" THEN <<believed[r], count[r]>> ELSE <<>>,
            IF runner[r] = "decide" THEN Answer(r) ELSE "none">>

\* Of a poll that does not end the stream, or not with completion, only that.
Polling == CASE reader # "steps" -> "none"
             [] polled \notin SettledRow -> "open"
             [] polled = "completed" -> "completed"
             [] OTHER -> "settled"

\* Nothing is asked of a stream that has ended otherwise than with completion, or of
\* a session two runners have worked on.
Watched == \/ reader \in {"status", "steps"}
           \/ reader = "done" /\ polled = "completed" /\ ~overtaken

StreamView ==
    IF Watched
    THEN <<RowVars, {Own(r) : r \in Runners}, asked, overtaken, reader, Polling, idle,
           lastSent, unsent>>
    ELSE <<reader>>

\* The other parts stay as they are.
Relevant == <<part, CASE part = "pollers" -> PollerVars [] part = "daemons" -> vars
                      [] part = "loop" -> LoopVars [] part = "stream" -> StreamView>>

DispatchInit ==
    /\ part \in {"pollers", "daemons", "loop", "stream"}
    /\ PollerInit /\ Init
    /\ LoopInit /\ (part # "loop" => loopCount = 0)
    /\ StreamInit /\ reader = (IF part = "stream" THEN "status" ELSE "closed")

DispatchNext ==
    /\ UNCHANGED part
    /\ \/ part = "pollers" /\ PollerNext /\ UNCHANGED <<vars, LoopVars, StreamVars>>
       \/ part = "daemons" /\ Next /\ UNCHANGED <<PollerVars, LoopVars, StreamVars>>
       \/ part = "loop" /\ LoopNext /\ UNCHANGED <<PollerVars, vars, StreamVars>>
       \/ part = "stream" /\ StreamNext /\ UNCHANGED <<PollerVars, vars, LoopVars>>

\* The daemon loop of each worker polls again after each poll, whatever the poll
\* raised, and the database answers.  The queue's daemons poll for ever, and the
\* event loop runs every coroutine and every generator; the time a session may take
\* is bounded by TASK_TIMEOUT.
DispatchFairness ==
    /\ \A w \in Workers : WF_PollerVars(part = "pollers" /\ PollStep(w))
    /\ \A d \in Daemons : WF_vars(part = "daemons" /\ Poll(d))
    /\ \A t \in Tasks : WF_vars(part = "daemons" /\ Run(t))
    /\ WF_StreamVars(part = "stream" /\ (ReadStatus \/ ReadSteps))

DispatchSpec ==
    DispatchInit /\ [][DispatchNext]_DispatchVars /\ DispatchFairness
=============================================================================

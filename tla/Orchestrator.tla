---------------------------- MODULE Orchestrator ----------------------------
(***************************************************************************)
(* The multi-agent orchestrator (app/multi_agent_orchestrator.py): goals   *)
(* of dependent tasks, one loop that assigns the tasks of a queue, and     *)
(* reports of the agents that arrive at any time.  All of it runs in one   *)
(* event loop; what suspends is a record on the blockchain and the loop's  *)
(* sleep, so a step runs from one of these to the next.                    *)
(***************************************************************************)
EXTENDS Integers, Sequences, FiniteSets

CONSTANTS
    LastGoal,       \* goals 1 .. LastGoal, in the order they are submitted
    Ids,            \* task ids; those of different goals may be equal
    Tasks,          \* the tasks, pairs <<goal, id>>
    DependsOn,      \* [Tasks -> SUBSET Ids]: ids of the same goal
    Agents,
    MaxRegistrations,   \* bound on how often an agent is registered
    Reporters,          \* report requests under way at a time
    MaxReports          \* bound on the reports altogether

ASSUME OrchestratorAssumption ==
    /\ LastGoal \in Nat /\ MaxReports \in Nat /\ MaxRegistrations \in Nat
    /\ Tasks \subseteq (1 .. LastGoal) \X Ids
    /\ DependsOn \in [Tasks -> SUBSET Ids]
ASSUME ReportersAssumption == IsFiniteSet(Reporters) /\ IsFiniteSet(Tasks)

None == <<0, 0>>

VARIABLES
    submitted,  \* the goals submitted so far are 1 .. submitted
    goal,       \* SwarmGoal.status
    status,     \* SubTask.status
    queue,      \* task_queue
    agents,     \* the profile of each agent: how often it was registered, and current_task
    loop,       \* where the orchestration loop is, with its task and agent
    report,     \* of each report request the same
    reports     \* how many reports there were

OrchestratorVars == <<submitted, goal, status, queue, agents, loop, report, reports>>

TasksOf(g) == {t \in Tasks : t[1] = g}
Unregistered == [registered |-> 0, task |-> None]
At(where, t, a) == [at |-> where, task |-> t, agent |-> a]
NoAgent == [name |-> "none", registered |-> 0]

OrchestratorInit ==
    /\ submitted = 0
    /\ goal = [g \in 1 .. LastGoal |-> "pending"]
    /\ status = [t \in Tasks |-> "pending"]
    /\ queue = <<>>
    /\ agents = [a \in Agents |-> Unregistered]
    /\ loop = At("get", None, NoAgent)
    /\ report = [r \in Reporters |-> At("idle", None, NoAgent)]
    /\ reports = 0

\* The sequences that put each element of S once, in any order.
Orders(S) == {s \in [1 .. Cardinality(S) -> S] : \A x \in S : \E i \in DOMAIN s : s[i] = x}

PutAll(S) == \E s \in Orders(S) : queue' = queue \o s

DependenciesMet(t, st) ==
    \A id \in DependsOn[t] : <<t[1], id>> \in Tasks /\ st[<<t[1], id>>] = "completed"

-----------------------------------------------------------------------------

RegisterAgent(a) ==
    /\ agents[a].registered < MaxRegistrations
    /\ agents' = [agents EXCEPT ![a] = [registered |-> @.registered + 1, task |-> None]]
    /\ UNCHANGED <<submitted, goal, status, queue, loop, report, reports>>

SubmitGoal ==
    /\ submitted < LastGoal
    /\ submitted' = submitted + 1
    /\ PutAll({t \in TasksOf(submitted + 1) : DependsOn[t] = {}})
    /\ UNCHANGED <<goal, status, agents, loop, report, reports>>

\* A request holds the profile it looked up: freeing it does nothing to the
\* profile a later registration has put in its place.
Freed(p) ==
    [a \in Agents |-> IF p = [name |-> a, registered |-> agents[a].registered]
                      THEN [agents[a] EXCEPT !.task = None] ELSE agents[a]]

-----------------------------------------------------------------------------
(* The orchestration loop.                                                   *)

Free(a) == agents[a].registered > 0 /\ agents[a].task = None

\* _find_best_agent takes any of the free agents: scores go up and down freely.
Assign(a) ==
    /\ loop.at = "get" /\ queue # <<>> /\ Free(a)
    /\ LET t == Head(queue)
           p == [name |-> a, registered |-> agents[a].registered]
       IN  /\ status' = [status EXCEPT ![t] = "assigned"]
           /\ agents' = [agents EXCEPT ![a].task = t]
           /\ loop' = At("assigning", t, p)
    /\ queue' = Tail(queue)
    /\ UNCHANGED <<submitted, goal, report, reports>>

\* No agent is free: the task is blocked, and put back after a second.
Block ==
    /\ loop.at = "get" /\ queue # <<>> /\ \A a \in Agents : ~Free(a)
    /\ status' = [status EXCEPT ![Head(queue)] = "blocked"]
    /\ loop' = At("sleeping", Head(queue), NoAgent)
    /\ queue' = Tail(queue)
    /\ UNCHANGED <<submitted, goal, agents, report, reports>>

PutBack ==
    /\ loop.at = "sleeping"
    /\ queue' = Append(queue, loop.task)
    /\ loop' = At("get", None, NoAgent)
    /\ UNCHANGED <<submitted, goal, status, agents, report, reports>>

\* get_runtime() returns no awaitable, so triggering the agent always raises;
\* the task fails, whatever a report has made of it meanwhile.
Trigger ==
    /\ loop.at = "assigning"
    /\ status' = [status EXCEPT ![loop.task] = "failed"]
    /\ agents' = Freed(loop.agent)
    /\ loop' = At("failing", loop.task, loop.agent)
    /\ UNCHANGED <<submitted, goal, queue, report, reports>>

Retry ==
    /\ loop.at = "failing"
    /\ status' = [status EXCEPT ![loop.task] = "pending"]
    /\ queue' = Append(queue, loop.task)
    /\ loop' = At("get", None, NoAgent)
    /\ UNCHANGED <<submitted, goal, agents, report, reports>>

\* With the queue empty for a second the blocked tasks are looked through.
CheckBlockedTasks ==
    /\ loop.at = "get" /\ queue = <<>>
    /\ LET waiting == {t \in Tasks : status[t] = "blocked" /\ DependenciesMet(t, status)}
       IN  /\ status' = [t \in Tasks |-> IF t \in waiting THEN "pending" ELSE status[t]]
           /\ PutAll(waiting)
    /\ UNCHANGED <<submitted, goal, agents, loop, report, reports>>

-----------------------------------------------------------------------------
(* report_task_complete.                                                     *)

\* The task with the id of the last goal that has one.
Target(id) ==
    CHOOSE t \in Tasks : /\ t[2] = id /\ t[1] <= submitted
                         /\ \A u \in Tasks : u[2] = id /\ u[1] <= submitted => u[1] <= t[1]

Known(id) == \E t \in Tasks : t[2] = id /\ t[1] <= submitted

Profiles == {NoAgent} \cup
    {[name |-> a, registered |-> agents[a].registered] : a \in {b \in Agents : agents[b].registered > 0}}

ReportSuccess(r, id, p) ==
    /\ report[r].at = "idle" /\ reports < MaxReports /\ Known(id)
    /\ status' = [status EXCEPT ![Target(id)] = "completed"]
    /\ report' = [report EXCEPT ![r] = At("recording", Target(id), p)]
    /\ reports' = reports + 1
    /\ UNCHANGED <<submitted, goal, queue, agents, loop>>

ReportFailure(r, id, p) ==
    /\ report[r].at = "idle" /\ reports < MaxReports /\ Known(id)
    /\ status' = [status EXCEPT ![Target(id)] = "failed"]
    /\ agents' = Freed(p)
    /\ report' = [report EXCEPT ![r] = At("failing", Target(id), p)]
    /\ reports' = reports + 1
    /\ UNCHANGED <<submitted, goal, queue, loop>>

AllCompleted(g) == \A t \in TasksOf(g) : status[t] = "completed"

\* As the code must not be: dependents and goal are left to the next report.
Unlock_OnlyFrees(r) ==
    /\ report[r].at = "recording"
    /\ report' = [report EXCEPT ![r] = At("idle", None, NoAgent)]
    /\ agents' = Freed(report[r].agent)
    /\ UNCHANGED <<submitted, goal, status, queue, loop, reports>>

\* The record is made: dependents are unlocked, the goal is checked, and if it
\* is not complete the agent is freed.
Unlock(r) ==
    LET t == report[r].task
    IN  /\ report[r].at = "recording"
        /\ PutAll({u \in TasksOf(t[1]) : /\ t[2] \in DependsOn[u] /\ status[u] = "pending"
                                         /\ DependenciesMet(u, status)})
        /\ IF AllCompleted(t[1])
           THEN /\ goal' = [goal EXCEPT ![t[1]] = "completed"]
                /\ report' = [report EXCEPT ![r].at = "closing"]
                /\ UNCHANGED agents
           ELSE /\ report' = [report EXCEPT ![r] = At("idle", None, NoAgent)]
                /\ agents' = Freed(report[r].agent)
                /\ UNCHANGED goal
        /\ UNCHANGED <<submitted, status, loop, reports>>

CloseGoal(r) ==
    /\ report[r].at = "closing"
    /\ report' = [report EXCEPT ![r] = At("idle", None, NoAgent)]
    /\ agents' = Freed(report[r].agent)
    /\ UNCHANGED <<submitted, goal, status, queue, loop, reports>>

RetryReported(r) ==
    /\ report[r].at = "failing"
    /\ status' = [status EXCEPT ![report[r].task] = "pending"]
    /\ queue' = Append(queue, report[r].task)
    /\ agents' = Freed(report[r].agent)
    /\ report' = [report EXCEPT ![r] = At("idle", None, NoAgent)]
    /\ UNCHANGED <<submitted, goal, loop, reports>>

LoopStep == \/ \E a \in Agents : Assign(a)
            \/ Block \/ PutBack \/ Trigger \/ Retry \/ CheckBlockedTasks

OrchestratorNext ==
    \/ \E a \in Agents : RegisterAgent(a)
    \/ SubmitGoal
    \/ LoopStep
    \/ \E r \in Reporters :
          \/ \E id \in Ids, p \in Profiles : ReportSuccess(r, id, p) \/ ReportFailure(r, id, p)
          \/ Unlock(r) \/ CloseGoal(r) \/ RetryReported(r)

\* The loop goes round, and requests under way are finished.
OrchestratorFairness ==
    /\ WF_OrchestratorVars(LoopStep)
    /\ \A r \in Reporters : WF_OrchestratorVars(Unlock(r) \/ CloseGoal(r) \/ RetryReported(r))

OrchestratorSpec ==
    OrchestratorInit /\ [][OrchestratorNext]_OrchestratorVars /\ OrchestratorFairness

-----------------------------------------------------------------------------
Profile == [name : Agents \cup {"none"}, registered : 0 .. MaxRegistrations]

Queued(t) == \E i \in 1 .. Len(queue) : queue[i] = t
InHand(t) == \/ loop.at # "get" /\ loop.task = t
             \/ \E r \in Reporters : report[r].at = "failing" /\ report[r].task = t

\* No task is lost: one that is not completed and whose dependencies are, is
\* queued, in the hands of the loop or of a report, or about to be unlocked by
\* the report of one of its dependencies.
TaskKept(t) ==
    t[1] <= submitted /\ status[t] # "completed" /\ DependenciesMet(t, status)
        => \/ Queued(t) \/ InHand(t)
           \/ \E r \in Reporters : /\ report[r].at = "recording"
                                   /\ report[r].task[1] = t[1]
                                   /\ report[r].task[2] \in DependsOn[t]

\* When all tasks of a goal are completed the goal is, or a report that will
\* look is still under way; two reports may cross, the last one sees both.
CompletionNoticed(g) ==
    TasksOf(g) # {} /\ AllCompleted(g)
        => \/ goal[g] = "completed"
           \/ \E r \in Reporters : report[r].at = "recording" /\ report[r].task[1] = g

\* No report loses work for another: what can be started will be, and what is
\* finished is noticed (multi_agent_orchestrator.py:320-396).
NothingForgotten ==
    (\A t \in Tasks : TaskKept(t)) /\ (\A g \in 1 .. submitted : CompletionNoticed(g))
=============================================================================

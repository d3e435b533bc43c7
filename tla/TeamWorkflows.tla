--------------------------- MODULE TeamWorkflows ---------------------------
(***************************************************************************)
(* The workflows of one agent team: the execute, cancel, delete, archive   *)
(* and unarchive endpoints (routers_teams.py, and a second set in          *)
(* routers.py) and the background task that runs the members               *)
(* (workflow_executor.py).  Each of them reads a row in one step and       *)
(* writes it in a later one; nothing locks a row in between.               *)
(***************************************************************************)
EXTENDS Integers, FiniteSets

CONSTANTS
    Workflows,      \* ids of workflow rows
    Kinds,          \* config.type of the team when a workflow is started
    MaxMembers,     \* bound on the members of the team
    Missing         \* positions whose agent does not exist

ASSUME WorkflowsAssumption ==
    /\ IsFiniteSet(Workflows) /\ MaxMembers \in Nat
    /\ Kinds \subseteq {"sequential", "parallel", "branching", "unknown"}

VARIABLES
    team,       \* AgentTeam.status
    workflow,   \* AgentTeamWorkflow.status
    kind,       \* type of the team as the workflow's task was given it
    size,       \* number of its members
    task,       \* where execute_workflow_background is
    session,    \* [workflow -> [position -> what execute_agent_task returned]]
    waiting,    \* [workflow -> the members whose sessions wait for a person]
    cancelling, \* workflows a cancel request has read and not yet written
    deleting    \* workflows a delete request is about to cancel, if one is on

TeamVars == <<team, workflow, kind, size, task, session, waiting, cancelling, deleting>>

Positions == 1 .. MaxMembers
NoDelete == [on |-> FALSE, found |-> {}]

TeamInit ==
    /\ team = "active"
    /\ workflow = [w \in Workflows |-> "none"]
    /\ kind = [w \in Workflows |-> "none"] /\ size = [w \in Workflows |-> 0]
    /\ task = [w \in Workflows |-> "none"]
    /\ session = [w \in Workflows |-> [i \in Positions |-> "none"]]
    /\ waiting = [w \in Workflows |-> {}]
    /\ cancelling = {} /\ deleting = NoDelete

Active == {w \in Workflows : workflow[w] \in {"pending", "running"}}
Final == {"completed", "failed", "cancelled"}

\* The members that are run: an id without an agent is skipped.
Members(w) == 1 .. size[w] \ Missing

-----------------------------------------------------------------------------
(* The requests.                                                             *)

\* The row is committed, then the task is created.
ExecuteTeam(w) ==
    /\ workflow[w] = "none"
    /\ \E k \in Kinds, n \in 0 .. MaxMembers :
          kind' = [kind EXCEPT ![w] = k] /\ size' = [size EXCEPT ![w] = n]
    /\ workflow' = [workflow EXCEPT ![w] = "pending"]
    /\ task' = [task EXCEPT ![w] = "request"]
    /\ UNCHANGED <<team, session, waiting, cancelling, deleting>>

Launch(w) ==
    /\ task[w] = "request"
    /\ task' = [task EXCEPT ![w] = "created"]
    /\ UNCHANGED <<team, workflow, kind, size, session, waiting, cancelling, deleting>>

\* /agent-teams refuses a workflow that has ended, /agents does not.
CancelRead(w) ==
    /\ workflow[w] \notin Final \cup {"none"}
    /\ cancelling' = cancelling \cup {w}
    /\ UNCHANGED <<team, workflow, kind, size, task, session, waiting, deleting>>

CancelReadAny(w) ==
    /\ workflow[w] \in Final \ {"cancelled"}
    /\ cancelling' = cancelling \cup {w}
    /\ UNCHANGED <<team, workflow, kind, size, task, session, waiting, deleting>>

CancelWorkflow(w) ==
    /\ w \in cancelling
    /\ cancelling' = cancelling \ {w}
    /\ workflow' = [workflow EXCEPT ![w] = "cancelled"]
    /\ UNCHANGED <<team, kind, size, task, session, waiting, deleting>>

\* With cancel_workflows the active ones are cancelled; without it they refuse
\* the request.
DeleteRead(cancel) ==
    /\ ~deleting.on
    /\ cancel \/ Active = {}
    /\ deleting' = [on |-> TRUE, found |-> Active]
    /\ UNCHANGED <<team, workflow, kind, size, task, session, waiting, cancelling>>

DeleteTeam ==
    /\ deleting.on
    /\ workflow' = [w \in Workflows |-> IF w \in deleting.found THEN "cancelled" ELSE workflow[w]]
    /\ team' = "archived" /\ deleting' = NoDelete
    /\ UNCHANGED <<kind, size, task, session, waiting, cancelling>>

Archive ==
    /\ team' = "archived"
    /\ UNCHANGED <<workflow, kind, size, task, session, waiting, cancelling, deleting>>

Unarchive ==
    /\ team = "archived" /\ team' = "active"
    /\ UNCHANGED <<workflow, kind, size, task, session, waiting, cancelling, deleting>>

-----------------------------------------------------------------------------
(* execute_workflow_background.                                              *)

\* Whatever the row says by now.
BeginWorkflow(w) ==
    /\ task[w] = "created"
    /\ task' = [task EXCEPT ![w] = "running"]
    /\ workflow' = [workflow EXCEPT ![w] = "running"]
    /\ UNCHANGED <<team, kind, size, session, waiting, cancelling, deleting>>

\* execute_sequential runs a member when all before it have completed;
\* execute_parallel runs them all at once.
Due(w) ==
    {i \in Members(w) :
        /\ session[w][i] = "none"
        /\ \/ kind[w] = "parallel"
           \/ /\ kind[w] \in {"sequential", "branching"}
              /\ \A j \in Members(w) : j < i => session[w][j] = "completed"}

StartMembers(w) ==
    /\ task[w] = "running" /\ Due(w) # {}
    /\ session' = [session EXCEPT ![w] =
                      [i \in Positions |-> IF i \in Due(w) THEN "running" ELSE @[i]]]
    /\ UNCHANGED <<team, workflow, kind, size, task, waiting, cancelling, deleting>>

\* How execute_agent_task ends: run_loop's status, a time-out that leaves the
\* session as it is, or an exception.
Outcome == {"completed", "failed", "waiting_approval", "timed_out", "raised"}

EndMember(w, i, how) ==
    /\ task[w] = "running" /\ session[w][i] = "running"
    /\ session' = [session EXCEPT ![w][i] = how]
    /\ waiting' = IF how = "waiting_approval"
                  THEN [waiting EXCEPT ![w] = @ \cup {i}] ELSE waiting
    /\ UNCHANGED <<team, workflow, kind, size, task, cancelling, deleting>>

\* A person answers; the session is run on its own and waits for nobody.
Answered(w, i) ==
    /\ i \in waiting[w]
    /\ waiting' = [waiting EXCEPT ![w] = @ \ {i}]
    /\ UNCHANGED <<team, workflow, kind, size, task, session, cancelling, deleting>>

Returned(w) == {session[w][i] : i \in Members(w)} \ {"none", "running"}

\* As the code must not be: a member that did not fail has completed.
Result_FailedOnly(w) ==
    IF size[w] = 0 \/ kind[w] = "unknown" THEN "failed"
    ELSE IF kind[w] # "parallel" /\ Returned(w) \cap {"failed", "timed_out", "raised"} # {} THEN "failed"
    ELSE "completed"

\* A member's failure ends a sequence; a parallel run overlooks it.
Result(w) ==
    IF size[w] = 0 \/ kind[w] = "unknown" THEN "failed"
    ELSE IF "waiting_approval" \in Returned(w) THEN "waiting_approval"
    ELSE IF kind[w] # "parallel" /\ ~(Returned(w) \subseteq {"completed"}) THEN "failed"
    ELSE "completed"

\* As the code must not be: an exception of a member leaves the row as it is.
FinishWorkflow_Uncaught(w) ==
    /\ task[w] = "running"
    /\ Due(w) = {} /\ \A i \in Members(w) : session[w][i] # "running"
    /\ task' = [task EXCEPT ![w] = "done"]
    /\ workflow' = IF "raised" \in Returned(w) THEN workflow
                   ELSE [workflow EXCEPT ![w] = Result(w)]
    /\ UNCHANGED <<team, kind, size, session, waiting, cancelling, deleting>>

\* Nothing is left to start and nothing runs.  The row is not read again.
FinishWorkflow(w) ==
    /\ task[w] = "running"
    /\ Due(w) = {} /\ \A i \in Members(w) : session[w][i] # "running"
    /\ task' = [task EXCEPT ![w] = "done"]
    /\ workflow' = [workflow EXCEPT ![w] = Result(w)]
    /\ UNCHANGED <<team, kind, size, session, waiting, cancelling, deleting>>

\* A statement or a commit of the task itself is refused by the database: the outer
\* handler logs it and the row is left as it is.  Members use connections of their own.
LoseWorkflow(w) ==
    /\ task[w] \in {"created", "running"}
    /\ \A i \in Members(w) : session[w][i] # "running"
    /\ task' = [task EXCEPT ![w] = "lost"]
    /\ UNCHANGED <<team, workflow, kind, size, session, waiting, cancelling, deleting>>

\* The process ends; nothing starts the tasks again.
EngineDies ==
    /\ task' = [w \in Workflows |-> IF task[w] \in {"none", "done", "lost"} THEN task[w] ELSE "dead"]
    /\ cancelling' = {} /\ deleting' = NoDelete
    /\ UNCHANGED <<team, workflow, kind, size, session, waiting>>

TeamNext ==
    \/ \E w \in Workflows :
          \/ ExecuteTeam(w) \/ Launch(w)
          \/ CancelRead(w) \/ CancelReadAny(w) \/ CancelWorkflow(w)
          \/ BeginWorkflow(w) \/ StartMembers(w) \/ FinishWorkflow(w) \/ LoseWorkflow(w)
          \/ \E i \in Positions : Answered(w, i) \/ \E how \in Outcome : EndMember(w, i, how)
    \/ \E cancel \in BOOLEAN : DeleteRead(cancel)
    \/ DeleteTeam \/ Archive \/ Unarchive \/ EngineDies

\* The event loop runs the task; a member's run ends, by its time-out at the latest.
TeamFairness ==
    \A w \in Workflows :
        /\ WF_TeamVars(Launch(w)) /\ WF_TeamVars(BeginWorkflow(w))
        /\ WF_TeamVars(StartMembers(w)) /\ WF_TeamVars(FinishWorkflow(w))
        /\ \A i \in Positions : WF_TeamVars(\E how \in Outcome : EndMember(w, i, how))

TeamSpec == TeamInit /\ [][TeamNext]_TeamVars /\ TeamFairness

-----------------------------------------------------------------------------
TeamTypeOK ==
    /\ team \in {"active", "archived"}
    /\ workflow \in [Workflows -> {"none", "pending", "running", "waiting_approval"} \cup Final]
    /\ kind \in [Workflows -> Kinds \cup {"none"}] /\ size \in [Workflows -> 0 .. MaxMembers]
    /\ task \in [Workflows -> {"none", "request", "created", "running", "done", "lost", "dead"}]
    /\ session \in [Workflows -> [Positions -> Outcome \cup {"none", "running"}]]
    /\ waiting \in [Workflows -> SUBSET Positions]
    /\ cancelling \subseteq {w \in Workflows : workflow[w] # "none"}
    /\ deleting.found \subseteq Workflows /\ (deleting.found # {} => deleting.on)

\* The comment in execute_workflow_background: a workflow does not look completed
\* while an approval is outstanding, and a sequence that completed has run every
\* member it has to the end.
CompletedIsComplete ==
    \A w \in Workflows : workflow[w] = "completed" =>
        /\ waiting[w] = {}
        /\ kind[w] # "parallel" => \A i \in Members(w) : session[w][i] = "completed"

\* Every workflow that was started is settled, unless the process died or the database
\* refused what its task wrote: the task ends and the row says something else than
\* pending or running, for good.
WorkflowSettles ==
    \A w \in Workflows :
        workflow[w] # "none" ~> \/ task[w] \in {"dead", "lost"}
                                \/ [](task[w] = "done" /\ w \notin Active)
=============================================================================

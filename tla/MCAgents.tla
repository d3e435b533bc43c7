------------------------------ MODULE MCAgents ------------------------------
(***************************************************************************)
(* The model of the run "agents": the multi-agent orchestrator, one swarm  *)
(* of the swarm controller, the workflows of one team, the versions of one *)
(* agent's configuration, and the workspaces of the project builder, under *)
(* processes that follow each other and crash ("workspaces") or that live  *)
(* side by side ("workers").  They                                         *)
(* share no state, so each behaviour exercises one of them (part); the     *)
(* others rest in one initial state, in which their fairness asks nothing  *)
(* of them.                                                                *)
(***************************************************************************)
EXTENDS Orchestrator, Swarm, TeamWorkflows, AgentVersions, ProjectWorkspaces, TLC

VARIABLE part

AgentsVars == <<part, OrchestratorVars, SwarmVars, TeamVars, VersionVars, WorkspaceVars>>

AgentsInit ==
    /\ part \in {"orchestrator", "swarm", "teams", "versions", "workspaces", "workers"}
    /\ OrchestratorInit
    /\ SwarmInit /\ (part # "swarm" => mode = "parallel")
    /\ TeamInit
    /\ VersionsInit /\ (part # "versions" => config = [g \in Groups |-> CHOOSE v \in Values : TRUE])
    /\ WorkspacesInit

AgentsNext ==
    /\ UNCHANGED part
    /\ \/ /\ part = "orchestrator" /\ OrchestratorNext
          /\ UNCHANGED <<SwarmVars, TeamVars, VersionVars, WorkspaceVars>>
       \/ /\ part = "swarm" /\ SwarmNext
          /\ UNCHANGED <<OrchestratorVars, TeamVars, VersionVars, WorkspaceVars>>
       \/ /\ part = "teams" /\ TeamNext
          /\ UNCHANGED <<OrchestratorVars, SwarmVars, VersionVars, WorkspaceVars>>
       \/ /\ part = "versions" /\ VersionsNext
          /\ UNCHANGED <<OrchestratorVars, SwarmVars, TeamVars, WorkspaceVars>>
       \/ /\ part \in {"workspaces", "workers"} /\ WorkspacesNext
          /\ IF part = "workers" THEN serverCrashes' = 0 ELSE ~ shared'
          /\ UNCHANGED <<OrchestratorVars, SwarmVars, TeamVars, VersionVars>>

\* The other parts stay as they are.
Relevant == <<part, CASE part = "orchestrator" -> OrchestratorVars [] part = "swarm" -> SwarmVars
                      [] part = "teams" -> TeamVars [] part = "versions" -> VersionVars
                      [] part \in {"workspaces", "workers"} -> WorkspaceVars>>

\* Only of the teams and of the workspaces something is asked that must happen.
AgentsFairness ==
    /\ \A w \in Workflows :
          /\ WF_TeamVars(part = "teams" /\ Launch(w))
          /\ WF_TeamVars(part = "teams" /\ BeginWorkflow(w))
          /\ WF_TeamVars(part = "teams" /\ StartMembers(w))
          /\ WF_TeamVars(part = "teams" /\ FinishWorkflow(w))
          /\ \A i \in Positions :
                WF_TeamVars(part = "teams" /\ \E how \in Outcome : EndMember(w, i, how))
    /\ \A p \in Projects : WF_WorkspaceVars(BuildStep(p))
    /\ \A s \in Servers : WF_WorkspaceVars(EndOperation(s))

AgentsSpec == AgentsInit /\ [][AgentsNext]_AgentsVars /\ AgentsFairness

\* Two goals whose tasks share an id: a task and its dependent, and a third.
TwoGoals == {<<1, 1>>, <<1, 2>>, <<2, 1>>}
Second == [t \in TwoGoals |-> IF t = <<1, 2>> THEN {1} ELSE {}]
=============================================================================

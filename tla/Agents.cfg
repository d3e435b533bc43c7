\* Two goals whose task ids collide; a swarm of up to three, six agents in all; a team
\* of three, one of whom does not exist; four edits of an agent, one after the other;
\* two server processes, one crash, two projects and room for one, two requests besides.
SPECIFICATION AgentsSpec
CONSTANTS
  LastGoal = 2
  Ids = {1, 2}
  Tasks <- TwoGoals
  DependsOn <- Second
  Agents = {"a"}
  MaxRegistrations = 2
  Reporters = {"r1", "r2"}
  MaxReports = 2
  Modes = {"parallel", "pipeline", "collaborative", "consensus", "competitive"}
  MaxSize = 3
  MaxSpawned = 6
  Workflows = {1}
  Kinds = {"sequential", "parallel", "unknown"}
  MaxMembers = 3
  Missing = {2}
  Values = {0, 1}
  Requests = {1}
  MaxEdits = 4
  Servers = {"s1", "s2"}
  Folders = {"f1", "f2"}
  LastProject = 2
  ProjectLimit = 1
  MaxRequests = 2
  MaxServerCrashes = 1
VIEW Relevant
INVARIANTS NothingForgotten CompletedIsComplete VersionsRestorable LimitKept
PROPERTIES AllHeard WorkflowSettles BuildSettles
CHECK_DEADLOCK FALSE

--------------------------- MODULE ProjectWorkspaces ---------------------------
(***************************************************************************)
(* The project workspace of one user (project_builder/workspace_manager.py)*)
(* with the builds and modifications of its projects (builder_agent.py).   *)
(* Each server process keeps a cache of the workspace; all of them work on *)
(* one directory.  A manager's operation runs without suspension, so it    *)
(* meets other operations of its own process only as a whole, but those of *)
(* other processes, and a crash, also between its writes.  Loading and     *)
(* the two files of a status update are one step each: what lies between   *)
(* their writes differs in nothing the properties look at.                 *)
(***************************************************************************)
EXTENDS Integers, FiniteSets

CONSTANTS
    Servers,        \* the uvicorn processes
    Folders,        \* sanitized project names
    LastProject,    \* bound on the projects ever created
    ProjectLimit,   \* MAX_PROJECTS_PER_USER
    MaxRequests,    \* bound on the requests other than builds
    MaxServerCrashes

ASSUME WorkspaceAssumption ==
    /\ LastProject \in Nat /\ ProjectLimit \in Nat \ {0}
    /\ MaxRequests \in Nat /\ MaxServerCrashes \in Nat

VARIABLES
    folder,     \* [folder -> its .resonant/project.json]
    saved,      \* .workspace.json
    cache,      \* [server -> _workspaces[user], or NoCache]
    doing,      \* [server -> the operation it is in the middle of]
    build,      \* [project -> the coroutine that builds it]
    editing,    \* [server -> a modification that passed its check]
    lastProject,
    requests,
    serverCrashes,
    shared,     \* history: two processes have had the workspace loaded at once
    revived     \* history: projects that a promotion has set back to "building"

HistoryVars == <<shared, revived>>
WorkspaceVars == <<folder, saved, cache, doing, build, editing,
                   lastProject, requests, serverCrashes, HistoryVars>>

Projects == 1 .. LastProject

\* What a project.json says that the properties look at; Unknown in a
\* workspace's dictionary, and a directory without a project.json.
Record(p, s, st) == [id |-> p, state |-> s, status |-> st]
Unknown == Record(0, "none", "none")
NoFolder == Unknown
Orphan == Record(0, "none", "orphan")

Workspace(known, n) == [projects |-> known, total |-> n]
NoCache == Workspace([p \in Projects |-> Unknown], -1)
NoOperation == [op |-> "none", folder |-> "none", record |-> Unknown]
NoBuild == [at |-> "none", server |-> "none", folder |-> "none"]
NoEdit == [project |-> 0, folder |-> "none"]

WorkspacesInit ==
    /\ folder = [f \in Folders |-> NoFolder]
    /\ saved = Workspace([p \in Projects |-> Unknown], 0)
    /\ cache = [s \in Servers |-> NoCache]
    /\ doing = [s \in Servers |-> NoOperation]
    /\ build = [p \in Projects |-> NoBuild]
    /\ editing = [s \in Servers |-> NoEdit]
    /\ lastProject = 0 /\ requests = 0 /\ serverCrashes = 0
    /\ shared = FALSE /\ revived = {}

\* _find_project_path
Holds(f, p) == folder[f].id = p
OnDisk(p) == \E f \in Folders : Holds(f, p)
FolderOf(p) == CHOOSE f \in Folders : Holds(f, p)

Knows(s, p) == cache[s].projects[p] # Unknown
Serving(s) == doing[s] = NoOperation
Ready(s) == Serving(s) /\ cache[s] # NoCache

\* The cache of s, with r for project p, is kept and saved.
KeepAndSave(s, p, r, n) ==
    LET w == Workspace([cache[s].projects EXCEPT ![p] = r], n)
    IN cache' = [cache EXCEPT ![s] = w] /\ saved' = w

-----------------------------------------------------------------------------
(* The manager's operations.                                                 *)

\* As the code must not be: only what was saved.
Scanned_SavedOnly == Workspace(saved.projects, saved.total)

\* What was saved, and the projects that only the disk knows.
Scanned ==
    LET known == [p \in Projects |-> IF saved.projects[p] = Unknown /\ OnDisk(p)
                                     THEN folder[FolderOf(p)] ELSE saved.projects[p]]
    IN Workspace(known, Cardinality({p \in Projects : known[p] # Unknown}))

\* The first operation of a process for this user loads the workspace.
OpenWorkspace(s) ==
    /\ Serving(s) /\ cache[s] = NoCache
    /\ cache' = [cache EXCEPT ![s] = Scanned] /\ saved' = Scanned
    /\ shared' = (shared \/ \E t \in Servers : cache[t] # NoCache)
    /\ UNCHANGED <<folder, doing, build, editing, lastProject, requests, serverCrashes, revived>>

\* mkdir decides between two processes.
MakeFolder(s, f) ==
    /\ Ready(s) /\ cache[s].total < ProjectLimit
    /\ folder[f] = NoFolder /\ lastProject < LastProject
    /\ lastProject' = lastProject + 1
    /\ LET r == Record(lastProject + 1, "generated", "active")
       IN /\ folder' = [folder EXCEPT ![f] = r]
          /\ doing' = [doing EXCEPT ![s] = [op |-> "create", folder |-> f, record |-> r]]
    /\ UNCHANGED <<saved, cache, build, editing, requests, serverCrashes, HistoryVars>>

\* Only a build creates a project, and goes on at its next await.
SaveProject(s) ==
    LET r == doing[s].record
    IN /\ doing[s].op = "create"
       /\ KeepAndSave(s, r.id, r, cache[s].total + 1)
       /\ build' = [build EXCEPT ![r.id] =
                       [at |-> "created", server |-> s, folder |-> doing[s].folder]]
       /\ doing' = [doing EXCEPT ![s] = NoOperation]
       /\ UNCHANGED <<folder, editing, lastProject, requests, serverCrashes, HistoryVars>>

\* update_project_status: the record that this process has cached is written.
UpdateStatus(s, p, st) ==
    LET r == [cache[s].projects[p] EXCEPT !.status = st]
    IN /\ KeepAndSave(s, p, r, cache[s].total)
       /\ folder' = [f \in Folders |-> IF Holds(f, p) THEN r ELSE folder[f]]

\* A request of the user reaches process s.
Asked(s) == Ready(s) /\ requests < MaxRequests /\ requests' = requests + 1

NoUpdate == UNCHANGED <<folder, saved, cache>>

\* A project that the process does not know raises.
TryUpdate(s, p, st) == IF Knows(s, p) THEN UpdateStatus(s, p, st) ELSE NoUpdate

RemoveFolder(s, p) ==
    /\ Asked(s) /\ Knows(s, p)
    /\ folder' = [f \in Folders |-> IF Holds(f, p) THEN NoFolder ELSE folder[f]]
    /\ doing' = [doing EXCEPT ![s] = [op |-> "delete", folder |-> "none",
                                      record |-> cache[s].projects[p]]]
    /\ UNCHANGED <<saved, cache, build, editing, lastProject, serverCrashes, HistoryVars>>

ForgetProject(s) ==
    /\ doing[s].op = "delete"
    /\ KeepAndSave(s, doing[s].record.id, Unknown, cache[s].total - 1)
    /\ doing' = [doing EXCEPT ![s] = NoOperation]
    /\ UNCHANGED <<folder, build, editing, lastProject, requests, serverCrashes, HistoryVars>>

\* _reload_project_state: the disk's record replaces the cached one.
Reload(s, p) == cache' = [cache EXCEPT ![s].projects[p] = folder[FolderOf(p)]]

\* The snapshot hashes every file of the project before anything is written.
PromoteRead(s, p) ==
    /\ Asked(s) /\ OnDisk(p)
    /\ Reload(s, p)
    /\ doing' = [doing EXCEPT ![s] =
                    IF folder[FolderOf(p)].state = "runtime" THEN NoOperation
                    ELSE [op |-> "promote", folder |-> FolderOf(p), record |-> folder[FolderOf(p)]]]
    /\ UNCHANGED <<folder, saved, build, editing, lastProject, serverCrashes, HistoryVars>>

\* The cached record is the one promoted, also when the file cannot be written.
\* The file is the one that was read, whatever has become of it.
PromoteWrite(s) ==
    LET r == [doing[s].record EXCEPT !.state = "runtime"]
        f == doing[s].folder
    IN /\ doing[s].op = "promote"
       /\ IF folder[f].id # 0
          THEN /\ folder' = [folder EXCEPT ![f] = r] /\ KeepAndSave(s, r.id, r, cache[s].total)
               /\ revived' = IF r.status = "building" /\ ~(Holds(f, r.id) /\ folder[f].status = "building")
                             THEN revived \cup {r.id} ELSE revived
          ELSE /\ cache' = [cache EXCEPT ![s].projects[r.id] = r]
               /\ UNCHANGED <<folder, saved, revived>>
       /\ doing' = [doing EXCEPT ![s] = NoOperation]
       /\ UNCHANGED <<build, editing, lastProject, requests, serverCrashes, shared>>

\* The archive is made, then the status updated.
ArchiveRead(s, p) ==
    /\ Asked(s) /\ OnDisk(p)
    /\ doing' = [doing EXCEPT ![s] = [op |-> "archive", folder |-> "none",
                                      record |-> folder[FolderOf(p)]]]
    /\ UNCHANGED <<folder, saved, cache, build, editing, lastProject, serverCrashes, HistoryVars>>

ArchiveUpdate(s) ==
    /\ doing[s].op = "archive"
    /\ TryUpdate(s, doing[s].record.id, "archived")
    /\ doing' = [doing EXCEPT ![s] = NoOperation]
    /\ UNCHANGED <<build, editing, lastProject, requests, serverCrashes, HistoryVars>>

-----------------------------------------------------------------------------
(* Builds.  The kill switch may be found on at any of its checks.            *)

Running(p, at) == build[p].at = at /\ Ready(build[p].server)
GoOn(p, at) == build' = [build EXCEPT ![p].at = at]
EndBuild(p) == build' = [build EXCEPT ![p] = NoBuild]
Elsewhere == UNCHANGED <<doing, editing, lastProject, requests, serverCrashes, HistoryVars>>

\* The path is looked up; a project deleted meanwhile ends the build.
BeginBuild(p) ==
    /\ Running(p, "created")
    /\ IF OnDisk(p) THEN GoOn(p, "registering") ELSE EndBuild(p)
    /\ NoUpdate /\ Elsewhere

\* The kill switch, or an error: the build fails.
FailBuild(p) ==
    /\ build[p].at \in {"registering", "generating"} /\ Ready(build[p].server)
    /\ TryUpdate(build[p].server, p, "failed")
    /\ EndBuild(p) /\ Elsewhere

StartFiles(p) ==
    /\ Running(p, "registering")
    /\ TryUpdate(build[p].server, p, "building")
    /\ IF Knows(build[p].server, p) THEN GoOn(p, "generating") ELSE EndBuild(p)
    /\ Elsewhere

\* A file is written to the path the build began with; its directories are made.
WriteFile(p) ==
    /\ Running(p, "generating")
    /\ folder[build[p].folder] = NoFolder
    /\ folder' = [folder EXCEPT ![build[p].folder] = Orphan]
    /\ UNCHANGED <<saved, cache, build>> /\ Elsewhere

\* As the code must not be: a stopped build returns at once.
FinishBuild_Returns(p) ==
    /\ Running(p, "generating")
    /\ \/ TryUpdate(build[p].server, p, "completed")
       \/ NoUpdate
    /\ EndBuild(p) /\ Elsewhere

\* All files are written, or the budget or the kill switch ended the loop early.
FinishBuild(p) ==
    /\ Running(p, "generating")
    /\ TryUpdate(build[p].server, p, "completed")
    /\ EndBuild(p) /\ Elsewhere

-----------------------------------------------------------------------------
(* Modifications.                                                            *)

\* The state is read from the disk; then a language model is asked.
CheckEdit(s, p) ==
    /\ Asked(s) /\ editing[s] = NoEdit /\ OnDisk(p)
    /\ Reload(s, p)
    /\ editing' = [editing EXCEPT ![s] =
                      IF folder[FolderOf(p)].state = "runtime"
                      THEN [project |-> p, folder |-> FolderOf(p)] ELSE NoEdit]
    /\ UNCHANGED <<folder, saved, doing, build, lastProject, serverCrashes, HistoryVars>>

AbandonEdit(s) ==
    /\ Ready(s) /\ editing[s] # NoEdit
    /\ editing' = [editing EXCEPT ![s] = NoEdit]
    /\ NoUpdate /\ UNCHANGED <<doing, build, lastProject, requests, serverCrashes, HistoryVars>>

\* The directories of the files are made, whatever has become of the project.
SaveEdit(s) ==
    LET p == editing[s].project
        f == editing[s].folder
        r == [cache[s].projects[p] EXCEPT !.status = "active"]
    IN /\ Ready(s) /\ editing[s] # NoEdit
       /\ IF folder[f] # NoFolder THEN TryUpdate(s, p, "active")
          ELSE /\ folder' = [folder EXCEPT ![f] = Orphan]
               /\ IF Knows(s, p) THEN KeepAndSave(s, p, r, cache[s].total)
                                 ELSE UNCHANGED <<saved, cache>>
       /\ editing' = [editing EXCEPT ![s] = NoEdit]
       /\ UNCHANGED <<doing, build, lastProject, requests, serverCrashes, HistoryVars>>

\* A process dies with its cache and its coroutines, and is started again.
ServerDies(s) ==
    /\ serverCrashes < MaxServerCrashes
    /\ serverCrashes' = serverCrashes + 1
    /\ cache' = [cache EXCEPT ![s] = NoCache]
    /\ doing' = [doing EXCEPT ![s] = NoOperation]
    /\ editing' = [editing EXCEPT ![s] = NoEdit]
    /\ build' = [p \in Projects |-> IF build[p].server = s THEN NoBuild ELSE build[p]]
    /\ UNCHANGED <<folder, saved, lastProject, requests, HistoryVars>>

EndOperation(s) == SaveProject(s) \/ ForgetProject(s) \/ PromoteWrite(s) \/ ArchiveUpdate(s)

Operation(s) ==
    \/ OpenWorkspace(s) \/ EndOperation(s) \/ AbandonEdit(s) \/ SaveEdit(s) \/ ServerDies(s)
    \/ \E f \in Folders : MakeFolder(s, f)
    \/ \E p \in Projects :
          RemoveFolder(s, p) \/ PromoteRead(s, p) \/ ArchiveRead(s, p) \/ CheckEdit(s, p)

BuildStep(p) ==
    BeginBuild(p) \/ FailBuild(p) \/ StartFiles(p) \/ FinishBuild(p)

WorkspacesNext ==
    \/ \E s \in Servers : Operation(s)
    \/ \E p \in Projects : BuildStep(p) \/ WriteFile(p)

\* The event loop runs a coroutine that stays ready, every request has a time-out,
\* and an operation ends.
WorkspacesFairness ==
    /\ \A p \in Projects : WF_WorkspaceVars(BuildStep(p))
    /\ \A s \in Servers : WF_WorkspaceVars(EndOperation(s))

WorkspacesSpec == WorkspacesInit /\ [][WorkspacesNext]_WorkspaceVars /\ WorkspacesFairness

-----------------------------------------------------------------------------
(* Properties. *)

\* A user has more projects on the disk than allowed only if two processes have
\* had the workspace loaded at once, each with a counter of its own that the limit
\* is compared with (workspace_manager.py:333, 177): whatever a crash left between
\* the disk, the saved workspace and the counter, a process that comes after another
\* one keeps the limit.
LimitKept == shared \/ Cardinality({f \in Folders : folder[f].id # 0}) <= ProjectLimit

\* A project does not stay "building": whatever is asked of it meanwhile, in any
\* process, and however its build is stopped, the build leaves another status
\* (builder_agent.py:357), unless its process died, or a promotion on another
\* process, which had read "building", wrote that record after the build's end
\* (workspace_manager.py:479, 522).
BuildSettles ==
    \A p \in Projects :
        OnDisk(p) /\ folder[FolderOf(p)].status = "building"
            ~> \/ ~(OnDisk(p) /\ folder[FolderOf(p)].status = "building")
               \/ serverCrashes > 0 \/ p \in revived
=============================================================================

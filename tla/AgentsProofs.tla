----------------------------- MODULE AgentsProofs -----------------------------
(***************************************************************************)
(* Goals, swarms, workflows, versions and workspaces, for any number of    *)
(* each.                                                                   *)
(*                                                                         *)
(* Workflows: a row says completed only once its task is done, so no       *)
(* session changes any more (Inv); and when a sequence has nothing due and *)
(* nothing running, a member that never ran would have a first one among   *)
(* them, and that one would be due (FirstMember, NothingLeft).             *)
(*                                                                         *)
(* Versions, while one request is under way at a time: what it has read is *)
(* what the row still says, so the number it gives out is above all        *)
(* others.                                                                 *)
(*                                                                         *)
(* Workspaces, while one process serves the user: the workspace it has     *)
(* loaded counts the projects it knows, and knows all on the disk but the  *)
(* one it is creating (Found, Counted); each way a crash cuts an operation *)
(* in two is mended when the next process loads the workspace.             *)
(*                                                                         *)
(* The orchestrator: a task that is neither waiting nor completed is in    *)
(* the hands of the loop or of a report (Held).                            *)
(*                                                                         *)
(* A swarm: while the agents are asked one by one and the table is not     *)
(* moved together, every member the iterator has passed was asked          *)
(* (HeardInv).                                                             *)
(***************************************************************************)
EXTENDS TeamWorkflows, AgentVersions, ProjectWorkspaces, Orchestrator, Swarm, TLAPS,
        FiniteSetTheorems, SequenceTheorems, WellFoundedInduction

Places == {"none", "request", "created", "running", "done", "lost", "dead"}
Sessions == Outcome \cup {"none", "running"}

Types ==
    /\ kind \in [Workflows -> Kinds \cup {"none"}]
    /\ size \in [Workflows -> 0 .. MaxMembers]
    /\ workflow \in [Workflows -> {"none", "pending", "running", "waiting_approval"} \cup Final]
    /\ task \in [Workflows -> Places]
    /\ session \in [Workflows -> [Positions -> Sessions]]
    /\ waiting \in [Workflows -> SUBSET Positions]

\* A workflow that was started has a type, and one that was not has no session.
Started(w) ==
    /\ workflow[w] = "none" => task[w] = "none"
    /\ task[w] # "none" => kind[w] \in Kinds
    /\ task[w] = "none" => \A i \in Positions : session[w][i] = "none"
    /\ \A i \in Positions : session[w][i] # "none" => i \in Members(w)

\* Who waits for a person has returned so.
Waits(w) == \A i \in waiting[w] : session[w][i] = "waiting_approval"

\* What a completed workflow has behind it.
Complete(w) ==
    workflow[w] = "completed" =>
        /\ task[w] = "done" /\ waiting[w] = {}
        /\ kind[w] # "parallel" => \A i \in Members(w) : session[w][i] = "completed"

Inv == Types /\ \A w \in Workflows : Started(w) /\ Waits(w) /\ Complete(w)

-----------------------------------------------------------------------------
(* A sequence that can go no further.                                        *)

LEMMA FirstMember ==
    ASSUME NEW T, T \subseteq Nat, T # {}
    PROVE  \E i \in T : \A j \in T : ~(j < i)
<1> DEFINE R == OpToRel(<, Nat)
<1>1. PICK i \in T : \A j \in T : ~(<<j, i>> \in R)
  <2> HIDE DEF R
  <2>1. IsWellFoundedOn(R, Nat)
    BY NatLessThanWellFounded DEF R
  <2> QED
    BY <2>1, WFMin
<1>2. ASSUME NEW j \in T, j < i
      PROVE  FALSE
  <2>1. <<j, i>> \in Nat \X Nat /\ <<j, i>>[1] < <<j, i>>[2]
    BY <1>2
  <2>2. <<j, i>> \in R
    BY <2>1 DEF OpToRel
  <2> QED
    BY <1>1, <2>2
<1> QED
  BY <1>2

LEMMA NothingLeft ==
    ASSUME Types, NEW w \in Workflows, Due(w) = {}, kind[w] \in {"sequential", "branching"},
           \A i \in Members(w) : session[w][i] \in {"none", "completed"}
    PROVE  \A i \in Members(w) : session[w][i] = "completed"
<1> DEFINE T == {i \in Members(w) : session[w][i] = "none"}
<1>1. T \subseteq Nat
  BY DEF Members, Types
<1>2. CASE T # {}
  <2>1. PICK i \in T : \A j \in T : ~(j < i)
    BY <1>1, <1>2, FirstMember
  <2>2. \A j \in Members(w) : j < i => session[w][j] = "completed"
    BY <2>1
  <2>3. i \in Due(w)
    BY <2>1, <2>2 DEF Due
  <2> QED
    BY <2>3
<1> QED
  BY <1>2

-----------------------------------------------------------------------------
(* The requests write the row of the team, of a workflow, or of several.     *)

\* A row set to anything but completed has nothing to show for it, and a task
\* that is done stays so.
MayMove(w) ==
    /\ workflow'[w] = workflow[w] \/ workflow'[w] \in {"running", "cancelled"}
    /\ task'[w] = task[w] \/ (task[w] \notin {"none", "done"} /\ task'[w] # "none")
    /\ waiting'[w] \subseteq waiting[w]

LEMMA RowsKeep ==
    ASSUME Inv, UNCHANGED <<kind, size, session>>, Types', \A w \in Workflows : MayMove(w)
    PROVE  Inv'
<1> SUFFICES ASSUME NEW w \in Workflows PROVE (Started(w) /\ Waits(w) /\ Complete(w))'
  BY DEF Inv
<1>2. Members(w)' = Members(w)
  BY DEF Members
<1>3. Started(w)'
  BY <1>2 DEF Inv, Started, MayMove
<1>4. Waits(w)'
  BY DEF Inv, Waits, MayMove
<1>5. Complete(w)'
  BY <1>2 DEF Inv, Complete, MayMove
<1> QED
  BY <1>3, <1>4, <1>5

\* The requests and the death of the process.
LEMMA RequestsKeep ==
    ASSUME Inv,
           \/ \E w \in Workflows : \/ Launch(w) \/ CancelRead(w) \/ CancelReadAny(w)
                                   \/ CancelWorkflow(w) \/ LoseWorkflow(w)
           \/ \E cancel \in BOOLEAN : DeleteRead(cancel)
           \/ DeleteTeam \/ Archive \/ Unarchive \/ EngineDies
    PROVE  Inv'
<1>1. ASSUME NEW w \in Workflows, Launch(w)
      PROVE  Inv'
  <2>1. /\ task[w] = "request" /\ task' = [task EXCEPT ![w] = "created"]
        /\ UNCHANGED <<kind, size, session, workflow, waiting>>
    BY <1>1 DEF Launch
  <2>2. Types'
    BY <2>1 DEF Inv, Types, Places
  <2>3. \A v \in Workflows : MayMove(v)
    BY <2>1 DEF MayMove, Inv, Types
  <2> QED
    BY <2>1, <2>2, <2>3, RowsKeep
<1>2. CASE \/ \E w \in Workflows : CancelRead(w) \/ CancelReadAny(w)
           \/ \E cancel \in BOOLEAN : DeleteRead(cancel)
           \/ Archive \/ Unarchive
  <2>1. UNCHANGED <<kind, size, session, workflow, waiting, task>>
    BY <1>2 DEF CancelRead, CancelReadAny, DeleteRead, Archive, Unarchive
  <2>2. Types' /\ \A v \in Workflows : MayMove(v)
    BY <2>1 DEF MayMove, Inv, Types
  <2> QED
    BY <2>1, <2>2, RowsKeep
<1>3. CASE DeleteTeam \/ \E w \in Workflows : CancelWorkflow(w)
  <2>1. UNCHANGED <<kind, size, session, waiting, task>>
    BY <1>3 DEF DeleteTeam, CancelWorkflow
  <2>2. \A v \in Workflows : workflow'[v] = workflow[v] \/ workflow'[v] = "cancelled"
    BY <1>3 DEF DeleteTeam, CancelWorkflow, Inv, Types
  <2>3. workflow' \in [Workflows -> {"none", "pending", "running", "waiting_approval"} \cup Final]
    BY <1>3 DEF DeleteTeam, CancelWorkflow, Inv, Types, Final
  <2>4. Types'
    BY <2>1, <2>3 DEF Inv, Types
  <2>5. \A v \in Workflows : MayMove(v)
    BY <2>1, <2>2 DEF MayMove
  <2> QED
    BY <2>1, <2>4, <2>5, RowsKeep
<1>4. CASE EngineDies
  <2>1. /\ UNCHANGED <<kind, size, session, workflow, waiting>>
        /\ task' = [w \in Workflows |-> IF task[w] \in {"none", "done", "lost"} THEN task[w] ELSE "dead"]
    BY <1>4 DEF EngineDies
  <2>2. Types'
    BY <2>1 DEF Inv, Types, Places
  <2>3. \A v \in Workflows : MayMove(v)
    BY <2>1 DEF MayMove
  <2> QED
    BY <2>1, <2>2, <2>3, RowsKeep
<1>5. ASSUME NEW w \in Workflows, LoseWorkflow(w)
      PROVE  Inv'
  <2>1. /\ task[w] \in {"created", "running"} /\ task' = [task EXCEPT ![w] = "lost"]
        /\ UNCHANGED <<kind, size, session, workflow, waiting>>
    BY <1>5 DEF LoseWorkflow
  <2>2. Types'
    BY <2>1 DEF Inv, Types, Places
  <2>3. \A v \in Workflows : MayMove(v)
    BY <2>1 DEF MayMove, Inv, Types
  <2> QED
    BY <2>1, <2>2, <2>3, RowsKeep
<1> QED
  BY <1>1, <1>2, <1>3, <1>4, <1>5

LEMMA AnsweredKeeps ==
    ASSUME Inv, NEW w \in Workflows, NEW i \in Positions, Answered(w, i)
    PROVE  Inv'
<1>1. /\ waiting' = [waiting EXCEPT ![w] = @ \ {i}]
      /\ UNCHANGED <<kind, size, session, workflow, task>>
  BY DEF Answered
<1>2. Types'
  BY <1>1 DEF Inv, Types
<1>3. \A v \in Workflows : MayMove(v)
  BY <1>1 DEF MayMove, Inv, Types
<1> QED
  BY <1>1, <1>2, <1>3, RowsKeep

LEMMA BeginKeeps ==
    ASSUME Inv, NEW w \in Workflows, BeginWorkflow(w)
    PROVE  Inv'
<1>1. /\ task[w] = "created" /\ task' = [task EXCEPT ![w] = "running"]
      /\ workflow' = [workflow EXCEPT ![w] = "running"]
      /\ UNCHANGED <<kind, size, session, waiting>>
  BY DEF BeginWorkflow
<1>2. Types'
  <2>1. workflow' \in [Workflows -> {"none", "pending", "running", "waiting_approval"} \cup Final]
    BY <1>1 DEF Inv, Types
  <2>2. task' \in [Workflows -> Places]
    BY <1>1 DEF Inv, Types, Places
  <2> QED
    BY <1>1, <2>1, <2>2 DEF Inv, Types
<1>3. \A v \in Workflows : MayMove(v)
  BY <1>1 DEF MayMove, Inv, Types
<1> QED
  BY <1>1, <1>2, <1>3, RowsKeep

-----------------------------------------------------------------------------
(* The start of a workflow, and the task that runs it.                       *)

\* One workflow at a time: the others are as they were.
LEMMA Alone ==
    ASSUME Inv, NEW w \in Workflows, Types', (Started(w) /\ Waits(w) /\ Complete(w))',
           \A v \in Workflows \ {w} :
              /\ kind'[v] = kind[v] /\ size'[v] = size[v] /\ workflow'[v] = workflow[v]
              /\ task'[v] = task[v] /\ session'[v] = session[v] /\ waiting'[v] = waiting[v]
    PROVE  Inv'
<1> SUFFICES ASSUME NEW v \in Workflows \ {w} PROVE (Started(v) /\ Waits(v) /\ Complete(v))'
  BY DEF Inv
<1>1. Members(v)' = Members(v)
  BY DEF Members
<1> QED
  BY <1>1 DEF Inv, Started, Waits, Complete

LEMMA ExecuteKeeps ==
    ASSUME Inv, NEW w \in Workflows, ExecuteTeam(w)
    PROVE  Inv'
<1>1. PICK k \in Kinds, n \in 0 .. MaxMembers :
          kind' = [kind EXCEPT ![w] = k] /\ size' = [size EXCEPT ![w] = n]
  BY DEF ExecuteTeam
<1>2. /\ workflow[w] = "none" /\ workflow' = [workflow EXCEPT ![w] = "pending"]
      /\ task' = [task EXCEPT ![w] = "request"] /\ UNCHANGED <<session, waiting>>
  BY DEF ExecuteTeam
<1>3. Types'
  <2>1. kind' \in [Workflows -> Kinds \cup {"none"}] /\ size' \in [Workflows -> 0 .. MaxMembers]
    BY <1>1 DEF Inv, Types
  <2>2. task' \in [Workflows -> Places]
    BY <1>2 DEF Inv, Types, Places
  <2> QED
    BY <1>2, <2>1, <2>2 DEF Inv, Types
<1>4. \A i \in Positions : session[w][i] = "none"
  BY <1>2 DEF Inv, Started
<1>5. Started(w)'
  BY <1>1, <1>2, <1>4 DEF Inv, Types, Started
<1>6. Waits(w)' /\ Complete(w)'
  BY <1>2 DEF Inv, Types, Waits, Complete
<1> QED
  BY <1>1, <1>2, <1>3, <1>5, <1>6, Alone DEF Inv, Types

LEMMA StartMembersKeeps ==
    ASSUME Inv, NEW w \in Workflows, StartMembers(w)
    PROVE  Inv'
<1>1. /\ task[w] = "running" /\ UNCHANGED <<workflow, kind, size, task, waiting>>
      /\ session' = [session EXCEPT ![w] =
                        [i \in Positions |-> IF i \in Due(w) THEN "running" ELSE @[i]]]
  BY DEF StartMembers
<1>2. Types'
  BY <1>1 DEF Inv, Types, Sessions
<1>3. \A i \in Positions : session'[w][i] = IF i \in Due(w) THEN "running" ELSE session[w][i]
  BY <1>1 DEF Inv, Types
<1>4. Members(w)' = Members(w) /\ \A i \in Due(w) : i \in Members(w) /\ session[w][i] = "none"
  BY <1>1 DEF Members, Due
<1>5. Started(w)'
  BY <1>1, <1>3, <1>4 DEF Inv, Started
<1>6. Waits(w)'
  BY <1>1, <1>3, <1>4 DEF Inv, Types, Waits
<1>7. Complete(w)'
  BY <1>1 DEF Inv, Complete
<1> QED
  BY <1>1, <1>2, <1>5, <1>6, <1>7, Alone DEF Inv, Types

LEMMA EndMemberKeeps ==
    ASSUME Inv, NEW w \in Workflows, NEW i \in Positions, NEW how \in Outcome, EndMember(w, i, how)
    PROVE  Inv'
<1>1. /\ task[w] = "running" /\ session[w][i] = "running"
      /\ UNCHANGED <<workflow, kind, size, task>>
      /\ session' = [session EXCEPT ![w][i] = how]
      /\ waiting' = IF how = "waiting_approval"
                    THEN [waiting EXCEPT ![w] = @ \cup {i}] ELSE waiting
  BY DEF EndMember
<1>2. Types'
  <2>1. session' \in [Workflows -> [Positions -> Sessions]]
    BY <1>1 DEF Inv, Types, Sessions
  <2>2. waiting' \in [Workflows -> SUBSET Positions]
    BY <1>1 DEF Inv, Types
  <2> QED
    BY <1>1, <2>1, <2>2 DEF Inv, Types
<1>3. \A j \in Positions : session'[w][j] = IF j = i THEN how ELSE session[w][j]
  BY <1>1 DEF Inv, Types
<1>4. Members(w)' = Members(w)
  BY <1>1 DEF Members
<1>5. Started(w)'
  BY <1>1, <1>3, <1>4 DEF Inv, Started, Outcome
<1>6. Waits(w)'
  <2>1. waiting'[w] \subseteq waiting[w] \cup (IF how = "waiting_approval" THEN {i} ELSE {})
    BY <1>1 DEF Inv, Types
  <2>2. waiting[w] \subseteq Positions /\ i \notin waiting[w]
    BY <1>1 DEF Inv, Types, Waits
  <2> QED
    BY <1>3, <2>1, <2>2 DEF Inv, Waits
<1>7. Complete(w)'
  BY <1>1 DEF Inv, Complete
<1>8. \A v \in Workflows \ {w} : session'[v] = session[v] /\ waiting'[v] = waiting[v]
  BY <1>1 DEF Inv, Types
<1> QED
  BY <1>1, <1>2, <1>5, <1>6, <1>7, <1>8, Alone

LEMMA FinishKeeps ==
    ASSUME Inv, NEW w \in Workflows, FinishWorkflow(w)
    PROVE  Inv'
<1>1. /\ task[w] = "running" /\ Due(w) = {} /\ \A i \in Members(w) : session[w][i] # "running"
      /\ task' = [task EXCEPT ![w] = "done"] /\ workflow' = [workflow EXCEPT ![w] = Result(w)]
      /\ UNCHANGED <<kind, size, session, waiting>>
  BY DEF FinishWorkflow
<1>2. Result(w) \in Final \cup {"waiting_approval"}
  BY DEF Result, Final
<1>3. Types'
  <2>1. workflow' \in [Workflows -> {"none", "pending", "running", "waiting_approval"} \cup Final]
    BY <1>1, <1>2 DEF Inv, Types
  <2>2. task' \in [Workflows -> Places]
    BY <1>1 DEF Inv, Types, Places
  <2> QED
    BY <1>1, <2>1, <2>2 DEF Inv, Types
<1>4. Members(w)' = Members(w)
  BY <1>1 DEF Members
<1>5. Started(w)' /\ Waits(w)'
  BY <1>1, <1>2, <1>4 DEF Inv, Types, Started, Waits, Final
<1>6. ASSUME Result(w) = "completed"
      PROVE  /\ waiting[w] = {}
             /\ kind[w] # "parallel" => \A i \in Members(w) : session[w][i] = "completed"
  <2>1. size[w] # 0 /\ kind[w] # "unknown" /\ "waiting_approval" \notin Returned(w)
    BY <1>6 DEF Result
  <2>2. waiting[w] = {}
    <3> SUFFICES ASSUME NEW i \in waiting[w] PROVE FALSE
      OBVIOUS
    <3>1. i \in Positions /\ session[w][i] = "waiting_approval"
      BY DEF Inv, Types, Waits
    <3>2. i \in Members(w)
      BY <3>1 DEF Inv, Started
    <3> QED
      BY <2>1, <3>1, <3>2 DEF Returned
  <2>3. CASE kind[w] # "parallel"
    <3>1. Returned(w) \subseteq {"completed"}
      BY <1>6, <2>1, <2>3 DEF Result
    <3>2. \A i \in Members(w) : session[w][i] \in {"none", "completed"}
      BY <1>1, <3>1 DEF Returned
    <3>3. kind[w] \in {"sequential", "branching"}
      BY <1>1, <2>1, <2>3, WorkflowsAssumption DEF Inv, Started
    <3> QED
      BY <1>1, <2>2, <3>2, <3>3, NothingLeft DEF Inv
  <2> QED
    BY <2>2, <2>3
<1>7. Complete(w)'
  BY <1>1, <1>4, <1>6 DEF Inv, Types, Complete
<1>8. \A v \in Workflows \ {w} : workflow'[v] = workflow[v] /\ task'[v] = task[v]
  BY <1>1 DEF Inv, Types
<1> QED
  BY <1>1, <1>3, <1>5, <1>7, <1>8, Alone

-----------------------------------------------------------------------------
(* The theorem.                                                              *)

LEMMA InvInit == TeamInit => Inv
<1> SUFFICES ASSUME TeamInit PROVE Inv
  OBVIOUS
<1>1. Types
  BY WorkflowsAssumption DEF TeamInit, Types, Places, Sessions
<1>2. \A w \in Workflows : Started(w) /\ Waits(w) /\ Complete(w)
  BY DEF TeamInit, Started, Waits, Complete
<1> QED
  BY <1>1, <1>2 DEF Inv

LEMMA InvStep == Inv /\ [TeamNext]_TeamVars => Inv'
<1> SUFFICES ASSUME Inv, [TeamNext]_TeamVars PROVE Inv'
  OBVIOUS
<1>1. CASE UNCHANGED TeamVars
  BY <1>1 DEF TeamVars, Inv, Types, Started, Waits, Complete, Members
<1>2. CASE \E w \in Workflows : ExecuteTeam(w) \/ BeginWorkflow(w) \/ StartMembers(w) \/ FinishWorkflow(w)
  BY <1>2, ExecuteKeeps, BeginKeeps, StartMembersKeeps, FinishKeeps
<1>3. CASE \E w \in Workflows : \E i \in Positions :
              Answered(w, i) \/ \E how \in Outcome : EndMember(w, i, how)
  BY <1>3, AnsweredKeeps, EndMemberKeeps
<1>4. CASE \/ \E w \in Workflows : \/ Launch(w) \/ CancelRead(w) \/ CancelReadAny(w)
                                   \/ CancelWorkflow(w) \/ LoseWorkflow(w)
           \/ \E cancel \in BOOLEAN : DeleteRead(cancel)
           \/ DeleteTeam \/ Archive \/ Unarchive \/ EngineDies
  BY <1>4, RequestsKeep
<1> QED
  BY <1>1, <1>2, <1>3, <1>4 DEF TeamNext

\* No team workflow looks completed while a member's approval is outstanding, and
\* a sequence that does has run every member that exists to the end, whatever is
\* cancelled, deleted or archived meanwhile and wherever the process dies
\* (workflow_executor.py: execute_workflow_background).
THEOREM CompletedAlwaysComplete == TeamSpec => []CompletedIsComplete
<1>1. Inv => CompletedIsComplete
  BY DEF Inv, Complete, CompletedIsComplete
<1> QED
  BY InvInit, InvStep, <1>1, PTL DEF TeamSpec
-----------------------------------------------------------------------------
(* The versions of an agent.  While one request is under way at a time, what *)
(* it has read is what the row still says, so the number it gives out is     *)
(* above all that were given out before.                                     *)

OneRequest == \A q, r \in Requests : q = r

Rows == [number : Nat, snapshot : Configs, hash : Values \X Values]

\* What a request has read is current.
Current(r) ==
    edit[r] # Idle => /\ edit[r].version = version /\ edit[r].config = config
                      /\ edit[r].hash = hash /\ edit[r].snapshot \in Configs

VersionsInv ==
    /\ version \in Nat /\ config \in Configs /\ hash \in Values \X Values
    /\ history \in Seq(Rows)
    /\ DOMAIN edit = Requests /\ \A r \in Requests : Current(r)
    /\ VersionsRestorable

LEMMA RowType ==
    ASSUME NEW n \in Nat, NEW c \in Configs
    PROVE  Row(n, c) \in Rows /\ Row(n, c).number = n /\ Manifest(c) \in Values \X Values
BY DEF Row, Rows, Manifest, Configs, Groups

\* A row with the next number.
LEMMA NextRow ==
    ASSUME VersionsInv, NEW row \in Rows, row.number = version + 1,
           history' = Append(history, row), version' = version + 1
    PROVE  history' \in Seq(Rows) /\ VersionsRestorable'
<1>1. PICK k : k = Len(history)
  OBVIOUS
<1>2. history \in Seq(Rows) /\ k \in Nat /\ DOMAIN history = 1 .. k
  BY <1>1, LenProperties DEF VersionsInv
<1>3. /\ history' \in Seq(Rows) /\ Len(history') = k + 1
      /\ \A i \in 1 .. k : history'[i] = history[i]
      /\ history'[k + 1] = row
  BY <1>1, <1>2, AppendProperties
<1>4. DOMAIN history' = 1 .. k + 1
  BY <1>3, LenProperties
<1>5. \A i \in 1 .. k : history[i].number <= version /\ history[i].number \in Nat
  <2>1. \A i \in 1 .. k : history[i] \in Rows
    BY <1>1, <1>2, ElementOfSeq
  <2> QED
    BY <1>2, <2>1 DEF VersionsInv, VersionsRestorable, Rows
<1>6. \A i \in 1 .. k + 1 : i \in 1 .. k \/ i = k + 1
  BY <1>2
<1>7. version \in Nat
  BY DEF VersionsInv
<1>8. \A i \in 1 .. k + 1 : history'[i].number <= version + 1
  BY <1>3, <1>5, <1>6, <1>7
<1>9. \A i, j \in 1 .. k : i # j => history[i].number # history[j].number
  BY <1>2 DEF VersionsInv, VersionsRestorable
<1>10. \A i, j \in 1 .. k + 1 : i # j => history'[i].number # history'[j].number
  BY <1>3, <1>5, <1>6, <1>7, <1>9
<1> QED
  BY <1>3, <1>4, <1>8, <1>10 DEF VersionsRestorable

\* A commit that keeps the number, or makes it the next one, with its row or without.
LEMMA CommitKeeps ==
    ASSUME VersionsInv, OneRequest, NEW r \in Requests, edit[r] # Idle,
           NEW c \in Configs, NEW n, NEW h \in Values \X Values, Commit(r, c, n, h),
           \/ n = version /\ UNCHANGED history
           \/ n = version + 1 /\ (UNCHANGED history \/ history' = Append(history, Row(n, c)))
    PROVE  VersionsInv'
<1>1. edit[r].version = version /\ edit[r].config = config /\ edit[r].hash = hash
  BY DEF VersionsInv, Current
<1>2. version' = n /\ hash' = h
  BY <1>1 DEF Commit
<1>3. config' \in Configs
  BY DEF Commit, VersionsInv, Configs
<1>4. DOMAIN edit' = Requests /\ \A q \in Requests : edit'[q] = Idle
  BY DEF Commit, OneRequest, VersionsInv
<1>5. version \in Nat /\ n \in Nat /\ version <= n
  BY DEF VersionsInv
<1>6. history' \in Seq(Rows) /\ VersionsRestorable'
  <2>1. CASE UNCHANGED history
    <3>1. \A i \in DOMAIN history : history[i].number \in Nat
      <4>1. DOMAIN history = 1 .. Len(history) /\ history \in Seq(Rows)
        BY LenProperties DEF VersionsInv
      <4>2. \A i \in DOMAIN history : history[i] \in Rows
        BY <4>1, ElementOfSeq
      <4> QED
        BY <4>2 DEF Rows
    <3>2. \A i \in DOMAIN history : history[i].number <= n
      BY <1>5, <3>1 DEF VersionsInv, VersionsRestorable
    <3> QED
      BY <1>2, <2>1, <3>2 DEF VersionsInv, VersionsRestorable
  <2>2. CASE n = version + 1 /\ history' = Append(history, Row(n, c))
    <3>1. PICK row \in Rows : row = Row(n, c) /\ row.number = version + 1
      BY <1>5, <2>2, RowType
    <3> QED
      BY <1>2, <2>2, <3>1, NextRow
  <2> QED
    BY <2>1, <2>2
<1> QED
  BY <1>2, <1>3, <1>4, <1>5, <1>6 DEF VersionsInv, Current

LEMMA OpenKeeps ==
    ASSUME VersionsInv, NEW r \in Requests, NEW at \in {"edit", "restore"}, NEW snapshot \in Configs,
           Open(r, Loaded(at, snapshot))
    PROVE  VersionsInv'
<1>1. /\ DOMAIN edit' = Requests /\ edit'[r] = Loaded(at, snapshot)
      /\ \A q \in Requests : q # r => edit'[q] = edit[q]
      /\ UNCHANGED <<config, version, hash, history>>
  BY DEF Open, VersionsInv
<1>2. \A q \in Requests : Current(q)'
  BY <1>1 DEF VersionsInv, Current, Loaded
<1> QED
  BY <1>1, <1>2 DEF VersionsInv, VersionsRestorable

\* A row is added when the hash is a new one, and only then a number given out.
LEMMA RehashKeeps ==
    ASSUME VersionsInv, OneRequest, NEW r \in Requests, edit[r] # Idle,
           NEW c \in Configs, Rehash(r, c)
    PROVE  VersionsInv'
<1>1. edit[r].version = version /\ version \in Nat
  BY DEF VersionsInv, Current
<1>2. Manifest(c) \in Values \X Values
  BY RowType, <1>1
<1> QED
  BY <1>1, <1>2, CommitKeeps DEF Rehash, Recorded, NextVersion

LEMMA VersionsStep ==
    OneRequest /\ VersionsInv /\ [VersionsNext]_VersionVars => VersionsInv'
<1> SUFFICES ASSUME OneRequest, VersionsInv, [VersionsNext]_VersionVars PROVE VersionsInv'
  OBVIOUS
<1>1. CASE UNCHANGED VersionVars
  BY <1>1 DEF VersionVars, VersionsInv, Current, VersionsRestorable
<1>2. ASSUME NEW r \in Requests, Load(r)
      PROVE  VersionsInv'
  BY <1>2, OpenKeeps DEF Load, VersionsInv
<1>3. ASSUME NEW r \in Requests, NEW i \in DOMAIN history, LoadVersion(r, i)
      PROVE  VersionsInv'
  <2>1. DOMAIN history = 1 .. Len(history) /\ history \in Seq(Rows)
    BY LenProperties DEF VersionsInv
  <2>2. history[i].snapshot \in Configs
    <3>1. history[i] \in Rows
      BY <2>1, ElementOfSeq
    <3> QED
      BY <3>1 DEF Rows
  <2> QED
    BY <1>3, <2>2, OpenKeeps DEF LoadVersion
<1>4. ASSUME NEW r \in Requests, edit[r].at \in {"edit", "restore"}
      PROVE  /\ edit[r] # Idle /\ edit[r].version = version /\ version \in Nat
             /\ edit[r].config = config /\ config \in Configs /\ edit[r].snapshot \in Configs
             /\ edit[r].hash = hash /\ hash \in Values \X Values
  <2>1. edit[r] # Idle
    BY <1>4 DEF Idle
  <2> QED
    BY <2>1 DEF VersionsInv, Current
<1>5. ASSUME NEW r \in Requests, Patch(r)
      PROVE  VersionsInv'
  <2>1. edit[r].at \in {"edit", "restore"}
    BY <1>5 DEF Patch
  <2>2. PICK c \in Configs :
            \/ /\ Commit(r, c, NextVersion(r), Manifest(c)) /\ Recorded(r, c, NextVersion(r))
            \/ /\ Commit(r, c, edit[r].version, edit[r].hash) /\ UNCHANGED history
    BY <1>5 DEF Patch
  <2>3. Manifest(c) \in Values \X Values
    BY RowType, <1>4, <2>1
  <2> QED
    BY <1>4, <2>1, <2>2, <2>3, CommitKeeps DEF Recorded, NextVersion
<1>6. ASSUME NEW r \in Requests, UpdateMode(r)
      PROVE  VersionsInv'
  <2>1. edit[r].at \in {"edit", "restore"} /\ UNCHANGED history
    BY <1>6 DEF UpdateMode
  <2>2. PICK v \in Values : Commit(r, [edit[r].config EXCEPT !["extra"] = v],
                                   edit[r].version, edit[r].hash)
    BY <1>6 DEF UpdateMode
  <2>3. PICK c \in Configs : c = [edit[r].config EXCEPT !["extra"] = v]
    BY <1>4, <2>1 DEF Configs
  <2> QED
    BY <1>4, <2>1, <2>2, <2>3, CommitKeeps
<1>7. ASSUME NEW r \in Requests, UpdateSettings(r) \/ RegenerateHash(r)
      PROVE  VersionsInv'
  <2>1. edit[r].at \in {"edit", "restore"} /\ \E c \in Configs : Rehash(r, c)
    BY <1>4, <1>7 DEF UpdateSettings, RegenerateHash
  <2> QED
    BY <1>4, <2>1, RehashKeeps
<1>8. ASSUME NEW r \in Requests, Restore(r)
      PROVE  VersionsInv'
  <2>1. edit[r].at \in {"edit", "restore"}
    BY <1>8 DEF Restore
  <2>2. PICK c \in Configs : c = edit[r].snapshot
    BY <1>4, <2>1
  <2>3. /\ Commit(r, c, version + 1, Manifest(c))
        /\ UNCHANGED history \/ history' = Append(history, Row(version + 1, c))
    BY <1>4, <1>8, <2>1, <2>2 DEF Restore, Recorded, NextVersion
  <2>4. Manifest(c) \in Values \X Values
    BY RowType, <1>4, <2>1
  <2> QED
    BY <1>4, <2>1, <2>3, <2>4, CommitKeeps
<1> QED
  BY <1>1, <1>2, <1>3, <1>5, <1>6, <1>7, <1>8 DEF VersionsNext

LEMMA VersionsStart == VersionsInit => VersionsInv
<1> SUFFICES ASSUME VersionsInit PROVE VersionsInv
  OBVIOUS
<1>1. PICK c \in Configs : /\ config = c /\ version = 1 /\ hash = Manifest(c)
                           /\ history = <<Row(1, c)>>
                           /\ edit = [r \in Requests |-> Idle]
  BY DEF VersionsInit
<1>2. Row(1, c) \in Rows /\ Row(1, c).number = 1 /\ Manifest(c) \in Values \X Values
  BY RowType
<1>3. history \in Seq(Rows) /\ DOMAIN history = {1} /\ history[1].number = 1
  BY <1>1, <1>2
<1> QED
  BY <1>1, <1>2, <1>3 DEF VersionsInv, VersionsRestorable, Current

\* As long as edits and restores of an agent do not overlap, each of its versions
\* can be found by its number, for ever: every row has a number of its own, and no
\* number is given out again, however edits with and without a row, restores and
\* re-hashings follow one another (routers.py:3496).
THEOREM VersionsStayRestorable == OneRequest => (VersionsSpec => []VersionsRestorable)
<1>1. VersionsInv => VersionsRestorable
  BY DEF VersionsInv
<1> SUFFICES ASSUME OneRequest PROVE VersionsSpec => []VersionsRestorable
  OBVIOUS
<1>2. VersionsInv /\ [VersionsNext]_VersionVars => VersionsInv'
  BY VersionsStep
<1> QED
  BY VersionsStart, <1>1, <1>2, PTL DEF VersionsSpec
-----------------------------------------------------------------------------
(* The workspaces of the project builder.  As long as no two processes have  *)
(* had a user's workspace loaded at once, the one that has it knows every    *)
(* project on the disk, but for the one it is creating, and counts those it  *)
(* knows; so the count, which is what the limit is compared with, is never   *)
(* below the number on the disk.                                             *)

Stages == {"none", "generated", "runtime"}
Conditions == {"none", "orphan", "active", "building", "completed", "failed", "archived"}
ProjectRecords == [id : Projects \cup {0}, state : Stages, status : Conditions]
WorkspaceRecords == [projects : [Projects -> ProjectRecords], total : Int]

KnownIn(w) == {p \in Projects : w.projects[p] # Unknown}
Occupied == {f \in Folders : folder[f].id # 0}
HasCache(s) == cache[s] # NoCache
OneLoaded == \A s, t \in Servers : HasCache(s) /\ HasCache(t) => s = t

\* The other processes have nothing loaded and do nothing; and a step leaves them so.
Only(s) == \A t \in Servers : t # s => cache[t] = NoCache /\ doing[t] = NoOperation
Others(s) == \A t \in Servers : t # s => /\ cache'[t] = cache[t] /\ doing'[t] = doing[t]
                                         /\ editing'[t] = editing[t]

WorkspaceTypes ==
    /\ folder \in [Folders -> ProjectRecords]
    /\ saved \in WorkspaceRecords /\ cache \in [Servers -> WorkspaceRecords]
    /\ DOMAIN doing = Servers /\ DOMAIN build = Projects /\ DOMAIN editing = Servers
    /\ lastProject \in 0 .. LastProject

\* The records of a workspace are those of its projects, which were created.
Sound(w, last) ==
    \A p \in Projects : w.projects[p] = Unknown \/ (w.projects[p].id = p /\ p <= last)

\* A project has one folder.
Housed ==
    /\ \A f, g \in Folders : folder[f].id # 0 /\ folder[f].id = folder[g].id => f = g
    /\ \A f \in Folders : folder[f].id <= lastProject

Found(s) ==
    \A f \in Occupied : \/ folder[f].id \in KnownIn(cache[s])
                        \/ doing[s].op = "create" /\ doing[s].record.id = folder[f].id

Counted(s) == cache[s].total = Cardinality(KnownIn(cache[s]))

\* What an operation in the middle has done, and has left to do.
Halfway(s) ==
    \/ doing[s] = NoOperation
    \/ /\ doing[s].op = "create" /\ HasCache(s)
       /\ doing[s].record \in ProjectRecords /\ doing[s].folder \in Folders
       /\ doing[s].record.id \in Projects \ KnownIn(cache[s])
       /\ doing[s].record.id <= lastProject
    \/ /\ doing[s].op = "delete" /\ HasCache(s)
       /\ doing[s].record.id \in KnownIn(cache[s])
       /\ \A f \in Folders : folder[f].id # doing[s].record.id
    \/ /\ doing[s].op = "promote" /\ HasCache(s)
       /\ doing[s].record \in ProjectRecords /\ doing[s].folder \in Folders
       /\ doing[s].record.id \in KnownIn(cache[s])
       /\ folder[doing[s].folder].id = doing[s].record.id
    \/ doing[s].op = "archive" /\ HasCache(s) /\ doing[s].record.id \in Projects

Under(p) == build[p].at # "none" => build[p].server \in Servers /\ build[p].folder \in Folders
Edits(s) == editing[s] # NoEdit => editing[s].project \in Projects /\ editing[s].folder \in Folders

WorkspaceInv ==
    /\ WorkspaceTypes /\ Housed
    /\ Sound(saved, lastProject) /\ \A s \in Servers : Sound(cache[s], lastProject)
    /\ \A s \in Servers : HasCache(s) => Found(s) /\ Counted(s)
    /\ \A s \in Servers : Halfway(s) /\ Edits(s)
    /\ \A p \in Projects : Under(p)
    /\ IsFiniteSet(Occupied) /\ Cardinality(Occupied) <= ProjectLimit

LEMMA ProjectsFinite ==
    /\ IsFiniteSet(Projects) /\ Projects \subseteq Nat \ {0} /\ 0 \notin Projects
    /\ \A w : IsFiniteSet(KnownIn(w)) /\ Cardinality(KnownIn(w)) \in Nat
<1>1. IsFiniteSet(Projects) /\ Projects \subseteq Nat \ {0}
  BY WorkspaceAssumption, FS_Interval DEF Projects
<1>2. \A w : KnownIn(w) \subseteq Projects
  BY DEF KnownIn
<1> QED
  BY <1>1, <1>2, FS_Subset, FS_CardinalityType

LEMMA UnknownIs ==
    /\ Unknown.id = 0 /\ Unknown \in ProjectRecords /\ NoFolder = Unknown
    /\ Orphan.id = 0 /\ Orphan \in ProjectRecords
    /\ NoOperation.op = "none"
BY DEF Unknown, NoFolder, Orphan, Record, ProjectRecords, Stages, Conditions, NoOperation

LEMMA NoCacheIs == NoCache.total = -1 /\ NoCache \in WorkspaceRecords /\ KnownIn(NoCache) = {}
BY UnknownIs DEF NoCache, Workspace, WorkspaceRecords, KnownIn

LEMMA WorkspaceIs ==
    ASSUME NEW known, NEW n
    PROVE  Workspace(known, n).projects = known /\ Workspace(known, n).total = n
BY DEF Workspace

\* Whoever has a count has loaded the workspace.
LEMMA CountedLoaded ==
    ASSUME NEW w, w.total = Cardinality(KnownIn(w))
    PROVE  w # NoCache
<1>1. Cardinality(KnownIn(w)) \in Nat
  BY ProjectsFinite
<1> QED
  BY <1>1, NoCacheIs

\* No more folders are taken than projects counted, unless one is being created.
LEMMA OccupiedCounted ==
    ASSUME WorkspaceInv, NEW s \in Servers, HasCache(s), doing[s].op # "create"
    PROVE  Cardinality(Occupied) <= cache[s].total
<1>1. PICK known : known = KnownIn(cache[s])
  OBVIOUS
<1>2. PICK id : id = [f \in Occupied |-> folder[f].id]
  OBVIOUS
<1>3. \A f \in Occupied : folder[f].id \in known
  BY <1>1 DEF WorkspaceInv, Found
<1>4. \A f, g \in Occupied : id[f] = id[g] => f = g
  BY <1>2 DEF WorkspaceInv, Housed, Occupied
<1>5. id \in Injection(Occupied, known)
  BY <1>2, <1>3, <1>4 DEF Injection, IsInjective
<1>6. Cardinality(Occupied) <= Cardinality(known)
  BY <1>1, <1>5, ProjectsFinite, FS_Injection
<1> QED
  BY <1>1, <1>6 DEF WorkspaceInv, Counted

-----------------------------------------------------------------------------
(* Steps that neither create nor delete a project.                           *)

\* Two workspaces with the same projects, whatever their records say.
Alike(w, v) ==
    /\ \A p \in Projects : \/ w.projects[p] = v.projects[p]
                           \/ w.projects[p].id = p /\ v.projects[p].id = p
    /\ w.total = v.total

LEMMA AlikeKnown ==
    ASSUME NEW w, NEW v, Alike(w, v), NEW last, Sound(w, last)
    PROVE  KnownIn(v) = KnownIn(w) /\ Sound(v, last)
<1>1. \A p \in Projects : p # 0 /\ (v.projects[p].id = p => v.projects[p] # Unknown)
                                /\ (w.projects[p].id = p => w.projects[p] # Unknown)
  BY ProjectsFinite, UnknownIs
<1> QED
  BY <1>1 DEF Alike, KnownIn, Sound

\* Nothing that the servers know or the disk holds comes or goes.
LEMMA QuietKeeps ==
    ASSUME WorkspaceInv, \A s \in Servers : doing[s].op # "create" /\ doing'[s].op # "create",
           folder' \in [Folders -> ProjectRecords],
           \A f \in Folders : folder'[f].id = folder[f].id,
           saved' \in WorkspaceRecords, cache' \in [Servers -> WorkspaceRecords],
           \A s \in Servers : cache'[s] = cache[s] \/ (HasCache(s) /\ Alike(cache[s], cache'[s])),
           saved' = saved \/ \E s \in Servers : saved' = cache'[s],
           lastProject' = lastProject,
           DOMAIN doing' = Servers, DOMAIN build' = Projects, DOMAIN editing' = Servers,
           \A s \in Servers : Halfway(s)' /\ Edits(s)', \A p \in Projects : Under(p)'
    PROVE  WorkspaceInv'
<1>1. WorkspaceTypes'
  BY DEF WorkspaceInv, WorkspaceTypes
<1>2. Housed'
  BY DEF WorkspaceInv, Housed
<1>3. Occupied' = Occupied
  BY DEF Occupied
<1>4. ASSUME NEW s \in Servers
      PROVE  /\ Sound(cache'[s], lastProject) /\ KnownIn(cache'[s]) = KnownIn(cache[s])
             /\ cache'[s].total = cache[s].total /\ (HasCache(s)' => HasCache(s))
  <2>1. Sound(cache[s], lastProject)
    BY DEF WorkspaceInv
  <2>2. CASE cache'[s] = cache[s]
    BY <2>1, <2>2 DEF HasCache
  <2>3. CASE HasCache(s) /\ Alike(cache[s], cache'[s])
    BY <2>1, <2>3, AlikeKnown DEF Alike
  <2> QED
    BY <2>2, <2>3
<1>5. ASSUME NEW s \in Servers, HasCache(s)'
      PROVE  Found(s)' /\ Counted(s)'
  <2>1. Found(s) /\ Counted(s)
    BY <1>4, <1>5 DEF WorkspaceInv
  <2>2. \A f \in Occupied : folder'[f].id \in KnownIn(cache'[s])
    <3> SUFFICES ASSUME NEW f \in Occupied PROVE folder'[f].id \in KnownIn(cache'[s])
      OBVIOUS
    <3>1. folder[f].id \in KnownIn(cache[s])
      BY <2>1 DEF Found
    <3>2. folder'[f].id = folder[f].id
      BY DEF Occupied
    <3>3. KnownIn(cache'[s]) = KnownIn(cache[s])
      BY <1>4
    <3> QED
      BY <3>1, <3>2, <3>3
  <2>3. cache'[s].total = Cardinality(KnownIn(cache'[s]))
    BY <1>4, <2>1 DEF Counted
  <2> QED
    BY <1>3, <2>2, <2>3 DEF Found, Counted
<1>6. Sound(saved', lastProject)
  BY <1>4 DEF WorkspaceInv
<1>7. IsFiniteSet(Occupied') /\ Cardinality(Occupied') <= ProjectLimit
  BY <1>3 DEF WorkspaceInv
<1> QED
  BY <1>1, <1>2, <1>4, <1>5, <1>6, <1>7 DEF WorkspaceInv

LEMMA OthersRest ==
    ASSUME WorkspaceInv, NEW s \in Servers, Only(s), Others(s)
    PROVE  \A t \in Servers :
               t # s => /\ ~HasCache(t)' /\ Halfway(t)' /\ Edits(t)'
                        /\ doing[t].op = "none" /\ doing'[t].op = "none"
                        /\ \A last : Sound(cache'[t], last)
<1>1. \A last : Sound(NoCache, last)
  BY DEF Sound, NoCache, Workspace
<1>2. \A t \in Servers : t # s => /\ cache'[t] = NoCache /\ doing'[t] = NoOperation
                               /\ doing[t] = NoOperation
  BY DEF Only, Others
<1>3. \A t \in Servers : t # s => Edits(t)'
  BY DEF Others, WorkspaceInv, Edits
<1> QED
  BY <1>1, <1>2, <1>3, UnknownIs DEF HasCache, Halfway

\* The server is in the middle of nothing, as the others are.
LEMMA Resting ==
    ASSUME WorkspaceInv, NEW s \in Servers, Only(s), Ready(s)
    PROVE  /\ HasCache(s) /\ doing[s] = NoOperation
           /\ \A t \in Servers : doing[t].op # "create"
           /\ \A f \in Occupied : folder[f].id \in KnownIn(cache[s])
<1>1. HasCache(s) /\ \A t \in Servers : doing[t] = NoOperation
  BY DEF Only, Ready, Serving, HasCache
<1>2. \A t \in Servers : doing[t].op # "create"
  BY <1>1, UnknownIs
<1> QED
  BY <1>1, <1>2 DEF WorkspaceInv, Found

\* A project's record is replaced in the cache, and perhaps saved.
LEMMA Replacing ==
    ASSUME WorkspaceInv, NEW s \in Servers, NEW p \in KnownIn(cache[s]),
           NEW r \in ProjectRecords, r.id = p, NEW w,
           w = Workspace([cache[s].projects EXCEPT ![p] = r], cache[s].total)
    PROVE  w \in WorkspaceRecords /\ Alike(cache[s], w)
<1>1. cache[s] \in WorkspaceRecords /\ p \in Projects /\ p # 0
  BY ProjectsFinite DEF WorkspaceInv, WorkspaceTypes, KnownIn
<1>2. cache[s].projects[p].id = p
  BY <1>1 DEF WorkspaceInv, Sound, KnownIn
<1>3. /\ w.projects = [cache[s].projects EXCEPT ![p] = r] /\ w.total = cache[s].total
      /\ w = [projects |-> w.projects, total |-> w.total]
  BY DEF Workspace
<1>4. w.projects \in [Projects -> ProjectRecords] /\ w.total \in Int
  BY <1>1, <1>3 DEF WorkspaceRecords
<1>5. w \in WorkspaceRecords
  BY <1>3, <1>4 DEF WorkspaceRecords
<1>6. \A q \in Projects : w.projects[q] = IF q = p THEN r ELSE cache[s].projects[q]
  BY <1>1, <1>3 DEF WorkspaceRecords
<1>7. Alike(cache[s], w)
  BY <1>2, <1>3, <1>6 DEF Alike
<1> QED
  BY <1>5, <1>7

\* What update_project_status does, if it does anything.
LEMMA Updating ==
    ASSUME WorkspaceInv, NEW s \in Servers, HasCache(s), NEW p \in Projects,
           NEW st \in Conditions, TryUpdate(s, p, st)
    PROVE  /\ folder' \in [Folders -> ProjectRecords]
           /\ \A f \in Folders : folder'[f].id = folder[f].id
           /\ saved' \in WorkspaceRecords /\ cache' \in [Servers -> WorkspaceRecords]
           /\ \A t \in Servers : cache'[t] = cache[t] \/ (HasCache(t) /\ Alike(cache[t], cache'[t]))
           /\ saved' = saved \/ \E t \in Servers : saved' = cache'[t]
<1>1. /\ folder \in [Folders -> ProjectRecords] /\ saved \in WorkspaceRecords
      /\ cache \in [Servers -> WorkspaceRecords]
  BY DEF WorkspaceInv, WorkspaceTypes
<1>2. CASE ~Knows(s, p)
  BY <1>1, <1>2 DEF TryUpdate, NoUpdate
<1>3. CASE Knows(s, p)
  <2>1. PICK r : r = [cache[s].projects[p] EXCEPT !.status = st]
    OBVIOUS
  <2>2. p \in KnownIn(cache[s])
    BY <1>3 DEF Knows, KnownIn
  <2>3. cache[s].projects[p] \in ProjectRecords /\ cache[s].projects[p].id = p
    BY <1>1, <2>2 DEF WorkspaceInv, Sound, KnownIn, WorkspaceRecords
  <2>4. r \in ProjectRecords /\ r.id = p
    BY <2>1, <2>3 DEF ProjectRecords
  <2>5. PICK w : w = Workspace([cache[s].projects EXCEPT ![p] = r], cache[s].total)
    OBVIOUS
  <2>6. /\ cache' = [cache EXCEPT ![s] = w] /\ saved' = w
        /\ folder' = [f \in Folders |-> IF Holds(f, p) THEN r ELSE folder[f]]
    BY <1>3, <2>1, <2>5 DEF TryUpdate, UpdateStatus, KeepAndSave
  <2>7. w \in WorkspaceRecords /\ Alike(cache[s], w)
    BY <2>2, <2>4, <2>5, Replacing
  <2>8. folder' \in [Folders -> ProjectRecords] /\ \A f \in Folders : folder'[f].id = folder[f].id
    BY <1>1, <2>4, <2>6 DEF Holds
  <2>9. cache'[s] = w /\ \A t \in Servers : t # s => cache'[t] = cache[t]
    BY <1>1, <2>6
  <2>10. cache' \in [Servers -> WorkspaceRecords] /\ saved' \in WorkspaceRecords
    BY <1>1, <2>6, <2>7
  <2> QED
    BY <2>6, <2>7, <2>8, <2>9, <2>10
<1> QED
  BY <1>2, <1>3

LEMMA FolderOfIs ==
    ASSUME WorkspaceInv, NEW p \in Projects, OnDisk(p)
    PROVE  /\ FolderOf(p) \in Folders /\ folder[FolderOf(p)].id = p /\ FolderOf(p) \in Occupied
           /\ folder[FolderOf(p)] \in ProjectRecords
<1>1. FolderOf(p) \in Folders /\ Holds(FolderOf(p), p)
  BY DEF OnDisk, FolderOf
<1> QED
  BY <1>1, ProjectsFinite DEF Holds, Occupied, WorkspaceInv, WorkspaceTypes

-----------------------------------------------------------------------------
\* One lemma for each operation of the workspaces.

LEMMA OpenWorkspaceKeeps ==
    ASSUME WorkspaceInv, NEW s \in Servers, Only(s), Others(s), OpenWorkspace(s)
    PROVE  WorkspaceInv'
<1>1. PICK known : known = [p \in Projects |-> IF saved.projects[p] = Unknown /\ OnDisk(p)
                                               THEN folder[FolderOf(p)] ELSE saved.projects[p]]
  OBVIOUS
<1>2. PICK w : w = Workspace(known, Cardinality({p \in Projects : known[p] # Unknown}))
  OBVIOUS
<1>3. /\ doing[s] = NoOperation /\ cache' = [cache EXCEPT ![s] = w] /\ saved' = w
      /\ UNCHANGED <<folder, doing, build, editing, lastProject>>
  BY <1>1, <1>2 DEF OpenWorkspace, Serving, Scanned
<1>4. /\ saved \in WorkspaceRecords /\ cache \in [Servers -> WorkspaceRecords]
      /\ folder \in [Folders -> ProjectRecords]
  BY DEF WorkspaceInv, WorkspaceTypes
<1>5. known \in [Projects -> ProjectRecords]
  <2> SUFFICES ASSUME NEW p \in Projects PROVE known[p] \in ProjectRecords
    BY <1>1
  <2>1. saved.projects[p] \in ProjectRecords
    BY <1>4 DEF WorkspaceRecords
  <2> QED
    BY <1>1, <2>1, FolderOfIs
<1>6. /\ w.projects = known /\ KnownIn(w) = {p \in Projects : known[p] # Unknown}
      /\ w.total = Cardinality(KnownIn(w)) /\ w.total \in Nat
      /\ w = [projects |-> w.projects, total |-> w.total]
  <2>1. w.projects = known /\ w = [projects |-> w.projects, total |-> w.total]
    BY <1>2 DEF Workspace
  <2>2. KnownIn(w) = {p \in Projects : known[p] # Unknown}
    BY <2>1 DEF KnownIn
  <2>3. w.total = Cardinality(KnownIn(w))
    BY <1>2, <2>2, WorkspaceIs
  <2> QED
    BY <2>1, <2>2, <2>3, ProjectsFinite
<1>7. w \in WorkspaceRecords
  BY <1>5, <1>6 DEF WorkspaceRecords
<1>8. Sound(w, lastProject)
  <2> SUFFICES ASSUME NEW p \in Projects
               PROVE  known[p] = Unknown \/ (known[p].id = p /\ p <= lastProject)
    BY <1>6 DEF Sound
  <2>1. CASE saved.projects[p] = Unknown /\ OnDisk(p)
    <3>1. FolderOf(p) \in Folders /\ folder[FolderOf(p)].id = p
      BY <2>1, FolderOfIs
    <3>2. p <= lastProject
      BY <3>1 DEF WorkspaceInv, Housed
    <3> QED
      BY <1>1, <2>1, <3>1, <3>2
  <2>2. CASE ~(saved.projects[p] = Unknown /\ OnDisk(p))
    BY <1>1, <2>2 DEF WorkspaceInv, Sound
  <2> QED
    BY <2>1, <2>2
<1>9. \A f \in Occupied : folder[f].id \in KnownIn(w)
  <2> SUFFICES ASSUME NEW f \in Occupied PROVE folder[f].id \in KnownIn(w)
    OBVIOUS
  <2>1. PICK p \in Projects : p = folder[f].id /\ OnDisk(p)
    BY <1>4 DEF Occupied, ProjectRecords, OnDisk, Holds
  <2>2. known[p] # Unknown
    <3>1. CASE saved.projects[p] = Unknown
      BY <1>1, <2>1, <3>1, FolderOfIs, ProjectsFinite, UnknownIs
    <3>2. CASE saved.projects[p] # Unknown
      BY <1>1, <3>2
    <3> QED
      BY <3>1, <3>2
  <2> QED
    BY <1>6, <2>1, <2>2
<1>10. Occupied' = Occupied
  BY <1>3 DEF Occupied
<1>11. cache'[s] = w
  BY <1>3, <1>4
<1>12. WorkspaceTypes'
  BY <1>3, <1>4, <1>7 DEF WorkspaceInv, WorkspaceTypes
<1>13. Housed'
  BY <1>3 DEF WorkspaceInv, Housed
<1>14. Sound(saved', lastProject') /\ \A t \in Servers : Sound(cache'[t], lastProject')
  BY <1>3, <1>8, <1>11, OthersRest
<1>15. \A t \in Servers : HasCache(t)' => Found(t)' /\ Counted(t)'
  <2>1. Found(s)' /\ Counted(s)'
    BY <1>3, <1>6, <1>9, <1>10, <1>11 DEF Found, Counted
  <2> QED
    BY <2>1, OthersRest
<1>16. \A t \in Servers : Halfway(t)' /\ Edits(t)'
  <2>1. Halfway(s)' /\ Edits(s)'
    BY <1>3 DEF WorkspaceInv, Halfway, Edits
  <2> QED
    BY <2>1, OthersRest
<1>17. \A p \in Projects : Under(p)'
  BY <1>3 DEF WorkspaceInv, Under
<1>18. IsFiniteSet(Occupied') /\ Cardinality(Occupied') <= ProjectLimit
  BY <1>10 DEF WorkspaceInv
<1> QED
  BY <1>12, <1>13, <1>14, <1>15, <1>16, <1>17, <1>18 DEF WorkspaceInv

\* The count is below the limit, and no folder more is taken than counted.
LEMMA MakeFolderKeeps ==
    ASSUME WorkspaceInv, NEW s \in Servers, Only(s), Others(s), NEW f \in Folders, MakeFolder(s, f)
    PROVE  WorkspaceInv'
<1>1. PICK r, o : /\ r = Record(lastProject + 1, "generated", "active")
                  /\ o = [op |-> "create", folder |-> f, record |-> r]
  OBVIOUS
<1>2. /\ Ready(s) /\ cache[s].total < ProjectLimit /\ folder[f] = NoFolder
      /\ lastProject < LastProject /\ lastProject' = lastProject + 1
      /\ folder' = [folder EXCEPT ![f] = r] /\ doing' = [doing EXCEPT ![s] = o]
      /\ UNCHANGED <<saved, cache, build, editing>>
  BY <1>1 DEF MakeFolder
<1>3. /\ folder \in [Folders -> ProjectRecords] /\ cache \in [Servers -> WorkspaceRecords]
      /\ lastProject \in 0 .. LastProject /\ DOMAIN doing = Servers
  BY DEF WorkspaceInv, WorkspaceTypes
<1>4. /\ HasCache(s) /\ doing[s].op # "create"
      /\ \A g \in Occupied : folder[g].id \in KnownIn(cache[s])
  BY <1>2, Resting
<1>5. lastProject + 1 \in Projects /\ lastProject' \in 0 .. LastProject /\ lastProject \in Nat
  BY <1>2, <1>3, WorkspaceAssumption DEF Projects
<1>6. r \in ProjectRecords /\ r.id = lastProject + 1 /\ r.id # 0
  BY <1>1, <1>5, ProjectsFinite DEF Record, ProjectRecords, Stages, Conditions
<1>7. \A g \in Folders : folder'[g] = IF g = f THEN r ELSE folder[g]
  BY <1>2, <1>3
<1>8. WorkspaceTypes'
  <2>1. folder' \in [Folders -> ProjectRecords]
    BY <1>2, <1>3, <1>6
  <2>2. DOMAIN doing' = Servers
    BY <1>2, <1>3
  <2>3. /\ saved' \in WorkspaceRecords /\ cache' \in [Servers -> WorkspaceRecords]
        /\ DOMAIN build' = Projects /\ DOMAIN editing' = Servers
    BY <1>2 DEF WorkspaceInv, WorkspaceTypes
  <2>4. lastProject' \in 0 .. LastProject
    BY <1>5
  <2> QED
    BY <2>1, <2>2, <2>3, <2>4 DEF WorkspaceTypes
<1>9. \A g \in Folders : folder[g].id <= lastProject /\ folder[g].id \in Nat
  <2> SUFFICES ASSUME NEW g \in Folders
               PROVE  folder[g].id <= lastProject /\ folder[g].id \in Nat
    OBVIOUS
  <2>1. folder[g].id \in Projects \cup {0}
    BY <1>3 DEF ProjectRecords
  <2>2. Projects \cup {0} \subseteq Nat
    BY ProjectsFinite
  <2>3. folder[g].id <= lastProject
    BY DEF WorkspaceInv, Housed
  <2> QED
    BY <2>1, <2>2, <2>3
<1>10. Housed'
  <2>1. \A g \in Folders : folder'[g].id <= lastProject + 1
    BY <1>5, <1>6, <1>7, <1>9
  <2>2. \A g \in Folders : g # f => folder'[g].id # r.id
    BY <1>5, <1>6, <1>7, <1>9
  <2>3. \A g, h \in Folders : folder'[g].id # 0 /\ folder'[g].id = folder'[h].id => g = h
    BY <1>7, <2>2 DEF WorkspaceInv, Housed
  <2> QED
    BY <1>2, <2>1, <2>3 DEF Housed
<1>11. ASSUME NEW w, Sound(w, lastProject)
       PROVE  Sound(w, lastProject + 1) /\ r.id \notin KnownIn(w)
  <2>1. \A p \in Projects : p \in Nat /\ (p <= lastProject => p <= lastProject + 1)
    BY <1>5, ProjectsFinite
  <2>2. ~(lastProject + 1 <= lastProject)
    BY <1>5
  <2> QED
    BY <1>6, <1>11, <2>1, <2>2 DEF Sound, KnownIn
<1>12. Sound(saved', lastProject') /\ \A t \in Servers : Sound(cache'[t], lastProject')
  BY <1>2, <1>11 DEF WorkspaceInv
<1>13. Occupied' = Occupied \cup {f} /\ f \notin Occupied
  BY <1>2, <1>6, <1>7, UnknownIs DEF Occupied
<1>14. doing'[s] = o /\ o.op = "create" /\ o.record = r /\ o.folder = f
  BY <1>1, <1>2, <1>3
<1>15. \A t \in Servers : HasCache(t)' => Found(t)' /\ Counted(t)'
  <2>1. \A g \in Occupied' : folder'[g].id \in KnownIn(cache[s]) \/ folder'[g].id = r.id
    <3> SUFFICES ASSUME NEW g \in Occupied'
                 PROVE  folder'[g].id \in KnownIn(cache[s]) \/ folder'[g].id = r.id
      OBVIOUS
    <3>1. CASE g = f
      BY <1>7, <3>1
    <3>2. CASE g # f
      <4>1. g \in Occupied /\ g \in Folders
        BY <1>13, <3>2 DEF Occupied
      <4> QED
        BY <1>4, <1>7, <3>2, <4>1
    <3> QED
      BY <3>1, <3>2
  <2>2. Counted(s)
    BY <1>4 DEF WorkspaceInv
  <2>3. Found(s)' /\ Counted(s)'
    BY <1>2, <1>14, <2>1, <2>2 DEF Found, Counted
  <2> QED
    BY <2>3, OthersRest
<1>16. \A t \in Servers : Halfway(t)'
  <2>1. r.id \in Projects \ KnownIn(cache[s]) /\ r.id <= lastProject'
    BY <1>2, <1>5, <1>6, <1>11 DEF WorkspaceInv
  <2>2. Halfway(s)'
    BY <1>2, <1>4, <1>6, <1>14, <2>1 DEF Halfway, HasCache
  <2> QED
    BY <2>2, OthersRest
<1>17. (\A t \in Servers : Edits(t)') /\ \A p \in Projects : Under(p)'
  BY <1>2 DEF WorkspaceInv, Edits, Under
<1>18. IsFiniteSet(Occupied') /\ Cardinality(Occupied') <= ProjectLimit
  <2>1. PICK taken : taken = Occupied
    OBVIOUS
  <2>2. IsFiniteSet(taken) /\ Cardinality(taken) \in Nat
    BY <2>1, FS_CardinalityType DEF WorkspaceInv
  <2>3. Cardinality(taken) <= cache[s].total
    BY <1>4, <2>1, OccupiedCounted
  <2>4. IsFiniteSet(taken \cup {f}) /\ Cardinality(taken \cup {f}) = Cardinality(taken) + 1
    BY <1>13, <2>1, <2>2, FS_AddElement
  <2>5. cache[s].total \in Int
    BY <1>3 DEF WorkspaceRecords
  <2>6. Cardinality(taken) + 1 <= ProjectLimit
    BY <1>2, <2>2, <2>3, <2>5, WorkspaceAssumption
  <2> QED
    BY <1>13, <2>1, <2>4, <2>6
<1> QED
  BY <1>8, <1>10, <1>12, <1>15, <1>16, <1>17, <1>18 DEF WorkspaceInv
LEMMA KnownOfUpdate ==
    ASSUME NEW w \in WorkspaceRecords, NEW p \in Projects, NEW r \in ProjectRecords,
           NEW n \in Int, NEW v, v = Workspace([w.projects EXCEPT ![p] = r], n)
    PROVE  /\ v \in WorkspaceRecords /\ v.total = n /\ v.projects[p] = r
           /\ \A q \in Projects : q # p => v.projects[q] = w.projects[q]
           /\ r # Unknown => KnownIn(v) = KnownIn(w) \cup {p}
           /\ r = Unknown => KnownIn(v) = KnownIn(w) \ {p}
<1>1. /\ v.projects = [w.projects EXCEPT ![p] = r] /\ v.total = n
      /\ v = [projects |-> v.projects, total |-> v.total]
  BY DEF Workspace
<1>2. w.projects \in [Projects -> ProjectRecords]
  BY DEF WorkspaceRecords
<1>3. v.projects \in [Projects -> ProjectRecords]
  BY <1>1, <1>2
<1>4. v \in WorkspaceRecords
  BY <1>1, <1>3 DEF WorkspaceRecords
<1>5. v.projects[p] = r /\ \A q \in Projects : q # p => v.projects[q] = w.projects[q]
  BY <1>1, <1>2
<1>6. r # Unknown => KnownIn(v) = KnownIn(w) \cup {p}
  BY <1>5 DEF KnownIn
<1>7. r = Unknown => KnownIn(v) = KnownIn(w) \ {p}
  BY <1>5 DEF KnownIn
<1> QED
  BY <1>1, <1>4, <1>5, <1>6, <1>7

\* A workspace that knows and counts what there is is kept and saved, and the
\* operation is over.
LEMMA SettledKeeps ==
    ASSUME WorkspaceInv, NEW s \in Servers, Only(s), Others(s), NEW w \in WorkspaceRecords,
           cache' = [cache EXCEPT ![s] = w], saved' = w,
           doing' = [doing EXCEPT ![s] = NoOperation],
           UNCHANGED <<folder, editing, lastProject>>,
           DOMAIN build' = Projects, \A p \in Projects : Under(p)',
           Sound(w, lastProject), \A f \in Occupied : folder[f].id \in KnownIn(w),
           w.total = Cardinality(KnownIn(w))
    PROVE  WorkspaceInv'
<1>1. cache \in [Servers -> WorkspaceRecords] /\ DOMAIN doing = Servers
  BY DEF WorkspaceInv, WorkspaceTypes
<1>3. cache'[s] = w /\ doing'[s] = NoOperation
  BY <1>1
<1>4. Occupied' = Occupied
  BY DEF Occupied
<1>5. WorkspaceTypes'
  BY <1>1 DEF WorkspaceInv, WorkspaceTypes
<1>6. Housed'
  BY DEF WorkspaceInv, Housed
<1>7. Sound(saved', lastProject') /\ \A t \in Servers : Sound(cache'[t], lastProject')
  BY <1>3, OthersRest
<1>8. \A t \in Servers : HasCache(t)' => Found(t)' /\ Counted(t)'
  <2>1. Found(s)' /\ Counted(s)'
    BY <1>3, <1>4 DEF Found, Counted
  <2> QED
    BY <2>1, OthersRest
<1>9. \A t \in Servers : Halfway(t)' /\ Edits(t)'
  <2>1. Halfway(s)' /\ Edits(s)'
    BY <1>3 DEF WorkspaceInv, Halfway, Edits
  <2> QED
    BY <2>1, OthersRest
<1>10. IsFiniteSet(Occupied') /\ Cardinality(Occupied') <= ProjectLimit
  BY <1>4 DEF WorkspaceInv
<1> QED
  BY <1>5, <1>6, <1>7, <1>8, <1>9, <1>10 DEF WorkspaceInv

LEMMA SaveProjectKeeps ==
    ASSUME WorkspaceInv, NEW s \in Servers, Only(s), Others(s), SaveProject(s)
    PROVE  WorkspaceInv'
<1>1. PICK r, o : r = doing[s].record /\ o = doing[s].folder
  OBVIOUS
<1>2. PICK known : known = KnownIn(cache[s])
  OBVIOUS
<1>3. doing[s].op = "create" /\ doing[s] # NoOperation
  BY UnknownIs DEF SaveProject
<1>4. /\ HasCache(s) /\ r \in ProjectRecords /\ o \in Folders
      /\ r.id \in Projects /\ r.id \notin known /\ r.id <= lastProject
  BY <1>1, <1>2, <1>3 DEF WorkspaceInv, Halfway
<1>5. cache[s] \in WorkspaceRecords /\ cache[s].total \in Int /\ DOMAIN build = Projects
  BY DEF WorkspaceInv, WorkspaceTypes, WorkspaceRecords
<1>6. PICK w : w = Workspace([cache[s].projects EXCEPT ![r.id] = r], cache[s].total + 1)
  OBVIOUS
<1>7. /\ cache' = [cache EXCEPT ![s] = w] /\ saved' = w
      /\ build' = [build EXCEPT ![r.id] = [at |-> "created", server |-> s, folder |-> o]]
      /\ doing' = [doing EXCEPT ![s] = NoOperation]
      /\ UNCHANGED <<folder, editing, lastProject>>
  BY <1>1, <1>6 DEF SaveProject, KeepAndSave
<1>8. r # Unknown
  BY <1>4, ProjectsFinite, UnknownIs
<1>9. /\ w \in WorkspaceRecords /\ w.total = cache[s].total + 1 /\ w.projects[r.id] = r
      /\ \A q \in Projects : q # r.id => w.projects[q] = cache[s].projects[q]
      /\ KnownIn(w) = known \cup {r.id}
  <2>1. cache[s].total + 1 \in Int
    BY <1>5
  <2>2. /\ KnownIn(w) = KnownIn(cache[s]) \cup {r.id}
        /\ w \in WorkspaceRecords /\ w.total = cache[s].total + 1 /\ w.projects[r.id] = r
        /\ \A q \in Projects : q # r.id => w.projects[q] = cache[s].projects[q]
    BY <1>4, <1>5, <1>6, <1>8, <2>1, KnownOfUpdate
  <2> QED
    BY <1>2, <2>2
<1>10. Sound(w, lastProject)
  BY <1>4, <1>9 DEF WorkspaceInv, Sound
<1>11. \A f \in Occupied : folder[f].id \in KnownIn(w)
  <2>1. \A f \in Occupied : folder[f].id \in known \/ folder[f].id = r.id
    BY <1>1, <1>2, <1>4 DEF WorkspaceInv, Found
  <2> QED
    BY <1>9, <2>1
<1>12. w.total = Cardinality(KnownIn(w))
  <2>1. cache[s].total = Cardinality(known)
    BY <1>2, <1>4 DEF WorkspaceInv, Counted
  <2>2. IsFiniteSet(known)
    BY <1>2, ProjectsFinite
  <2>3. Cardinality(known \cup {r.id}) = Cardinality(known) + 1
    BY <1>4, <2>2, FS_AddElement
  <2> QED
    BY <1>9, <2>1, <2>3
<1>13. DOMAIN build' = Projects /\ \A p \in Projects : Under(p)'
  <2>1. DOMAIN build' = Projects
    BY <1>5, <1>7
  <2>2. ASSUME NEW p \in Projects PROVE Under(p)'
    <3>1. CASE p = r.id
      BY <1>4, <1>5, <1>7, <3>1 DEF Under
    <3>2. CASE p # r.id
      BY <1>5, <1>7, <3>2 DEF WorkspaceInv, Under
    <3> QED
      BY <3>1, <3>2
  <2> QED
    BY <2>1, <2>2
<1> QED
  BY <1>7, <1>9, <1>10, <1>11, <1>12, <1>13, SettledKeeps

LEMMA ForgetProjectKeeps ==
    ASSUME WorkspaceInv, NEW s \in Servers, Only(s), Others(s), ForgetProject(s)
    PROVE  WorkspaceInv'
<1>1. PICK p : p = doing[s].record.id
  OBVIOUS
<1>2. PICK known : known = KnownIn(cache[s])
  OBVIOUS
<1>3. doing[s].op = "delete" /\ doing[s] # NoOperation
  BY UnknownIs DEF ForgetProject
<1>4. HasCache(s) /\ p \in known /\ p \in Projects /\ \A f \in Folders : folder[f].id # p
  BY <1>1, <1>2, <1>3 DEF WorkspaceInv, Halfway, KnownIn
<1>5. cache[s] \in WorkspaceRecords /\ cache[s].total \in Int /\ DOMAIN build = Projects
  BY DEF WorkspaceInv, WorkspaceTypes, WorkspaceRecords
<1>6. PICK w : w = Workspace([cache[s].projects EXCEPT ![p] = Unknown], cache[s].total - 1)
  OBVIOUS
<1>7. /\ cache' = [cache EXCEPT ![s] = w] /\ saved' = w
      /\ doing' = [doing EXCEPT ![s] = NoOperation]
      /\ UNCHANGED <<folder, build, editing, lastProject>>
  BY <1>1, <1>6 DEF ForgetProject, KeepAndSave
<1>8. /\ w \in WorkspaceRecords /\ w.total = cache[s].total - 1 /\ w.projects[p] = Unknown
      /\ \A q \in Projects : q # p => w.projects[q] = cache[s].projects[q]
      /\ KnownIn(w) = known \ {p}
  <2>1. cache[s].total - 1 \in Int /\ Unknown \in ProjectRecords
    BY <1>5, UnknownIs
  <2>2. KnownIn(w) = KnownIn(cache[s]) \ {p}
    BY <1>4, <1>5, <1>6, <2>1, KnownOfUpdate
  <2> QED
    BY <1>2, <1>4, <1>5, <1>6, <2>1, <2>2, KnownOfUpdate
<1>9. Sound(w, lastProject)
  BY <1>4, <1>8 DEF WorkspaceInv, Sound
<1>10. \A f \in Occupied : folder[f].id \in KnownIn(w)
  <2>1. \A f \in Occupied : folder[f].id \in known
    BY <1>2, <1>3, <1>4 DEF WorkspaceInv, Found
  <2>2. \A f \in Occupied : folder[f].id # p
    BY <1>4 DEF Occupied
  <2> QED
    BY <1>8, <2>1, <2>2
<1>11. w.total = Cardinality(KnownIn(w))
  <2>1. cache[s].total = Cardinality(known)
    BY <1>2, <1>4 DEF WorkspaceInv, Counted
  <2>2. IsFiniteSet(known)
    BY <1>2, ProjectsFinite
  <2>3. Cardinality(known \ {p}) = Cardinality(known) - 1
    BY <1>4, <2>2, FS_RemoveElement
  <2> QED
    BY <1>8, <2>1, <2>3
<1>12. DOMAIN build' = Projects /\ \A q \in Projects : Under(q)'
  BY <1>5, <1>7 DEF WorkspaceInv, Under
<1> QED
  BY <1>7, <1>8, <1>9, <1>10, <1>11, <1>12, SettledKeeps

LEMMA RemoveFolderKeeps ==
    ASSUME WorkspaceInv, NEW s \in Servers, Only(s), Others(s), NEW p \in Projects, RemoveFolder(s, p)
    PROVE  WorkspaceInv'
<1>1. PICK o : o = [op |-> "delete", folder |-> "none", record |-> cache[s].projects[p]]
  OBVIOUS
<1>2. /\ Ready(s) /\ Knows(s, p)
      /\ folder' = [f \in Folders |-> IF Holds(f, p) THEN NoFolder ELSE folder[f]]
      /\ doing' = [doing EXCEPT ![s] = o]
      /\ UNCHANGED <<saved, cache, build, editing, lastProject>>
  BY <1>1 DEF RemoveFolder, Asked
<1>3. folder \in [Folders -> ProjectRecords] /\ DOMAIN doing = Servers
  BY DEF WorkspaceInv, WorkspaceTypes
<1>4. /\ HasCache(s)
      /\ \A f \in Occupied : folder[f].id \in KnownIn(cache[s])
  BY <1>2, Resting
<1>5. \A f \in Folders : folder'[f].id = IF folder[f].id = p THEN 0 ELSE folder[f].id
  BY <1>2, UnknownIs DEF Holds
<1>6. \A f \in Folders : folder'[f].id # p
  BY <1>5, ProjectsFinite
<1>7. p \in KnownIn(cache[s]) /\ cache[s].projects[p].id = p
  BY <1>2 DEF WorkspaceInv, Sound, Knows, KnownIn
<1>8. doing'[s] = o /\ o.op = "delete" /\ o.record.id = p
  BY <1>1, <1>2, <1>3, <1>7
<1>9. Occupied' \subseteq Occupied
  BY <1>5 DEF Occupied
<1>10. folder' \in [Folders -> ProjectRecords]
  BY <1>2, <1>3, UnknownIs
<1>11. WorkspaceTypes'
  <2>1. DOMAIN doing' = Servers
    BY <1>2, <1>3
  <2> QED
    BY <1>2, <1>10, <2>1 DEF WorkspaceInv, WorkspaceTypes
<1>12. Housed'
  <2>1. \A f, g \in Folders : folder'[f].id # 0 /\ folder'[f].id = folder'[g].id => f = g
    BY <1>5 DEF WorkspaceInv, Housed
  <2>2. \A f \in Folders : folder'[f].id <= lastProject
    <3>1. 0 <= lastProject
      BY DEF WorkspaceInv, WorkspaceTypes
    <3> QED
      BY <1>5, <3>1 DEF WorkspaceInv, Housed
  <2> QED
    BY <1>2, <2>1, <2>2 DEF Housed
<1>13. Sound(saved', lastProject') /\ \A t \in Servers : Sound(cache'[t], lastProject')
  BY <1>2 DEF WorkspaceInv
<1>14. \A t \in Servers : HasCache(t)' => Found(t)' /\ Counted(t)'
  <2>1. \A f \in Occupied' : folder'[f].id = folder[f].id /\ f \in Occupied
    BY <1>5, <1>9 DEF Occupied
  <2>2. \A f \in Occupied' : folder'[f].id \in KnownIn(cache[s])
    BY <1>4, <2>1
  <2>3. Counted(s)
    BY <1>4 DEF WorkspaceInv
  <2>4. Found(s)' /\ Counted(s)'
    BY <1>2, <2>2, <2>3 DEF Found, Counted
  <2> QED
    BY <2>4, OthersRest
<1>15. \A t \in Servers : Halfway(t)'
  <2>1. Halfway(s)'
    BY <1>2, <1>4, <1>6, <1>7, <1>8 DEF Halfway, HasCache
  <2> QED
    BY <2>1, OthersRest
<1>16. (\A t \in Servers : Edits(t)') /\ \A q \in Projects : Under(q)'
  BY <1>2 DEF WorkspaceInv, Edits, Under
<1>17. IsFiniteSet(Occupied') /\ Cardinality(Occupied') <= ProjectLimit
  <2>1. PICK before, after : before = Occupied /\ after = Occupied'
    OBVIOUS
  <2>2. IsFiniteSet(before) /\ Cardinality(before) <= ProjectLimit
    BY <2>1 DEF WorkspaceInv
  <2>3. /\ IsFiniteSet(after) /\ Cardinality(after) <= Cardinality(before)
        /\ Cardinality(after) \in Nat /\ Cardinality(before) \in Nat
    BY <1>9, <2>1, <2>2, FS_Subset, FS_CardinalityType
  <2>4. Cardinality(after) <= ProjectLimit
    BY <2>2, <2>3, WorkspaceAssumption
  <2> QED
    BY <2>1, <2>3, <2>4
<1> QED
  BY <1>11, <1>12, <1>13, <1>14, <1>15, <1>16, <1>17 DEF WorkspaceInv
\* What Updating shows of a step, and QuietKeeps asks of one.
Steady ==
    /\ folder' \in [Folders -> ProjectRecords]
    /\ \A f \in Folders : folder'[f].id = folder[f].id
    /\ saved' \in WorkspaceRecords /\ cache' \in [Servers -> WorkspaceRecords]
    /\ \A t \in Servers : cache'[t] = cache[t] \/ (HasCache(t) /\ Alike(cache[t], cache'[t]))
    /\ saved' = saved \/ \E t \in Servers : saved' = cache'[t]

\* A steady step after which the server is in the middle of nothing.
LEMMA SteadyKeeps ==
    ASSUME WorkspaceInv, NEW s \in Servers, Only(s), Others(s), Steady,
           doing[s].op # "create", doing'[s] = NoOperation, DOMAIN doing' = Servers,
           lastProject' = lastProject, DOMAIN build' = Projects, DOMAIN editing' = Servers,
           Edits(s)', \A p \in Projects : Under(p)'
    PROVE  WorkspaceInv'
<1>1. Halfway(s)' /\ doing'[s].op # "create"
  BY UnknownIs DEF Halfway
<1>2. \A t \in Servers : doing[t].op # "create" /\ doing'[t].op # "create"
  BY <1>1, OthersRest
<1>3. \A t \in Servers : Halfway(t)' /\ Edits(t)'
  BY <1>1, OthersRest
<1> QED
  BY <1>2, <1>3, QuietKeeps DEF Steady

LEMMA UnchangedSteady ==
    ASSUME WorkspaceInv, UNCHANGED <<folder, saved, cache>>
    PROVE  Steady
BY DEF Steady, WorkspaceInv, WorkspaceTypes

LEMMA StillLoaded ==
    ASSUME WorkspaceInv, NEW s \in Servers, HasCache(s), NEW w, Alike(cache[s], w)
    PROVE  w # NoCache /\ KnownIn(w) = KnownIn(cache[s])
<1>1. KnownIn(w) = KnownIn(cache[s]) /\ w.total = cache[s].total
  BY AlikeKnown DEF WorkspaceInv, Alike
<1>2. cache[s].total = Cardinality(KnownIn(cache[s]))
  BY DEF WorkspaceInv, Counted
<1> QED
  BY <1>1, <1>2, CountedLoaded

\* A reloaded project was known before.
LEMMA ReloadKeeps ==
    ASSUME WorkspaceInv, NEW s \in Servers, Only(s), Others(s), Ready(s), NEW p \in Projects, OnDisk(p),
           Reload(s, p), UNCHANGED <<folder, saved>>
    PROVE  /\ Steady /\ cache'[s] # NoCache /\ p \in KnownIn(cache'[s])
           /\ folder[FolderOf(p)] \in ProjectRecords /\ FolderOf(p) \in Folders
           /\ folder[FolderOf(p)].id = p
<1>1. PICK r : r = folder[FolderOf(p)]
  OBVIOUS
<1>2. FolderOf(p) \in Folders /\ FolderOf(p) \in Occupied /\ r \in ProjectRecords /\ r.id = p
  BY <1>1, FolderOfIs
<1>3. HasCache(s) /\ p \in KnownIn(cache[s])
  BY <1>1, <1>2, Resting
<1>4. PICK w : w = Workspace([cache[s].projects EXCEPT ![p] = r], cache[s].total)
  OBVIOUS
<1>5. w \in WorkspaceRecords /\ Alike(cache[s], w)
  BY <1>2, <1>3, <1>4, Replacing
<1>6. /\ cache \in [Servers -> WorkspaceRecords] /\ folder \in [Folders -> ProjectRecords]
      /\ saved \in WorkspaceRecords
  BY DEF WorkspaceInv, WorkspaceTypes
<1>7. cache' = [cache EXCEPT ![s] = w]
  <2>1. cache' = [cache EXCEPT ![s].projects[p] = r]
    BY <1>1 DEF Reload
  <2>2. PICK c : c = cache[s]
    OBVIOUS
  <2>3. c \in [projects : [Projects -> ProjectRecords], total : Int]
    BY <1>6, <2>2 DEF WorkspaceRecords
  <2>4. PICK known : known = [c.projects EXCEPT ![p] = r]
    OBVIOUS
  <2>5. [c EXCEPT !.projects = known] = [projects |-> known, total |-> c.total]
    BY <2>3
  <2>6. [c EXCEPT !.projects[p] = r] = Workspace([c.projects EXCEPT ![p] = r], c.total)
    BY <2>4, <2>5 DEF Workspace
  <2> QED
    BY <1>4, <1>6, <2>1, <2>2, <2>6
<1>8. cache'[s] = w /\ \A t \in Servers : t # s => cache'[t] = cache[t]
  BY <1>6, <1>7
<1>9. cache' \in [Servers -> WorkspaceRecords]
  BY <1>5, <1>6, <1>7
<1>10. Steady
  BY <1>3, <1>5, <1>6, <1>8, <1>9 DEF Steady
<1>11. w # NoCache /\ KnownIn(w) = KnownIn(cache[s])
  BY <1>3, <1>5, StillLoaded
<1> QED
  BY <1>1, <1>2, <1>3, <1>8, <1>10, <1>11

LEMMA PromoteReadKeeps ==
    ASSUME WorkspaceInv, NEW s \in Servers, Only(s), Others(s), NEW p \in Projects, PromoteRead(s, p)
    PROVE  WorkspaceInv'
<1>1. PICK r, f : r = folder[FolderOf(p)] /\ f = FolderOf(p)
  OBVIOUS
<1>2. PICK o : o = [op |-> "promote", folder |-> f, record |-> r]
  OBVIOUS
<1>3. /\ Ready(s) /\ OnDisk(p) /\ Reload(s, p)
      /\ UNCHANGED <<folder, saved, build, editing, lastProject>>
      /\ doing' = [doing EXCEPT ![s] = IF r.state = "runtime" THEN NoOperation ELSE o]
  BY <1>1, <1>2 DEF PromoteRead, Asked
<1>4. DOMAIN doing = Servers /\ DOMAIN build = Projects /\ DOMAIN editing = Servers
  BY DEF WorkspaceInv, WorkspaceTypes
<1>5. /\ Steady /\ cache'[s] # NoCache /\ p \in KnownIn(cache'[s])
      /\ r \in ProjectRecords /\ f \in Folders /\ folder[f].id = p /\ r.id = p
  BY <1>1, <1>3, ReloadKeeps
<1>6. \A t \in Servers : doing[t].op # "create"
  BY <1>3, Resting
<1>7. DOMAIN doing' = Servers /\ DOMAIN build' = Projects /\ DOMAIN editing' = Servers
  BY <1>3, <1>4
<1>8. (\A t \in Servers : Edits(t)') /\ \A q \in Projects : Under(q)'
  BY <1>3 DEF WorkspaceInv, Edits, Under
<1>9. CASE r.state = "runtime"
  <2>1. doing'[s] = NoOperation
    BY <1>3, <1>4, <1>9
  <2> QED
    BY <1>3, <1>5, <1>6, <1>7, <1>8, <2>1, SteadyKeeps
<1>10. CASE r.state # "runtime"
  <2>1. doing'[s] = o
    BY <1>3, <1>4, <1>10
  <2>2. o.op = "promote" /\ o.folder = f /\ o.record = r
    BY <1>2
  <2>3. \A t \in Servers : doing'[t].op # "create"
    BY <2>1, <2>2, OthersRest
  <2>4. Halfway(s)'
    BY <1>3, <1>5, <2>1, <2>2 DEF Halfway, HasCache
  <2>5. \A t \in Servers : Halfway(t)'
    BY <2>4, OthersRest
  <2> QED
    BY <1>3, <1>5, <1>6, <1>7, <1>8, <2>3, <2>5, QuietKeeps DEF Steady
<1> QED
  BY <1>9, <1>10

LEMMA PromoteWriteKeeps ==
    ASSUME WorkspaceInv, NEW s \in Servers, Only(s), Others(s), PromoteWrite(s)
    PROVE  WorkspaceInv'
<1>1. PICK r, f : r = [doing[s].record EXCEPT !.state = "runtime"] /\ f = doing[s].folder
  OBVIOUS
<1>2. doing[s].op = "promote" /\ doing[s] # NoOperation
  BY UnknownIs DEF PromoteWrite
<1>3. /\ HasCache(s) /\ doing[s].record \in ProjectRecords /\ f \in Folders
      /\ doing[s].record.id \in KnownIn(cache[s]) /\ folder[f].id = doing[s].record.id
  BY <1>1, <1>2 DEF WorkspaceInv, Halfway
<1>4. r \in ProjectRecords /\ r.id \in KnownIn(cache[s]) /\ folder[f].id = r.id /\ r.id # 0
  <2>1. r \in ProjectRecords /\ r.id = doing[s].record.id
    BY <1>1, <1>3 DEF ProjectRecords, Stages
  <2> QED
    BY <1>3, <2>1, ProjectsFinite DEF KnownIn
<1>5. PICK w : w = Workspace([cache[s].projects EXCEPT ![r.id] = r], cache[s].total)
  OBVIOUS
<1>6. /\ folder' = [folder EXCEPT ![f] = r] /\ cache' = [cache EXCEPT ![s] = w] /\ saved' = w
      /\ doing' = [doing EXCEPT ![s] = NoOperation]
      /\ UNCHANGED <<build, editing, lastProject>>
  BY <1>1, <1>4, <1>5 DEF PromoteWrite, KeepAndSave
<1>7. /\ DOMAIN doing = Servers /\ DOMAIN build = Projects /\ DOMAIN editing = Servers
      /\ cache \in [Servers -> WorkspaceRecords] /\ folder \in [Folders -> ProjectRecords]
  BY DEF WorkspaceInv, WorkspaceTypes
<1>8. w \in WorkspaceRecords /\ Alike(cache[s], w)
  BY <1>4, <1>5, Replacing
<1>9. Steady
  <2>1. folder' \in [Folders -> ProjectRecords] /\ \A g \in Folders : folder'[g].id = folder[g].id
    BY <1>4, <1>6, <1>7
  <2>2. cache'[s] = w /\ \A t \in Servers : t # s => cache'[t] = cache[t]
    BY <1>6, <1>7
  <2>3. cache' \in [Servers -> WorkspaceRecords] /\ saved' \in WorkspaceRecords
    BY <1>6, <1>7, <1>8
  <2> QED
    BY <1>3, <1>6, <1>8, <2>1, <2>2, <2>3 DEF Steady
<1>10. doing'[s] = NoOperation /\ DOMAIN doing' = Servers
  BY <1>6, <1>7
<1>11. Edits(s)' /\ (\A q \in Projects : Under(q)') /\ DOMAIN build' = Projects /\ DOMAIN editing' = Servers
  BY <1>6, <1>7 DEF WorkspaceInv, Edits, Under
<1> QED
  BY <1>2, <1>6, <1>9, <1>10, <1>11, SteadyKeeps

LEMMA ArchiveReadKeeps ==
    ASSUME WorkspaceInv, NEW s \in Servers, Only(s), Others(s), NEW p \in Projects, ArchiveRead(s, p)
    PROVE  WorkspaceInv'
<1>1. PICK o : o = [op |-> "archive", folder |-> "none", record |-> folder[FolderOf(p)]]
  OBVIOUS
<1>2. /\ Ready(s) /\ OnDisk(p) /\ doing' = [doing EXCEPT ![s] = o]
      /\ UNCHANGED <<folder, saved, cache, build, editing, lastProject>>
  BY <1>1 DEF ArchiveRead, Asked
<1>3. DOMAIN doing = Servers /\ DOMAIN build = Projects /\ DOMAIN editing = Servers
  BY DEF WorkspaceInv, WorkspaceTypes
<1>4. HasCache(s) /\ \A t \in Servers : doing[t].op # "create"
  BY <1>2, Resting
<1>5. doing'[s] = o /\ o.op = "archive" /\ o.record.id = p
  BY <1>1, <1>2, <1>3, FolderOfIs
<1>6. Steady
  BY <1>2, UnchangedSteady
<1>7. DOMAIN doing' = Servers /\ DOMAIN build' = Projects /\ DOMAIN editing' = Servers
  BY <1>2, <1>3
<1>8. (\A t \in Servers : Edits(t)') /\ \A q \in Projects : Under(q)'
  BY <1>2 DEF WorkspaceInv, Edits, Under
<1>9. \A t \in Servers : Halfway(t)' /\ doing'[t].op # "create"
  <2>1. Halfway(s)' /\ doing'[s].op # "create"
    BY <1>2, <1>4, <1>5 DEF Halfway, HasCache
  <2> QED
    BY <2>1, OthersRest
<1> QED
  BY <1>2, <1>4, <1>6, <1>7, <1>8, <1>9, QuietKeeps DEF Steady

LEMMA ArchiveUpdateKeeps ==
    ASSUME WorkspaceInv, NEW s \in Servers, Only(s), Others(s), ArchiveUpdate(s)
    PROVE  WorkspaceInv'
<1>1. doing[s].op = "archive" /\ doing[s] # NoOperation
  BY UnknownIs DEF ArchiveUpdate
<1>2. HasCache(s) /\ doing[s].record.id \in Projects
  BY <1>1 DEF WorkspaceInv, Halfway
<1>3. /\ TryUpdate(s, doing[s].record.id, "archived")
      /\ doing' = [doing EXCEPT ![s] = NoOperation]
      /\ UNCHANGED <<build, editing, lastProject>>
  BY DEF ArchiveUpdate
<1>4. Steady
  BY <1>2, <1>3, Updating DEF Conditions, Steady
<1>5. DOMAIN doing = Servers /\ DOMAIN build = Projects /\ DOMAIN editing = Servers
  BY DEF WorkspaceInv, WorkspaceTypes
<1>6. doing'[s] = NoOperation /\ DOMAIN doing' = Servers
  BY <1>3, <1>5
<1>7. Edits(s)' /\ (\A q \in Projects : Under(q)') /\ DOMAIN build' = Projects /\ DOMAIN editing' = Servers
  BY <1>3, <1>5 DEF WorkspaceInv, Edits, Under
<1> QED
  BY <1>1, <1>3, <1>4, <1>6, <1>7, SteadyKeeps
\* A build or a modification runs while its server is in the middle of nothing.
LEMMA RestKeeps ==
    ASSUME WorkspaceInv, NEW s \in Servers, Only(s), Others(s), Steady, Ready(s),
           UNCHANGED <<doing, lastProject>>, DOMAIN build' = Projects,
           \A p \in Projects : Under(p)', DOMAIN editing' = Servers, Edits(s)'
    PROVE  WorkspaceInv'
<1>1. doing[s] = NoOperation /\ doing[s].op # "create" /\ DOMAIN doing = Servers
  BY UnknownIs DEF Ready, Serving, WorkspaceInv, WorkspaceTypes
<1> QED
  BY <1>1, SteadyKeeps

LEMMA BuildsStay ==
    ASSUME WorkspaceInv, NEW p \in Projects, NEW at, build[p].at # "none",
           GoOn(p, at) \/ EndBuild(p)
    PROVE  DOMAIN build' = Projects /\ \A q \in Projects : Under(q)'
<1>1. DOMAIN build = Projects /\ \A q \in Projects : Under(q)
  BY DEF WorkspaceInv, WorkspaceTypes
<1>2. DOMAIN build' = Projects
  BY <1>1 DEF GoOn, EndBuild
<1>3. CASE GoOn(p, at)
  <2>1. build' = [build EXCEPT ![p].at = at]
    BY <1>3 DEF GoOn
  <2>2. PICK b : b = [build[p] EXCEPT !.at = at]
    OBVIOUS
  <2>3. build'[p] = b /\ \A q \in Projects : q # p => build'[q] = build[q]
    BY <1>1, <2>1, <2>2
  <2>4. b.server \in Servers /\ b.folder \in Folders
    <3>1. build[p].server \in Servers /\ build[p].folder \in Folders
      BY <1>1 DEF Under
    <3> QED
      BY <2>2, <3>1
  <2> QED
    BY <1>1, <1>2, <2>3, <2>4 DEF Under
<1>4. CASE EndBuild(p)
  <2>1. build'[p] = NoBuild /\ \A q \in Projects : q # p => build'[q] = build[q]
    BY <1>1, <1>4 DEF EndBuild
  <2> QED
    BY <1>1, <1>2, <2>1 DEF Under, NoBuild
<1> QED
  BY <1>3, <1>4

LEMMA BuildStepKeeps ==
    ASSUME WorkspaceInv, NEW p \in Projects, BuildStep(p),
           NEW s \in Servers, s = build[p].server, Only(s), Others(s)
    PROVE  WorkspaceInv'
<1>2. Ready(s) /\ build[p].at # "none" /\ Elsewhere
  BY DEF BuildStep, BeginBuild, FailBuild, StartFiles, FinishBuild, Running
<1>3. s \in Servers /\ \A q \in Projects : Under(q)
  BY <1>2 DEF WorkspaceInv, Under
<1>4. HasCache(s)
  BY <1>2 DEF Ready, HasCache
<1>5. Steady
  <2>1. NoUpdate \/ \E st \in Conditions : TryUpdate(s, p, st)
    BY DEF BuildStep, BeginBuild, FailBuild, StartFiles, FinishBuild, Conditions
  <2>2. CASE NoUpdate
    BY <2>2, UnchangedSteady DEF NoUpdate
  <2>3. CASE \E st \in Conditions : TryUpdate(s, p, st)
    BY <1>3, <1>4, <2>3, Updating DEF Steady
  <2> QED
    BY <2>1, <2>2, <2>3
<1>6. EndBuild(p) \/ \E at : GoOn(p, at)
  BY DEF BuildStep, BeginBuild, FailBuild, StartFiles, FinishBuild
<1>7. DOMAIN build' = Projects /\ \A q \in Projects : Under(q)'
  BY <1>2, <1>6, BuildsStay
<1>8. DOMAIN editing' = Servers /\ Edits(s)' /\ UNCHANGED <<doing, lastProject>>
  BY <1>2, <1>3 DEF Elsewhere, WorkspaceInv, WorkspaceTypes, Edits
<1> QED
  BY <1>2, <1>3, <1>5, <1>7, <1>8, RestKeeps

\* An orphan is no project.
LEMMA OrphanSteady ==
    ASSUME WorkspaceInv, NEW f \in Folders, folder[f] = NoFolder,
           folder' = [folder EXCEPT ![f] = Orphan]
    PROVE  folder' \in [Folders -> ProjectRecords] /\ \A g \in Folders : folder'[g].id = folder[g].id
<1>1. folder \in [Folders -> ProjectRecords]
  BY DEF WorkspaceInv, WorkspaceTypes
<1>2. folder[f].id = 0 /\ Orphan.id = 0 /\ Orphan \in ProjectRecords
  BY UnknownIs
<1>3. \A g \in Folders : folder'[g] = IF g = f THEN Orphan ELSE folder[g]
  BY <1>1
<1> QED
  BY <1>1, <1>2, <1>3

LEMMA WriteFileKeeps ==
    ASSUME WorkspaceInv, NEW p \in Projects, WriteFile(p),
           NEW s \in Servers, s = build[p].server, Only(s), Others(s)
    PROVE  WorkspaceInv'
<1>1. PICK f : f = build[p].folder
  OBVIOUS
<1>2. /\ Ready(s) /\ build[p].at # "none" /\ folder[f] = NoFolder
      /\ folder' = [folder EXCEPT ![f] = Orphan]
      /\ UNCHANGED <<saved, cache, build>> /\ Elsewhere
  BY <1>1 DEF WriteFile, Running
<1>3. s \in Servers /\ f \in Folders
  BY <1>1, <1>2 DEF WorkspaceInv, Under
<1>4. folder' \in [Folders -> ProjectRecords] /\ \A g \in Folders : folder'[g].id = folder[g].id
  BY <1>2, <1>3, OrphanSteady
<1>5. Steady
  BY <1>2, <1>4 DEF Steady, WorkspaceInv, WorkspaceTypes
<1>6. /\ DOMAIN build' = Projects /\ DOMAIN editing' = Servers /\ Edits(s)'
      /\ UNCHANGED <<doing, lastProject>> /\ \A q \in Projects : Under(q)'
  BY <1>2, <1>3 DEF Elsewhere, WorkspaceInv, WorkspaceTypes, Edits, Under
<1> QED
  BY <1>2, <1>3, <1>5, <1>6, RestKeeps

LEMMA CheckEditKeeps ==
    ASSUME WorkspaceInv, NEW s \in Servers, Only(s), Others(s), NEW p \in Projects, CheckEdit(s, p)
    PROVE  WorkspaceInv'
<1>1. PICK e : e = IF folder[FolderOf(p)].state = "runtime"
                   THEN [project |-> p, folder |-> FolderOf(p)] ELSE NoEdit
  OBVIOUS
<1>2. /\ Ready(s) /\ OnDisk(p) /\ Reload(s, p) /\ editing' = [editing EXCEPT ![s] = e]
      /\ UNCHANGED <<folder, saved, doing, build, lastProject>>
  BY <1>1 DEF CheckEdit, Asked
<1>3. Steady /\ FolderOf(p) \in Folders
  BY <1>2, ReloadKeeps
<1>4. DOMAIN editing = Servers /\ DOMAIN build = Projects
  BY DEF WorkspaceInv, WorkspaceTypes
<1>5. DOMAIN editing' = Servers /\ editing'[s] = e
  BY <1>2, <1>4
<1>6. Edits(s)'
  BY <1>1, <1>3, <1>5 DEF Edits
<1>7. DOMAIN build' = Projects /\ \A q \in Projects : Under(q)'
  BY <1>2, <1>4 DEF WorkspaceInv, Under
<1> QED
  BY <1>2, <1>3, <1>5, <1>6, <1>7, RestKeeps

LEMMA AbandonEditKeeps ==
    ASSUME WorkspaceInv, NEW s \in Servers, Only(s), Others(s), AbandonEdit(s)
    PROVE  WorkspaceInv'
<1>1. /\ Ready(s) /\ editing' = [editing EXCEPT ![s] = NoEdit]
      /\ UNCHANGED <<folder, saved, cache, doing, build, lastProject>>
  BY DEF AbandonEdit, NoUpdate
<1>2. Steady
  BY <1>1, UnchangedSteady
<1>3. DOMAIN editing = Servers /\ DOMAIN build = Projects
  BY DEF WorkspaceInv, WorkspaceTypes
<1>4. DOMAIN editing' = Servers /\ Edits(s)'
  BY <1>1, <1>3 DEF Edits
<1>5. DOMAIN build' = Projects /\ \A q \in Projects : Under(q)'
  BY <1>1, <1>3 DEF WorkspaceInv, Under
<1> QED
  BY <1>1, <1>2, <1>4, <1>5, RestKeeps

LEMMA SaveEditKeeps ==
    ASSUME WorkspaceInv, NEW s \in Servers, Only(s), Others(s), SaveEdit(s)
    PROVE  WorkspaceInv'
<1>1. PICK p, f : p = editing[s].project /\ f = editing[s].folder
  OBVIOUS
<1>2. PICK r : r = [cache[s].projects[p] EXCEPT !.status = "active"]
  OBVIOUS
<1>3. /\ Ready(s) /\ editing[s] # NoEdit /\ editing' = [editing EXCEPT ![s] = NoEdit]
      /\ UNCHANGED <<doing, build, lastProject>>
      /\ IF folder[f] # NoFolder THEN TryUpdate(s, p, "active")
         ELSE /\ folder' = [folder EXCEPT ![f] = Orphan]
              /\ IF Knows(s, p) THEN KeepAndSave(s, p, r, cache[s].total)
                                ELSE UNCHANGED <<saved, cache>>
  BY <1>1, <1>2 DEF SaveEdit
<1>4. p \in Projects /\ f \in Folders
  BY <1>1, <1>3 DEF WorkspaceInv, Edits
<1>5. HasCache(s)
  BY <1>3 DEF Ready, HasCache
<1>6. /\ cache \in [Servers -> WorkspaceRecords] /\ saved \in WorkspaceRecords
      /\ DOMAIN editing = Servers /\ DOMAIN build = Projects
  BY DEF WorkspaceInv, WorkspaceTypes
<1>7. Steady
  <2>1. CASE folder[f] # NoFolder
    BY <1>3, <1>4, <1>5, <2>1, Updating DEF Conditions, Steady
  <2>2. CASE folder[f] = NoFolder
    <3>1. folder' \in [Folders -> ProjectRecords] /\ \A g \in Folders : folder'[g].id = folder[g].id
      BY <1>3, <1>4, <2>2, OrphanSteady
    <3>2. CASE ~Knows(s, p)
      BY <1>3, <1>6, <2>2, <3>1, <3>2 DEF Steady
    <3>3. CASE Knows(s, p)
      <4>1. p \in KnownIn(cache[s])
        BY <1>4, <3>3 DEF Knows, KnownIn
      <4>2. cache[s].projects[p] \in ProjectRecords /\ cache[s].projects[p].id = p
        BY <1>4, <1>6, <4>1 DEF WorkspaceInv, Sound, KnownIn, WorkspaceRecords
      <4>3. r \in ProjectRecords /\ r.id = p
        BY <1>2, <4>2 DEF ProjectRecords, Conditions
      <4>4. PICK w : w = Workspace([cache[s].projects EXCEPT ![p] = r], cache[s].total)
        OBVIOUS
      <4>5. w \in WorkspaceRecords /\ Alike(cache[s], w)
        BY <4>1, <4>3, <4>4, Replacing
      <4>6. cache' = [cache EXCEPT ![s] = w] /\ saved' = w
        BY <1>3, <2>2, <3>3, <4>4 DEF KeepAndSave
      <4>7. cache'[s] = w /\ \A t \in Servers : t # s => cache'[t] = cache[t]
        BY <1>6, <4>6
      <4>8. cache' \in [Servers -> WorkspaceRecords] /\ saved' \in WorkspaceRecords
        BY <1>6, <4>5, <4>6
      <4> QED
        BY <1>5, <3>1, <4>5, <4>6, <4>7, <4>8 DEF Steady
    <3> QED
      BY <3>2, <3>3
  <2> QED
    BY <2>1, <2>2
<1>8. DOMAIN editing' = Servers /\ Edits(s)'
  BY <1>3, <1>6 DEF Edits
<1>9. DOMAIN build' = Projects /\ \A q \in Projects : Under(q)'
  BY <1>3, <1>6 DEF WorkspaceInv, Under
<1> QED
  BY <1>3, <1>7, <1>8, <1>9, RestKeeps

\* The server forgets; what is on the disk and saved stays.
LEMMA ServerDiesKeeps ==
    ASSUME WorkspaceInv, NEW s \in Servers, Others(s), ServerDies(s)
    PROVE  WorkspaceInv'
<1>1. /\ cache' = [cache EXCEPT ![s] = NoCache] /\ doing' = [doing EXCEPT ![s] = NoOperation]
      /\ editing' = [editing EXCEPT ![s] = NoEdit]
      /\ build' = [p \in Projects |-> IF build[p].server = s THEN NoBuild ELSE build[p]]
      /\ UNCHANGED <<folder, saved, lastProject>>
  BY DEF ServerDies
<1>2. /\ cache \in [Servers -> WorkspaceRecords] /\ DOMAIN doing = Servers
      /\ DOMAIN editing = Servers
  BY DEF WorkspaceInv, WorkspaceTypes
<1>3. cache'[s] = NoCache /\ doing'[s] = NoOperation /\ editing'[s] = NoEdit
  BY <1>1, <1>2
<1>4. \A t \in Servers : t # s => /\ cache'[t] = cache[t] /\ doing'[t] = doing[t]
                               /\ editing'[t] = editing[t]
  BY DEF Others
<1>5. WorkspaceTypes'
  BY <1>1, <1>2, NoCacheIs DEF WorkspaceInv, WorkspaceTypes
<1>6. Housed'
  BY <1>1 DEF WorkspaceInv, Housed
<1>7. Sound(NoCache, lastProject)
  BY DEF Sound, NoCache, Workspace
<1>8. Sound(saved', lastProject') /\ \A t \in Servers : Sound(cache'[t], lastProject')
  BY <1>1, <1>3, <1>4, <1>7 DEF WorkspaceInv
<1>9. \A t \in Servers : HasCache(t)' => Found(t)' /\ Counted(t)'
  BY <1>1, <1>3, <1>4 DEF WorkspaceInv, HasCache, Found, Counted, Occupied
<1>10. \A t \in Servers : Halfway(t)' /\ Edits(t)'
  <2>1. Halfway(s)' /\ Edits(s)'
    BY <1>3 DEF Halfway, Edits
  <2>2. ASSUME NEW t \in Servers, t # s PROVE Halfway(t)' /\ Edits(t)'
    <3>1. Halfway(t) /\ Edits(t)
      BY DEF WorkspaceInv
    <3>2. Edits(t)'
      BY <1>4, <2>2, <3>1 DEF Edits
    <3>3. Halfway(t)'
      BY <1>1, <1>4, <2>2, <3>1 DEF Halfway, HasCache
    <3> QED
      BY <3>2, <3>3
  <2> QED
    BY <2>1, <2>2
<1>11. \A p \in Projects : Under(p)'
  BY <1>1 DEF WorkspaceInv, Under, NoBuild
<1>12. IsFiniteSet(Occupied') /\ Cardinality(Occupied') <= ProjectLimit
  BY <1>1 DEF WorkspaceInv, Occupied
<1> QED
  BY <1>5, <1>6, <1>8, <1>9, <1>10, <1>11, <1>12 DEF WorkspaceInv

\* What one process does changes nothing of the others.
LEMMA OthersStay ==
    ASSUME WorkspaceInv, NEW s \in Servers,
           \/ Operation(s)
           \/ \E p \in Projects : build[p].server = s /\ (BuildStep(p) \/ WriteFile(p))
    PROVE  Others(s)
<1>1. /\ \A t \in Servers : t # s => cache'[t] = cache[t]
      /\ \A t \in Servers : t # s => doing'[t] = doing[t]
      /\ \A t \in Servers : t # s => editing'[t] = editing[t]
  <2>1. DOMAIN cache = Servers /\ DOMAIN doing = Servers /\ DOMAIN editing = Servers
    BY DEF WorkspaceInv, WorkspaceTypes
  <2>2. CASE OpenWorkspace(s) \/ EndOperation(s) \/ AbandonEdit(s) \/ SaveEdit(s) \/ ServerDies(s)
    BY <2>1, <2>2 DEF OpenWorkspace, EndOperation, AbandonEdit, SaveEdit, ServerDies, SaveProject,
       ForgetProject, PromoteWrite, ArchiveUpdate, KeepAndSave, TryUpdate, UpdateStatus, NoUpdate
  <2>3. CASE \E f \in Folders : MakeFolder(s, f)
    BY <2>1, <2>3 DEF MakeFolder
  <2>4. CASE \E p \in Projects : RemoveFolder(s, p) \/ PromoteRead(s, p) \/ ArchiveRead(s, p)
                                 \/ CheckEdit(s, p)
    BY <2>1, <2>4 DEF RemoveFolder, PromoteRead, ArchiveRead, CheckEdit, Reload
  <2>5. CASE \E p \in Projects : build[p].server = s /\ (BuildStep(p) \/ WriteFile(p))
    BY <2>1, <2>5 DEF BuildStep, WriteFile, BeginBuild, FailBuild, StartFiles, FinishBuild,
       Elsewhere, KeepAndSave, TryUpdate, UpdateStatus, NoUpdate
  <2> QED
    BY <2>2, <2>3, <2>4, <2>5 DEF Operation
<1> QED
  BY <1>1 DEF Others

\* Whoever works, works with a loaded workspace.
LEMMA WorkersLoaded ==
    ASSUME WorkspaceInv, NEW s \in Servers
    PROVE  /\ Operation(s) => OpenWorkspace(s) \/ ServerDies(s) \/ HasCache(s)
           /\ \A p \in Projects : (BuildStep(p) \/ WriteFile(p)) /\ build[p].server = s => HasCache(s)
<1>1. doing[s].op # "none" => HasCache(s)
  BY UnknownIs DEF WorkspaceInv, Halfway
<1>2. Ready(s) => HasCache(s)
  BY DEF Ready, HasCache
<1>3. Asked(s) => Ready(s)
  BY DEF Asked
<1>4. EndOperation(s) => doing[s].op # "none"
  BY DEF EndOperation, SaveProject, ForgetProject, PromoteWrite, ArchiveUpdate
<1>5. Operation(s) => OpenWorkspace(s) \/ ServerDies(s) \/ EndOperation(s) \/ Ready(s)
  BY <1>3 DEF Operation, AbandonEdit, SaveEdit, MakeFolder, RemoveFolder, PromoteRead, ArchiveRead,
     CheckEdit
<1>6. \A p \in Projects : (BuildStep(p) \/ WriteFile(p)) /\ build[p].server = s => Ready(s)
  BY DEF BuildStep, WriteFile, BeginBuild, FailBuild, StartFiles, FinishBuild, Running
<1> QED
  BY <1>1, <1>2, <1>4, <1>5, <1>6

LEMMA LoadedAlone ==
    ASSUME WorkspaceInv, NEW s \in Servers,
           \A t \in Servers : t # s => ~HasCache(t)
    PROVE  Only(s)
<1>1. \A t \in Servers : ~HasCache(t) => cache[t] = NoCache /\ doing[t] = NoOperation
  BY DEF WorkspaceInv, Halfway, HasCache
<1> QED
  BY <1>1 DEF Only

LEMMA WorkspacesStep ==
    ASSUME WorkspaceInv, OneLoaded, [WorkspacesNext]_WorkspaceVars, ~shared'
    PROVE  WorkspaceInv' /\ OneLoaded'
<1>1. ASSUME NEW s \in Servers, Only(s), Others(s) PROVE OneLoaded'
  BY <1>1 DEF Only, Others, OneLoaded, HasCache
<1>2. ASSUME NEW s \in Servers, HasCache(s) PROVE Only(s)
  BY <1>2, LoadedAlone DEF OneLoaded
<1>3. ASSUME NEW s \in Servers, Operation(s) PROVE WorkspaceInv' /\ OneLoaded'
  <2>1. Others(s)
    BY <1>3, OthersStay
  <2>2. CASE OpenWorkspace(s)
    <3>1. \A t \in Servers : ~HasCache(t)
      BY <2>2 DEF OpenWorkspace, HasCache
    <3>2. Only(s)
      BY <3>1, LoadedAlone
    <3> QED
      BY <1>1, <2>1, <2>2, <3>2, OpenWorkspaceKeeps
  <2>3. CASE ServerDies(s)
    <3>1. cache'[s] = NoCache
      BY <2>3 DEF ServerDies, WorkspaceInv, WorkspaceTypes
    <3>2. \A t \in Servers : HasCache(t)' => HasCache(t)
      BY <2>1, <3>1 DEF Others, HasCache
    <3> QED
      BY <2>1, <2>3, <3>2, ServerDiesKeeps DEF OneLoaded
  <2>4. CASE HasCache(s) /\ ~OpenWorkspace(s) /\ ~ServerDies(s)
    <3>1. Only(s)
      BY <1>2, <2>4
    <3>2. WorkspaceInv'
      BY <1>3, <2>1, <2>4, <3>1, SaveProjectKeeps, ForgetProjectKeeps, PromoteWriteKeeps,
         ArchiveUpdateKeeps, AbandonEditKeeps, SaveEditKeeps, MakeFolderKeeps, RemoveFolderKeeps,
         PromoteReadKeeps, ArchiveReadKeeps, CheckEditKeeps DEF Operation, EndOperation
    <3> QED
      BY <1>1, <2>1, <3>1, <3>2
  <2> QED
    BY <1>3, <2>2, <2>3, <2>4, WorkersLoaded
<1>4. ASSUME NEW p \in Projects, BuildStep(p) \/ WriteFile(p) PROVE WorkspaceInv' /\ OneLoaded'
  <2>1. PICK s \in Servers : s = build[p].server
    BY <1>4 DEF WorkspaceInv, Under, BuildStep, WriteFile, BeginBuild, FailBuild, StartFiles,
       FinishBuild, Running
  <2>2. HasCache(s) /\ Others(s)
    BY <1>4, <2>1, WorkersLoaded, OthersStay
  <2>3. Only(s)
    BY <1>2, <2>2
  <2> QED
    BY <1>1, <1>4, <2>1, <2>2, <2>3, BuildStepKeeps, WriteFileKeeps
<1>5. CASE UNCHANGED WorkspaceVars
  BY <1>5 DEF WorkspaceVars, WorkspaceInv, WorkspaceTypes, Housed, Sound, HasCache, Found, Counted,
     Halfway, Edits, Under, Occupied, OneLoaded
<1> QED
  BY <1>3, <1>4, <1>5 DEF WorkspacesNext

\* Once two processes have shared the workspace, they have.
LEMMA SharedKept == shared /\ [WorkspacesNext]_WorkspaceVars => shared'
<1> SUFFICES ASSUME shared, [WorkspacesNext]_WorkspaceVars PROVE shared'
  OBVIOUS
<1>1. ASSUME NEW s \in Servers, Operation(s) PROVE shared'
  BY <1>1 DEF Operation, EndOperation, OpenWorkspace, AbandonEdit, SaveEdit, ServerDies, SaveProject,
     ForgetProject, PromoteWrite, ArchiveUpdate, MakeFolder, RemoveFolder, PromoteRead, ArchiveRead,
     CheckEdit, HistoryVars
<1>2. ASSUME NEW p \in Projects, BuildStep(p) \/ WriteFile(p) PROVE shared'
  BY <1>2 DEF BuildStep, WriteFile, BeginBuild, FailBuild, StartFiles, FinishBuild, Elsewhere,
     HistoryVars
<1> QED
  BY <1>1, <1>2 DEF WorkspacesNext, WorkspaceVars, HistoryVars

LEMMA WorkspacesStart == WorkspacesInit => WorkspaceInv
<1> SUFFICES ASSUME WorkspacesInit PROVE WorkspaceInv
  OBVIOUS
<1>1. /\ folder = [f \in Folders |-> Unknown] /\ cache = [s \in Servers |-> NoCache]
      /\ saved = Workspace([p \in Projects |-> Unknown], 0)
      /\ doing = [s \in Servers |-> NoOperation] /\ build = [p \in Projects |-> NoBuild]
      /\ editing = [s \in Servers |-> NoEdit] /\ lastProject = 0
  BY UnknownIs DEF WorkspacesInit
<1>2. saved \in WorkspaceRecords /\ Sound(saved, lastProject) /\ Sound(NoCache, lastProject)
  BY <1>1, UnknownIs DEF Workspace, WorkspaceRecords, Sound, NoCache
<1>3. WorkspaceTypes
  BY <1>1, <1>2, UnknownIs, NoCacheIs, WorkspaceAssumption DEF WorkspaceTypes
<1>4. Occupied = {}
  BY <1>1, UnknownIs DEF Occupied
<1>5. Housed
  BY <1>1, UnknownIs DEF Housed
<1>6. \A s \in Servers : ~HasCache(s) /\ Sound(cache[s], lastProject) /\ Halfway(s) /\ Edits(s)
  BY <1>1, <1>2 DEF HasCache, Halfway, Edits
<1>7. \A p \in Projects : Under(p)
  BY <1>1 DEF Under, NoBuild
<1>8. IsFiniteSet(Occupied) /\ Cardinality(Occupied) <= ProjectLimit
  BY <1>4, FS_EmptySet, WorkspaceAssumption
<1> QED
  BY <1>2, <1>3, <1>5, <1>6, <1>7, <1>8 DEF WorkspaceInv

\* With any number of processes, the user has more projects on the disk than the limit
\* that create_project compares the workspace's counter with (workspace_manager.py:333)
\* only if two processes have had the workspace loaded at once, whatever operation a
\* crash cut in two: the counter a process begins with is that of the saved workspace
\* and the disk together, and it alone works on them until it dies.
THEOREM LimitAlwaysKept == WorkspacesSpec => []LimitKept
<1> DEFINE Settled == shared \/ (WorkspaceInv /\ OneLoaded)
<1>1. Settled => LimitKept
  BY DEF WorkspaceInv, Occupied, LimitKept
<1>2. WorkspacesInit => Settled
  BY WorkspacesStart DEF WorkspacesInit, OneLoaded, HasCache
<1>3. Settled /\ [WorkspacesNext]_WorkspaceVars => Settled'
  <2>1. CASE shared
    BY <2>1, SharedKept
  <2>2. CASE ~shared
    BY <2>2, WorkspacesStep
  <2> QED
    BY <2>1, <2>2
<1> QED
  BY <1>1, <1>2, <1>3, PTL DEF WorkspacesSpec
-----------------------------------------------------------------------------
(* The orchestrator.  A task that is neither waiting nor completed is always *)
(* queued or in somebody's hand, so the only tasks a report has to look for  *)
(* when it unlocks are the pending ones.                                     *)

Given == {t \in Tasks : t[1] <= submitted}

TaskStates == {"pending", "assigned", "blocked", "failed", "completed"}

InProgress(t) == Queued(t) \/ InHand(t)

OrchestratorTypes ==
    /\ submitted \in 0 .. LastGoal /\ DOMAIN goal = 1 .. LastGoal
    /\ status \in [Tasks -> TaskStates] /\ queue \in Seq(Given)
    /\ loop.at # "get" => loop.task \in Given
    /\ DOMAIN report = Reporters
    /\ \A r \in Reporters : /\ "at" \in DOMAIN report[r] /\ "task" \in DOMAIN report[r]
                            /\ report[r].at # "idle" => report[r].task \in Given

Held == \A t \in Tasks : status[t] \in {"assigned", "blocked", "failed"} => InProgress(t)

OrchestratorInv ==
    /\ OrchestratorTypes /\ Held /\ NothingForgotten
    /\ \A t \in Tasks \ Given : status[t] = "pending"

LEMMA LenDomain ==
    ASSUME NEW T, NEW s \in Seq(T), NEW n \in Nat, DOMAIN s = 1 .. n
    PROVE  Len(s) = n
<1>1. PICK m \in Nat : m = Len(s) /\ 1 .. m = 1 .. n
  BY LenProperties
<1>2. ~(m < n)
  <2>1. m < n => n \in 1 .. n /\ n \notin 1 .. m
    OBVIOUS
  <2> QED
    BY <1>1, <2>1
<1>3. ~(n < m)
  <2>1. n < m => m \in 1 .. m /\ m \notin 1 .. n
    OBVIOUS
  <2> QED
    BY <1>1, <2>1
<1> QED
  BY <1>1, <1>2, <1>3

\* Some put after what is in the queue.
LEMMA AppendedAll ==
    ASSUME NEW T, NEW q \in Seq(T), NEW S, S \subseteq T, IsFiniteSet(S), NEW s \in Orders(S)
    PROVE  /\ q \o s \in Seq(T)
           /\ \A i \in 1 .. Len(q) : i \in 1 .. Len(q \o s) /\ (q \o s)[i] = q[i]
           /\ \A t \in S : \E i \in 1 .. Len(q \o s) : (q \o s)[i] = t
<1>1. PICK n \in Nat : n = Cardinality(S)
  BY FS_CardinalityType
<1>2. s \in [1 .. n -> S] /\ \A t \in S : \E i \in 1 .. n : s[i] = t
  BY <1>1 DEF Orders
<1>3. s \in Seq(T) /\ Len(s) = n
  <2>1. s \in [1 .. n -> T] /\ DOMAIN s = 1 .. n
    BY <1>2
  <2>2. s \in Seq(T)
    BY <2>1, SeqDef
  <2>3. Len(s) = n
    BY <2>1, <2>2, LenDomain
  <2> QED
    BY <2>2, <2>3
<1>4. PICK m \in Nat : m = Len(q)
  BY LenProperties
<1>5. /\ q \o s \in Seq(T) /\ Len(q \o s) = m + n
      /\ \A i \in 1 .. m + n : (q \o s)[i] = IF i <= m THEN q[i] ELSE s[i - m]
  BY <1>3, <1>4, ConcatProperties
<1>6. \A i \in 1 .. m : i \in 1 .. m + n /\ (q \o s)[i] = q[i]
  BY <1>5
<1>7. \A i \in 1 .. n : m + i \in 1 .. m + n /\ (q \o s)[m + i] = s[i]
  BY <1>5
<1>8. \A t \in S : \E i \in 1 .. m + n : (q \o s)[i] = t
  BY <1>2, <1>7
<1> QED
  BY <1>4, <1>5, <1>6, <1>8

LEMMA Appended ==
    ASSUME NEW T, NEW q \in Seq(T), NEW x \in T
    PROVE  /\ Append(q, x) \in Seq(T)
           /\ \A i \in 1 .. Len(q) : i \in 1 .. Len(Append(q, x)) /\ Append(q, x)[i] = q[i]
           /\ \E i \in 1 .. Len(Append(q, x)) : Append(q, x)[i] = x
<1>1. PICK m \in Nat : m = Len(q)
  BY LenProperties
<1>2. /\ Append(q, x) \in Seq(T) /\ Len(Append(q, x)) = m + 1
      /\ \A i \in 1 .. m : Append(q, x)[i] = q[i]
      /\ Append(q, x)[m + 1] = x
  BY <1>1, AppendProperties
<1>3. m + 1 \in 1 .. m + 1 /\ \A i \in 1 .. m : i \in 1 .. m + 1
  OBVIOUS
<1> QED
  BY <1>1, <1>2, <1>3

LEMMA Taken ==
    ASSUME NEW T, NEW q \in Seq(T), q # <<>>
    PROVE  /\ Tail(q) \in Seq(T) /\ Head(q) \in T
           /\ \A i \in 1 .. Len(q) : \/ q[i] = Head(q)
                                     \/ \E j \in 1 .. Len(Tail(q)) : Tail(q)[j] = q[i]
<1>1. PICK m \in Nat : m = Len(q)
  BY LenProperties
<1>2. /\ Tail(q) \in Seq(T) /\ Len(Tail(q)) = m - 1 /\ Head(q) = q[1] /\ Head(q) \in T
      /\ \A i \in 1 .. m - 1 : Tail(q)[i] = q[i + 1]
  BY <1>1, HeadTailProperties
<1>3. ASSUME NEW i \in 1 .. m, i # 1
      PROVE  i - 1 \in 1 .. m - 1 /\ Tail(q)[i - 1] = q[i]
  <2>1. i - 1 \in 1 .. m - 1 /\ (i - 1) + 1 = i
    BY <1>3
  <2> QED
    BY <1>2, <2>1
<1> QED
  BY <1>1, <1>2, <1>3

\* A queue of some tasks is one of more tasks.
LEMMA WiderQueue ==
    ASSUME NEW T, NEW U, T \subseteq U, NEW q \in Seq(T)
    PROVE  q \in Seq(U)
OBVIOUS

LEMMA PutAllKeeps ==
    ASSUME NEW T, T \subseteq Tasks, queue \in Seq(T), NEW S, S \subseteq T, PutAll(S)
    PROVE  queue' \in Seq(T) /\ \A t : Queued(t) \/ t \in S => Queued(t)'
<1>1. PICK s \in Orders(S) : queue' = queue \o s
  BY DEF PutAll
<1>2. IsFiniteSet(S)
  BY ReportersAssumption, FS_Subset
<1>3. /\ queue' \in Seq(T)
      /\ \A i \in 1 .. Len(queue) : i \in 1 .. Len(queue') /\ queue'[i] = queue[i]
      /\ \A t \in S : \E i \in 1 .. Len(queue') : queue'[i] = t
  BY <1>1, <1>2, AppendedAll
<1> QED
  BY <1>3 DEF Queued

LEMMA PutKeeps ==
    ASSUME NEW T, queue \in Seq(T), NEW x \in T, queue' = Append(queue, x)
    PROVE  queue' \in Seq(T) /\ \A t : Queued(t) \/ t = x => Queued(t)'
<1>1. /\ queue' \in Seq(T)
      /\ \A i \in 1 .. Len(queue) : i \in 1 .. Len(queue') /\ queue'[i] = queue[i]
      /\ \E i \in 1 .. Len(queue') : queue'[i] = x
  BY Appended
<1> QED
  BY <1>1 DEF Queued

LEMMA TakeKeeps ==
    ASSUME NEW T, queue \in Seq(T), queue # <<>>, queue' = Tail(queue)
    PROVE  /\ queue' \in Seq(T) /\ Head(queue) \in T
           /\ \A t : Queued(t) => t = Head(queue) \/ Queued(t)'
<1>1. /\ queue' \in Seq(T) /\ Head(queue) \in T
      /\ \A i \in 1 .. Len(queue) : \/ queue[i] = Head(queue)
                                    \/ \E j \in 1 .. Len(queue') : queue'[j] = queue[i]
  BY Taken
<1> QED
  BY <1>1 DEF Queued

LEMMA TaskIs == ASSUME NEW t \in Tasks PROVE t[1] \in 1 .. LastGoal /\ t = <<t[1], t[2]>>
BY OrchestratorAssumption

\* The task a report is about is that of the last goal which has the id.
LEMMA TargetIs ==
    ASSUME OrchestratorTypes, NEW id, Known(id)
    PROVE  Target(id) \in Given /\ Target(id)[2] = id
<1>1. PICK T : T = {LastGoal - t[1] : t \in {u \in Tasks : u[2] = id /\ u[1] <= submitted}}
  OBVIOUS
<1>2. T \subseteq Nat /\ T # {}
  BY <1>1, TaskIs, OrchestratorAssumption DEF Known
<1>3. PICK i \in T : \A j \in T : ~(j < i)
  BY <1>2, FirstMember
<1>4. PICK t \in Tasks : t[2] = id /\ t[1] <= submitted /\ i = LastGoal - t[1]
  BY <1>1, <1>3
<1>5. ASSUME NEW u \in Tasks, u[2] = id, u[1] <= submitted
      PROVE  u[1] <= t[1]
  <2>1. LastGoal - u[1] \in T
    BY <1>1, <1>5
  <2>2. ~(LastGoal - u[1] < LastGoal - t[1])
    BY <1>3, <1>4, <2>1
  <2>3. u[1] \in Int /\ t[1] \in Int /\ LastGoal \in Int
    BY TaskIs, OrchestratorAssumption
  <2> QED
    BY <2>2, <2>3
<1>6. \E x \in Tasks : /\ x[2] = id /\ x[1] <= submitted
                       /\ \A u \in Tasks : u[2] = id /\ u[1] <= submitted => u[1] <= x[1]
  BY <1>4, <1>5
<1> QED
  BY <1>6 DEF Target, Given

LEMMA AtIs ==
    ASSUME NEW where, NEW t, NEW a
    PROVE  /\ At(where, t, a).at = where /\ At(where, t, a).task = t
           /\ "at" \in DOMAIN At(where, t, a) /\ "task" \in DOMAIN At(where, t, a)
BY DEF At

\* A report goes to another place.
LEMMA ReportMoves ==
    ASSUME OrchestratorTypes, NEW r \in Reporters, NEW x,
           "at" \in DOMAIN x, "task" \in DOMAIN x, x.at # "idle" => x.task \in Given,
           report' = [report EXCEPT ![r] = x], Given \subseteq Given'
    PROVE  /\ DOMAIN report' = Reporters /\ report'[r] = x
           /\ \A q \in Reporters : q # r => report'[q] = report[q]
           /\ \A q \in Reporters : /\ "at" \in DOMAIN report'[q] /\ "task" \in DOMAIN report'[q]
                                   /\ report'[q].at # "idle" => report'[q].task \in Given'
<1>1. /\ DOMAIN report' = Reporters /\ report'[r] = x
      /\ \A q \in Reporters : q # r => report'[q] = report[q]
  BY DEF OrchestratorTypes
<1>2. ASSUME NEW q \in Reporters
      PROVE  /\ "at" \in DOMAIN report'[q] /\ "task" \in DOMAIN report'[q]
             /\ report'[q].at # "idle" => report'[q].task \in Given'
  <2>1. CASE q = r
    BY <1>1, <2>1
  <2>2. CASE q # r
    BY <1>1, <2>2 DEF OrchestratorTypes
  <2> QED
    BY <2>1, <2>2
<1> QED
  BY <1>1, <1>2

\* A step that completes nothing: whatever it makes of a task, it does not lose it.
LEMMA NothingLost ==
    ASSUME OrchestratorInv, submitted' = submitted, goal' = goal,
           status' \in [Tasks -> TaskStates],
           \A t \in Tasks : InProgress(t) => InProgress(t)',
           \A t \in Tasks : \/ status'[t] = status[t]
                            \/ t \in Given /\ status'[t] # "completed" /\ InProgress(t)',
           \A r \in Reporters : report[r].at = "recording" =>
               report'[r].at = "recording" /\ report'[r].task = report[r].task
    PROVE  Held' /\ NothingForgotten' /\ (\A t \in Tasks \ Given : status[t] = "pending")'
<1>1. Held'
  BY DEF OrchestratorInv, Held
<1>2. Given' = Given
  BY DEF Given
<1>3. \A t \in Tasks : status'[t] = "completed" => status[t] = "completed"
  OBVIOUS
<1>4. ASSUME NEW t \in Tasks
      PROVE  TaskKept(t)'
  <2> SUFFICES ASSUME t[1] <= submitted, status'[t] # "completed", DependenciesMet(t, status')
               PROVE  \/ InProgress(t)'
                      \/ \E r \in Reporters : /\ report'[r].at = "recording"
                                              /\ report'[r].task[1] = t[1]
                                              /\ report'[r].task[2] \in DependsOn[t]
    BY DEF TaskKept, InProgress
  <2>1. CASE status'[t] = status[t]
    <3>1. DependenciesMet(t, status)
      BY <1>3 DEF DependenciesMet
    <3>2. TaskKept(t)
      BY DEF OrchestratorInv, NothingForgotten
    <3>3. \/ InProgress(t)
          \/ \E r \in Reporters : /\ report[r].at = "recording" /\ report[r].task[1] = t[1]
                                  /\ report[r].task[2] \in DependsOn[t]
      BY <2>1, <3>1, <3>2 DEF TaskKept, InProgress
    <3> QED
      BY <3>3
  <2>2. CASE status'[t] # status[t]
    BY <2>2
  <2> QED
    BY <2>1, <2>2
<1>5. ASSUME NEW g \in 1 .. submitted
      PROVE  CompletionNoticed(g)'
  <2> SUFFICES ASSUME TasksOf(g) # {}, AllCompleted(g)'
               PROVE  \/ goal'[g] = "completed"
                      \/ \E r \in Reporters : report'[r].at = "recording" /\ report'[r].task[1] = g
    BY DEF CompletionNoticed
  <2>1. AllCompleted(g)
    BY <1>3 DEF AllCompleted, TasksOf
  <2>2. CompletionNoticed(g)
    BY DEF OrchestratorInv, NothingForgotten
  <2> QED
    BY <2>1, <2>2 DEF CompletionNoticed
<1>6. (\A t \in Tasks \ Given : status[t] = "pending")'
  BY <1>2 DEF OrchestratorInv
<1> QED
  BY <1>1, <1>4, <1>5, <1>6 DEF NothingForgotten
-----------------------------------------------------------------------------
\* One lemma for each step of the orchestrator.

\* A step of the loop: what was queued or in its hand still is.
LEMMA LoopMoves ==
    ASSUME OrchestratorInv, UNCHANGED <<submitted, goal, report>>,
           status' \in [Tasks -> TaskStates], queue' \in Seq(Given),
           loop'.at # "get" => loop'.task \in Given,
           \A t \in Tasks : Queued(t) \/ (loop.at # "get" /\ loop.task = t)
                               => Queued(t)' \/ (loop'.at # "get" /\ loop'.task = t),
           \A t \in Tasks : \/ status'[t] = status[t]
                            \/ /\ t \in Given /\ status'[t] # "completed"
                               /\ Queued(t)' \/ (loop'.at # "get" /\ loop'.task = t)
    PROVE  OrchestratorInv'
<1>1. Given' = Given
  BY DEF Given
<1>2. OrchestratorTypes'
  BY <1>1 DEF OrchestratorInv, OrchestratorTypes
<1>3. \A t \in Tasks : InProgress(t) => InProgress(t)'
  BY DEF InProgress, InHand
<1>4. \A t \in Tasks : \/ status'[t] = status[t]
                       \/ t \in Given /\ status'[t] # "completed" /\ InProgress(t)'
  BY DEF InProgress, InHand
<1>5. Held' /\ NothingForgotten' /\ (\A t \in Tasks \ Given : status[t] = "pending")'
  BY <1>3, <1>4, NothingLost
<1> QED
  BY <1>2, <1>5 DEF OrchestratorInv

LEMMA GivenTasks == Given \subseteq Tasks
BY DEF Given

\* The loop takes the head of the queue in hand, with another status.
LEMMA TakenInHand ==
    ASSUME OrchestratorInv, UNCHANGED <<submitted, goal, report>>, queue # <<>>,
           loop.at = "get", NEW where, where # "get", NEW a, NEW state \in TaskStates,
           state # "completed",
           status' = [status EXCEPT ![Head(queue)] = state],
           loop' = At(where, Head(queue), a), queue' = Tail(queue)
    PROVE  OrchestratorInv'
<1>1. queue \in Seq(Given) /\ status \in [Tasks -> TaskStates]
  BY DEF OrchestratorInv, OrchestratorTypes
<1>2. /\ queue' \in Seq(Given) /\ Head(queue) \in Given
      /\ \A t : Queued(t) => t = Head(queue) \/ Queued(t)'
  BY <1>1, TakeKeeps
<1>3. PICK h \in Given : h = Head(queue)
  BY <1>2
<1>4. loop'.at # "get" /\ loop'.task = h
  BY <1>3, AtIs
<1>5. status' \in [Tasks -> TaskStates] /\ \A t \in Tasks : t # h => status'[t] = status[t]
  BY <1>1, <1>3
<1>6. status'[h] # "completed"
  BY <1>1, <1>3, GivenTasks
<1>7. \A t \in Tasks : Queued(t) \/ (loop.at # "get" /\ loop.task = t)
                          => Queued(t)' \/ (loop'.at # "get" /\ loop'.task = t)
  BY <1>2, <1>3, <1>4
<1>8. \A t \in Tasks : \/ status'[t] = status[t]
                       \/ /\ t \in Given /\ status'[t] # "completed"
                          /\ Queued(t)' \/ (loop'.at # "get" /\ loop'.task = t)
  BY <1>4, <1>5, <1>6
<1> QED
  BY <1>2, <1>4, <1>5, <1>7, <1>8, LoopMoves

LEMMA AssignKeeps ==
    ASSUME OrchestratorInv, NEW a \in Agents, Assign(a)
    PROVE  OrchestratorInv'
BY TakenInHand DEF Assign, TaskStates

LEMMA BlockKeeps ==
    ASSUME OrchestratorInv, Block
    PROVE  OrchestratorInv'
BY TakenInHand DEF Block, TaskStates

\* The task in hand goes back to the queue.
LEMMA HandedBack ==
    ASSUME OrchestratorInv, UNCHANGED <<submitted, goal, report>>, loop.at # "get",
           queue' = Append(queue, loop.task), loop' = At("get", None, NoAgent),
           status' = status \/ status' = [status EXCEPT ![loop.task] = "pending"]
    PROVE  OrchestratorInv'
<1>1. PICK h \in Given : h = loop.task
  BY DEF OrchestratorInv, OrchestratorTypes
<1>2. queue \in Seq(Given) /\ status \in [Tasks -> TaskStates]
  BY DEF OrchestratorInv, OrchestratorTypes
<1>3. queue' \in Seq(Given) /\ \A t : Queued(t) \/ t = h => Queued(t)'
  BY <1>1, <1>2, PutKeeps
<1>4. loop'.at = "get"
  BY AtIs
<1>5. status' \in [Tasks -> TaskStates] /\ \A t \in Tasks : t # h => status'[t] = status[t]
  BY <1>1, <1>2 DEF TaskStates
<1>6. status'[h] = status[h] \/ status'[h] # "completed"
  BY <1>1, <1>2, GivenTasks
<1>7. \A t \in Tasks : Queued(t) \/ (loop.at # "get" /\ loop.task = t)
                          => Queued(t)' \/ (loop'.at # "get" /\ loop'.task = t)
  BY <1>1, <1>3
<1>8. \A t \in Tasks : \/ status'[t] = status[t]
                       \/ /\ t \in Given /\ status'[t] # "completed"
                          /\ Queued(t)' \/ (loop'.at # "get" /\ loop'.task = t)
  BY <1>3, <1>5, <1>6
<1> QED
  BY <1>3, <1>4, <1>5, <1>7, <1>8, LoopMoves

LEMMA PutBackKeeps ==
    ASSUME OrchestratorInv, PutBack
    PROVE  OrchestratorInv'
BY HandedBack DEF PutBack

LEMMA RetryKeeps ==
    ASSUME OrchestratorInv, Retry
    PROVE  OrchestratorInv'
BY HandedBack DEF Retry

LEMMA TriggerKeeps ==
    ASSUME OrchestratorInv, Trigger
    PROVE  OrchestratorInv'
<1>1. /\ loop.at = "assigning" /\ loop' = At("failing", loop.task, loop.agent)
      /\ status' = [status EXCEPT ![loop.task] = "failed"]
      /\ UNCHANGED <<submitted, goal, queue, report>>
  BY DEF Trigger
<1>2. PICK h \in Given : h = loop.task
  BY <1>1 DEF OrchestratorInv, OrchestratorTypes
<1>3. queue \in Seq(Given) /\ status \in [Tasks -> TaskStates]
  BY DEF OrchestratorInv, OrchestratorTypes
<1>4. loop'.at # "get" /\ loop'.task = h
  BY <1>1, <1>2, AtIs
<1>5. status' \in [Tasks -> TaskStates] /\ \A t \in Tasks : t # h => status'[t] = status[t]
  BY <1>1, <1>2, <1>3 DEF TaskStates
<1>6. status'[h] # "completed"
  BY <1>1, <1>2, <1>3, GivenTasks
<1>7. \A t \in Tasks : Queued(t) => Queued(t)'
  BY <1>1 DEF Queued
<1>8. \A t \in Tasks : Queued(t) \/ (loop.at # "get" /\ loop.task = t)
                          => Queued(t)' \/ (loop'.at # "get" /\ loop'.task = t)
  BY <1>2, <1>4, <1>7
<1>9. \A t \in Tasks : \/ status'[t] = status[t]
                       \/ /\ t \in Given /\ status'[t] # "completed"
                          /\ Queued(t)' \/ (loop'.at # "get" /\ loop'.task = t)
  BY <1>4, <1>5, <1>6
<1>10. queue' \in Seq(Given)
  BY <1>1, <1>3
<1> QED
  BY <1>1, <1>4, <1>5, <1>8, <1>9, <1>10, LoopMoves

LEMMA CheckBlockedTasksKeeps ==
    ASSUME OrchestratorInv, CheckBlockedTasks
    PROVE  OrchestratorInv'
<1>1. PICK S : S = {t \in Tasks : status[t] = "blocked" /\ DependenciesMet(t, status)}
  OBVIOUS
<1>2. /\ status' = [t \in Tasks |-> IF t \in S THEN "pending" ELSE status[t]] /\ PutAll(S)
      /\ UNCHANGED <<submitted, goal, loop, report>>
  BY <1>1 DEF CheckBlockedTasks
<1>3. queue \in Seq(Given) /\ status \in [Tasks -> TaskStates]
  BY DEF OrchestratorInv, OrchestratorTypes
<1>4. S \subseteq Given
  BY <1>1 DEF OrchestratorInv
<1>5. queue' \in Seq(Given) /\ \A t : Queued(t) \/ t \in S => Queued(t)'
  BY <1>2, <1>3, <1>4, GivenTasks, PutAllKeeps
<1>6. status' \in [Tasks -> TaskStates]
  BY <1>2, <1>3 DEF TaskStates
<1>7. loop'.at # "get" => loop'.task \in Given
  BY <1>2 DEF OrchestratorInv, OrchestratorTypes
<1>8. \A t \in Tasks : Queued(t) \/ (loop.at # "get" /\ loop.task = t)
                          => Queued(t)' \/ (loop'.at # "get" /\ loop'.task = t)
  BY <1>2, <1>5
<1>9. \A t \in Tasks : \/ status'[t] = status[t]
                       \/ /\ t \in Given /\ status'[t] # "completed"
                          /\ Queued(t)' \/ (loop'.at # "get" /\ loop'.task = t)
  BY <1>2, <1>4, <1>5
<1> QED
  BY <1>2, <1>5, <1>6, <1>7, <1>8, <1>9, LoopMoves

LEMMA RegisterAgentKeeps ==
    ASSUME OrchestratorInv, NEW a \in Agents, RegisterAgent(a)
    PROVE  OrchestratorInv'
<1>1. UNCHANGED <<submitted, goal, status, queue, loop, report>>
  BY DEF RegisterAgent
<1>2. queue' \in Seq(Given) /\ status' \in [Tasks -> TaskStates]
  BY <1>1 DEF OrchestratorInv, OrchestratorTypes
<1>3. loop'.at # "get" => loop'.task \in Given
  BY <1>1 DEF OrchestratorInv, OrchestratorTypes
<1>4. \A t \in Tasks : Queued(t) => Queued(t)'
  BY <1>1 DEF Queued
<1> QED
  BY <1>1, <1>2, <1>3, <1>4, LoopMoves

\* A new goal: its tasks are pending, and those that depend on nothing are put.
LEMMA SubmitGoalKeeps ==
    ASSUME OrchestratorInv, SubmitGoal
    PROVE  OrchestratorInv'
<1>1. PICK n, S : /\ n = submitted + 1
                  /\ S = {t \in TasksOf(n) : DependsOn[t] = {}}
  OBVIOUS
<1>2. /\ submitted < LastGoal /\ submitted' = n /\ PutAll(S)
      /\ UNCHANGED <<goal, status, loop, report>>
  BY <1>1 DEF SubmitGoal
<1>3. submitted \in 0 .. LastGoal /\ queue \in Seq(Given) /\ n \in 1 .. LastGoal
  BY <1>1, <1>2, OrchestratorAssumption DEF OrchestratorInv, OrchestratorTypes
<1>4. \A t \in Tasks : t[1] <= n <=> (t[1] <= submitted \/ t[1] = n)
  BY <1>1, <1>3, TaskIs
<1>5. Given' = Given \cup TasksOf(n) /\ Given \subseteq Given' /\ S \subseteq Given'
  BY <1>1, <1>2, <1>4 DEF Given, TasksOf
<1>6. \A t \in TasksOf(n) : t \in Tasks \ Given
  BY <1>1, <1>3 DEF TasksOf, Given
<1>7. queue' \in Seq(Given') /\ \A t : Queued(t) \/ t \in S => Queued(t)'
  <2>1. PICK T : T = Given'
    OBVIOUS
  <2>2. queue \in Seq(T) /\ S \subseteq T /\ T \subseteq Tasks
    BY <1>3, <1>5, <2>1, WiderQueue DEF Given
  <2>3. queue' \in Seq(T) /\ \A t : Queued(t) \/ t \in S => Queued(t)'
    BY <1>2, <2>2, PutAllKeeps
  <2> QED
    BY <2>1, <2>3
<1>8. OrchestratorTypes'
  <2>1. submitted' \in 0 .. LastGoal
    BY <1>2, <1>3
  <2>2. /\ DOMAIN goal' = 1 .. LastGoal /\ status' \in [Tasks -> TaskStates]
        /\ loop'.at # "get" => loop'.task \in Given'
    BY <1>2, <1>5 DEF OrchestratorInv, OrchestratorTypes
  <2>3. /\ DOMAIN report' = Reporters
        /\ \A r \in Reporters : /\ "at" \in DOMAIN report'[r] /\ "task" \in DOMAIN report'[r]
                                /\ report'[r].at # "idle" => report'[r].task \in Given'
    BY <1>2, <1>5 DEF OrchestratorInv, OrchestratorTypes
  <2> QED
    BY <1>7, <2>1, <2>2, <2>3 DEF OrchestratorTypes
<1>9. \A t : InHand(t)' <=> InHand(t)
  BY <1>2 DEF InHand
<1>10. Held'
  BY <1>2, <1>7, <1>9 DEF OrchestratorInv, Held, InProgress
<1>11. ASSUME NEW t \in Tasks
       PROVE  TaskKept(t)'
  <2>1. CASE t[1] <= submitted
    <3>1. TaskKept(t)
      BY DEF OrchestratorInv, NothingForgotten
    <3> QED
      BY <1>2, <1>7, <1>9, <2>1, <3>1 DEF TaskKept, DependenciesMet
  <2>2. CASE t[1] = n
    <3>1. t \in TasksOf(n)
      BY <2>2 DEF TasksOf
    <3>2. CASE DependsOn[t] = {}
      <4>1. Queued(t)'
        BY <1>1, <1>7, <3>1, <3>2
      <4> QED
        BY <4>1 DEF TaskKept
    <3>3. CASE DependsOn[t] # {}
      <4>1. PICK id \in DependsOn[t] : TRUE
        BY <3>3
      <4>2. <<n, id>> \in Tasks => status[<<n, id>>] = "pending"
        BY <1>6 DEF TasksOf, OrchestratorInv
      <4>3. ~DependenciesMet(t, status')
        BY <1>2, <2>2, <4>1, <4>2 DEF DependenciesMet
      <4> QED
        BY <4>3 DEF TaskKept
    <3> QED
      BY <3>2, <3>3
  <2>3. CASE ~(t[1] <= submitted) /\ t[1] # n
    BY <1>2, <1>4, <2>3 DEF TaskKept
  <2> QED
    BY <2>1, <2>2, <2>3
<1>12. ASSUME NEW g \in 1 .. n
       PROVE  CompletionNoticed(g)'
  <2>1. CASE g = n
    <3>1. ASSUME TasksOf(g) # {}
          PROVE  ~AllCompleted(g)'
      <4>1. PICK t \in TasksOf(n) : status[t] = "pending"
        BY <1>6, <2>1, <3>1 DEF OrchestratorInv
      <4> QED
        BY <1>2, <2>1, <4>1 DEF AllCompleted
    <3> QED
      BY <3>1 DEF CompletionNoticed
  <2>2. CASE g # n
    <3>1. g \in 1 .. submitted
      BY <1>1, <1>3, <2>2
    <3>2. CompletionNoticed(g)
      BY <3>1 DEF OrchestratorInv, NothingForgotten
    <3> QED
      BY <1>2, <3>2 DEF CompletionNoticed, AllCompleted
  <2> QED
    BY <2>1, <2>2
<1>13. (\A t \in Tasks \ Given : status[t] = "pending")'
  BY <1>2, <1>5 DEF OrchestratorInv
<1> QED
  BY <1>2, <1>8, <1>10, <1>11, <1>12, <1>13 DEF OrchestratorInv, NothingForgotten
\* A failed report has its task in hand until it has put it back.
LEMMA ReportFailureKeeps ==
    ASSUME OrchestratorInv, NEW r \in Reporters, NEW id, NEW p, ReportFailure(r, id, p)
    PROVE  OrchestratorInv'
<1>1. PICK h \in Given : h = Target(id)
  BY TargetIs DEF OrchestratorInv, ReportFailure
<1>2. PICK x : x = At("failing", h, p)
  OBVIOUS
<1>3. /\ report[r].at = "idle" /\ status' = [status EXCEPT ![h] = "failed"]
      /\ report' = [report EXCEPT ![r] = x]
      /\ UNCHANGED <<submitted, goal, queue, loop>>
  BY <1>1, <1>2 DEF ReportFailure
<1>4. x.at = "failing" /\ x.task = h /\ "at" \in DOMAIN x /\ "task" \in DOMAIN x
  BY <1>2, AtIs
<1>5. Given' = Given
  BY <1>3 DEF Given
<1>6. /\ DOMAIN report' = Reporters /\ report'[r] = x
      /\ \A q \in Reporters : q # r => report'[q] = report[q]
      /\ \A q \in Reporters : /\ "at" \in DOMAIN report'[q] /\ "task" \in DOMAIN report'[q]
                              /\ report'[q].at # "idle" => report'[q].task \in Given'
  BY <1>3, <1>4, <1>5, ReportMoves DEF OrchestratorInv
<1>7. status \in [Tasks -> TaskStates]
  BY DEF OrchestratorInv, OrchestratorTypes
<1>8. /\ status' \in [Tasks -> TaskStates] /\ status'[h] = "failed"
      /\ \A t \in Tasks : t # h => status'[t] = status[t]
  BY <1>3, <1>7, GivenTasks DEF TaskStates
<1>9. OrchestratorTypes'
  BY <1>3, <1>5, <1>6, <1>8 DEF OrchestratorInv, OrchestratorTypes
<1>10. ASSUME NEW t \in Tasks, InProgress(t)
       PROVE  InProgress(t)'
  <2>1. CASE Queued(t) \/ (loop.at # "get" /\ loop.task = t)
    BY <1>3, <2>1 DEF InProgress, InHand, Queued
  <2>2. CASE \E q \in Reporters : report[q].at = "failing" /\ report[q].task = t
    <3>1. PICK q \in Reporters : report[q].at = "failing" /\ report[q].task = t
      BY <2>2
    <3>2. report'[q] = report[q]
      BY <1>3, <1>6, <3>1
    <3> QED
      BY <3>1, <3>2 DEF InProgress, InHand
  <2> QED
    BY <1>10, <2>1, <2>2 DEF InProgress, InHand
<1>11. InProgress(h)'
  BY <1>4, <1>6 DEF InProgress, InHand
<1>12. \A q \in Reporters : report[q].at = "recording" =>
           report'[q].at = "recording" /\ report'[q].task = report[q].task
  BY <1>3, <1>6
<1>13. \A t \in Tasks : \/ status'[t] = status[t]
                        \/ t \in Given /\ status'[t] # "completed" /\ InProgress(t)'
  BY <1>8, <1>11
<1>14. Held' /\ NothingForgotten' /\ (\A t \in Tasks \ Given : status[t] = "pending")'
  BY <1>3, <1>8, <1>10, <1>12, <1>13, NothingLost
<1> QED
  BY <1>9, <1>14 DEF OrchestratorInv

LEMMA RetryReportedKeeps ==
    ASSUME OrchestratorInv, NEW r \in Reporters, RetryReported(r)
    PROVE  OrchestratorInv'
<1>1. report[r].at = "failing"
  BY DEF RetryReported
<1>2. PICK h \in Given : h = report[r].task
  BY <1>1 DEF OrchestratorInv, OrchestratorTypes
<1>3. PICK x : x = At("idle", None, NoAgent)
  OBVIOUS
<1>4. /\ status' = [status EXCEPT ![h] = "pending"] /\ queue' = Append(queue, h)
      /\ report' = [report EXCEPT ![r] = x]
      /\ UNCHANGED <<submitted, goal, loop>>
  BY <1>2, <1>3 DEF RetryReported
<1>5. x.at = "idle" /\ "at" \in DOMAIN x /\ "task" \in DOMAIN x
  BY <1>3, AtIs
<1>6. Given' = Given
  BY <1>4 DEF Given
<1>7. /\ DOMAIN report' = Reporters /\ report'[r] = x
      /\ \A q \in Reporters : q # r => report'[q] = report[q]
      /\ \A q \in Reporters : /\ "at" \in DOMAIN report'[q] /\ "task" \in DOMAIN report'[q]
                              /\ report'[q].at # "idle" => report'[q].task \in Given'
  BY <1>4, <1>5, <1>6, ReportMoves DEF OrchestratorInv
<1>8. status \in [Tasks -> TaskStates] /\ queue \in Seq(Given)
  BY DEF OrchestratorInv, OrchestratorTypes
<1>9. /\ status' \in [Tasks -> TaskStates] /\ status'[h] = "pending"
      /\ \A t \in Tasks : t # h => status'[t] = status[t]
  BY <1>4, <1>8, GivenTasks DEF TaskStates
<1>10. queue' \in Seq(Given) /\ \A t : Queued(t) \/ t = h => Queued(t)'
  BY <1>4, <1>8, PutKeeps
<1>11. OrchestratorTypes'
  BY <1>4, <1>6, <1>7, <1>9, <1>10 DEF OrchestratorInv, OrchestratorTypes
<1>12. ASSUME NEW t \in Tasks, InProgress(t)
       PROVE  InProgress(t)'
  <2>1. CASE Queued(t)
    BY <1>10, <2>1 DEF InProgress
  <2>2. CASE loop.at # "get" /\ loop.task = t
    BY <1>4, <2>2 DEF InProgress, InHand
  <2>3. CASE \E q \in Reporters : report[q].at = "failing" /\ report[q].task = t
    <3>1. PICK q \in Reporters : report[q].at = "failing" /\ report[q].task = t
      BY <2>3
    <3>2. CASE q = r
      BY <1>2, <1>10, <3>1, <3>2 DEF InProgress
    <3>3. CASE q # r
      BY <1>7, <3>1, <3>3 DEF InProgress, InHand
    <3> QED
      BY <3>2, <3>3
  <2> QED
    BY <1>12, <2>1, <2>2, <2>3 DEF InProgress, InHand
<1>13. \A t \in Tasks : \/ status'[t] = status[t]
                        \/ t \in Given /\ status'[t] # "completed" /\ InProgress(t)'
  BY <1>9, <1>10 DEF InProgress
<1>14. \A q \in Reporters : report[q].at = "recording" =>
           report'[q].at = "recording" /\ report'[q].task = report[q].task
  BY <1>1, <1>7
<1>15. Held' /\ NothingForgotten' /\ (\A t \in Tasks \ Given : status[t] = "pending")'
  BY <1>4, <1>9, <1>12, <1>13, <1>14, NothingLost
<1> QED
  BY <1>11, <1>15 DEF OrchestratorInv

\* A report that neither starts nor ends a failure, and leaves status and queue.
LEMMA OthersProgress ==
    ASSUME OrchestratorInv, NEW r \in Reporters, report[r].at # "failing",
           \A q \in Reporters : q # r => report'[q] = report[q],
           \A t : Queued(t) => Queued(t)', loop' = loop
    PROVE  \A t \in Tasks : InProgress(t) => InProgress(t)'
<1> SUFFICES ASSUME NEW t \in Tasks, InProgress(t) PROVE InProgress(t)'
  OBVIOUS
<1>1. CASE Queued(t) \/ (loop.at # "get" /\ loop.task = t)
  BY <1>1 DEF InProgress, InHand
<1>2. CASE \E q \in Reporters : report[q].at = "failing" /\ report[q].task = t
  <2>1. PICK q \in Reporters : report[q].at = "failing" /\ report[q].task = t
    BY <1>2
  <2>2. report'[q] = report[q]
    BY <2>1
  <2> QED
    BY <2>1, <2>2 DEF InProgress, InHand
<1> QED
  BY <1>1, <1>2 DEF InProgress, InHand

LEMMA CloseGoalKeeps ==
    ASSUME OrchestratorInv, NEW r \in Reporters, CloseGoal(r)
    PROVE  OrchestratorInv'
<1>1. PICK x : x = At("idle", None, NoAgent)
  OBVIOUS
<1>2. /\ report[r].at = "closing" /\ report' = [report EXCEPT ![r] = x]
      /\ UNCHANGED <<submitted, goal, status, queue, loop>>
  BY <1>1 DEF CloseGoal
<1>3. x.at = "idle" /\ "at" \in DOMAIN x /\ "task" \in DOMAIN x
  BY <1>1, AtIs
<1>4. Given' = Given
  BY <1>2 DEF Given
<1>5. /\ DOMAIN report' = Reporters /\ report'[r] = x
      /\ \A q \in Reporters : q # r => report'[q] = report[q]
      /\ \A q \in Reporters : /\ "at" \in DOMAIN report'[q] /\ "task" \in DOMAIN report'[q]
                              /\ report'[q].at # "idle" => report'[q].task \in Given'
  BY <1>2, <1>3, <1>4, ReportMoves DEF OrchestratorInv
<1>6. OrchestratorTypes'
  BY <1>2, <1>4, <1>5 DEF OrchestratorInv, OrchestratorTypes
<1>7. \A t : Queued(t) => Queued(t)'
  BY <1>2 DEF Queued
<1>8. \A t \in Tasks : InProgress(t) => InProgress(t)'
  BY <1>2, <1>5, <1>7, OthersProgress
<1>9. \A q \in Reporters : report[q].at = "recording" =>
          report'[q].at = "recording" /\ report'[q].task = report[q].task
  BY <1>2, <1>5
<1>10. status' \in [Tasks -> TaskStates] /\ \A t \in Tasks : status'[t] = status[t]
  BY <1>2 DEF OrchestratorInv, OrchestratorTypes
<1>11. Held' /\ NothingForgotten' /\ (\A t \in Tasks \ Given : status[t] = "pending")'
  BY <1>2, <1>8, <1>9, <1>10, NothingLost
<1> QED
  BY <1>6, <1>11 DEF OrchestratorInv

\* What a report completes it will look at, once its record is made.
LEMMA ReportSuccessKeeps ==
    ASSUME OrchestratorInv, NEW r \in Reporters, NEW id, NEW p, ReportSuccess(r, id, p)
    PROVE  OrchestratorInv'
<1>1. PICK h \in Given : h = Target(id)
  BY TargetIs DEF OrchestratorInv, ReportSuccess
<1>2. PICK x : x = At("recording", h, p)
  OBVIOUS
<1>3. /\ report[r].at = "idle" /\ status' = [status EXCEPT ![h] = "completed"]
      /\ report' = [report EXCEPT ![r] = x]
      /\ UNCHANGED <<submitted, goal, queue, loop>>
  BY <1>1, <1>2 DEF ReportSuccess
<1>4. x.at = "recording" /\ x.task = h /\ "at" \in DOMAIN x /\ "task" \in DOMAIN x
  BY <1>2, AtIs
<1>5. Given' = Given /\ h \in Tasks
  BY <1>3 DEF Given
<1>6. /\ DOMAIN report' = Reporters /\ report'[r] = x
      /\ \A q \in Reporters : q # r => report'[q] = report[q]
      /\ \A q \in Reporters : /\ "at" \in DOMAIN report'[q] /\ "task" \in DOMAIN report'[q]
                              /\ report'[q].at # "idle" => report'[q].task \in Given'
  BY <1>3, <1>4, <1>5, ReportMoves DEF OrchestratorInv
<1>7. status \in [Tasks -> TaskStates]
  BY DEF OrchestratorInv, OrchestratorTypes
<1>8. /\ status' \in [Tasks -> TaskStates] /\ status'[h] = "completed"
      /\ \A t \in Tasks : t # h => status'[t] = status[t]
  BY <1>3, <1>5, <1>7 DEF TaskStates
<1>9. OrchestratorTypes'
  BY <1>3, <1>5, <1>6, <1>8 DEF OrchestratorInv, OrchestratorTypes
<1>10. \A t : Queued(t) => Queued(t)'
  BY <1>3 DEF Queued
<1>11. \A t \in Tasks : InProgress(t) => InProgress(t)'
  BY <1>3, <1>6, <1>10, OthersProgress
<1>12. Held'
  <2> SUFFICES ASSUME NEW t \in Tasks, status'[t] \in {"assigned", "blocked", "failed"}
               PROVE  InProgress(t)'
    BY DEF Held
  <2>1. status'[t] = status[t]
    BY <1>8
  <2>2. InProgress(t)
    BY <2>1 DEF OrchestratorInv, Held
  <2> QED
    BY <1>11, <2>2
<1>13. \A q \in Reporters : report[q].at = "recording" => report'[q] = report[q]
  BY <1>3, <1>6
<1>14. ASSUME NEW t \in Tasks
       PROVE  TaskKept(t)'
  <2> SUFFICES ASSUME t[1] <= submitted, status'[t] # "completed", DependenciesMet(t, status')
               PROVE  \/ InProgress(t)'
                      \/ \E q \in Reporters : /\ report'[q].at = "recording"
                                              /\ report'[q].task[1] = t[1]
                                              /\ report'[q].task[2] \in DependsOn[t]
    BY <1>3 DEF TaskKept, InProgress
  <2>1. CASE h[1] = t[1] /\ h[2] \in DependsOn[t]
    BY <1>4, <1>6, <2>1
  <2>2. CASE ~(h[1] = t[1] /\ h[2] \in DependsOn[t])
    <3>1. \A i \in DependsOn[t] : <<t[1], i>> # h
      BY <2>2
    <3>2. DependenciesMet(t, status)
      BY <1>8, <3>1 DEF DependenciesMet
    <3>3. status[t] # "completed"
      BY <1>8
    <3>4. TaskKept(t)
      BY DEF OrchestratorInv, NothingForgotten
    <3>5. \/ InProgress(t)
          \/ \E q \in Reporters : /\ report[q].at = "recording" /\ report[q].task[1] = t[1]
                                  /\ report[q].task[2] \in DependsOn[t]
      BY <3>2, <3>3, <3>4 DEF TaskKept, InProgress
    <3> QED
      BY <1>11, <1>13, <3>5
  <2> QED
    BY <2>1, <2>2
<1>15. ASSUME NEW g \in 1 .. submitted
       PROVE  CompletionNoticed(g)'
  <2> SUFFICES ASSUME TasksOf(g) # {}, AllCompleted(g)'
               PROVE  \/ goal'[g] = "completed"
                      \/ \E q \in Reporters : report'[q].at = "recording" /\ report'[q].task[1] = g
    BY DEF CompletionNoticed
  <2>1. CASE h[1] = g
    BY <1>4, <1>6, <2>1
  <2>2. CASE h[1] # g
    <3>1. AllCompleted(g)
      BY <1>8, <2>2 DEF AllCompleted, TasksOf
    <3>2. CompletionNoticed(g)
      BY DEF OrchestratorInv, NothingForgotten
    <3>3. \/ goal[g] = "completed"
          \/ \E q \in Reporters : report[q].at = "recording" /\ report[q].task[1] = g
      BY <3>1, <3>2 DEF CompletionNoticed
    <3> QED
      BY <1>3, <1>13, <3>3
  <2> QED
    BY <2>1, <2>2
<1>16. (\A t \in Tasks \ Given : status[t] = "pending")'
  BY <1>5, <1>8 DEF OrchestratorInv
<1> QED
  BY <1>3, <1>9, <1>12, <1>14, <1>15, <1>16 DEF OrchestratorInv, NothingForgotten
\* The pending tasks that waited for this one are put; the others are in progress.
LEMMA UnlockKeeps ==
    ASSUME OrchestratorInv, NEW r \in Reporters, Unlock(r)
    PROVE  OrchestratorInv'
<1>1. report[r].at = "recording"
  BY DEF Unlock
<1>2. PICK h \in Given : h = report[r].task
  BY <1>1 DEF OrchestratorInv, OrchestratorTypes
<1>3. h \in Tasks /\ h[1] \in 1 .. LastGoal
  BY <1>2, TaskIs DEF Given
<1>4. PICK S : S = {u \in TasksOf(h[1]) : /\ h[2] \in DependsOn[u] /\ status[u] = "pending"
                                          /\ DependenciesMet(u, status)}
  OBVIOUS
<1>5. PICK x : x = IF AllCompleted(h[1]) THEN [report[r] EXCEPT !.at = "closing"]
                   ELSE At("idle", None, NoAgent)
  OBVIOUS
<1>6. /\ PutAll(S) /\ report' = [report EXCEPT ![r] = x]
      /\ UNCHANGED <<submitted, status, loop>>
      /\ IF AllCompleted(h[1]) THEN goal' = [goal EXCEPT ![h[1]] = "completed"] ELSE goal' = goal
  <2>1. DOMAIN report = Reporters
    BY DEF OrchestratorInv, OrchestratorTypes
  <2>2. CASE AllCompleted(h[1])
    <3>1. report' = [report EXCEPT ![r].at = "closing"] /\ x = [report[r] EXCEPT !.at = "closing"]
      BY <1>2, <1>5, <2>2 DEF Unlock
    <3> QED
      BY <1>2, <1>4, <2>1, <2>2, <3>1 DEF Unlock
  <2>3. CASE ~AllCompleted(h[1])
    BY <1>2, <1>4, <1>5, <2>3 DEF Unlock
  <2> QED
    BY <2>2, <2>3
<1>7. /\ "at" \in DOMAIN x /\ "task" \in DOMAIN x /\ x.at \in {"closing", "idle"}
      /\ x.at # "idle" => x.task \in Given
  <2>1. "at" \in DOMAIN report[r] /\ "task" \in DOMAIN report[r]
    BY DEF OrchestratorInv, OrchestratorTypes
  <2>2. CASE AllCompleted(h[1])
    BY <1>2, <1>5, <2>1, <2>2
  <2>3. CASE ~AllCompleted(h[1])
    BY <1>5, <2>3, AtIs
  <2> QED
    BY <2>2, <2>3
<1>8. Given' = Given
  BY <1>6 DEF Given
<1>9. /\ DOMAIN report' = Reporters /\ report'[r] = x
      /\ \A q \in Reporters : q # r => report'[q] = report[q]
      /\ \A q \in Reporters : /\ "at" \in DOMAIN report'[q] /\ "task" \in DOMAIN report'[q]
                              /\ report'[q].at # "idle" => report'[q].task \in Given'
  BY <1>6, <1>7, <1>8, ReportMoves DEF OrchestratorInv
<1>10. S \subseteq Given
  BY <1>2, <1>4 DEF Given, TasksOf
<1>11. queue' \in Seq(Given) /\ \A t : Queued(t) \/ t \in S => Queued(t)'
  BY <1>6, <1>10, GivenTasks, PutAllKeeps DEF OrchestratorInv, OrchestratorTypes
<1>12. DOMAIN goal' = 1 .. LastGoal
  BY <1>6 DEF OrchestratorInv, OrchestratorTypes
<1>13. OrchestratorTypes'
  BY <1>6, <1>8, <1>9, <1>11, <1>12 DEF OrchestratorInv, OrchestratorTypes
<1>14. \A t \in Tasks : InProgress(t) => InProgress(t)'
  BY <1>1, <1>6, <1>9, <1>11, OthersProgress
<1>15. Held'
  BY <1>6, <1>14 DEF OrchestratorInv, Held
<1>16. ASSUME NEW t \in Tasks
       PROVE  TaskKept(t)'
  <2> SUFFICES ASSUME t[1] <= submitted, status[t] # "completed", DependenciesMet(t, status)
               PROVE  \/ InProgress(t)'
                      \/ \E q \in Reporters : /\ report'[q].at = "recording"
                                              /\ report'[q].task[1] = t[1]
                                              /\ report'[q].task[2] \in DependsOn[t]
    BY <1>6 DEF TaskKept, InProgress
  <2>1. TaskKept(t)
    BY DEF OrchestratorInv, NothingForgotten
  <2>2. CASE InProgress(t)
    BY <1>14, <2>2
  <2>3. CASE ~InProgress(t)
    <3>1. PICK q \in Reporters : /\ report[q].at = "recording" /\ report[q].task[1] = t[1]
                                 /\ report[q].task[2] \in DependsOn[t]
      BY <2>1, <2>3 DEF TaskKept, InProgress
    <3>2. CASE q # r
      BY <1>9, <3>1, <3>2
    <3>3. CASE q = r
      <4>1. status[t] = "pending"
        <5>1. status[t] \in TaskStates /\ status[t] \notin {"assigned", "blocked", "failed"}
          BY <2>3 DEF OrchestratorInv, OrchestratorTypes, Held
        <5> QED
          BY <5>1 DEF TaskStates
      <4>2. t \in S
        BY <1>2, <1>4, <3>1, <3>3, <4>1 DEF TasksOf
      <4> QED
        BY <1>11, <4>2 DEF InProgress
    <3> QED
      BY <3>2, <3>3
  <2> QED
    BY <2>2, <2>3
<1>17. ASSUME NEW g \in 1 .. submitted
       PROVE  CompletionNoticed(g)'
  <2> SUFFICES ASSUME TasksOf(g) # {}, AllCompleted(g)
               PROVE  \/ goal'[g] = "completed"
                      \/ \E q \in Reporters : report'[q].at = "recording" /\ report'[q].task[1] = g
    BY <1>6 DEF CompletionNoticed, AllCompleted
  <2>1. g \in DOMAIN goal /\ h[1] \in DOMAIN goal
    <3>1. submitted \in 0 .. LastGoal /\ DOMAIN goal = 1 .. LastGoal
      BY DEF OrchestratorInv, OrchestratorTypes
    <3>2. g \in 1 .. LastGoal
      BY <3>1, OrchestratorAssumption
    <3> QED
      BY <1>3, <3>1, <3>2
  <2>2. \/ goal[g] = "completed"
        \/ \E q \in Reporters : report[q].at = "recording" /\ report[q].task[1] = g
    BY DEF OrchestratorInv, NothingForgotten, CompletionNoticed
  <2>3. goal[g] = "completed" \/ g = h[1] => goal'[g] = "completed"
    BY <1>6, <2>1
  <2>4. ASSUME NEW q \in Reporters, report[q].at = "recording", report[q].task[1] = g
        PROVE  (q = r /\ g = h[1]) \/ report'[q] = report[q]
    BY <1>2, <1>9, <2>4
  <2> QED
    BY <2>2, <2>3, <2>4
<1>18. (\A t \in Tasks \ Given : status[t] = "pending")'
  BY <1>6, <1>8 DEF OrchestratorInv
<1> QED
  BY <1>6, <1>13, <1>15, <1>16, <1>17, <1>18 DEF OrchestratorInv, NothingForgotten

LEMMA OrchestratorStep == OrchestratorInv /\ [OrchestratorNext]_OrchestratorVars => OrchestratorInv'
<1> SUFFICES ASSUME OrchestratorInv, [OrchestratorNext]_OrchestratorVars PROVE OrchestratorInv'
  OBVIOUS
<1>1. CASE LoopStep
  BY <1>1, AssignKeeps, BlockKeeps, PutBackKeeps, TriggerKeeps, RetryKeeps, CheckBlockedTasksKeeps
     DEF LoopStep
<1>2. CASE SubmitGoal \/ \E a \in Agents : RegisterAgent(a)
  BY <1>2, SubmitGoalKeeps, RegisterAgentKeeps
<1>3. ASSUME NEW r \in Reporters,
             \/ \E id \in Ids, p \in Profiles : ReportSuccess(r, id, p) \/ ReportFailure(r, id, p)
             \/ Unlock(r) \/ CloseGoal(r) \/ RetryReported(r)
      PROVE  OrchestratorInv'
  BY <1>3, ReportSuccessKeeps, ReportFailureKeeps, UnlockKeeps, CloseGoalKeeps, RetryReportedKeeps
<1>4. CASE UNCHANGED OrchestratorVars
  <2>1. UNCHANGED <<submitted, goal, status, queue, loop, report>>
    BY <1>4 DEF OrchestratorVars
  <2>2. queue' \in Seq(Given) /\ status' \in [Tasks -> TaskStates]
    BY <2>1 DEF OrchestratorInv, OrchestratorTypes
  <2>3. loop'.at # "get" => loop'.task \in Given
    BY <2>1 DEF OrchestratorInv, OrchestratorTypes
  <2>4. \A t \in Tasks : Queued(t) => Queued(t)'
    BY <2>1 DEF Queued
  <2> QED
    BY <2>1, <2>2, <2>3, <2>4, LoopMoves
<1> QED
  BY <1>1, <1>2, <1>3, <1>4 DEF OrchestratorNext

LEMMA OrchestratorStart == OrchestratorInit => OrchestratorInv
<1> SUFFICES ASSUME OrchestratorInit PROVE OrchestratorInv
  OBVIOUS
<1>1. /\ submitted = 0 /\ goal = [g \in 1 .. LastGoal |-> "pending"]
      /\ status = [t \in Tasks |-> "pending"] /\ queue = <<>>
      /\ loop = At("get", None, NoAgent)
      /\ report = [r \in Reporters |-> At("idle", None, NoAgent)]
  BY DEF OrchestratorInit
<1>2. submitted \in 0 .. LastGoal /\ status \in [Tasks -> TaskStates] /\ queue \in Seq(Given)
  BY <1>1, OrchestratorAssumption DEF TaskStates
<1>3. /\ loop.at = "get" /\ DOMAIN report = Reporters
      /\ \A r \in Reporters : /\ "at" \in DOMAIN report[r] /\ "task" \in DOMAIN report[r]
                              /\ report[r].at = "idle"
  BY <1>1, AtIs
<1>4. OrchestratorTypes
  BY <1>1, <1>2, <1>3 DEF OrchestratorTypes
<1>5. Held
  BY <1>1 DEF Held
<1>6. \A t \in Tasks : ~(t[1] <= submitted)
  BY <1>1, TaskIs
<1>7. NothingForgotten
  BY <1>1, <1>6 DEF NothingForgotten, TaskKept
<1> QED
  BY <1>1, <1>4, <1>5, <1>7 DEF OrchestratorInv

\* For any number of goals, agents and reports, and whatever the dependencies are: no
\* task is lost between the queue, the loop that assigns, the reports that come
\* meanwhile and the tasks they unlock, and no goal is left when its last task is
\* completed, however two reports cross (multi_agent_orchestrator.py:320-396).
THEOREM NothingEverForgotten == OrchestratorSpec => []NothingForgotten
<1>1. OrchestratorInv => NothingForgotten
  BY DEF OrchestratorInv
<1> QED
  BY <1>1, OrchestratorStart, OrchestratorStep, PTL DEF OrchestratorSpec
-----------------------------------------------------------------------------
(* The swarm.  An agent keeps its place in the table for as long as it is a  *)
(* member and the table is not moved together; new ones come behind the      *)
(* iterator; so those in front of it have all had their turn.                *)

HeardInv ==
    /\ \E T : slots \in Seq(T)
    /\ mode \in Iterating => inFlight = {} /\ (~started => turn = Nobody)
    /\ mode \in Iterating /\ started /\ ~compacted =>
          /\ cursor.at \in 0 .. Len(slots)
          /\ \A i \in 1 .. Len(slots) : i <= cursor.at /\ slots[i] # Nobody => slots[i] \in asked

LEMMA SlotsAre ==
    ASSUME HeardInv
    PROVE  Len(slots) \in Nat /\ DOMAIN slots = 1 .. Len(slots)
<1>1. PICK T : slots \in Seq(T)
  BY DEF HeardInv
<1> QED
  BY <1>1, LenProperties

LEMMA MembersFinite ==
    ASSUME HeardInv
    PROVE  IsFiniteSet(SwarmAgents) /\ Cardinality(SwarmAgents) \in Nat
<1>1. PICK T : slots \in Seq(T)
  BY DEF HeardInv
<1>2. PICK k \in Nat : slots \in [1 .. k -> T] /\ DOMAIN slots = 1 .. k
  BY <1>1, LenProperties
<1>3. PICK R : R = {slots[i] : i \in DOMAIN slots}
  OBVIOUS
<1>4. slots \in Surjection(1 .. k, R)
  BY <1>2, <1>3 DEF Surjection
<1>5. IsFiniteSet(R)
  BY <1>4, FS_Interval, FS_Surjection
<1>6. SwarmAgents \subseteq R
  BY <1>3 DEF SwarmAgents
<1> QED
  BY <1>5, <1>6, FS_Subset, FS_CardinalityType

\* What a sequence holds after its entries were replaced.
LEMMA Replaced ==
    ASSUME NEW T, NEW s \in Seq(T), NEW e, DOMAIN e = DOMAIN s, NEW U, e \in [DOMAIN s -> U]
    PROVE  e \in Seq(U) /\ Len(e) = Len(s)
<1>1. PICK k \in Nat : k = Len(s) /\ DOMAIN s = 1 .. k
  BY LenProperties
<1>2. e \in Seq(U)
  BY <1>1, SeqDef
<1> QED
  BY <1>1, <1>2, LenDomain

\* New agents stand behind all others, unless the table is moved together.
LEMMA InsertKeeps ==
    ASSUME HeardInv, NEW T, NEW new \in Seq(T), NEW S, Insert(new, S),
           UNCHANGED <<mode, turn, inFlight, cursor, asked, started>>
    PROVE  HeardInv'
<1>1. PICK moved \in BOOLEAN : moved = (Len(new) > room /\ \E i \in DOMAIN slots : slots[i] = Nobody)
  OBVIOUS
<1>2. PICK base : base = IF moved THEN InOrder ELSE slots
  OBVIOUS
<1>3. PICK grown : grown = base \o new
  OBVIOUS
<1>4. /\ slots' = [i \in DOMAIN grown |-> IF grown[i] \in S THEN Nobody ELSE grown[i]]
      /\ compacted' = (compacted \/ (started /\ moved))
  BY <1>1, <1>2, <1>3 DEF Insert
<1>5. \E U : base \in Seq(U)
  <2>1. CASE moved
    <3>1. PICK k \in Nat : k = Cardinality(SwarmAgents)
      BY MembersFinite
    <3>2. PICK U : U = {InOrder[i] : i \in 1 .. k}
      OBVIOUS
    <3>3. InOrder \in [1 .. k -> U]
      BY <3>1, <3>2 DEF InOrder
    <3> QED
      BY <1>2, <2>1, <3>3, SeqDef
  <2> QED
    BY <1>2, <2>1 DEF HeardInv
<1>6. PICK U : base \in Seq(U)
  BY <1>5
<1>7. PICK V : V = U \cup T
  OBVIOUS
<1>8. base \in Seq(V) /\ new \in Seq(V)
  BY <1>6, <1>7, SeqMonotonic
<1>9. /\ grown \in Seq(V)
      /\ Len(grown) = Len(base) + Len(new)
      /\ \A i \in 1 .. Len(base) + Len(new) : i <= Len(base) => grown[i] = base[i]
  BY <1>3, <1>8, ConcatProperties
<1>10. PICK k, m \in Nat : k = Len(base) /\ m = Len(grown) /\ DOMAIN grown = 1 .. m /\ k <= m
  BY <1>8, <1>9, LenProperties
<1>11. slots' \in [DOMAIN grown -> V \cup {Nobody}] /\ DOMAIN slots' = DOMAIN grown
  <2>1. \A i \in DOMAIN grown : grown[i] \in V
    BY <1>9, <1>10, LenProperties
  <2> QED
    BY <1>4, <2>1
<1>12. slots' \in Seq(V \cup {Nobody}) /\ Len(slots') = m
  BY <1>9, <1>10, <1>11, Replaced
<1>13. ASSUME mode \in Iterating, started, ~compacted'
       PROVE  /\ cursor.at \in 0 .. m
              /\ \A i \in 1 .. m : i <= cursor.at /\ slots'[i] # Nobody => slots'[i] \in asked
  <2>1. base = slots /\ k = Len(slots) /\ ~compacted
    BY <1>2, <1>4, <1>10, <1>13
  <2>2. /\ cursor.at \in 0 .. k
        /\ \A i \in 1 .. k : i <= cursor.at /\ slots[i] # Nobody => slots[i] \in asked
    BY <1>13, <2>1 DEF HeardInv
  <2>3. ASSUME NEW i \in 1 .. m, i <= cursor.at, slots'[i] # Nobody
        PROVE  slots'[i] \in asked
    <3>1. i \in 1 .. k /\ i <= k
      BY <1>10, <2>2, <2>3
    <3>2. grown[i] = slots[i]
      BY <1>9, <1>10, <2>1, <3>1
    <3>3. slots'[i] = slots[i]
      BY <1>4, <1>10, <2>3, <3>2
    <3> QED
      BY <2>2, <2>3, <3>1, <3>3
  <2> QED
    BY <1>10, <2>2, <2>3
<1> QED
  BY <1>12, <1>13 DEF HeardInv

LEMMA SpawnKeeps ==
    ASSUME HeardInv, NEW n \in Nat, NEW S, Spawn(n, S),
           UNCHANGED <<mode, turn, inFlight, cursor, asked, started>>
    PROVE  HeardInv'
<1>1. PICK born : born = Cardinality({a \in Spawned : agent[a] # "none"})
  OBVIOUS
<1>2. PICK new : new = [i \in 1 .. n |-> born + i]
  OBVIOUS
<1>3. Insert(new, S)
  BY <1>1, <1>2 DEF Spawn
<1>4. PICK T : T = {new[i] : i \in 1 .. n}
  OBVIOUS
<1>5. new \in Seq(T)
  <2>1. new \in [1 .. n -> T]
    BY <1>2, <1>4
  <2> QED
    BY <2>1, SeqDef
<1> QED
  BY <1>3, <1>5, InsertKeeps

LEMMA FirstIs ==
    ASSUME NEW S, S \subseteq Nat, S # {}
    PROVE  First(S) \in S /\ \A j \in S : First(S) <= j
<1>1. \E i \in S : \A j \in S : i <= j
  <2>1. PICK i \in S : \A j \in S : ~(j < i)
    BY FirstMember
  <2>2. \A j \in S : i <= j
    BY <2>1
  <2> QED
    BY <2>2
<1> QED
  BY <1>1 DEF First

\* Between the place of the iterator and the next member there are only holes.
LEMMA ContinueLiveKeeps ==
    ASSUME HeardInv, mode \in Iterating, started', NEW cur,
           ~compacted => /\ cur.at \in 0 .. Len(slots)
                         /\ \A i \in 1 .. Len(slots) :
                               i <= cur.at /\ slots[i] # Nobody => slots[i] \in asked,
           NEW found, NEW after, ContinueLive(cur, found, after),
           UNCHANGED <<mode, slots, inFlight, compacted>>
    PROVE  /\ HeardInv'
           /\ swarm = "active" /\ swarm' = "completed" => compacted \/ SwarmAgents \subseteq asked
<1>1. CASE compacted
  BY <1>1 DEF HeardInv
<1>2. CASE ~compacted
  <2>1. PICK k \in Nat : k = Len(slots) /\ DOMAIN slots = 1 .. k
    BY SlotsAre
  <2>2. /\ cur.at \in 0 .. k
        /\ \A i \in 1 .. k : i <= cur.at /\ slots[i] # Nobody => slots[i] \in asked
    BY <1>2, <2>1
  <2>3. PICK U : U = Upcoming(cur) /\ U = {i \in cur.at + 1 .. k : slots[i] # Nobody}
    BY <2>1 DEF Upcoming
  <2>4. U \subseteq Nat /\ U \subseteq 1 .. k
    BY <2>2, <2>3
  <2>5. \A i \in 1 .. k : slots[i] # Nobody => i <= cur.at \/ i \in U
    BY <2>2, <2>3
  <2>6. CASE Finish("failed", after) /\ cursor' = cur
    BY <2>1, <2>2, <2>6 DEF Finish, HeardInv
  <2>7. CASE U = {} /\ Finish("completed", after) /\ cursor' = cur
    <3>1. SwarmAgents \subseteq asked
      BY <2>1, <2>2, <2>5, <2>7 DEF SwarmAgents
    <3> QED
      BY <2>1, <2>2, <2>7, <3>1 DEF Finish, HeardInv
  <2>8. CASE /\ U # {} /\ Ask(slots[First(U)], after)
             /\ cursor' = [at |-> First(U), used |-> cur.used, left |-> cur.left - 1]
    <3>1. PICK f \in U : f = First(U) /\ \A j \in U : f <= j
      BY <2>4, <2>8, FirstIs
    <3>2. cursor'.at = f /\ asked' = asked \cup {slots[f]} /\ swarm' = swarm
      BY <2>8, <3>1 DEF Ask
    <3>3. f \in 1 .. k /\ f \in Nat
      BY <2>4, <3>1
    <3>4. ASSUME NEW i \in 1 .. k, i <= f, slots[i] # Nobody
          PROVE  slots[i] \in asked'
      <4>1. CASE i <= cur.at
        BY <2>2, <3>2, <3>4, <4>1
      <4>2. CASE i \in U
        <5>1. i = f
          BY <3>1, <3>3, <3>4, <4>2
        <5> QED
          BY <3>2, <5>1
      <4> QED
        BY <2>5, <3>4, <4>1, <4>2
    <3> QED
      BY <2>1, <3>2, <3>3, <3>4 DEF HeardInv
  <2> QED
    BY <2>3, <2>6, <2>7, <2>8 DEF ContinueLive
<1> QED
  BY <1>1, <1>2

\* Modes that do not iterate over the dictionary have no use for its iterator.
LEMMA OtherModesKeep ==
    ASSUME HeardInv, mode \notin Iterating, UNCHANGED <<mode, slots>>
    PROVE  HeardInv'
BY DEF HeardInv

LEMMA ExecuteHears ==
    ASSUME HeardInv, Execute
    PROVE  /\ HeardInv'
           /\ swarm = "active" /\ swarm' = "completed" /\ mode \in Iterating
                  => compacted \/ SwarmAgents \subseteq asked
<1>1. UNCHANGED <<mode, slots, compacted>> /\ started'
  BY DEF Execute
<1>2. CASE mode \in Iterating
  <2>1. PICK many : many = Cardinality(SwarmAgents)
    OBVIOUS
  <2>2. PICK cur : cur = [at |-> 0, used |-> many, left |-> many]
    OBVIOUS
  <2>3. ContinueLive(cur, 0, agent) /\ UNCHANGED inFlight
    BY <1>2, <2>1, <2>2 DEF Execute, Iterating
  <2>4. cur.at = 0 /\ cur.at \in 0 .. Len(slots) /\ \A i \in 1 .. Len(slots) : ~(i <= cur.at)
    BY <2>2, SlotsAre
  <2> QED
    BY <1>1, <1>2, <2>3, <2>4, ContinueLiveKeeps
<1>3. CASE mode \notin Iterating
  BY <1>1, <1>3, OtherModesKeep
<1> QED
  BY <1>2, <1>3

LEMMA AnswerHears ==
    ASSUME HeardInv, NEW a \in Spawned, NEW outcome, Answer(a, outcome)
    PROVE  /\ HeardInv'
           /\ swarm = "active" /\ swarm' = "completed" /\ mode \in Iterating
                  => compacted \/ SwarmAgents \subseteq asked
<1>1. UNCHANGED <<mode, slots, started, compacted>>
  BY DEF Answer
<1>2. CASE mode \in Iterating /\ started
  <2>1. PICK found, after : ContinueLive(cursor, found, after) /\ UNCHANGED inFlight
    BY <1>2 DEF Answer, HeardInv
  <2>2. ~compacted => /\ cursor.at \in 0 .. Len(slots)
                      /\ \A i \in 1 .. Len(slots) :
                            i <= cursor.at /\ slots[i] # Nobody => slots[i] \in asked
    BY <1>2 DEF HeardInv
  <2> QED
    BY <1>1, <1>2, <2>1, <2>2, ContinueLiveKeeps
<1>3. CASE mode \notin Iterating
  BY <1>1, <1>3, OtherModesKeep
<1>4. CASE mode \in Iterating /\ ~started
  <2>1. turn = Nobody /\ inFlight = {} /\ a # Nobody
    BY <1>4, SwarmAssumption DEF HeardInv, Spawned, Nobody
  <2>2. FALSE
    BY <1>4, <2>1 DEF Answer
  <2> QED
    BY <2>2
<1> QED
  BY <1>2, <1>3, <1>4

LEMMA ScaleHears ==
    ASSUME HeardInv, NEW n \in 0 .. MaxSize, Scale(n)
    PROVE  HeardInv' /\ swarm' = swarm
<1>1. UNCHANGED <<mode, swarm, turn, inFlight, cursor, asked, started>>
  BY DEF Scale
<1>2. CASE n > Cardinality(SwarmAgents)
  <2>1. PICK k : k = n - Cardinality(SwarmAgents)
    OBVIOUS
  <2>2. k \in Nat
    BY <1>2, <2>1, MembersFinite, SwarmAssumption
  <2>3. Spawn(k, {})
    BY <1>2, <2>1, MembersFinite, SwarmAssumption DEF Scale
  <2> QED
    BY <1>1, <2>2, <2>3, SpawnKeeps
<1>3. CASE ~(n > Cardinality(SwarmAgents))
  <2>1. PICK kept : slots' = [i \in DOMAIN slots |-> IF slots[i] \in kept THEN slots[i] ELSE Nobody]
    BY <1>3 DEF Scale
  <2>2. PICK T : slots \in Seq(T)
    BY DEF HeardInv
  <2>3. PICK k \in Nat : k = Len(slots) /\ DOMAIN slots = 1 .. k /\ \A i \in 1 .. k : slots[i] \in T
    BY <2>2, LenProperties
  <2>4. slots' \in [DOMAIN slots -> T \cup {Nobody}] /\ DOMAIN slots' = DOMAIN slots
    BY <2>1, <2>3
  <2>5. slots' \in Seq(T \cup {Nobody}) /\ Len(slots') = k
    BY <2>2, <2>3, <2>4, Replaced
  <2>6. \A i \in 1 .. k : slots'[i] # Nobody => slots'[i] = slots[i]
    BY <2>1, <2>3
  <2>7. compacted' = compacted
    BY <1>3 DEF Scale
  <2> QED
    BY <1>1, <2>3, <2>5, <2>6, <2>7 DEF HeardInv
<1> QED
  BY <1>2, <1>3

LEMMA CheckHealthHears ==
    ASSUME HeardInv, NEW a, CheckHealth(a)
    PROVE  HeardInv' /\ swarm' = swarm
<1>1. Spawn(1, {a}) /\ UNCHANGED <<mode, swarm, turn, inFlight, cursor, asked, started>>
  BY DEF CheckHealth
<1> QED
  BY <1>1, SpawnKeeps

LEMMA CreateHears ==
    ASSUME HeardInv, NEW n \in 0 .. MaxSize, Create(n)
    PROVE  HeardInv' /\ swarm' # "completed"
<1>1. Spawn(n, {}) /\ swarm' = "active" /\ UNCHANGED <<mode, turn, inFlight, cursor, asked, started>>
  BY DEF Create
<1>2. n \in Nat
  BY SwarmAssumption
<1> QED
  BY <1>1, <1>2, SpawnKeeps

\* However large the swarm is, and however it is scaled and repaired while its agents
\* work: a vote or a competition that completes has heard every agent that is a member
\* by then (swarm_controller.py:191-235), unless the table of the dictionary was moved
\* together over deleted entries meanwhile.  A change of the size that the iterator
\* notices fails the execution instead.
THEOREM EveryoneIsHeard == SwarmSpec => AllHeard
<1>1. SwarmInit => HeardInv
  <2> SUFFICES ASSUME SwarmInit PROVE HeardInv
    OBVIOUS
  <2>1. slots = <<>> /\ inFlight = {} /\ ~started /\ turn = Nobody
    BY DEF SwarmInit
  <2>2. slots \in Seq({})
    BY <2>1, EmptySeq
  <2> QED
    BY <2>1, <2>2 DEF HeardInv
<1>2. HeardInv /\ [SwarmNext]_SwarmVars => HeardInv'
  <2> SUFFICES ASSUME HeardInv, [SwarmNext]_SwarmVars PROVE HeardInv'
    OBVIOUS
  <2>1. CASE UNCHANGED SwarmVars
    BY <2>1 DEF SwarmVars, HeardInv
  <2> QED
    BY <2>1, CreateHears, ScaleHears, ExecuteHears, AnswerHears, CheckHealthHears DEF SwarmNext
<1>3. HeardInv /\ [SwarmNext]_SwarmVars =>
          [swarm = "active" /\ swarm' = "completed" /\ mode \in Iterating
               => compacted \/ SwarmAgents \subseteq asked]_SwarmVars
  BY CreateHears, ScaleHears, ExecuteHears, AnswerHears, CheckHealthHears DEF SwarmNext
<1> QED
  BY <1>1, <1>2, <1>3, PTL DEF SwarmSpec, AllHeard
=============================================================================

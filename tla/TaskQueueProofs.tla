--------------------------- MODULE TaskQueueProofs ---------------------------
(***************************************************************************)
(* The task queue implements JobQueue, and no daemon executes more than    *)
(* MaxConcurrent tasks, for any number of tasks and daemons.  The argument *)
(* of the first: a task that some daemon holds says running, and one that  *)
(* has not got to its session yet has none (Held), so a claim never takes  *)
(* a task that is held and a session is created once.                      *)
(***************************************************************************)
EXTENDS TaskQueue, TLAPS, FiniteSetTheorems

Held ==
    \A t \in Tasks :
        /\ owner[t] # NoDaemon => status[t] = "running"
        /\ place[t] \in {"wait", "load"} => sessions[t] = 0
        /\ status[t] \in {"none", "pending"} => sessions[t] = 0

QInv == TypeOK /\ Held

-----------------------------------------------------------------------------
LEMMA QInvInit == Init => QInv
BY DEF Init, QInv, Held, TypeOK, Status, Places

\* The moves of a coroutine.
LEMMA RunKeeps ==
    ASSUME QInv, NEW t \in Tasks, Run(t) \/ Timeout(t) \/ MarkRaises(t)
    PROVE  QInv'
<1> USE NoDaemonAssumption
<1>1. CASE Enter(t) \/ NoSession(t) \/ SessionEnds(t) \/ Timeout(t)
  BY <1>1 DEF QInv, Held, TypeOK, Status, Places, Enter, NoSession, SessionEnds,
              Timeout, Move
<1>2. CASE FireSession(t)
  BY <1>2 DEF QInv, Held, TypeOK, Status, Places, FireSession, Move
<1>3. CASE MarkCompleted(t)
  <2>1. owner[t] # NoDaemon /\ status[t] = "running"
    BY <1>3 DEF QInv, Held, TypeOK, MarkCompleted
  <2> QED
    BY <1>3, <2>1 DEF QInv, Held, TypeOK, Status, Places, MarkCompleted, Leave
<1>4. CASE MarkRaises(t)
  BY <1>4 DEF QInv, Held, TypeOK, Status, Places, MarkRaises
<1> QED BY <1>1, <1>2, <1>3, <1>4 DEF Run

LEMMA ClaimKeeps ==
    ASSUME QInv, NEW d \in Daemons, NEW B \in SUBSET Tasks, Claim(d, B)
    PROVE  QInv'
<1> USE NoDaemonAssumption
<1>1. \A t \in B : status[t] = "pending"
  BY DEF Claim, Pending
<1> QED BY <1>1 DEF QInv, Held, TypeOK, Status, Places, Claim

LEMMA QInvNext == QInv /\ [Next]_vars => QInv'
<1> SUFFICES ASSUME QInv, [Next]_vars PROVE QInv'
  OBVIOUS
<1> USE NoDaemonAssumption
<1>1. CASE UNCHANGED vars
  BY <1>1 DEF vars, QInv, Held, TypeOK
<1>2. ASSUME NEW t \in Tasks, Enqueue(t) PROVE QInv'
  BY <1>2 DEF QInv, Held, TypeOK, Status, Places, Enqueue
<1>3. ASSUME NEW t \in Tasks, Run(t) \/ Timeout(t) \/ MarkRaises(t) PROVE QInv'
  BY <1>3, RunKeeps
<1>4. ASSUME NEW d \in Daemons, Poll(d) PROVE QInv'
  BY <1>4, ClaimKeeps DEF Poll
<1>5. ASSUME NEW d \in Daemons, Crash(d) PROVE QInv'
  BY <1>5 DEF QInv, Held, TypeOK, Status, Places, Crash
<1> QED BY <1>1, <1>2, <1>3, <1>4, <1>5 DEF Next

LEMMA QInvAlways == Spec => []QInv
BY QInvInit, QInvNext, PTL DEF Spec

\* The state of the queue and of the daemons has its type, and a coroutine is in
\* progress exactly for the tasks that some daemon holds.
THEOREM TypeCorrect == Spec => []TypeOK
<1>1. QInv => TypeOK
  BY DEF QInv
<1> QED BY <1>1, QInvAlways, PTL

-----------------------------------------------------------------------------
(* The bound on concurrency. *)

\* Tasks that leave the semaphore make room.
LEMMA FewerKeep ==
    ASSUME ConcurrencyBound, \A d \in Daemons : Executing(d)' \subseteq Executing(d)
    PROVE  ConcurrencyBound'
<1> SUFFICES ASSUME NEW d \in Daemons PROVE Cardinality(Executing(d)') <= MaxConcurrent
  BY DEF ConcurrencyBound
<1>1. IsFiniteSet(Executing(d))
  BY TasksAssumption, FS_Subset DEF Executing
<1>2. /\ IsFiniteSet(Executing(d)')
      /\ Cardinality(Executing(d)') <= Cardinality(Executing(d))
  BY <1>1, FS_Subset
<1>3. Cardinality(Executing(d)) \in Nat /\ Cardinality(Executing(d)') \in Nat
  BY <1>1, <1>2, FS_CardinalityType
<1>4. Cardinality(Executing(d)) <= MaxConcurrent
  BY DEF ConcurrencyBound
<1> QED BY <1>2, <1>3, <1>4, SizesAssumption

LEMMA EnterKeeps ==
    ASSUME QInv, ConcurrencyBound, NEW t \in Tasks, Enter(t)
    PROVE  ConcurrencyBound'
<1> SUFFICES ASSUME NEW d \in Daemons PROVE Cardinality(Executing(d)') <= MaxConcurrent
  BY DEF ConcurrencyBound
<1>1. IsFiniteSet(Executing(d)) /\ Cardinality(Executing(d)) \in Nat
  BY TasksAssumption, FS_Subset, FS_CardinalityType DEF Executing
<1>2. CASE owner[t] = d
  <2>1. t \notin Executing(d)
    BY DEF Enter, Move, Executing
  <2>2. Executing(d)' = Executing(d) \cup {t}
    BY <1>2 DEF QInv, TypeOK, Enter, Move, Executing
  <2>3. Cardinality(Executing(d)') = Cardinality(Executing(d)) + 1
    BY <1>1, <2>1, <2>2, FS_AddElement
  <2>4. Cardinality(Executing(d)) < MaxConcurrent
    BY <1>2 DEF Enter
  <2> QED BY <1>1, <2>3, <2>4, SizesAssumption
<1>3. CASE owner[t] # d
  <2>1. Executing(d)' = Executing(d)
    BY <1>3 DEF QInv, TypeOK, Enter, Move, Executing
  <2> QED BY <2>1 DEF ConcurrencyBound
<1> QED BY <1>2, <1>3

LEMMA BoundInit == Init => ConcurrencyBound
<1> SUFFICES ASSUME Init, NEW d \in Daemons PROVE Cardinality(Executing(d)) <= MaxConcurrent
  BY DEF ConcurrencyBound
<1>1. Executing(d) = {}
  BY DEF Init, Executing
<1>2. Cardinality(Executing(d)) = 0
  BY <1>1, FS_EmptySet
<1> QED BY <1>2, SizesAssumption

LEMMA BoundNext == QInv /\ ConcurrencyBound /\ [Next]_vars => ConcurrencyBound'
<1> SUFFICES ASSUME QInv, ConcurrencyBound, [Next]_vars PROVE ConcurrencyBound'
  OBVIOUS
<1> USE NoDaemonAssumption
<1>1. CASE UNCHANGED vars
  BY <1>1, FewerKeep DEF vars, Executing
<1>2. ASSUME NEW t \in Tasks,
             Enqueue(t) \/ FireSession(t) \/ NoSession(t) \/ SessionEnds(t) \/ Timeout(t)
      PROVE  ConcurrencyBound'
  <2>1. \A d \in Daemons : Executing(d)' \subseteq Executing(d)
    BY <1>2 DEF QInv, TypeOK, Enqueue, FireSession, NoSession, SessionEnds, Timeout,
                Move, Executing
  <2> QED BY <2>1, FewerKeep
<1>3. ASSUME NEW t \in Tasks, MarkCompleted(t) \/ MarkRaises(t) PROVE ConcurrencyBound'
  <2>1. \A d \in Daemons : Executing(d)' \subseteq Executing(d)
    BY <1>3 DEF QInv, TypeOK, MarkCompleted, MarkRaises, Leave, Executing
  <2> QED BY <2>1, FewerKeep
<1>4. ASSUME NEW t \in Tasks, Enter(t) PROVE ConcurrencyBound'
  BY <1>4, EnterKeeps
<1>5. ASSUME NEW c \in Daemons, NEW B \in SUBSET Tasks, Claim(c, B)
      PROVE  ConcurrencyBound'
  <2>1. \A d \in Daemons : Executing(d)' \subseteq Executing(d)
    BY <1>5 DEF QInv, TypeOK, Claim, Executing
  <2> QED BY <2>1, FewerKeep
<1>6. ASSUME NEW c \in Daemons, Crash(c) PROVE ConcurrencyBound'
  <2>1. \A d \in Daemons : Executing(d)' \subseteq Executing(d)
    BY <1>6 DEF QInv, TypeOK, Crash, Executing
  <2> QED BY <2>1, FewerKeep
<1> QED BY <1>1, <1>2, <1>3, <1>4, <1>5, <1>6 DEF Next, Run, Poll

\* However many batches a daemon has under way after gather has raised, at most
\* MaxConcurrent of its tasks are inside the semaphore (task_queue_daemon.py:207-217).
THEOREM ConcurrencyIsBounded == Spec => []ConcurrencyBound
BY BoundInit, BoundNext, QInvAlways, PTL DEF Spec

-----------------------------------------------------------------------------
(* The refinement. *)

jobs == [t \in Tasks |-> Job(t)]

LEMMA InitRefines == Init => Jobs!Init
BY DEF Init, Jobs!Init, Job

\* A step that changes no status, holder or session stutters.
LEMMA QuietRefines ==
    ASSUME UNCHANGED <<status, owner, sessions>>
    PROVE  UNCHANGED <<jobs, owner, sessions>>
BY DEF jobs, Job

LEMMA NextRefines ==
    QInv /\ QInv' /\ [Next]_vars => [Jobs!Next]_<<jobs, owner, sessions>>
<1> SUFFICES ASSUME QInv, QInv', [Next]_vars
             PROVE  Jobs!Next \/ UNCHANGED <<jobs, owner, sessions>>
  OBVIOUS
<1> USE NoDaemonAssumption
<1>1. CASE UNCHANGED vars
  BY <1>1, QuietRefines DEF vars
<1>2. ASSUME NEW t \in Tasks, Enqueue(t) PROVE Jobs!Next
  <2>1. Jobs!Put(t)
    BY <1>2 DEF QInv, TypeOK, Enqueue, Jobs!Put, Job
  <2> QED BY <2>1 DEF Jobs!Next
<1>3. ASSUME NEW t \in Tasks, Enter(t) \/ NoSession(t) \/ SessionEnds(t) \/ Timeout(t)
      PROVE  UNCHANGED <<jobs, owner, sessions>>
  BY <1>3, QuietRefines DEF Enter, NoSession, SessionEnds, Timeout, Move
<1>4. ASSUME NEW t \in Tasks, FireSession(t) PROVE Jobs!Next
  <2>1. owner[t] # NoDaemon /\ sessions[t] = 0
    BY <1>4 DEF QInv, Held, TypeOK, FireSession, Move
  <2>2. Jobs!Execute(t)
    BY <1>4, <2>1 DEF QInv, TypeOK, FireSession, Move, Jobs!Execute, Job
  <2> QED BY <2>2 DEF Jobs!Next
<1>5. ASSUME NEW t \in Tasks, MarkCompleted(t) PROVE Jobs!Next
  <2>1. owner[t] # NoDaemon
    BY <1>5 DEF QInv, TypeOK, MarkCompleted
  <2>2. Jobs!Close(t)
    BY <1>5, <2>1 DEF QInv, TypeOK, MarkCompleted, Leave, Jobs!Close, Job
  <2> QED BY <2>2 DEF Jobs!Next
<1>6. ASSUME NEW t \in Tasks, MarkRaises(t) PROVE Jobs!Next
  <2>1. Jobs!Lose({t})
    BY <1>6 DEF QInv, TypeOK, MarkRaises, Jobs!Lose, Job
  <2> QED BY <2>1 DEF Jobs!Next
<1>7. ASSUME NEW d \in Daemons, NEW B \in SUBSET Tasks, Claim(d, B) PROVE Jobs!Next
  <2>1. Jobs!Take(d, B)
    BY <1>7 DEF QInv, TypeOK, Claim, Pending, Jobs!Take, Job
  <2> QED BY <2>1 DEF Jobs!Next
<1>8. ASSUME NEW d \in Daemons, Crash(d) PROVE Jobs!Next
  <2> DEFINE B == {t \in Tasks : owner[t] = d}
  <2>1. Jobs!Lose(B)
    BY <1>8 DEF QInv, TypeOK, Crash, Jobs!Lose, Job
  <2> QED BY <2>1 DEF Jobs!Next
<1> QED
  BY <1>1, <1>2, <1>3, <1>4, <1>5, <1>6, <1>7, <1>8 DEF Next, Run, Poll

\* The task queue implements the abstract queue: whatever crashes and fails, a
\* task is held by at most one daemon, executed at most once, and closed only by
\* the daemon that holds it (task_queue_daemon.py:184-217).
THEOREM Implements == Spec => ClaimedOnce
<1>1. Spec => Jobs!Init
  BY InitRefines DEF Spec
<1>2. QInv /\ QInv' /\ [Next]_vars => [Jobs!Next]_<<[t \in Tasks |-> Job(t)], owner, sessions>>
  BY NextRefines DEF jobs
<1> QED BY <1>1, <1>2, QInvAlways, PTL DEF Spec, ClaimedOnce, Jobs!Spec
=============================================================================

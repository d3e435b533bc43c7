------------------------- MODULE AgentSessionsProofs -------------------------
(***************************************************************************)
(* Type correctness of AgentSessions, four of its safety invariants and    *)
(* one of its action properties, for any number of sessions, requests,     *)
(* workers, slots, crashes and failing statements.                         *)
(***************************************************************************)
EXTENDS AgentSessions, FiniteSetTheorems, TLAPS

-----------------------------------------------------------------------------
(* What the helpers of the model do to the types. *)

LEMMA CommitStatusType ==
    ASSUME TypeOK, NEW c \in Calls, NEW v \in Status, CommitStatus(c, v)
    PROVE  row' \in [Sessions -> Status] /\ mem' \in [Calls -> Status]
BY DEF TypeOK, CommitStatus

LEMMA GotoType ==
    ASSUME TypeOK, NEW c \in Calls, NEW l \in PCs, Goto(c, l)
    PROVE  pc' \in [Calls -> PCs]
BY DEF TypeOK, Goto

LEMMA ReceiveType ==
    ASSUME TypeOK, NEW c \in Calls, NEW k \in AllKinds, NEW s \in Sessions,
           NEW w \in Workers, NEW l \in PCs, Receive(c, k, s, w, l)
    PROVE  /\ pc'   \in [Calls -> PCs]
           /\ kind' \in [Calls -> AllKinds]
           /\ sess' \in [Calls -> Sessions \cup {NoSession}]
           /\ home' \in [Calls -> Workers \cup {NoWorker}]
BY DEF TypeOK, Receive, Goto

\* The copy that a call takes of its session's row is a status.
LEMMA ReadType ==
    ASSUME TypeOK, ProcessShape, NEW c \in Calls, pc[c] # "unused",
           mem' = [mem EXCEPT ![c] = row[sess[c]]]
    PROVE  mem' \in [Calls -> Status]
BY DEF TypeOK, ProcessShape

LEMMA CountStepType ==
    ASSUME TypeOK, NEW c \in Calls, CountStep(c)
    PROVE  cnt' \in [Calls -> Nat] /\ loops' \in [Sessions -> Nat]
<1>1. cnt[c] + 1 \in Nat
    BY DEF TypeOK
<1> QED BY <1>1 DEF TypeOK, CountStep

-----------------------------------------------------------------------------
(* The holders of a worker's slots. *)

LEMMA HoldersFinite ==
    ASSUME NEW w \in Workers
    PROVE  IsFiniteSet(Holders(w)) /\ Cardinality(Holders(w)) \in Nat
BY CallsAssumption, FS_Subset, FS_CardinalityType DEF Holders

\* The semaphore is below its initial value while somebody holds a slot.
LEMMA HolderTakesSlot ==
    ASSUME TypeOK, SlotAccounting, NEW c \in Calls, home[c] \in Workers,
           HoldsSlot(c)
    PROVE  free[home[c]] < Slots
<1>1. c \in Holders(home[c])
    BY DEF Holders
<1>2. Cardinality(Holders(home[c])) # 0
    BY <1>1, HoldersFinite, FS_EmptySet
<1> QED BY <1>2, HoldersFinite, SlotsAssumption DEF TypeOK, SlotAccounting

-----------------------------------------------------------------------------
(* Types and shapes, action by action. *)

IInv == TypeOK /\ ProcessShape /\ SlotAccounting

LEMMA InitInductive == Init => IInv
<1> SUFFICES ASSUME Init PROVE IInv
    OBVIOUS
<1>1. TypeOK
    BY SlotsAssumption, BoundsAssumption
       DEF Init, TypeOK, AllKinds, Outcome, PCs, SlotPCs, LoopPCs, Status
<1>2. ProcessShape
    BY DEF Init, ProcessShape, InLoop, LoopPCs, StartPCs, ApprovePCs
<1>3. SlotAccounting
    <2>1. \A w \in Workers : Holders(w) = {}
        BY DEF Init, Holders, HoldsSlot, SlotPCs, LoopPCs
    <2>2. Cardinality({}) = 0
        BY FS_EmptySet
    <2>3. \A w \in Workers : free[w] = Slots
        BY DEF Init
    <2>4. \A w \in Workers : free[w] + Cardinality(Holders(w)) = Slots
        BY <2>1, <2>2, <2>3, SlotsAssumption
    <2> QED BY <2>4 DEF SlotAccounting
<1> QED BY <1>1, <1>2, <1>3 DEF IInv

LEMMA RequestType ==
    ASSUME TypeOK, NEW c \in Calls, Request(c)
    PROVE  TypeOK'
<1>1. PICK s \in Sessions, w \in Workers :
          \/ StartSession(c, s, w)
          \/ CancelRead(c, s, w)
          \/ EmergencyStop(c, s, w)
          \/ Decide(c, s, w)
          \/ SweepRead(c, s, w)
    BY DEF Request
<1> USE DEF PCs, SlotPCs, LoopPCs, Status, Live, AllKinds
<1>2. CASE StartSession(c, s, w)
    BY <1>2 DEF TypeOK, StartSession, Receive, Goto, procVars
<1>3. CASE CancelRead(c, s, w)
    BY <1>3 DEF TypeOK, CancelRead, Receive, Goto, procVars, rowVars
<1>4. CASE EmergencyStop(c, s, w)
    BY <1>4 DEF TypeOK, EmergencyStop, Receive, Goto, procVars, Terminal
<1>5. CASE Decide(c, s, w)
    BY <1>5 DEF TypeOK, Decide, Receive, Goto, procVars, rowVars
<1>6. CASE SweepRead(c, s, w)
    BY <1>6 DEF TypeOK, SweepRead, Receive, Goto, procVars, rowVars
<1> QED BY <1>1, <1>2, <1>3, <1>4, <1>5, <1>6

LEMMA HandlerType ==
    ASSUME IInv, NEW c \in Calls, Handler(c)
    PROVE  TypeOK'
<1> USE DEF PCs, SlotPCs, LoopPCs, Status, Live, Terminal, procVars
<1>0. TypeOK /\ ProcessShape
    BY DEF IInv
<1>1. CASE QueueSession(c)
    BY <1>0, <1>1, CommitStatusType, GotoType DEF TypeOK, QueueSession
<1>2. CASE CancelWrite(c)
    BY <1>0, <1>2, CommitStatusType, GotoType DEF TypeOK, CancelWrite
<1>3. CASE SweepWrite(c)
    BY <1>0, <1>3, CommitStatusType, GotoType DEF TypeOK, SweepWrite
<1>4. CASE DecideRead(c)
    <2>1. mem' \in [Calls -> Status]
        BY <1>0, <1>4, ReadType DEF DecideRead
    <2>2. pc' \in [Calls -> PCs]
        BY <1>0, <1>4, GotoType DEF DecideRead
    <2> QED BY <1>0, <1>4, <2>1, <2>2 DEF TypeOK, DecideRead, rowVars
<1>5. CASE ApproveWrite(c)
    BY <1>0, <1>5, CommitStatusType, GotoType DEF TypeOK, ApproveWrite
<1>6. CASE RejectWrite(c)
    BY <1>0, <1>6, CommitStatusType, GotoType DEF TypeOK, RejectWrite
<1> QED BY <1>1, <1>2, <1>3, <1>4, <1>5, <1>6 DEF Handler

LEMMA RunnerType ==
    ASSUME IInv, NEW c \in Calls, Runner(c) \/ Interrupt(c)
    PROVE  TypeOK'
<1> USE DEF PCs, SlotPCs, LoopPCs, Status, Live, Terminal, procVars
<1>0. TypeOK /\ ProcessShape /\ SlotAccounting
    BY DEF IInv
<1>00. sess[c] \in Sessions /\ home[c] \in Workers
    BY <1>0 DEF ProcessShape, Runner, AcquireSlot, AcquireTimeout, FailureRead,
       FailureWrite, LoadSession, ReloadSession, ReleaseSlot, Intercept, MarkRunning, Plan,
       LoopTop, ExecuteStep, CutOff, RecordStep, FinishLoop, LoopLimit,
       Interrupt, HardTimeout, HandlerFails, RunFails, InLoop
<1>1. CASE AcquireSlot(c)
    BY <1>0, <1>00, <1>1, GotoType, SlotsAssumption DEF TypeOK, AcquireSlot, rowVars
<1>2. CASE AcquireTimeout(c)
    BY <1>0, <1>2, GotoType DEF TypeOK, AcquireTimeout, rowVars
<1>3. CASE FailureRead(c)
    <2>1. mem' \in [Calls -> Status]
        BY <1>0, <1>3, ReadType DEF FailureRead
    <2>2. pc' \in [Calls -> PCs]
        BY <1>0, <1>3, GotoType DEF FailureRead
    <2> QED BY <1>0, <1>3, <2>1, <2>2 DEF TypeOK, FailureRead, rowVars
<1>4. CASE FailureWrite(c)
    <2>1. row' \in [Sessions -> Status] /\ mem' \in [Calls -> Status]
        BY <1>0, <1>4, CommitStatusType DEF TypeOK, FailureWrite
    <2>2. pc' \in [Calls -> PCs]
        BY <1>0, <1>4, GotoType DEF FailureWrite
    <2> QED BY <1>0, <1>4, <2>1, <2>2 DEF TypeOK, FailureWrite
<1>5. CASE LoadSession(c) \/ ReloadSession(c)
    <2>1. mem' \in [Calls -> Status] /\ cnt' \in [Calls -> Nat]
        BY <1>0, <1>00, <1>5 DEF LoadSession, ReloadSession, TypeOK
    <2>2. pc' \in [Calls -> PCs]
        BY <1>0, <1>5, GotoType DEF LoadSession, ReloadSession
    <2>3. row' \in [Sessions -> Status]
        BY <1>0, <1>5 DEF TypeOK, LoadSession, ReloadSession, rowVars
    <2> QED BY <1>0, <1>5, <2>1, <2>2, <2>3 DEF TypeOK, LoadSession, ReloadSession, rowVars
<1>7. CASE Intercept(c)
    BY <1>0, <1>7, CommitStatusType, GotoType DEF TypeOK, Intercept, AfterLoop
<1>8. CASE MarkRunning(c)
    BY <1>0, <1>8, CommitStatusType, GotoType DEF TypeOK, MarkRunning
<1>9. CASE Plan(c)
    <2>1. row' \in [Sessions -> Status] /\ mem' \in [Calls -> Status]
        BY <1>0, <1>9, CommitStatusType DEF TypeOK, Plan
    <2>2. pc' \in [Calls -> PCs]
        BY <1>0, <1>9, GotoType DEF Plan, AfterLoop
    <2> QED BY <1>0, <1>9, <2>1, <2>2 DEF TypeOK, Plan
<1>10. CASE LoopTop(c)
    <2>1. mem' \in [Calls -> Status] /\ cnt' \in [Calls -> Nat]
        <3>1. row[sess[c]] \in Status /\ loops[sess[c]] \in Nat
            BY <1>0, <1>00 DEF TypeOK
        <3>2. \/ mem' = mem /\ cnt' = cnt
              \/ /\ mem' = [mem EXCEPT ![c] = row[sess[c]]]
                 /\ cnt' = [cnt EXCEPT ![c] = loops[sess[c]]]
            BY <1>10 DEF LoopTop
        <3> QED BY <1>0, <3>1, <3>2 DEF TypeOK
    <2>2. pc' \in [Calls -> PCs]
        BY <1>0, <1>10, GotoType DEF LoopTop
    <2> QED BY <1>0, <1>10, <2>1, <2>2 DEF TypeOK, LoopTop, rowVars
<1>11. CASE ExecuteStep(c)
    <2>1. row' \in [Sessions -> Status] /\ mem' \in [Calls -> Status]
        BY <1>0, <1>11, CommitStatusType DEF TypeOK, ExecuteStep
    <2>3. pc' \in [Calls -> PCs]
        BY <1>0, <1>11, GotoType DEF ExecuteStep
    <2>4. res' \in [Calls -> Outcome]
        BY <1>0, <1>11 DEF TypeOK, ExecuteStep
    <2> QED BY <1>0, <1>11, <2>1, <2>3, <2>4 DEF TypeOK, ExecuteStep
<1>12. CASE CutOff(c)
    <2>1. cnt' \in [Calls -> Nat] /\ loops' \in [Sessions -> Nat]
        BY <1>0, <1>12, CountStepType DEF CutOff
    <2> QED BY <1>0, <1>12, <2>1, CommitStatusType, GotoType
            DEF TypeOK, CutOff, AfterLoop, RecoveryStatus
<1>13. CASE RecordStep(c)
    <2>1. cnt' \in [Calls -> Nat] /\ loops' \in [Sessions -> Nat]
        BY <1>0, <1>13, CountStepType DEF RecordStep
    <2>2. pc' \in [Calls -> PCs]
        BY <1>0, <1>13, GotoType DEF RecordStep
    <2> QED BY <1>0, <1>13, <2>1, <2>2 DEF TypeOK, RecordStep
<1>14. CASE FinishLoop(c)
    <2>1. row' \in [Sessions -> Status] /\ mem' \in [Calls -> Status]
        BY <1>0, <1>14, CommitStatusType DEF FinishLoop, RecoveryStatus
    <2>2. pc' \in [Calls -> PCs]
        BY <1>0, <1>14, GotoType DEF FinishLoop, AfterLoop
    <2> QED BY <1>0, <1>14, <2>1, <2>2 DEF TypeOK, FinishLoop
<1>15. CASE LoopLimit(c)
    BY <1>0, <1>15, CommitStatusType, GotoType DEF TypeOK, LoopLimit, AfterLoop
<1>16. CASE HardTimeout(c)
    BY <1>0, <1>16, GotoType DEF TypeOK, HardTimeout, rowVars
<1>17. CASE HandlerFails(c)
    <2>1. pc' \in [Calls -> PCs]
        BY <1>0, <1>17, GotoType DEF HandlerFails
    <2> QED BY <1>0, <1>17, <2>1 DEF TypeOK, HandlerFails, rowVars
<1>18. CASE RunFails(c)
    <2>1. pc' \in [Calls -> PCs]
        BY <1>0, <1>18, GotoType DEF RunFails
    <2>2. row' \in [Sessions -> Status]
        BY <1>0, <1>18 DEF TypeOK, RunFails
    <2> QED BY <1>0, <1>18, <2>1, <2>2 DEF TypeOK, RunFails
<1>6. CASE ReleaseSlot(c)
    <2>1. HoldsSlot(c)
        BY <1>0, <1>6 DEF ReleaseSlot, ProcessShape, StartPCs, HoldsSlot
    <2>2. free[home[c]] + 1 \in 0 .. Slots
        <3>1. free[home[c]] \in 0 .. Slots /\ Slots \in Nat
            BY <1>0, <1>00, SlotsAssumption DEF TypeOK
        <3>2. free[home[c]] < Slots
            BY <1>0, <1>00, <2>1, HolderTakesSlot
        <3> QED BY <3>1, <3>2
    <2> QED BY <1>0, <1>00, <1>6, <2>2, GotoType DEF TypeOK, ReleaseSlot, rowVars
<1> QED BY <1>1, <1>2, <1>3, <1>4, <1>5, <1>6, <1>7, <1>8, <1>9, <1>10,
           <1>11, <1>12, <1>13, <1>14, <1>15, <1>16, <1>17, <1>18
           DEF Runner, Interrupt

LEMMA ProcessType ==
    ASSUME IInv, Process
    PROVE  TypeOK'
<1>1. PICK w \in Workers : Crash(w) \/ Startup(w)
    BY DEF Process
<1>2. CASE Crash(w)
    BY <1>2, SlotsAssumption, BoundsAssumption
       DEF IInv, TypeOK, Crash, rowVars, PCs
<1>3. CASE Startup(w)
    BY <1>3 DEF IInv, TypeOK, Startup, callVars, Status, Terminal
<1> QED BY <1>1, <1>2, <1>3

-----------------------------------------------------------------------------
(* A call that moves on keeps its kind, session and worker. *)

\* The slots do not change hands when the call neither enters nor leaves the
\* places that own one.
LEMMA KeepHolders ==
    ASSUME IInv, NEW c \in Calls, NEW l \in PCs, Goto(c, l),
           UNCHANGED <<free, kind, home>>,
           kind[c] = "start" => (pc[c] \in SlotPCs <=> l \in SlotPCs)
    PROVE  SlotAccounting'
<1>1. \A d \in Calls : HoldsSlot(d)' <=> HoldsSlot(d)
    BY DEF IInv, TypeOK, Goto, HoldsSlot
<1>2. \A w \in Workers : Holders(w)' = Holders(w)
    BY <1>1 DEF Holders
<1> QED BY <1>2 DEF IInv, SlotAccounting

LEMMA KeepShape ==
    ASSUME IInv, NEW c \in Calls, NEW l \in PCs, Goto(c, l),
           UNCHANGED <<kind, sess, home>>, pc[c] # "unused",
           l \in StartPCs => kind[c] = "start",
           l \in ApprovePCs => kind[c] = "approve",
           l \in LoopPCs => kind[c] \in {"start", "approve"}
    PROVE  ProcessShape'
BY DEF IInv, TypeOK, ProcessShape, Goto, InLoop

\* A new call starts outside the places that own a slot.
LEMMA ReceiveKeeps ==
    ASSUME IInv, NEW c \in Calls, NEW k \in AllKinds, NEW s \in Sessions,
           NEW w \in Workers, NEW l \in PCs, Receive(c, k, s, w, l),
           UNCHANGED free, l \notin SlotPCs,
           l \in StartPCs => k = "start", l \in ApprovePCs => k = "approve"
    PROVE  ProcessShape' /\ SlotAccounting'
<1>1. \A d \in Calls : HoldsSlot(d)' <=> HoldsSlot(d)
    BY DEF IInv, TypeOK, Receive, Goto, HoldsSlot, SlotPCs, LoopPCs
<1>2. \A d \in Calls : HoldsSlot(d) => home'[d] = home[d]
    BY DEF IInv, TypeOK, Receive, HoldsSlot, SlotPCs, LoopPCs
<1>3. \A v \in Workers : Holders(v)' = Holders(v)
    BY <1>1, <1>2 DEF Holders
<1>4. SlotAccounting'
    BY <1>3 DEF IInv, SlotAccounting
<1>5. ProcessShape'
    BY DEF IInv, TypeOK, ProcessShape, Receive, Goto, InLoop, SlotPCs
<1> QED BY <1>4, <1>5

LEMMA RequestKeeps ==
    ASSUME IInv, NEW c \in Calls, Request(c)
    PROVE  ProcessShape' /\ SlotAccounting'
<1>1. PICK s \in Sessions, w \in Workers :
          \/ StartSession(c, s, w)
          \/ CancelRead(c, s, w)
          \/ EmergencyStop(c, s, w)
          \/ Decide(c, s, w)
          \/ SweepRead(c, s, w)
    BY DEF Request
<1>2. UNCHANGED free
    BY <1>1 DEF StartSession, CancelRead, EmergencyStop, Decide, SweepRead, procVars
<1>3. \E k \in AllKinds, l \in PCs :
          /\ Receive(c, k, s, w, l)
          /\ l \notin SlotPCs
          /\ l \in StartPCs => k = "start"
          /\ l \in ApprovePCs => k = "approve"
    <2> USE DEF AllKinds, PCs, SlotPCs, LoopPCs, StartPCs, ApprovePCs
    <2>1. CASE StartSession(c, s, w)
        BY <2>1 DEF StartSession
    <2>2. CASE CancelRead(c, s, w)
        BY <2>2 DEF CancelRead
    <2>3. CASE EmergencyStop(c, s, w)
        BY <2>3 DEF EmergencyStop
    <2>4. CASE Decide(c, s, w)
        BY <2>4 DEF Decide
    <2>5. CASE SweepRead(c, s, w)
        BY <2>5 DEF SweepRead
    <2> QED BY <1>1, <2>1, <2>2, <2>3, <2>4, <2>5
<1> QED BY <1>2, <1>3, ReceiveKeeps

\* Every step of a handler or of a runner, other than the two on the semaphore,
\* moves the call between places that agree about owning a slot.
Move(c, l) ==
    /\ Goto(c, l)
    /\ UNCHANGED <<free, kind, sess, home>>
    /\ pc[c] # "unused"
    /\ kind[c] = "start" => (pc[c] \in SlotPCs <=> l \in SlotPCs)
    /\ l \in StartPCs => kind[c] = "start"
    /\ l \in ApprovePCs => kind[c] = "approve"
    /\ l \in LoopPCs => kind[c] \in {"start", "approve"}

LEMMA MoveKeeps ==
    ASSUME IInv, NEW c \in Calls, NEW l \in PCs, Move(c, l)
    PROVE  ProcessShape' /\ SlotAccounting'
BY KeepHolders, KeepShape DEF Move

LEMMA HandlerMoves ==
    ASSUME IInv, NEW c \in Calls, Handler(c)
    PROVE  \E l \in PCs : Move(c, l)
<1> USE DEF PCs, SlotPCs, LoopPCs, StartPCs, ApprovePCs, procVars, Move
<1>0. ProcessShape
    BY DEF IInv
<1>1. CASE QueueSession(c)
    BY <1>0, <1>1 DEF QueueSession, ProcessShape
<1>2. CASE CancelWrite(c)
    BY <1>0, <1>2 DEF CancelWrite
<1>3. CASE SweepWrite(c)
    BY <1>0, <1>3 DEF SweepWrite
<1>4. CASE DecideRead(c)
    BY <1>0, <1>4 DEF DecideRead, ProcessShape
<1>5. CASE ApproveWrite(c)
    BY <1>0, <1>5 DEF ApproveWrite, ProcessShape
<1>6. CASE RejectWrite(c)
    BY <1>0, <1>6 DEF RejectWrite
<1> QED BY <1>1, <1>2, <1>3, <1>4, <1>5, <1>6 DEF Handler

LEMMA RunnerMoves ==
    ASSUME IInv, NEW c \in Calls,
           (Runner(c) /\ ~AcquireSlot(c) /\ ~ReleaseSlot(c)) \/ Interrupt(c)
    PROVE  \E l \in PCs : Move(c, l)
<1> USE DEF PCs, SlotPCs, LoopPCs, StartPCs, ApprovePCs, procVars, Move, InLoop
<1>0. ProcessShape
    BY DEF IInv
<1>1. CASE AcquireTimeout(c)
    BY <1>0, <1>1 DEF AcquireTimeout, ProcessShape
<1>2. CASE FailureRead(c)
    BY <1>0, <1>2 DEF FailureRead, ProcessShape
<1>3. CASE FailureWrite(c)
    BY <1>0, <1>3 DEF FailureWrite, ProcessShape
<1>4. CASE LoadSession(c) \/ ReloadSession(c)
    BY <1>0, <1>4 DEF LoadSession, ReloadSession, ProcessShape
<1>5. CASE Intercept(c)
    BY <1>0, <1>5 DEF Intercept, ProcessShape, AfterLoop
<1>6. CASE MarkRunning(c)
    BY <1>0, <1>6 DEF MarkRunning, ProcessShape
<1>7. CASE Plan(c)
    BY <1>0, <1>7 DEF Plan, ProcessShape, AfterLoop
<1>8. CASE LoopTop(c)
    BY <1>0, <1>8 DEF LoopTop, ProcessShape
<1>9. CASE ExecuteStep(c)
    BY <1>0, <1>9 DEF ExecuteStep, ProcessShape
<1>10. CASE CutOff(c)
    BY <1>0, <1>10 DEF CutOff, ProcessShape, AfterLoop
<1>11. CASE RecordStep(c)
    BY <1>0, <1>11 DEF RecordStep, ProcessShape
<1>12. CASE FinishLoop(c)
    BY <1>0, <1>12 DEF FinishLoop, ProcessShape, AfterLoop
<1>13. CASE LoopLimit(c)
    BY <1>0, <1>13 DEF LoopLimit, ProcessShape, AfterLoop
<1>14. CASE HardTimeout(c)
    BY <1>0, <1>14 DEF HardTimeout, ProcessShape
<1>15. CASE HandlerFails(c)
    BY <1>0, <1>15 DEF HandlerFails, ProcessShape
<1>16. CASE RunFails(c)
    BY <1>0, <1>16 DEF RunFails, ProcessShape
<1> QED BY <1>1, <1>2, <1>3, <1>4, <1>5, <1>6, <1>7, <1>8, <1>9, <1>10,
           <1>11, <1>12, <1>13, <1>14, <1>15, <1>16 DEF Runner, Interrupt

-----------------------------------------------------------------------------
(* The semaphore itself. *)

LEMMA AcquireKeeps ==
    ASSUME IInv, NEW c \in Calls, AcquireSlot(c)
    PROVE  ProcessShape' /\ SlotAccounting'
<1>0. /\ TypeOK /\ ProcessShape /\ SlotAccounting
      /\ pc[c] = "slot" /\ kind[c] = "start" /\ home[c] \in Workers
    BY DEF IInv, AcquireSlot, ProcessShape, StartPCs
<1>1. ProcessShape'
    BY <1>0, KeepShape DEF AcquireSlot, PCs, SlotPCs, StartPCs, ApprovePCs, LoopPCs
<1>h. PICK h \in Workers : h = home[c]
    BY <1>0
<1>2. \A d \in Calls : HoldsSlot(d)' <=> HoldsSlot(d) \/ d = c
    BY <1>0 DEF TypeOK, AcquireSlot, Goto, HoldsSlot, SlotPCs, LoopPCs
<1>3. c \notin Holders(h)
    BY <1>0, <1>h DEF Holders, HoldsSlot, SlotPCs, LoopPCs
<1>4. /\ Holders(h)' = Holders(h) \cup {c}
      /\ \A w \in Workers \ {h} : Holders(w)' = Holders(w)
    BY <1>0, <1>h, <1>2 DEF Holders, AcquireSlot
<1>5. Cardinality(Holders(h))' = Cardinality(Holders(h)) + 1
    BY <1>0, <1>3, <1>4, HoldersFinite, FS_AddElement
<1>6. /\ free'[h] = free[h] - 1
      /\ \A w \in Workers \ {h} : free'[w] = free[w]
    BY <1>0, <1>h DEF TypeOK, AcquireSlot
<1>7. ASSUME NEW w \in Workers
      PROVE  free'[w] + Cardinality(Holders(w))' = Slots
    <2>1. /\ free[w] \in Int /\ Cardinality(Holders(w)) \in Int
          /\ free[w] + Cardinality(Holders(w)) = Slots
        <3>1. free[w] \in Int
            BY <1>0, SlotsAssumption DEF TypeOK
        <3>2. Cardinality(Holders(w)) \in Int
            BY HoldersFinite
        <3>3. free[w] + Cardinality(Holders(w)) = Slots
            BY <1>0 DEF SlotAccounting
        <3> QED BY <3>1, <3>2, <3>3
    <2>2. CASE w = h
        BY <2>1, <2>2, <1>5, <1>6
    <2>3. CASE w # h
        BY <2>1, <2>3, <1>4, <1>6
    <2> QED BY <2>2, <2>3
<1> QED BY <1>1, <1>7 DEF SlotAccounting

LEMMA ReleaseKeeps ==
    ASSUME IInv, NEW c \in Calls, ReleaseSlot(c)
    PROVE  ProcessShape' /\ SlotAccounting'
<1>0. /\ TypeOK /\ ProcessShape /\ SlotAccounting
      /\ pc[c] \in {"release", "quit"} /\ kind[c] = "start" /\ home[c] \in Workers
    BY DEF IInv, ReleaseSlot, ProcessShape, StartPCs
<1>1. ProcessShape'
    BY <1>0, KeepShape DEF ReleaseSlot, PCs, SlotPCs, StartPCs, ApprovePCs, LoopPCs
<1>h. PICK h \in Workers : h = home[c]
    BY <1>0
<1>2. \A d \in Calls : HoldsSlot(d)' <=> HoldsSlot(d) /\ d # c
    BY <1>0 DEF TypeOK, ReleaseSlot, Goto, HoldsSlot, SlotPCs, LoopPCs
<1>3. c \in Holders(h)
    BY <1>0, <1>h DEF Holders, HoldsSlot, SlotPCs, LoopPCs
<1>4. /\ Holders(h)' = Holders(h) \ {c}
      /\ \A w \in Workers \ {h} : Holders(w)' = Holders(w)
    BY <1>0, <1>h, <1>2 DEF Holders, ReleaseSlot
<1>5. Cardinality(Holders(h))' = Cardinality(Holders(h)) - 1
    BY <1>0, <1>3, <1>4, HoldersFinite, FS_RemoveElement
<1>6. /\ free'[h] = free[h] + 1
      /\ \A w \in Workers \ {h} : free'[w] = free[w]
    BY <1>0, <1>h DEF TypeOK, ReleaseSlot
<1>7. ASSUME NEW w \in Workers
      PROVE  free'[w] + Cardinality(Holders(w))' = Slots
    <2>1. /\ free[w] \in Int /\ Cardinality(Holders(w)) \in Int
          /\ free[w] + Cardinality(Holders(w)) = Slots
        <3>1. free[w] \in Int
            BY <1>0, SlotsAssumption DEF TypeOK
        <3>2. Cardinality(Holders(w)) \in Int
            BY HoldersFinite
        <3>3. free[w] + Cardinality(Holders(w)) = Slots
            BY <1>0 DEF SlotAccounting
        <3> QED BY <3>1, <3>2, <3>3
    <2>2. CASE w = h
        BY <2>1, <2>2, <1>5, <1>6
    <2>3. CASE w # h
        BY <2>1, <2>3, <1>4, <1>6
    <2> QED BY <2>2, <2>3
<1> QED BY <1>1, <1>7 DEF SlotAccounting

LEMMA ProcessKeeps ==
    ASSUME IInv, Process
    PROVE  ProcessShape' /\ SlotAccounting'
<1>0. TypeOK /\ ProcessShape /\ SlotAccounting
    BY DEF IInv
<1>1. PICK w \in Workers : Crash(w) \/ Startup(w)
    BY DEF Process
<1>2. CASE Crash(w)
    <2>1. \A d \in Calls : HoldsSlot(d)' <=> HoldsSlot(d) /\ home[d] # w
        BY <1>0, <1>2 DEF TypeOK, Crash, HoldsSlot, Active, SlotPCs, LoopPCs
    <2>2. Holders(w)' = {} /\ \A v \in Workers \ {w} : Holders(v)' = Holders(v)
        BY <1>2, <2>1 DEF Holders, Crash
    <2>3. Cardinality({}) = 0
        BY FS_EmptySet
    <2>4. free'[w] = Slots /\ \A v \in Workers \ {w} : free'[v] = free[v]
        BY <1>0, <1>2 DEF TypeOK, Crash
    <2>5. SlotAccounting'
        BY <1>0, <2>2, <2>3, <2>4, SlotsAssumption DEF SlotAccounting
    <2>6. ProcessShape'
        BY <1>0, <1>2 DEF TypeOK, ProcessShape, Crash, Active, InLoop,
           StartPCs, ApprovePCs, LoopPCs
    <2> QED BY <2>5, <2>6
<1>3. CASE Startup(w)
    BY <1>0, <1>3 DEF Startup, ProcessShape, SlotAccounting, Holders, HoldsSlot,
       InLoop, callVars
<1> QED BY <1>1, <1>2, <1>3

-----------------------------------------------------------------------------
LEMMA StepInductive == IInv /\ [Next]_vars => IInv'
<1> SUFFICES ASSUME IInv, [Next]_vars PROVE IInv'
    OBVIOUS
<1>1. ASSUME NEW c \in Calls, Request(c) PROVE IInv'
    BY <1>1, RequestType, RequestKeeps DEF IInv
<1>2. ASSUME NEW c \in Calls, Handler(c) PROVE IInv'
    BY <1>2, HandlerType, HandlerMoves, MoveKeeps DEF IInv
<1>3. ASSUME NEW c \in Calls, Runner(c) \/ Interrupt(c) PROVE IInv'
    BY <1>3, RunnerType, RunnerMoves, MoveKeeps, AcquireKeeps, ReleaseKeeps
       DEF IInv
<1>4. CASE Process
    BY <1>4, ProcessType, ProcessKeeps DEF IInv
<1>5. CASE UNCHANGED vars
    BY <1>5 DEF IInv, vars, TypeOK, ProcessShape, SlotAccounting, Holders,
       HoldsSlot, InLoop
<1> QED BY <1>1, <1>2, <1>3, <1>4, <1>5 DEF Next

LEMMA Inductive == Spec => []IInv
BY InitInductive, StepInductive, PTL DEF Spec

\* Every variable keeps its type.  That the semaphore's value never exceeds its
\* initial value needs the accounting of the slots.
THEOREM TypeCorrect == Spec => []TypeOK
<1>1. IInv => TypeOK
    BY DEF IInv
<1> QED BY <1>1, Inductive, PTL

\* On every worker the free slots and the runs that hold one add up to the
\* semaphore's initial value, through timeouts, early returns and crashes.
THEOREM SlotsAccounted == Spec => []SlotAccounting
<1>1. IInv => SlotAccounting
    BY DEF IInv
<1> QED BY <1>1, Inductive, PTL

-----------------------------------------------------------------------------
(* Nobody leaves a running row behind.  RunningHasRunner is not inductive: a  *)
(* runner whose copy of the status is stale may leave the loop without an     *)
(* UPDATE.  What is inductive is that some runner behind a running row also   *)
(* believes that it is running, or is still to read it.                       *)

Behind(c, s) ==
    /\ sess[c] = s
    /\ \/ InLoop(c) /\ mem[c] = "running"
       \/ pc[c] \in {"reload", "expire", "quit", "dropped"}
       \/ pc[c] = "busy" /\ kind[c] = "approve"
       \/ pc[c] = "expirewrite" /\ mem[c] = "running"
       \/ pc[c] = "busywrite" /\ kind[c] = "approve" /\ mem[c] = "running"

RInv ==
    (\A w \in Workers : up[w]) =>
        \A s \in Sessions : row[s] = "running" => \E c \in Calls : Behind(c, s)

Step(c) == Request(c) \/ Handler(c) \/ Runner(c) \/ Interrupt(c)

\* A step of one call leaves the place, the copy and the errand of the others.
LEMMA LocalsStay ==
    ASSUME IInv, NEW c \in Calls, NEW d \in Calls \ {c}, Step(c)
    PROVE  /\ pc'[d] = pc[d] /\ kind'[d] = kind[d] /\ sess'[d] = sess[d]
           /\ mem'[d] = mem[d]
<1>0. TypeOK
    BY DEF IInv
<1> USE DEF Goto, CommitStatus
<1>1. CASE Request(c)
    BY <1>0, <1>1 DEF TypeOK, Request, StartSession, CancelRead,
       EmergencyStop, Decide, SweepRead, Receive
<1>2. CASE Handler(c)
    BY <1>0, <1>2 DEF TypeOK, Handler, QueueSession, CancelWrite, SweepWrite,
       DecideRead, ApproveWrite, RejectWrite
<1>3. CASE AcquireSlot(c) \/ AcquireTimeout(c) \/ FailureRead(c)
           \/ FailureWrite(c) \/ LoadSession(c) \/ ReloadSession(c)
           \/ ReleaseSlot(c) \/ HardTimeout(c) \/ HandlerFails(c) \/ RunFails(c)
    BY <1>0, <1>3 DEF TypeOK, AcquireSlot, AcquireTimeout, FailureRead,
       FailureWrite, LoadSession, ReloadSession, ReleaseSlot, HardTimeout,
       HandlerFails, RunFails, Interrupt
<1>4. CASE Intercept(c) \/ MarkRunning(c) \/ Plan(c) \/ LoopTop(c)
    BY <1>0, <1>4 DEF TypeOK, Intercept, MarkRunning, Plan, LoopTop
<1>5. CASE ExecuteStep(c) \/ CutOff(c) \/ RecordStep(c) \/ FinishLoop(c)
           \/ LoopLimit(c)
    BY <1>0, <1>5 DEF TypeOK, ExecuteStep, CutOff, RecordStep, FinishLoop,
       LoopLimit
<1> QED BY <1>1, <1>2, <1>3, <1>4, <1>5 DEF Step, Runner, Interrupt

LEMMA OthersStay ==
    ASSUME IInv, NEW c \in Calls, NEW d \in Calls \ {c}, NEW s \in Sessions,
           Step(c), Behind(d, s)
    PROVE  Behind(d, s)'
BY LocalsStay DEF Behind, InLoop

\* The call that turns a row to running stands behind it.
LEMMA WriterStands ==
    ASSUME IInv, NEW c \in Calls, NEW s \in Sessions, Step(c),
           row[s] # "running", row'[s] = "running"
    PROVE  Behind(c, s)'
<1>0. TypeOK
    BY DEF IInv
<1>1. CASE MarkRunning(c)
    BY <1>0, <1>1 DEF TypeOK, MarkRunning, CommitStatus, Goto, Behind, InLoop, LoopPCs
<1>2. CASE ApproveWrite(c)
    BY <1>0, <1>2 DEF TypeOK, ApproveWrite, CommitStatus, Goto, Behind
<1>3. CASE ~MarkRunning(c) /\ ~ApproveWrite(c)
    <2> USE DEF CommitStatus, RecoveryStatus
    <2>1. CASE Request(c)
        BY <1>0, <2>1 DEF TypeOK, Request, StartSession, CancelRead,
           EmergencyStop, Decide, SweepRead, rowVars
    <2>2. CASE QueueSession(c) \/ CancelWrite(c) \/ SweepWrite(c)
               \/ DecideRead(c) \/ RejectWrite(c)
        BY <1>0, <2>2 DEF TypeOK, QueueSession, CancelWrite, SweepWrite,
           DecideRead, RejectWrite, rowVars
    <2>3. CASE AcquireSlot(c) \/ AcquireTimeout(c) \/ FailureRead(c)
               \/ FailureWrite(c) \/ LoadSession(c) \/ ReloadSession(c)
               \/ ReleaseSlot(c)
               \/ HardTimeout(c) \/ HandlerFails(c) \/ RunFails(c)
        BY <1>0, <2>3 DEF TypeOK, AcquireSlot, AcquireTimeout, FailureRead,
           FailureWrite, LoadSession, ReloadSession, ReleaseSlot, HardTimeout,
           HandlerFails, RunFails, Interrupt, rowVars
    <2>4. CASE Intercept(c) \/ Plan(c) \/ LoopTop(c)
        BY <1>0, <2>4 DEF TypeOK, Intercept, Plan, LoopTop, rowVars
    <2>5. CASE ExecuteStep(c) \/ CutOff(c) \/ RecordStep(c) \/ FinishLoop(c)
               \/ LoopLimit(c)
        BY <1>0, <2>5 DEF TypeOK, ExecuteStep, CutOff, RecordStep, FinishLoop,
           LoopLimit
    <2> QED BY <1>3, <2>1, <2>2, <2>3, <2>4, <2>5 DEF Step, Handler, Runner, Interrupt
<1> QED BY <1>1, <1>2, <1>3

\* A call that stands behind a running row stays there until the row changes.
LEMMA RunnerStays ==
    ASSUME IInv, NEW c \in Calls, NEW s \in Sessions, Step(c), Behind(c, s),
           row[s] = "running", row'[s] = "running"
    PROVE  Behind(c, s)'
<1>0. TypeOK /\ sess[c] = s
    BY DEF IInv, Behind
<1>1. pc[c] \in LoopPCs \cup {"reload", "expire", "expirewrite", "quit", "dropped",
                           "busy", "busywrite"}
    BY DEF Behind, InLoop
<1> USE DEF Behind, InLoop, LoopPCs, Goto, CommitStatus, RecoveryStatus
<1>2. ~Request(c) /\ ~Handler(c)
    BY <1>1 DEF Request, StartSession, CancelRead, EmergencyStop, Decide,
       SweepRead, Receive, Handler, QueueSession, CancelWrite, SweepWrite,
       DecideRead, ApproveWrite, RejectWrite
<1>3. CASE AcquireSlot(c) \/ AcquireTimeout(c) \/ ReleaseSlot(c)
    BY <1>0, <1>1, <1>3 DEF TypeOK, AcquireSlot, AcquireTimeout, ReleaseSlot
<1>4. CASE FailureRead(c)
    BY <1>0, <1>1, <1>4 DEF TypeOK, FailureRead
<1>5. CASE FailureWrite(c)
    BY <1>0, <1>1, <1>5 DEF TypeOK, FailureWrite, Unfinished
<1>6. CASE LoadSession(c) \/ ReloadSession(c)
    BY <1>0, <1>1, <1>6 DEF TypeOK, LoadSession, ReloadSession
<1>7. CASE HardTimeout(c) \/ HandlerFails(c)
    BY <1>0, <1>1, <1>7 DEF TypeOK, HardTimeout, HandlerFails
<1>16. CASE RunFails(c)
    BY <1>0, <1>1, <1>16 DEF TypeOK, RunFails, IInv, ProcessShape, ApprovePCs
<1>8. CASE Intercept(c) \/ MarkRunning(c)
    BY <1>0, <1>1, <1>8 DEF TypeOK, Intercept, MarkRunning
<1>9. CASE Plan(c)
    BY <1>0, <1>1, <1>9 DEF TypeOK, Plan
<1>10. CASE LoopTop(c)
    BY <1>0, <1>1, <1>10 DEF TypeOK, LoopTop
<1>11. CASE ExecuteStep(c)
    BY <1>0, <1>1, <1>11 DEF TypeOK, ExecuteStep
<1>12. CASE CutOff(c)
    BY <1>0, <1>1, <1>12 DEF TypeOK, CutOff
<1>13. CASE RecordStep(c)
    BY <1>0, <1>1, <1>13 DEF TypeOK, RecordStep
<1>14. CASE FinishLoop(c)
    BY <1>0, <1>1, <1>14 DEF TypeOK, FinishLoop
<1>15. CASE LoopLimit(c)
    BY <1>0, <1>1, <1>15 DEF TypeOK, LoopLimit
<1> QED BY <1>2, <1>3, <1>4, <1>5, <1>6, <1>7, <1>8, <1>9, <1>10, <1>11,
           <1>12, <1>13, <1>14, <1>15, <1>16 DEF Step, Runner, Interrupt

LEMMA StepKeepsUp ==
    ASSUME NEW c \in Calls, Step(c)
    PROVE  UNCHANGED up
<1> USE DEF procVars
<1>1. CASE Request(c)
    BY <1>1 DEF Request, StartSession, CancelRead, EmergencyStop, Decide, SweepRead
<1>2. CASE Handler(c)
    BY <1>2 DEF Handler, QueueSession, CancelWrite, SweepWrite, DecideRead,
       ApproveWrite, RejectWrite
<1>3. CASE Runner(c) \/ Interrupt(c)
    BY <1>3 DEF Runner, AcquireSlot, AcquireTimeout, FailureRead, FailureWrite,
       LoadSession, ReloadSession, ReleaseSlot, HardTimeout,
       HandlerFails, RunFails, Interrupt, Intercept, MarkRunning, Plan,
       LoopTop, ExecuteStep, CutOff, RecordStep, FinishLoop, LoopLimit
<1> QED BY <1>1, <1>2, <1>3 DEF Step

LEMMA RInvInductive == IInv /\ RInv /\ [Next]_vars => RInv'
<1> SUFFICES ASSUME IInv, RInv, [Next]_vars PROVE RInv'
    OBVIOUS
<1>1. ASSUME NEW c \in Calls, Step(c) PROVE RInv'
    <2> SUFFICES ASSUME \A w \in Workers : up'[w], NEW s \in Sessions,
                        row'[s] = "running"
                 PROVE  \E d \in Calls : Behind(d, s)'
        BY DEF RInv
    <2>1. CASE row[s] # "running"
        BY <1>1, <2>1, WriterStands
    <2>2. CASE row[s] = "running"
        <3>1. \A w \in Workers : up[w]
            BY <1>1, StepKeepsUp
        <3>2. PICK d \in Calls : Behind(d, s)
            BY <2>2, <3>1 DEF RInv
        <3>3. CASE d = c
            BY <1>1, <2>2, <3>2, <3>3, RunnerStays
        <3>4. CASE d # c
            BY <1>1, <3>2, <3>4, OthersStay
        <3> QED BY <3>3, <3>4
    <2> QED BY <2>1, <2>2
<1>2. ASSUME NEW w \in Workers, Crash(w) PROVE RInv'
    BY <1>2 DEF RInv, Crash, IInv, TypeOK
<1>3. ASSUME NEW w \in Workers, Startup(w) PROVE RInv'
    BY <1>3 DEF RInv, Startup, IInv, TypeOK
<1>4. CASE UNCHANGED vars
    BY <1>4 DEF RInv, vars, Behind, InLoop
<1> QED BY <1>1, <1>2, <1>3, <1>4 DEF Next, Step, Process

\* While every worker is up, a row that says running has a call behind it which
\* is executing the session, about to load it, or failing it.
THEOREM RunningRowsHaveRunners == Spec => []RunningHasRunner
<1>1. Init => RInv
    BY DEF Init, RInv
<1>2. RInv => RunningHasRunner
    BY DEF RInv, RunningHasRunner, Behind, Executing, Abandoned
<1> QED BY <1>1, <1>2, RInvInductive, Inductive, PTL DEF Spec

-----------------------------------------------------------------------------
(* Nobody forgets an accepted session.  Until its background runner marks it  *)
(* running, the session's start call is at a place where it has still to read *)
(* the row, or has read that it waits, so that what it writes next is written.*)

Accepted == {"initializing", "queued"}

Carries(c, s) ==
    /\ sess[c] = s /\ kind[c] = "start"
    /\ \/ pc[c] \in {"slot", "load", "busy", "expire", "quit", "dropped"}
       \/ pc[c] \in {"created", "enter", "busywrite", "expirewrite"} /\ mem[c] \in Accepted

QInv ==
    crashes = 0 =>
        \A s \in Sessions : row[s] \in Accepted => \E c \in Calls : Carries(c, s)

\* Only the handler of a start makes a session wait for a runner, and it then
\* carries the session itself.
LEMMA AccepterCarries ==
    ASSUME IInv, NEW c \in Calls, NEW s \in Sessions, Step(c),
           row[s] \notin Accepted, row'[s] \in Accepted
    PROVE  Carries(c, s)'
<1>0. TypeOK /\ ProcessShape
    BY DEF IInv
<1> USE DEF Accepted
<1>1. CASE QueueSession(c)
    BY <1>0, <1>1 DEF TypeOK, ProcessShape, StartPCs, QueueSession, CommitStatus, Goto,
       Carries
<1>2. CASE \E t \in Sessions, w \in Workers : StartSession(c, t, w)
    BY <1>0, <1>2 DEF TypeOK, StartSession, Receive, Goto, Carries
<1>3. CASE /\ ~QueueSession(c)
           /\ ~\E t \in Sessions, w \in Workers : StartSession(c, t, w)
    <2> USE DEF CommitStatus, RecoveryStatus
    <2>1. CASE Request(c)
        BY <1>0, <1>3, <2>1 DEF TypeOK, Request, CancelRead, EmergencyStop, Decide,
           SweepRead, rowVars
    <2>2. CASE CancelWrite(c) \/ SweepWrite(c) \/ DecideRead(c) \/ ApproveWrite(c)
               \/ RejectWrite(c)
        BY <1>0, <2>2 DEF TypeOK, CancelWrite, SweepWrite, DecideRead, ApproveWrite,
           RejectWrite, rowVars
    <2>3. CASE AcquireSlot(c) \/ AcquireTimeout(c) \/ FailureRead(c)
               \/ FailureWrite(c) \/ LoadSession(c) \/ ReloadSession(c)
               \/ ReleaseSlot(c) \/ HardTimeout(c) \/ HandlerFails(c) \/ RunFails(c)
        BY <1>0, <2>3 DEF TypeOK, AcquireSlot, AcquireTimeout, FailureRead,
           FailureWrite, LoadSession, ReloadSession, ReleaseSlot, HardTimeout,
           HandlerFails, RunFails, Interrupt, rowVars
    <2>4. CASE Intercept(c) \/ MarkRunning(c) \/ Plan(c) \/ LoopTop(c)
        BY <1>0, <2>4 DEF TypeOK, Intercept, MarkRunning, Plan, LoopTop, rowVars
    <2>5. CASE ExecuteStep(c) \/ CutOff(c) \/ RecordStep(c) \/ FinishLoop(c)
               \/ LoopLimit(c)
        BY <1>0, <2>5 DEF TypeOK, ExecuteStep, CutOff, RecordStep, FinishLoop,
           LoopLimit
    <2> QED BY <1>3, <2>1, <2>2, <2>3, <2>4, <2>5 DEF Step, Handler, Runner, Interrupt
<1> QED BY <1>1, <1>2, <1>3

\* The call that carries a waiting session carries it on, or ends the waiting.
LEMMA CarrierCarries ==
    ASSUME IInv, NEW c \in Calls, NEW s \in Sessions, Step(c), Carries(c, s),
           row[s] \in Accepted, row'[s] \in Accepted
    PROVE  Carries(c, s)'
<1>0. TypeOK /\ sess[c] = s /\ kind[c] = "start"
    BY DEF IInv, Carries
<1>1. pc[c] \in {"created", "slot", "load", "busy", "expire", "enter", "busywrite",
                 "expirewrite", "quit", "dropped"}
    BY DEF Carries
<1> USE DEF Carries, Accepted, Goto, CommitStatus
<1>2. ~Request(c)
    BY <1>1 DEF Request, StartSession, CancelRead, EmergencyStop, Decide,
       SweepRead, Receive
<1>3. CASE Handler(c)
    BY <1>0, <1>1, <1>3 DEF TypeOK, Handler, QueueSession, CancelWrite, SweepWrite,
       DecideRead, ApproveWrite, RejectWrite
<1>4. CASE AcquireSlot(c) \/ AcquireTimeout(c) \/ LoadSession(c) \/ HardTimeout(c)
    BY <1>0, <1>1, <1>4 DEF TypeOK, AcquireSlot, AcquireTimeout, LoadSession,
       HardTimeout, InLoop
<1>8. CASE HandlerFails(c) \/ RunFails(c)
    BY <1>0, <1>1, <1>8 DEF TypeOK, HandlerFails, RunFails, InLoop
<1>5. CASE FailureRead(c) \/ FailureWrite(c)
    BY <1>0, <1>1, <1>5 DEF TypeOK, FailureRead, FailureWrite, Unfinished
<1>6. CASE Intercept(c) \/ MarkRunning(c)
    BY <1>0, <1>1, <1>6 DEF TypeOK, Intercept, MarkRunning
<1>7. CASE \/ ReloadSession(c) \/ ReleaseSlot(c) \/ Plan(c) \/ LoopTop(c)
           \/ ExecuteStep(c) \/ CutOff(c) \/ RecordStep(c) \/ FinishLoop(c)
           \/ LoopLimit(c)
    BY <1>0, <1>1, <1>7 DEF TypeOK, ReloadSession, ReleaseSlot, Plan, LoopTop,
       ExecuteStep, CutOff,
       RecordStep, FinishLoop, LoopLimit
<1> QED BY <1>2, <1>3, <1>4, <1>5, <1>6, <1>7, <1>8 DEF Step, Runner, Interrupt

LEMMA StepKeepsCrashes ==
    ASSUME NEW c \in Calls, Step(c)
    PROVE  UNCHANGED crashes
<1> USE DEF procVars
<1>1. CASE Request(c)
    BY <1>1 DEF Request, StartSession, CancelRead, EmergencyStop, Decide, SweepRead
<1>2. CASE Handler(c)
    BY <1>2 DEF Handler, QueueSession, CancelWrite, SweepWrite, DecideRead,
       ApproveWrite, RejectWrite
<1>3. CASE Runner(c) \/ Interrupt(c)
    BY <1>3 DEF Runner, AcquireSlot, AcquireTimeout, FailureRead, FailureWrite,
       LoadSession, ReloadSession, ReleaseSlot, HardTimeout,
       HandlerFails, RunFails, Interrupt, Intercept, MarkRunning, Plan,
       LoopTop, ExecuteStep, CutOff, RecordStep, FinishLoop, LoopLimit
<1> QED BY <1>1, <1>2, <1>3 DEF Step

LEMMA QInvInductive == IInv /\ QInv /\ [Next]_vars => QInv'
<1> SUFFICES ASSUME IInv, QInv, [Next]_vars PROVE QInv'
    OBVIOUS
<1>1. ASSUME NEW c \in Calls, Step(c) PROVE QInv'
    <2> SUFFICES ASSUME crashes' = 0, NEW s \in Sessions, row'[s] \in Accepted
                 PROVE  \E d \in Calls : Carries(d, s)'
        BY DEF QInv
    <2>1. CASE row[s] \notin Accepted
        BY <1>1, <2>1, AccepterCarries
    <2>2. CASE row[s] \in Accepted
        <3>1. crashes = 0
            BY <1>1, StepKeepsCrashes
        <3>2. PICK d \in Calls : Carries(d, s)
            BY <2>2, <3>1 DEF QInv
        <3>3. CASE d = c
            BY <1>1, <2>2, <3>2, <3>3, CarrierCarries
        <3>4. CASE d # c
            BY <1>1, <3>2, <3>4, LocalsStay DEF Carries
        <3> QED BY <3>3, <3>4
    <2> QED BY <2>1, <2>2
<1>2. ASSUME NEW w \in Workers, Crash(w) PROVE QInv'
    BY <1>2, BoundsAssumption DEF QInv, Crash, IInv, TypeOK
<1>3. ASSUME NEW w \in Workers, Startup(w) PROVE QInv'
    BY <1>3 DEF QInv, Startup, IInv, TypeOK, Accepted, Carries, callVars
<1>4. CASE UNCHANGED vars
    BY <1>4 DEF QInv, vars, Carries
<1> QED BY <1>1, <1>2, <1>3, <1>4 DEF Next, Step, Process

\* Without crashes, a row that is initializing or queued has a start call on its
\* way, whatever cancellations, time-outs and sweeps cross it.
THEOREM AcceptedRowsHaveRunners == Spec => []QueuedHasRunner
<1>1. Init => QInv
    BY DEF Init, QInv, Accepted
<1>2. QInv => QueuedHasRunner
    BY DEF QInv, QueuedHasRunner, Accepted, Carries, Active, Abandoned
<1> QED BY <1>1, <1>2, QInvInductive, Inductive, PTL DEF Spec

-----------------------------------------------------------------------------
(* Settled sessions. *)

\* A step of a call other than a start or a stop writes the row of that call's
\* session only, and the call is under way.
LEMMA WritesOwnRow ==
    ASSUME IInv, NEW c \in Calls, Handler(c) \/ Runner(c) \/ Interrupt(c),
           NEW s \in Sessions, row'[s] # row[s]
    PROVE  sess[c] = s /\ Active(c)
<1>0. TypeOK
    BY DEF IInv
<1> USE DEF CommitStatus, Active, rowVars, InLoop, LoopPCs
<1>1. CASE Handler(c)
    BY <1>0, <1>1 DEF TypeOK, Handler, QueueSession, CancelWrite, SweepWrite,
       DecideRead, ApproveWrite, RejectWrite
<1>2. CASE AcquireSlot(c) \/ AcquireTimeout(c) \/ FailureRead(c)
           \/ FailureWrite(c) \/ LoadSession(c) \/ ReloadSession(c)
           \/ ReleaseSlot(c) \/ HardTimeout(c) \/ HandlerFails(c) \/ RunFails(c)
    BY <1>0, <1>2 DEF TypeOK, AcquireSlot, AcquireTimeout, FailureRead,
       FailureWrite, LoadSession, ReloadSession, ReleaseSlot, HardTimeout,
       HandlerFails, RunFails, Interrupt
<1>3. CASE Intercept(c) \/ MarkRunning(c) \/ Plan(c) \/ LoopTop(c)
    BY <1>0, <1>3 DEF TypeOK, Intercept, MarkRunning, Plan, LoopTop
<1>4. CASE ExecuteStep(c) \/ CutOff(c) \/ RecordStep(c) \/ FinishLoop(c)
           \/ LoopLimit(c)
    BY <1>0, <1>4 DEF TypeOK, ExecuteStep, CutOff, RecordStep, FinishLoop,
       LoopLimit
<1> QED BY <1>1, <1>2, <1>3, <1>4 DEF Runner, Interrupt

LEMMA SettledStep ==
    ASSUME IInv, Next, NEW s \in Sessions, row[s] \in Terminal,
           \A c \in Calls : sess[c] = s => ~Active(c)
    PROVE  row'[s] = row[s]
<1>0. TypeOK
    BY DEF IInv
<1>1. ASSUME NEW c \in Calls, Request(c) PROVE row'[s] = row[s]
    BY <1>0, <1>1 DEF TypeOK, Request, StartSession, CancelRead, EmergencyStop, Decide,
       SweepRead, rowVars, Terminal, Live
<1>2. ASSUME NEW c \in Calls, Handler(c) \/ Runner(c) \/ Interrupt(c)
      PROVE  row'[s] = row[s]
    BY <1>2, WritesOwnRow
<1>3. ASSUME NEW w \in Workers, Crash(w) \/ Startup(w) PROVE row'[s] = row[s]
    BY <1>0, <1>3 DEF TypeOK, Crash, Startup, rowVars, Terminal
<1> QED BY <1>1, <1>2, <1>3 DEF Next, Process

\* Nothing reopens a settled session on which no call is at work.
THEOREM SettledSessionsStay == Spec => SettledStays
<1>1. IInv /\ [Next]_vars =>
        [\A s \in Sessions :
           (row[s] \in Terminal /\ \A c \in Calls : sess[c] = s => ~Active(c))
              => row'[s] = row[s]]_vars
    BY SettledStep
<1> QED BY <1>1, Inductive, PTL DEF Spec, SettledStays

-----------------------------------------------------------------------------
(* Approvals.  A session has one start call, and it waits for a human only    *)
(* once a run of it has ended.  So until the started run has left the loop no *)
(* approval has found the session waiting, and none has resumed it.           *)

Received(c) == pc[c] # "unused"

\* The approval has found its session waiting.
Past(c) == kind[c] = "approve" /\ pc[c] \notin {"unused", "granted", "done"}

\* The places of a start until its run leaves the loop.
BusyPCs == {"created", "slot", "load"} \cup LoopPCs

StartedRows ==
    \A c \in Calls : kind[c] = "start" /\ Received(c) => row[sess[c]] # "none"
OneStart ==
    \A c, d \in Calls :
        (/\ kind[c] = "start" /\ Received(c)
         /\ kind[d] = "start" /\ Received(d) /\ sess[c] = sess[d]) => c = d
ApprovedRows == \A c \in Calls : Past(c) => row[sess[c]] # "none"
FreshStart ==
    \A c \in Calls :
        kind[c] = "start" /\ pc[c] \in BusyPCs =>
            /\ row[sess[c]] # "waiting_approval"
            /\ \A d \in Calls : Past(d) => sess[d] # sess[c]

GInv == StartedRows /\ OneStart /\ ApprovedRows /\ FreshStart

\* The only step that makes a session wait for a human is the end of a run.
LEMMA OnlyRunsWait ==
    ASSUME IInv, NEW c \in Calls, Step(c), NEW s \in Sessions,
           row[s] # "waiting_approval", row'[s] = "waiting_approval"
    PROVE  pc[c] = "finish" /\ sess[c] = s /\ pc'[c] \in {"release", "done"}
<1>0. TypeOK
    BY DEF IInv
<1> USE DEF CommitStatus, RecoveryStatus, rowVars
<1>1. CASE FinishLoop(c)
    BY <1>0, <1>1 DEF TypeOK, FinishLoop, Goto, AfterLoop
<1>2. CASE Request(c)
    BY <1>0, <1>2 DEF TypeOK, Request, StartSession, CancelRead, EmergencyStop,
       Decide, SweepRead
<1>3. CASE Handler(c)
    BY <1>0, <1>3 DEF TypeOK, Handler, QueueSession, CancelWrite, SweepWrite,
       DecideRead, ApproveWrite, RejectWrite
<1>4. CASE AcquireSlot(c) \/ AcquireTimeout(c) \/ FailureRead(c)
           \/ FailureWrite(c) \/ LoadSession(c) \/ ReloadSession(c)
           \/ ReleaseSlot(c) \/ HardTimeout(c) \/ HandlerFails(c) \/ RunFails(c)
    BY <1>0, <1>4 DEF TypeOK, AcquireSlot, AcquireTimeout, FailureRead,
       FailureWrite, LoadSession, ReloadSession, ReleaseSlot, HardTimeout,
       HandlerFails, RunFails
<1>5. CASE Intercept(c) \/ MarkRunning(c) \/ Plan(c) \/ LoopTop(c)
    BY <1>0, <1>5 DEF TypeOK, Intercept, MarkRunning, Plan, LoopTop
<1>6. CASE ExecuteStep(c) \/ CutOff(c) \/ RecordStep(c) \/ LoopLimit(c)
    BY <1>0, <1>6 DEF TypeOK, ExecuteStep, CutOff, RecordStep, LoopLimit
<1> QED BY <1>1, <1>2, <1>3, <1>4, <1>5, <1>6 DEF Step, Runner, Interrupt

\* No step takes a row away.
LEMMA RowsStay ==
    ASSUME IInv, [Next]_vars, NEW s \in Sessions, row[s] # "none"
    PROVE  row'[s] # "none"
<1>0. TypeOK
    BY DEF IInv
<1> USE DEF CommitStatus, RecoveryStatus, rowVars
<1>1. ASSUME NEW c \in Calls, Request(c) \/ Handler(c) PROVE row'[s] # "none"
    BY <1>0, <1>1 DEF TypeOK, Request, StartSession, CancelRead, EmergencyStop,
       Decide, SweepRead, Handler, QueueSession, CancelWrite, SweepWrite,
       DecideRead, ApproveWrite, RejectWrite
<1>2. ASSUME NEW c \in Calls,
             \/ AcquireSlot(c) \/ AcquireTimeout(c) \/ FailureRead(c)
             \/ FailureWrite(c) \/ LoadSession(c) \/ ReloadSession(c)
             \/ ReleaseSlot(c) \/ HardTimeout(c) \/ HandlerFails(c) \/ RunFails(c)
      PROVE  row'[s] # "none"
    BY <1>0, <1>2 DEF TypeOK, AcquireSlot, AcquireTimeout, FailureRead,
       FailureWrite, LoadSession, ReloadSession, ReleaseSlot, HardTimeout,
       HandlerFails, RunFails, Interrupt
<1>3. ASSUME NEW c \in Calls,
             \/ Intercept(c) \/ MarkRunning(c) \/ Plan(c) \/ LoopTop(c)
             \/ ExecuteStep(c) \/ CutOff(c) \/ RecordStep(c) \/ FinishLoop(c)
             \/ LoopLimit(c)
      PROVE  row'[s] # "none"
    BY <1>0, <1>3 DEF TypeOK, Intercept, MarkRunning, Plan, LoopTop, ExecuteStep,
       CutOff, RecordStep, FinishLoop, LoopLimit
<1>4. ASSUME NEW w \in Workers, Crash(w) \/ Startup(w) PROVE row'[s] # "none"
    BY <1>0, <1>4 DEF TypeOK, Crash, Startup
<1>5. CASE UNCHANGED vars
    BY <1>5 DEF vars
<1> QED BY <1>1, <1>2, <1>3, <1>4, <1>5 DEF Next, Runner, Interrupt, Process

\* A call that is under way keeps its kind and its session, and a start does not
\* come back to where its run had not yet ended.
LEMMA ErrandStays ==
    ASSUME IInv, NEW c \in Calls, Step(c), Received(c)
    PROVE  /\ kind'[c] = kind[c] /\ sess'[c] = sess[c] /\ Received(c)'
           /\ kind[c] = "start" /\ pc'[c] \in BusyPCs => pc[c] \in BusyPCs
<1>0. TypeOK /\ ProcessShape
    BY DEF IInv
<1> USE DEF Goto, Received, BusyPCs, LoopPCs, AfterLoop
<1>1. ~Request(c)
    BY DEF Request, StartSession, CancelRead, EmergencyStop, Decide,
       SweepRead, Receive
<1>2. CASE Handler(c)
    BY <1>0, <1>2 DEF TypeOK, ProcessShape, StartPCs, ApprovePCs, Handler,
       QueueSession, CancelWrite, SweepWrite, DecideRead, ApproveWrite, RejectWrite
<1>3. CASE AcquireSlot(c) \/ AcquireTimeout(c) \/ FailureRead(c)
           \/ FailureWrite(c) \/ LoadSession(c) \/ ReleaseSlot(c) \/ HardTimeout(c)
    BY <1>0, <1>3 DEF TypeOK, AcquireSlot, AcquireTimeout, FailureRead,
       FailureWrite, LoadSession, ReleaseSlot, HardTimeout
<1>4. CASE ReloadSession(c)
    BY <1>0, <1>4 DEF ProcessShape, ApprovePCs, TypeOK, ReloadSession
<1>5. CASE Intercept(c) \/ MarkRunning(c) \/ Plan(c) \/ LoopTop(c)
    BY <1>0, <1>5 DEF TypeOK, Intercept, MarkRunning, Plan, LoopTop
<1>6. CASE ExecuteStep(c) \/ CutOff(c) \/ RecordStep(c) \/ FinishLoop(c)
           \/ LoopLimit(c)
    BY <1>0, <1>6 DEF TypeOK, ExecuteStep, CutOff, RecordStep, FinishLoop,
       LoopLimit
<1>7. CASE HandlerFails(c) \/ RunFails(c)
    BY <1>0, <1>7 DEF TypeOK, HandlerFails, RunFails
<1> QED BY <1>1, <1>2, <1>3, <1>4, <1>5, <1>6, <1>7 DEF Step, Runner, Interrupt

\* A new start is of a session without a row; a new approval has read nothing.
LEMMA NewCall ==
    ASSUME IInv, NEW c \in Calls, Step(c), ~Received(c)
    PROVE  \E s \in Sessions :
              /\ sess'[c] = s
              /\ kind'[c] = "start" => row[s] = "none" /\ row'[s] = "initializing"
              /\ ~Past(c)'
<1>0. TypeOK
    BY DEF IInv
<1>1. Request(c)
    BY DEF Received, Step, Handler, QueueSession, CancelWrite, SweepWrite,
       DecideRead, ApproveWrite, RejectWrite, Runner, AcquireSlot, AcquireTimeout,
       FailureRead, FailureWrite, LoadSession, ReloadSession, ReleaseSlot, HardTimeout,
       HandlerFails, RunFails, Interrupt,
       Intercept, MarkRunning, Plan, LoopTop, ExecuteStep, CutOff, RecordStep,
       FinishLoop, LoopLimit, InLoop, LoopPCs
<1>2. PICK s \in Sessions, w \in Workers :
          \/ StartSession(c, s, w)
          \/ CancelRead(c, s, w)
          \/ EmergencyStop(c, s, w)
          \/ Decide(c, s, w)
          \/ SweepRead(c, s, w)
    BY <1>1 DEF Request
<1>3. CASE StartSession(c, s, w)
    BY <1>0, <1>3 DEF TypeOK, StartSession, Receive, Past
<1>4. CASE CancelRead(c, s, w) \/ EmergencyStop(c, s, w) \/ SweepRead(c, s, w)
    BY <1>0, <1>4 DEF TypeOK, CancelRead, EmergencyStop, SweepRead, Receive, Past
<1>5. CASE Decide(c, s, w)
    BY <1>0, <1>5 DEF TypeOK, Decide, Receive, Goto, Past
<1> QED BY <1>2, <1>3, <1>4, <1>5

\* An approval goes on only when it has found its session waiting.
LEMMA NewlyPast ==
    ASSUME IInv, NEW c \in Calls, Step(c), Received(c), ~Past(c), Past(c)'
    PROVE  row[sess[c]] = "waiting_approval"
<1>0. TypeOK
    BY DEF IInv
<1>1. pc[c] \in {"granted", "done"} /\ kind[c] = "approve"
    BY ErrandStays DEF Past, Received
<1>2. CASE DecideRead(c)
    BY <1>0, <1>1, <1>2 DEF TypeOK, DecideRead, Goto, Past
<1>3. CASE ~DecideRead(c)
    <2>1. HandlerFails(c)
        BY <1>1, <1>3 DEF Step, Request, StartSession, CancelRead, EmergencyStop,
           Decide, SweepRead, Receive, Handler, QueueSession, CancelWrite, SweepWrite,
           ApproveWrite, RejectWrite, Runner, AcquireSlot, AcquireTimeout,
           FailureRead, FailureWrite, LoadSession, ReloadSession, ReleaseSlot,
           HardTimeout, RunFails, Interrupt, Intercept, MarkRunning, Plan, LoopTop,
           ExecuteStep, CutOff, RecordStep, FinishLoop, LoopLimit, InLoop, LoopPCs
    <2> QED BY <1>0, <1>1, <2>1 DEF TypeOK, HandlerFails, Goto, Past
<1> QED BY <1>2, <1>3

LEMMA GInvStep ==
    ASSUME IInv, GInv, NEW c \in Calls, Step(c)
    PROVE  GInv'
<1>0. TypeOK /\ ProcessShape
    BY DEF IInv
<1>1. [Next]_vars
    BY DEF Next, Step
<1>2. \A d \in Calls \ {c} :
        pc'[d] = pc[d] /\ kind'[d] = kind[d] /\ sess'[d] = sess[d]
    BY LocalsStay
<1>3. \A d \in Calls : Received(d) => sess[d] \in Sessions
    BY <1>0 DEF ProcessShape, Received
<1>4. \A d \in Calls :
        Received(d) => kind'[d] = kind[d] /\ sess'[d] = sess[d] /\ Received(d)'
    BY <1>2, ErrandStays DEF Received
<1>5. \A d \in Calls : Received(d)' /\ ~Received(d) => d = c
    BY <1>2 DEF Received
<1>6. ~Received(c) =>
        \E s \in Sessions :
           /\ sess'[c] = s
           /\ kind'[c] = "start" => row[s] = "none" /\ row'[s] = "initializing"
           /\ ~Past(c)'
    BY NewCall
<1>7. \A s \in Sessions : row[s] # "none" => row'[s] # "none"
    BY <1>1, RowsStay
<1>8. ASSUME NEW d \in Calls, Past(d)'
      PROVE  /\ Received(d) /\ sess'[d] = sess[d] /\ sess[d] \in Sessions
             /\ Past(d) \/ row[sess[d]] = "waiting_approval"
    <2>1. Received(d)
        BY <1>5, <1>6, <1>8 DEF Past, Received
    <2>2. CASE d = c
        BY <1>3, <1>4, <1>8, <2>1, <2>2, NewlyPast
    <2>3. CASE d # c
        BY <1>2, <1>3, <1>4, <1>8, <2>1, <2>3 DEF Past
    <2> QED BY <2>2, <2>3
<1>9. StartedRows'
    <2> SUFFICES ASSUME NEW d \in Calls, kind'[d] = "start", Received(d)'
                 PROVE  row'[sess'[d]] # "none"
        BY DEF StartedRows, Received
    <2>1. CASE Received(d)
        BY <2>1, <1>3, <1>4, <1>7 DEF GInv, StartedRows
    <2>2. CASE ~Received(d)
        BY <2>2, <1>5, <1>6
    <2> QED BY <2>1, <2>2
<1>10. OneStart'
    <2> SUFFICES ASSUME NEW d \in Calls, NEW e \in Calls,
                        kind'[d] = "start", Received(d)', kind'[e] = "start",
                        Received(e)', sess'[d] = sess'[e]
                 PROVE  d = e
        BY DEF OneStart, Received
    <2>1. CASE Received(d) /\ Received(e)
        BY <2>1, <1>4 DEF GInv, OneStart
    <2>2. CASE Received(d) /\ ~Received(e)
        BY <2>2, <1>4, <1>5, <1>6 DEF GInv, StartedRows
    <2>3. CASE ~Received(d) /\ Received(e)
        BY <2>3, <1>4, <1>5, <1>6 DEF GInv, StartedRows
    <2>4. CASE ~Received(d) /\ ~Received(e)
        BY <2>4, <1>5
    <2> QED BY <2>1, <2>2, <2>3, <2>4
<1>11. ApprovedRows'
    <2>1. ASSUME NEW d \in Calls, Past(d)' PROVE row'[sess'[d]] # "none"
        BY <1>7, <1>8, <2>1 DEF GInv, ApprovedRows
    <2> QED BY <2>1 DEF ApprovedRows, Past
<1>12. ASSUME NEW d \in Calls, kind'[d] = "start", pc'[d] \in BusyPCs
       PROVE  /\ row'[sess'[d]] # "waiting_approval"
              /\ \A e \in Calls : Past(e)' => sess'[e] # sess'[d]
    <2>0. Received(d)'
        BY <1>12 DEF Received, BusyPCs, LoopPCs
    <2>1. CASE ~Received(d)
        <3>1. d = c
            BY <1>5, <2>0, <2>1
        <3>2. PICK s \in Sessions :
                 sess'[c] = s /\ row[s] = "none" /\ row'[s] = "initializing"
            BY <1>6, <1>12, <2>1, <3>1
        <3>3. ASSUME NEW e \in Calls, Past(e)' PROVE sess'[e] # s
            BY <1>8, <3>2, <3>3 DEF GInv, ApprovedRows
        <3> QED BY <3>1, <3>2, <3>3
    <2>2. CASE Received(d)
        <3>1. /\ kind[d] = "start" /\ sess'[d] = sess[d] /\ sess[d] \in Sessions
              /\ pc[d] \in BusyPCs
            BY <1>2, <1>3, <1>4, <1>12, <2>2, ErrandStays
        <3>2. /\ row[sess[d]] # "waiting_approval"
              /\ \A e \in Calls : Past(e) => sess[e] # sess[d]
            BY <3>1 DEF GInv, FreshStart
        <3>3. \A e \in Calls : Past(e)' => sess'[e] # sess'[d]
            BY <1>8, <3>1, <3>2
        <3>4. row'[sess[d]] # "waiting_approval"
            <4> SUFFICES ASSUME row'[sess[d]] = "waiting_approval" PROVE FALSE
                OBVIOUS
            <4>1. /\ pc[c] = "finish" /\ sess[c] = sess[d]
                  /\ pc'[c] \in {"release", "done"}
                BY <3>1, <3>2, OnlyRunsWait
            <4>2. Received(c) /\ kind[c] \in {"start", "approve"}
                BY <4>1, <1>0 DEF Received, ProcessShape, InLoop, LoopPCs
            <4>3. kind[c] = "start"
                BY <4>1, <4>2, <3>2 DEF Past
            <4>4. c = d
                BY <4>1, <4>2, <4>3, <3>1, <2>2 DEF GInv, OneStart
            <4> QED BY <4>1, <4>4, <1>12 DEF BusyPCs, LoopPCs
        <3> QED BY <3>1, <3>3, <3>4
    <2> QED BY <2>1, <2>2
<1>13. FreshStart'
    BY <1>12 DEF FreshStart, Past
<1> QED BY <1>9, <1>10, <1>11, <1>13 DEF GInv

LEMMA GInvInductive == IInv /\ GInv /\ [Next]_vars => GInv'
<1> SUFFICES ASSUME IInv, GInv, [Next]_vars PROVE GInv'
    OBVIOUS
<1>0. TypeOK
    BY DEF IInv
<1> USE DEF GInv, StartedRows, OneStart, ApprovedRows, FreshStart, Received, Past
<1>1. ASSUME NEW w \in Workers, Crash(w) PROVE GInv'
    <2>1. /\ UNCHANGED <<row, kind, sess>>
          /\ \A c \in Calls : pc'[c] = pc[c] \/ (pc[c] # "unused" /\ pc'[c] = "done")
        BY <1>0, <1>1 DEF TypeOK, Crash, rowVars, Active
    <2> QED BY <2>1 DEF BusyPCs, LoopPCs
<1>2. ASSUME NEW w \in Workers, Startup(w) PROVE GInv'
    <2>1. /\ UNCHANGED <<kind, sess, pc>>
          /\ \A s \in Sessions : /\ row[s] # "none" => row'[s] # "none"
                                 /\ row'[s] = "waiting_approval" => row[s] = row'[s]
        BY <1>0, <1>2 DEF TypeOK, Startup, callVars
    <2>2. \A c \in Calls : pc[c] # "unused" => sess[c] \in Sessions
        BY DEF IInv, ProcessShape
    <2> QED BY <2>1, <2>2 DEF BusyPCs, LoopPCs
<1>3. CASE UNCHANGED vars
    BY <1>3 DEF vars
<1>4. ASSUME NEW c \in Calls, Step(c) PROVE GInv'
    BY <1>4, GInvStep
<1> QED BY <1>1, <1>2, <1>3, <1>4 DEF Next, Step, Process

\* The run that the start of a session spawned is alone while it is in the loop:
\* no approval, however late its check is acted on, starts another beside it.
THEOREM StartedRunIsAlone == Spec => []StartRunsAlone
<1>1. Init => GInv
    BY DEF Init, GInv, StartedRows, OneStart, ApprovedRows, FreshStart,
       Received, Past, BusyPCs, LoopPCs
<1>2. IInv /\ GInv => StartRunsAlone
    <2> SUFFICES ASSUME IInv, GInv, NEW c \in Calls, NEW d \in Calls,
                        kind[c] = "start", InLoop(c), Executing(d, sess[c])
                 PROVE  c = d
        BY DEF StartRunsAlone
    <2>1. kind[d] \in {"start", "approve"} /\ sess[d] = sess[c]
        BY DEF IInv, ProcessShape, Executing, StartPCs, ApprovePCs
    <2>2. CASE kind[d] = "approve"
        BY <2>1, <2>2 DEF GInv, FreshStart, Past, Executing, InLoop, BusyPCs, LoopPCs
    <2>3. CASE kind[d] = "start"
        BY <2>1, <2>3 DEF GInv, OneStart, Received, Executing, InLoop, LoopPCs
    <2> QED BY <2>1, <2>2, <2>3
<1> QED BY <1>1, <1>2, Inductive, GInvInductive, PTL DEF Spec
=============================================================================

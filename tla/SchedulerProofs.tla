--------------------------- MODULE SchedulerProofs ---------------------------
(***************************************************************************)
(* Every counted run of a schedule has a task of its own, for any number   *)
(* of rows, workers and failures.  The argument: the database's row locks  *)
(* keep the uncommitted updates of two polls apart (LocksExclusive), so at *)
(* most one run of a row is waiting to be counted, and its task has been   *)
(* inserted before the commit can count it.                                *)
(***************************************************************************)
EXTENDS Scheduler, TLAPS

\* No row is held by two transactions.
LocksExclusive ==
    \A v, w \in Workers : v # w => held[v] \cap held[w] = {}

IInv == PollerTypeOK /\ LocksExclusive /\ RunsBacked

LEMMA IInvInit == PollerInit => IInv
BY NoRowAssumption DEF PollerInit, IInv, PollerTypeOK, PCs, LocksExclusive, RunsBacked, Uncounted

\* A transaction that ends without a commit changes no count.
LEMMA AbandonKeeps ==
    ASSUME IInv, NEW w \in Workers, NEW l \in PCs, Abandon(w, l), pollFailures' \in Nat
    PROVE  IInv'
<1> USE NoRowAssumption
<1>1. PollerTypeOK'
  BY DEF IInv, PollerTypeOK, Abandon, LeaveQueue, Goto
<1>2. held' = [held EXCEPT ![w] = {}] /\ current' = [current EXCEPT ![w] = NoRow]
      /\ runCount' = runCount /\ enqueued' = enqueued
  BY DEF Abandon
<1>3. LocksExclusive'
  BY <1>2 DEF IInv, PollerTypeOK, LocksExclusive
<1>4. ASSUME NEW r \in Rows PROVE Uncounted(r)' <= Uncounted(r)
  <2>1. ASSUME NEW v \in Workers, r \in held'[v], current'[v] # r
        PROVE  r \in held[v] /\ current[v] # r
    BY <1>2, <2>1 DEF IInv, PollerTypeOK
  <2> QED BY <2>1 DEF Uncounted
<1>5. RunsBacked'
  <2> SUFFICES ASSUME NEW r \in Rows
               PROVE  runCount'[r] + Uncounted(r)' <= enqueued'[r]
    BY DEF RunsBacked
  <2>1. Uncounted(r) \in Nat /\ Uncounted(r)' \in Nat
    BY DEF Uncounted
  <2>2. runCount[r] \in Nat /\ enqueued[r] \in Nat
    BY DEF IInv, PollerTypeOK
  <2>3. runCount[r] + Uncounted(r) <= enqueued[r]
    BY DEF IInv, RunsBacked
  <2> QED BY <1>2, <1>4, <2>1, <2>2, <2>3
<1> QED BY <1>1, <1>3, <1>5 DEF IInv

\* A worker that gets the lock of a row has its run uncounted only when the task
\* of the run is inserted.
LEMMA LockKeeps ==
    ASSUME IInv, NEW w \in Workers, NEW r \in Rows, Free(w, r), current[w] = NoRow,
           held' = [held EXCEPT ![w] = @ \cup {r}],
           current' = [current EXCEPT ![w] = r],
           runCount' = runCount, enqueued' = enqueued
    PROVE  LocksExclusive' /\ RunsBacked'
<1> USE NoRowAssumption
<1>1. LocksExclusive'
  BY DEF IInv, PollerTypeOK, LocksExclusive, Free
<1>2. ASSUME NEW q \in Rows PROVE Uncounted(q)' <= Uncounted(q)
  <2>1. ASSUME NEW v \in Workers, q \in held'[v], current'[v] # q
        PROVE  q \in held[v] /\ current[v] # q
    BY <2>1 DEF IInv, PollerTypeOK
  <2> QED BY <2>1 DEF Uncounted
<1>3. RunsBacked'
  <2> SUFFICES ASSUME NEW q \in Rows
               PROVE  runCount'[q] + Uncounted(q)' <= enqueued'[q]
    BY DEF RunsBacked
  <2>1. Uncounted(q) \in Nat /\ Uncounted(q)' \in Nat
    BY DEF Uncounted
  <2>2. runCount[q] \in Nat /\ enqueued[q] \in Nat
    BY DEF IInv, PollerTypeOK
  <2>3. runCount[q] + Uncounted(q) <= enqueued[q]
    BY DEF IInv, RunsBacked
  <2> QED BY <1>2, <2>1, <2>2, <2>3
<1> QED BY <1>1, <1>3

LEMMA InsertKeeps == ASSUME IInv, NEW w \in Workers, InsertTask(w) PROVE IInv'
<1> USE NoRowAssumption
<1> DEFINE c == current[w]
<1>0. c \in Rows /\ c \in held[w]
  BY DEF IInv, PollerTypeOK, InsertTask
<1>1. PollerTypeOK'
  BY <1>0 DEF IInv, PollerTypeOK, InsertTask
<1>2. LocksExclusive'
  BY DEF IInv, LocksExclusive, InsertTask
<1>3. ~ \E v \in Workers : c \in held[v] /\ current[v] # c
  <2> SUFFICES ASSUME NEW v \in Workers, c \in held[v], current[v] # c PROVE FALSE
    OBVIOUS
  <2>1. v # w
    OBVIOUS
  <2> QED BY <1>0, <2>1 DEF IInv, LocksExclusive
<1>4. ASSUME NEW r \in Rows, r # c PROVE Uncounted(r)' = Uncounted(r)
  <2>1. ASSUME NEW v \in Workers
        PROVE (r \in held'[v] /\ current'[v] # r) <=> (r \in held[v] /\ current[v] # r)
    <3>1. CASE v = w
      <4>1. current'[v] = NoRow /\ held'[v] = held[v] /\ current[v] = c
        BY <3>1 DEF IInv, PollerTypeOK, InsertTask
      <4> QED BY <4>1, <1>4
    <3>2. CASE v # w
      BY <3>2 DEF IInv, PollerTypeOK, InsertTask
    <3> QED BY <3>1, <3>2
  <2> QED BY <2>1 DEF Uncounted
<1>5. RunsBacked'
  <2> SUFFICES ASSUME NEW r \in Rows
               PROVE  runCount'[r] + Uncounted(r)' <= enqueued'[r]
    BY DEF RunsBacked
  <2>1. runCount[r] \in Nat /\ enqueued[r] \in Nat /\ runCount' = runCount
    BY DEF IInv, PollerTypeOK, InsertTask
  <2>2. runCount[r] + Uncounted(r) <= enqueued[r]
    BY DEF IInv, RunsBacked
  <2>3. CASE r = c
    <3>1. Uncounted(r) = 0
      BY <1>3, <2>3 DEF Uncounted
    <3>2. Uncounted(r)' \in {0, 1}
      BY DEF Uncounted
    <3>3. enqueued'[r] = enqueued[r] + 1
      BY <2>3 DEF IInv, PollerTypeOK, InsertTask
    <3> QED BY <2>1, <2>2, <3>1, <3>2, <3>3
  <2>4. CASE r # c
    <3>1. enqueued'[r] = enqueued[r]
      BY <2>4 DEF IInv, PollerTypeOK, InsertTask
    <3> QED BY <1>4, <2>1, <2>2, <2>4, <3>1
  <2> QED BY <2>3, <2>4
<1> QED BY <1>1, <1>2, <1>5 DEF IInv

LEMMA CommitKeeps == ASSUME IInv, NEW w \in Workers, Commit(w) PROVE IInv'
<1> USE NoRowAssumption
<1>0. AfterLoop(w) \in PCs
  BY DEF AfterLoop, PCs
<1>1. PollerTypeOK'
  <2>1. due' \subseteq Rows
    BY DEF IInv, PollerTypeOK, Commit
  <2>2. runCount' \in [Rows -> Nat]
    BY DEF IInv, PollerTypeOK, Commit
  <2>3. pc' \in [Workers -> PCs] /\ held' \in [Workers -> SUBSET Rows]
    BY <1>0 DEF IInv, PollerTypeOK, Commit, Goto
  <2>4. \A v \in Workers : current'[v] # NoRow => current'[v] \in held'[v]
    BY DEF IInv, PollerTypeOK, Commit
  <2> QED BY <2>1, <2>2, <2>3, <2>4 DEF IInv, PollerTypeOK, Commit
<1>2. held' = [held EXCEPT ![w] = {}] /\ current' = current /\ enqueued' = enqueued
      /\ current[w] = NoRow
  BY DEF Commit
<1>3. LocksExclusive'
  BY <1>2 DEF IInv, PollerTypeOK, LocksExclusive
<1>4. RunsBacked'
  <2> SUFFICES ASSUME NEW r \in Rows
               PROVE  runCount'[r] + Uncounted(r)' <= enqueued'[r]
    BY DEF RunsBacked
  <2>1. runCount[r] \in Nat /\ enqueued[r] \in Nat
    BY DEF IInv, PollerTypeOK
  <2>2. runCount[r] + Uncounted(r) <= enqueued[r]
    BY DEF IInv, RunsBacked
  <2>3. CASE r \in held[w]
    <3>1. Uncounted(r) = 1
      BY <1>2, <2>3 DEF Uncounted
    <3>2. Uncounted(r)' = 0
      <4>1. ASSUME NEW v \in Workers, r \in held'[v] PROVE FALSE
        BY <1>2, <2>3, <4>1 DEF IInv, PollerTypeOK, LocksExclusive
      <4> QED BY <4>1 DEF Uncounted
    <3>3. runCount'[r] = runCount[r] + 1
      BY <2>3 DEF Commit
    <3> QED BY <1>2, <2>1, <2>2, <3>1, <3>2, <3>3
  <2>4. CASE r \notin held[w]
    <3>1. Uncounted(r)' = Uncounted(r)
      <4>1. ASSUME NEW v \in Workers PROVE r \in held'[v] <=> r \in held[v]
        BY <1>2, <2>4 DEF IInv, PollerTypeOK
      <4> QED BY <1>2, <4>1 DEF Uncounted
    <3>2. runCount'[r] = runCount[r]
      BY <2>4 DEF Commit
    <3> QED BY <1>2, <2>1, <2>2, <3>1, <3>2
  <2> QED BY <2>3, <2>4
<1> QED BY <1>1, <1>3, <1>4 DEF IInv

\* Steps that touch no lock and no count.
LEMMA QuietKeeps ==
    ASSUME IInv, PollerTypeOK', UNCHANGED <<runCount, enqueued, held, current>>
    PROVE  IInv'
BY DEF IInv, LocksExclusive, RunsBacked, Uncounted

LEMMA IInvNext == IInv /\ [PollerNext]_PollerVars => IInv'
<1> SUFFICES ASSUME IInv, [PollerNext]_PollerVars PROVE IInv'
  OBVIOUS
<1> USE NoRowAssumption
<1>a. ASSUME NEW w \in Workers PROVE AfterLoop(w) \in PCs /\ "idle" \in PCs
  BY DEF AfterLoop, PCs
<1>1. CASE UNCHANGED PollerVars
  BY <1>1 DEF PollerVars, IInv, PollerTypeOK, LocksExclusive, RunsBacked, Uncounted
<1>2. ASSUME NEW r \in Rows, Tick(r) PROVE IInv'
  <2>1. PollerTypeOK'
    BY <1>2 DEF IInv, PollerTypeOK, Tick, poll
  <2> QED BY <1>2, <2>1, QuietKeeps DEF Tick, poll
<1>3. ASSUME NEW w \in Workers, SelectSchedules(w) \/ SelectTriggers(w) PROVE IInv'
  <2>1. PollerTypeOK'
    BY <1>3 DEF IInv, PollerTypeOK, SelectSchedules, SelectTriggers, Select, Goto, PCs, Rows
  <2> QED BY <1>3, <2>1, QuietKeeps DEF SelectSchedules, SelectTriggers, Select
<1>4. ASSUME NEW w \in Workers, NEW r \in Rows, UpdateRow(w, r) PROVE IInv'
  <2>1. PollerTypeOK'
    BY <1>4 DEF IInv, PollerTypeOK, UpdateRow
  <2>2. LocksExclusive' /\ RunsBacked'
    BY <1>4, LockKeeps DEF UpdateRow
  <2> QED BY <2>1, <2>2 DEF IInv
<1>5. ASSUME NEW w \in Workers, NEW r \in Rows, WaitForRow(w, r) PROVE IInv'
  <2>1. PollerTypeOK'
    BY <1>5 DEF IInv, PollerTypeOK, WaitForRow
  <2> QED BY <1>5, <2>1, QuietKeeps DEF WaitForRow
<1>6. ASSUME NEW w \in Workers, GrantRow(w) PROVE IInv'
  <2>1. want[w] \in Rows
    BY <1>6 DEF IInv, PollerTypeOK, GrantRow
  <2>2. PollerTypeOK'
    BY <1>6, <2>1 DEF IInv, PollerTypeOK, GrantRow, LeaveQueue
  <2>3. current[w] = NoRow
    BY <1>6 DEF IInv, PollerTypeOK, GrantRow
  <2>4. LocksExclusive' /\ RunsBacked'
    BY <1>6, <2>1, <2>3, LockKeeps DEF GrantRow
  <2> QED BY <2>2, <2>4 DEF IInv
<1>7. ASSUME NEW w \in Workers, InsertTask(w) PROVE IInv'
  BY <1>7, InsertKeeps
<1>8. ASSUME NEW w \in Workers, Commit(w) PROVE IInv'
  BY <1>8, CommitKeeps
<1>9. ASSUME NEW w \in Workers, DeadlockVictim(w) \/ Rollback(w) \/ WorkerDies(w) PROVE IInv'
  <2>1. pollFailures' \in Nat
    BY <1>9 DEF IInv, PollerTypeOK, DeadlockVictim, Rollback, WorkerDies
  <2>2. PICK l \in PCs : Abandon(w, l)
    BY <1>a, <1>9 DEF DeadlockVictim, Rollback, WorkerDies
  <2> QED BY <2>1, <2>2, AbandonKeeps
<1> QED
  BY <1>1, <1>2, <1>3, <1>4, <1>5, <1>6, <1>7, <1>8, <1>9 DEF PollerNext, PollStep

LEMMA IInvAlways == PollerSpec => []IInv
BY IInvInit, IInvNext, PTL DEF PollerSpec

\* The state of the pollers has its type, and a row whose task is about to be
\* inserted is locked by its poll (scheduler_daemon.py:98-119).
THEOREM TypeCorrect == PollerSpec => []PollerTypeOK
<1>1. IInv => PollerTypeOK
  BY DEF IInv
<1> QED BY <1>1, IInvAlways, PTL

\* For any number of rows, workers, errors and crashes: no schedule is moved on
\* to its next run without a task for the current one (scheduler_daemon.py:98-122).
THEOREM EveryRunHasATask == PollerSpec => []RunsBacked
<1>1. IInv => RunsBacked
  BY DEF IInv
<1> QED BY <1>1, IInvAlways, PTL
=============================================================================

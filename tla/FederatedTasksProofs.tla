------------------------- MODULE FederatedTasksProofs -------------------------
(***************************************************************************)
(* What the queue of federated tasks keeps for any numbers of tasks and of *)
(* overlapping polls.  The argument: what a request has loaded of a stale  *)
(* task is behind the tables only in one direction, a session that is      *)
(* still queued was already queued when the request loaded it.  So a       *)
(* request that fails a task fails the queued session with it.  What an    *)
(* emergency stop fails is queued only if it is also cancelled, or was     *)
(* queued after the stop's first statement.  And as long as no two polls   *)
(* have had a task loaded as stale at once, the one that has knows its     *)
(* count, and the count is the number of times the task was put back.      *)
(***************************************************************************)
EXTENDS FederatedTasks, TLAPS

Loaded ==
    \A c \in Connectors, t \in Tasks :
        mem[c][t].stale => /\ task[t] # "none"
                           /\ sess[t] = "queued" => mem[c][t].sess = "queued"

\* An emergency stop under way has hit every session that is queued, except those
\* queued since.
Hit == /\ hit # {} => stopping
       /\ stopping => \A t \in Tasks \ overlapped : sess[t] = "queued" => t \in hit

\* The count of a task over which no two polls have raced.
Counted ==
    \A t \in Tasks \ raced :
        /\ requeues[t] = retries[t] /\ retries[t] <= MaxRetries
        /\ \A c \in Connectors : pc[c] = "scanned" /\ mem[c][t].stale =>
              /\ mem[c][t].retries = retries[t]
              /\ \A d \in Connectors \ {c} : ~(pc[d] = "scanned" /\ mem[d][t].stale)

FInv == TypeOK /\ QueuedHasTask /\ Loaded /\ Hit /\ Counted

USE DEF TaskStatus, SessStatus, Live, stop, others, history

\* A step that takes no session into the queue is no concern of a stop under way.
LEMMA HitKept ==
    ASSUME FInv, UNCHANGED <<stop, overlapped>>,
           \A t \in Tasks : sess'[t] = "queued" => sess[t] = "queued"
    PROVE  Hit'
BY DEF FInv, Hit

\* A step of which no poll learns of a stale task leaves the counts right.
LEMMA CountedKept ==
    ASSUME FInv, UNCHANGED <<retries, requeues, raced>>,
           \A c \in Connectors, t \in Tasks :
               pc'[c] = "scanned" /\ mem'[c][t].stale =>
                  pc[c] = "scanned" /\ mem'[c][t] = mem[c][t]
    PROVE  Counted'
<1>1. ASSUME NEW t \in Tasks \ raced
      PROVE  /\ requeues'[t] = retries'[t] /\ retries'[t] <= MaxRetries
             /\ \A c \in Connectors : pc'[c] = "scanned" /\ mem'[c][t].stale =>
                   /\ mem'[c][t].retries = retries'[t]
                   /\ \A d \in Connectors \ {c} : ~(pc'[d] = "scanned" /\ mem'[d][t].stale)
  <2>1. requeues'[t] = retries'[t] /\ retries'[t] <= MaxRetries
    BY DEF FInv, Counted
  <2>2. ASSUME NEW c \in Connectors, pc'[c] = "scanned", mem'[c][t].stale
        PROVE  /\ mem'[c][t].retries = retries'[t]
               /\ \A d \in Connectors \ {c} : ~(pc'[d] = "scanned" /\ mem'[d][t].stale)
    <3>1. pc[c] = "scanned" /\ mem'[c][t] = mem[c][t]
      BY <2>2
    <3>2. /\ mem[c][t].retries = retries[t]
          /\ \A d \in Connectors \ {c} : ~(pc[d] = "scanned" /\ mem[d][t].stale)
      BY <2>2, <3>1 DEF FInv, Counted
    <3> QED
      BY <3>1, <3>2
  <2> QED
    BY <2>1, <2>2
<1> QED
  BY <1>1 DEF Counted

-----------------------------------------------------------------------------
(* The polls.                                                                  *)

LEMMA PollScanKeeps ==
    ASSUME FInv, NEW c \in Connectors, PollScan(c)
    PROVE  FInv'
<1> USE DEF FInv, PollScan, rows
<1>1. mem' \in [Connectors -> [Tasks -> Row]]
  BY DEF TypeOK, Row, Unloaded
<1>2. TypeOK'
  BY <1>1 DEF TypeOK
<1>3. QueuedHasTask'
  BY DEF QueuedHasTask
<1>4. Loaded'
  BY DEF Loaded, TypeOK, Unloaded
<1>5. ASSUME NEW t \in Tasks, t \notin raced'
      PROVE  /\ requeues'[t] = retries'[t] /\ retries'[t] <= MaxRetries
             /\ \A d \in Connectors : pc'[d] = "scanned" /\ mem'[d][t].stale =>
                   /\ mem'[d][t].retries = retries'[t]
                   /\ \A e \in Connectors \ {d} : ~(pc'[e] = "scanned" /\ mem'[e][t].stale)
  <2>1. t \notin raced
    BY <1>5
  <2>2. requeues'[t] = retries'[t] /\ retries'[t] <= MaxRetries
    BY <2>1 DEF Counted
  <2>3. mem'[c][t].stale => mem'[c][t].retries = retries[t] /\ task[t] = "dispatched" /\ t \in old
    BY DEF TypeOK, Unloaded
  <2>4. mem'[c][t].stale => \A d \in Connectors : ~(pc[d] = "scanned" /\ mem[d][t].stale)
    BY <1>5, <2>3 DEF Scanned
  <2>5. \A d \in Connectors \ {c} : mem'[d] = mem[d] /\ pc'[d] = pc[d]
    BY DEF TypeOK
  <2>6. \A d \in Connectors : pc[d] = "scanned" /\ mem[d][t].stale =>
           /\ mem[d][t].retries = retries[t]
           /\ \A e \in Connectors \ {d} : ~(pc[e] = "scanned" /\ mem[e][t].stale)
    BY <2>1 DEF Counted
  <2> QED
    BY <2>2, <2>3, <2>4, <2>5, <2>6
<1>6. Counted'
  BY <1>5 DEF Counted
<1>7. Hit'
  BY HitKept
<1> QED
  BY <1>2, <1>3, <1>4, <1>6, <1>7

LEMMA PollFlushKeeps ==
    ASSUME FInv, NEW c \in Connectors, PollFlush(c)
    PROVE  FInv'
<1> USE DEF FInv, PollFlush, Requeues, GivesUp, Fails
<1>1. \A t \in Tasks : mem[c][t] \in Row /\ mem[c][t].retries \in Nat /\ retries[t] \in Nat
  BY DEF TypeOK, Row
<1>2. retries' \in [Tasks -> Nat] /\ requeues' \in [Tasks -> Nat]
  BY <1>1, RetriesAssumption DEF TypeOK
<1>3. task' \in [Tasks -> TaskStatus] /\ sess' \in [Tasks -> SessStatus] /\ old' \subseteq Tasks
  BY DEF TypeOK
<1>4. TypeOK'
  BY <1>2, <1>3 DEF TypeOK
<1>5. Counted'
  <2>1. \A d \in Connectors \ {c} : pc'[d] = pc[d]
    BY DEF TypeOK
  <2>2. pc'[c] = "flushed"
    BY DEF TypeOK
  <2>3. ASSUME NEW t \in Tasks \ raced
        PROVE  /\ requeues'[t] = retries'[t] /\ retries'[t] <= MaxRetries
               /\ \A d \in Connectors : pc'[d] = "scanned" /\ mem'[d][t].stale =>
                     /\ mem'[d][t].retries = retries'[t]
                     /\ \A e \in Connectors \ {d} : ~(pc'[e] = "scanned" /\ mem'[e][t].stale)
    <3>1. /\ requeues[t] = retries[t] /\ retries[t] <= MaxRetries
          /\ \A d \in Connectors : pc[d] = "scanned" /\ mem[d][t].stale =>
                /\ mem[d][t].retries = retries[t]
                /\ \A e \in Connectors \ {d} : ~(pc[e] = "scanned" /\ mem[e][t].stale)
      BY DEF Counted
    <3>2. requeues[t] \in Nat /\ retries[t] \in Nat
      BY DEF TypeOK
    <3>3. CASE ~Requeues(c, t)
      BY <2>1, <2>2, <3>1, <3>3
    <3>4. CASE Requeues(c, t)
      <4>1. mem[c][t].stale /\ mem[c][t].retries = retries[t] /\ retries[t] < MaxRetries
        BY <3>1, <3>4
      <4>2. requeues'[t] = requeues[t] + 1 /\ retries'[t] = retries[t] + 1
        BY <3>4, <4>1
      <4>3. \A d \in Connectors : ~(pc'[d] = "scanned" /\ mem'[d][t].stale)
        BY <2>1, <2>2, <3>1, <4>1
      <4> QED
        BY <3>1, <3>2, <4>1, <4>2, <4>3, RetriesAssumption
    <3> QED
      BY <3>3, <3>4
  <2> QED
    BY <2>3 DEF Counted
<1>6. QueuedHasTask'
  <2> SUFFICES ASSUME NEW t \in Tasks \ overlapped, sess'[t] = "queued"
               PROVE  task'[t] \in {"pending", "dispatched"}
    BY DEF QueuedHasTask
  <2>1. sess[t] = "queued"
    BY DEF TypeOK
  <2>2. task[t] \in {"pending", "dispatched"}
    BY <2>1 DEF QueuedHasTask
  <2>3. ~GivesUp(c, t)
    BY <2>1 DEF Loaded
  <2> QED
    BY <2>2, <2>3 DEF TypeOK
<1>7. Loaded'
  <2> SUFFICES ASSUME NEW d \in Connectors, NEW t \in Tasks, mem[d][t].stale
               PROVE  /\ task'[t] # "none"
                      /\ sess'[t] = "queued" => mem[d][t].sess = "queued"
    BY DEF Loaded
  <2>1. task[t] # "none" /\ (sess[t] = "queued" => mem[d][t].sess = "queued")
    BY DEF Loaded
  <2> QED
    BY <2>1 DEF TypeOK
<1>8. Hit'
  BY HitKept DEF TypeOK
<1> QED
  BY <1>4, <1>5, <1>6, <1>7, <1>8

LEMMA PollPickKeeps ==
    ASSUME FInv, NEW c \in Connectors, PollPick(c)
    PROVE  FInv'
<1>1. /\ UNCHANGED <<task, sess, retries, old, order, cancelling, crashes, stop, history>>
      /\ pc[c] = "flushed" /\ held[c] = NoTask
  BY DEF PollPick, rows, FInv, TypeOK
<1>2. QueuedHasTask'
  BY <1>1 DEF FInv, QueuedHasTask
<1>3. CASE \E t \in Tasks : /\ held' = [held EXCEPT ![c] = t]
                           /\ pc' = [pc EXCEPT ![c] = "picked"]
                           /\ UNCHANGED mem
  <2>1. PICK t \in Tasks : /\ held' = [held EXCEPT ![c] = t]
                           /\ pc' = [pc EXCEPT ![c] = "picked"]
                           /\ UNCHANGED mem
    BY <1>3
  <2>2. TypeOK'
    BY <1>1, <2>1, NoTaskAssumption DEF FInv, TypeOK
  <2>3. Loaded'
    BY <1>1, <2>1 DEF FInv, Loaded
  <2>4. Counted' /\ Hit'
    BY <1>1, <2>1, CountedKept, HitKept DEF FInv, TypeOK
  <2> QED
    BY <1>2, <2>2, <2>3, <2>4 DEF FInv
<1>4. CASE /\ pc' = [pc EXCEPT ![c] = "idle"] /\ mem' = [mem EXCEPT ![c] = Blank]
           /\ UNCHANGED held
  <2>1. mem' \in [Connectors -> [Tasks -> Row]]
    BY <1>4 DEF FInv, TypeOK, Row, Blank, Unloaded
  <2>2. TypeOK'
    BY <1>1, <1>4, <2>1 DEF FInv, TypeOK
  <2>3. \A d \in Connectors, t \in Tasks : mem'[d][t].stale => mem'[d][t] = mem[d][t]
    BY <1>4 DEF FInv, TypeOK, Blank, Unloaded
  <2>4. Loaded'
    BY <1>1, <2>3 DEF FInv, Loaded
  <2>5. \A d \in Connectors : pc'[d] = "scanned" => pc[d] = "scanned"
    BY <1>4 DEF FInv, TypeOK
  <2>6. Counted' /\ Hit'
    BY <1>1, <2>3, <2>5, CountedKept, HitKept
  <2> QED
    BY <1>2, <2>2, <2>4, <2>6 DEF FInv
<1> QED
  BY <1>3, <1>4 DEF PollPick

LEMMA PollDispatchKeeps ==
    ASSUME FInv, NEW c \in Connectors, PollDispatch(c)
    PROVE  FInv'
<1> USE DEF FInv, PollDispatch
<1>1. held[c] \in Tasks
  BY DEF TypeOK
<1>2. mem' \in [Connectors -> [Tasks -> Row]]
  BY DEF TypeOK, Row, Blank, Unloaded
<1>3. /\ pc' \in [Connectors -> {"idle", "scanned", "flushed", "picked", "working", "stepping"}]
      /\ held' \in [Connectors -> Tasks \cup {NoTask}]
      /\ \A d \in Connectors :
            (held'[d] # NoTask) <=> pc'[d] \in {"picked", "working", "stepping"}
  BY <1>1, NoTaskAssumption DEF TypeOK
<1>4. /\ task' \in [Tasks -> TaskStatus]
      /\ \A t \in Tasks : task'[t] = task[t] \/ task'[t] = "dispatched"
  BY <1>1 DEF TypeOK
<1>5. old' \subseteq Tasks
  BY <1>1 DEF TypeOK
<1>6. TypeOK'
  BY <1>2, <1>3, <1>4, <1>5 DEF TypeOK
<1>7. QueuedHasTask'
  BY <1>4 DEF QueuedHasTask
<1>8. Loaded'
  BY <1>4 DEF Loaded, TypeOK, Blank, Unloaded
<1>9. \A d \in Connectors, t \in Tasks :
         pc'[d] = "scanned" /\ mem'[d][t].stale => pc[d] = "scanned" /\ mem'[d][t] = mem[d][t]
  BY DEF TypeOK, Blank, Unloaded
<1>10. Counted' /\ Hit'
  BY <1>9, CountedKept, HitKept
<1> QED
  BY <1>6, <1>7, <1>8, <1>10

-----------------------------------------------------------------------------
(* The connectors.                                                             *)

\* A connector or a request that stops leaves nothing behind.
LEMMA StopKeeps ==
    ASSUME TypeOK, NEW c \in Connectors, Stop(c), UNCHANGED <<order, stop, history>>,
           task' \in [Tasks -> TaskStatus], sess' \in [Tasks -> SessStatus],
           UNCHANGED <<retries, old, cancelling>>, crashes' \in Nat
    PROVE  /\ TypeOK'
           /\ \A d \in Connectors, t \in Tasks : mem'[d][t].stale => mem'[d][t] = mem[d][t]
           /\ \A d \in Connectors : pc'[d] = "scanned" => pc[d] = "scanned"
<1> USE DEF Stop
<1>1. mem' \in [Connectors -> [Tasks -> Row]]
  BY DEF TypeOK, Row, Blank, Unloaded
<1>2. /\ pc' \in [Connectors -> {"idle", "scanned", "flushed", "picked", "working", "stepping"}]
      /\ held' \in [Connectors -> Tasks \cup {NoTask}]
      /\ \A d \in Connectors :
            (held'[d] # NoTask) <=> pc'[d] \in {"picked", "working", "stepping"}
  BY DEF TypeOK
<1>3. TypeOK'
  BY <1>1, <1>2 DEF TypeOK
<1>4. \A d \in Connectors, t \in Tasks : mem'[d][t].stale => mem'[d][t] = mem[d][t]
  BY DEF TypeOK, Blank, Unloaded
<1>5. \A d \in Connectors : pc'[d] = "scanned" => pc[d] = "scanned"
  BY DEF TypeOK
<1> QED
  BY <1>3, <1>4, <1>5

LEMMA PollDiesKeeps ==
    ASSUME FInv, NEW c \in Connectors, PollDies(c) \/ ConnectorDies(c)
    PROVE  FInv'
<1>1. Stop(c) /\ UNCHANGED <<rows, order, stop, history, cancelling>> /\ crashes' \in Nat
  BY DEF FInv, TypeOK, PollDies, ConnectorDies, Stop
<1>2. /\ TypeOK' /\ \A d \in Connectors, t \in Tasks : mem'[d][t].stale => mem'[d][t] = mem[d][t]
      /\ \A d \in Connectors : pc'[d] = "scanned" => pc[d] = "scanned"
  BY <1>1, StopKeeps DEF FInv, TypeOK, rows
<1>3. QueuedHasTask'
  BY <1>1 DEF FInv, QueuedHasTask, rows
<1>4. Loaded'
  BY <1>1, <1>2 DEF FInv, Loaded, rows
<1>5. Counted' /\ Hit'
  BY <1>1, <1>2, CountedKept, HitKept DEF rows
<1> QED
  BY <1>2, <1>3, <1>4, <1>5 DEF FInv

LEMMA StepReadKeeps ==
    ASSUME FInv, NEW c \in Connectors, StepRead(c)
    PROVE  FInv'
<1> USE DEF FInv, StepRead, rows
<1>1. held[c] \in Tasks /\ mem[c] \in [Tasks -> Row] /\ sess[held[c]] \in SessStatus
  BY DEF TypeOK
<1>2. mem' = [mem EXCEPT ![c] = [mem[c] EXCEPT ![held[c]] =
                                    [mem[c][held[c]] EXCEPT !.sess = sess[held[c]]]]]
  BY DEF TypeOK
<1>3. mem[c][held[c]] \in Row
  BY <1>1
<1>4. [mem[c][held[c]] EXCEPT !.sess = sess[held[c]]] \in Row
  BY <1>1, <1>3 DEF Row
<1>5. mem' \in [Connectors -> [Tasks -> Row]]
  BY <1>1, <1>2, <1>4 DEF TypeOK
<1>6. TypeOK'
  BY <1>5 DEF TypeOK
<1>7. QueuedHasTask'
  BY DEF QueuedHasTask
<1>8. \A d \in Connectors, t \in Tasks :
         /\ mem'[d][t].stale = mem[d][t].stale
         /\ mem'[d][t].sess = mem[d][t].sess \/ mem'[d][t].sess = sess[t]
  BY <1>1, <1>2, <1>3 DEF TypeOK, Row
<1>9. Loaded'
  BY <1>8 DEF Loaded
<1>10. \A d \in Connectors, t \in Tasks :
          pc'[d] = "scanned" => pc[d] = "scanned" /\ mem'[d][t] = mem[d][t]
  BY <1>2 DEF TypeOK
<1>11. Counted' /\ Hit'
  BY <1>10, CountedKept, HitKept
<1> QED
  BY <1>6, <1>7, <1>9, <1>11

LEMMA StepWriteKeeps ==
    ASSUME FInv, NEW c \in Connectors, StepWrite(c)
    PROVE  FInv'
<1> USE DEF FInv, StepWrite, Starts
<1>1. held[c] \in Tasks
  BY DEF TypeOK
<1>2. mem' \in [Connectors -> [Tasks -> Row]]
  BY DEF TypeOK, Row, Blank, Unloaded
<1>3. /\ sess' \in [Tasks -> SessStatus]
      /\ \A t \in Tasks : sess'[t] = "queued" => sess[t] = "queued"
  BY <1>1 DEF TypeOK
<1>4. TypeOK'
  BY <1>2, <1>3 DEF TypeOK
<1>5. QueuedHasTask'
  BY <1>3 DEF QueuedHasTask
<1>6. Loaded'
  BY <1>3 DEF Loaded, TypeOK, Blank, Unloaded
<1>7. \A d \in Connectors, t \in Tasks :
         pc'[d] = "scanned" => pc[d] = "scanned" /\ mem'[d][t] = mem[d][t]
  BY DEF TypeOK
<1>8. Counted' /\ Hit'
  BY <1>3, <1>7, CountedKept, HitKept
<1> QED
  BY <1>4, <1>5, <1>6, <1>8

LEMMA ResultKeeps ==
    ASSUME FInv, NEW c \in Connectors, NEW outcome \in Outcomes, Result(c, outcome)
    PROVE  FInv'
<1> USE DEF FInv, Result
<1>1. held[c] \in Tasks /\ outcome \in {"completed", "failed"}
  BY OutcomesAssumption DEF TypeOK
<1>2. /\ task' \in [Tasks -> TaskStatus] /\ sess' \in [Tasks -> SessStatus]
      /\ \A t \in Tasks : sess'[t] = "queued" => sess[t] = "queued" /\ task'[t] = task[t]
      /\ \A t \in Tasks : task'[t] = "none" => task[t] = "none"
  BY <1>1 DEF TypeOK
<1>3. /\ TypeOK' /\ \A d \in Connectors, t \in Tasks : mem'[d][t].stale => mem'[d][t] = mem[d][t]
      /\ \A d \in Connectors : pc'[d] = "scanned" => pc[d] = "scanned"
  BY <1>2, StopKeeps DEF TypeOK
<1>4. QueuedHasTask'
  BY <1>2 DEF QueuedHasTask
<1>5. Loaded'
  BY <1>2, <1>3 DEF Loaded
<1>6. Counted' /\ Hit'
  BY <1>2, <1>3, CountedKept, HitKept
<1> QED
  BY <1>3, <1>4, <1>5, <1>6

-----------------------------------------------------------------------------
(* The rest of the server.                                                     *)

LEMMA StartKeeps ==
    ASSUME FInv, NEW t \in Tasks, Create(t) \/ Enqueue(t)
    PROVE  FInv'
<1> USE DEF FInv
<1>1. CASE Create(t)
  <2> USE <1>1 DEF Create
  <2>1. TypeOK' /\ QueuedHasTask' /\ Loaded'
    BY DEF TypeOK, QueuedHasTask, Loaded
  <2>2. Counted' /\ Hit'
    BY CountedKept, HitKept DEF TypeOK
  <2> QED
    BY <2>1, <2>2
<1>2. CASE Enqueue(t)
  <2> USE <1>2 DEF Enqueue
  <2>1. /\ task' \in [Tasks -> TaskStatus] /\ sess' \in [Tasks -> SessStatus]
        /\ order' \in Seq(Tasks)
    BY DEF TypeOK
  <2>2. TypeOK'
    BY <2>1 DEF TypeOK
  <2>3. QueuedHasTask'
    BY DEF TypeOK, QueuedHasTask
  <2>4. Loaded'
    BY DEF TypeOK, Loaded
  <2>5. Counted'
    BY CountedKept
  <2>6. Hit'
    <3>1. stopping => t \in overlapped'
      OBVIOUS
    <3>2. \A u \in Tasks \ {t} : sess'[u] = sess[u]
      BY DEF TypeOK
    <3> QED
      BY <3>1, <3>2 DEF Hit
  <2> QED
    BY <2>2, <2>3, <2>4, <2>5, <2>6
<1> QED
  BY <1>1, <1>2

LEMMA OthersKeep ==
    ASSUME FInv, NEW t \in Tasks,
           Age(t) \/ CancelRead(t) \/ CancelWrite(t)
    PROVE  FInv'
<1> USE DEF FInv, Age, CancelRead, CancelWrite, rows
<1>1. TypeOK'
  BY DEF TypeOK
<1>2. QueuedHasTask' /\ Loaded'
  BY DEF TypeOK, QueuedHasTask, Loaded
<1>3. Counted' /\ Hit'
  BY CountedKept, HitKept DEF TypeOK
<1> QED
  BY <1>1, <1>2, <1>3

\* What the last statement of a stop fails is cancelled, or overlapped.
LEMMA StopKeepsQueued ==
    ASSUME FInv, StopSessions \/ StopTasks \/ StopFails
    PROVE  FInv'
<1> USE DEF FInv
<1>1. CASE StopSessions
  <2> USE <1>1 DEF StopSessions, rows
  <2>1. TypeOK' /\ QueuedHasTask' /\ Loaded' /\ Hit'
    BY DEF TypeOK, QueuedHasTask, Loaded, Hit
  <2> QED
    BY <2>1, CountedKept
<1>2. CASE StopTasks
  <2> USE <1>2 DEF StopTasks
  <2>1. TypeOK'
    BY DEF TypeOK
  <2>2. \A t \in Tasks : sess'[t] = "queued" => sess[t] = "queued" /\ t \notin hit
    BY DEF TypeOK
  <2>3. \A t \in Tasks \ overlapped : sess'[t] # "queued"
    BY <2>2 DEF Hit
  <2>4. \A t \in Tasks : task'[t] = "none" => task[t] = "none"
    BY DEF TypeOK
  <2>5. QueuedHasTask' /\ Loaded' /\ Hit'
    BY <2>2, <2>3, <2>4 DEF QueuedHasTask, Loaded, Hit
  <2> QED
    BY <2>1, <2>5, CountedKept
<1>3. CASE StopFails
  <2> USE <1>3 DEF StopFails, rows
  <2>1. TypeOK'
    <3>1. stopping' \in BOOLEAN
      OBVIOUS
    <3>2. crashes' \in Nat
      BY DEF TypeOK
    <3> QED
      BY <3>1, <3>2 DEF TypeOK
  <2>2. QueuedHasTask' /\ Loaded' /\ Hit'
    BY DEF QueuedHasTask, Loaded, Hit
  <2> QED
    BY <2>1, <2>2, CountedKept
<1> QED
  BY <1>1, <1>2, <1>3

LEMMA Inductive == Spec => []FInv
<1>1. Init => FInv
  <2> SUFFICES ASSUME Init PROVE FInv
    OBVIOUS
  <2> USE RetriesAssumption DEF Init, Blank, Unloaded
  <2>1. TypeOK
    <3>1. stopping \in BOOLEAN
      OBVIOUS
    <3>2. mem \in [Connectors -> [Tasks -> Row]]
      BY DEF Row
    <3> QED
      BY <3>1, <3>2 DEF TypeOK
  <2>2. QueuedHasTask /\ Loaded /\ Hit
    BY DEF QueuedHasTask, Loaded, Hit
  <2>3. Counted
    BY DEF Counted
  <2> QED
    BY <2>1, <2>2, <2>3 DEF FInv
<1>2. FInv /\ [Next]_vars => FInv'
  <2> SUFFICES ASSUME FInv, [Next]_vars PROVE FInv'
    OBVIOUS
  <2>1. ASSUME NEW t \in Tasks,
               Create(t) \/ Enqueue(t) \/ Age(t) \/ CancelRead(t) \/ CancelWrite(t)
        PROVE  FInv'
    BY <2>1, StartKeeps, OthersKeep
  <2>2. ASSUME NEW c \in Connectors, Request(c) \/ PollDies(c) \/ StepRead(c) \/ Leave(c)
        PROVE  FInv'
    BY <2>2, PollScanKeeps, PollFlushKeeps, PollPickKeeps, PollDispatchKeeps, PollDiesKeeps,
       StepReadKeeps, StepWriteKeeps, ResultKeeps DEF Request, Leave
  <2>3. CASE StopSessions \/ StopTasks \/ StopFails
    BY <2>3, StopKeepsQueued
  <2>4. CASE WorkerStarts
    <3>1. TypeOK' /\ QueuedHasTask' /\ Loaded'
      BY <2>4 DEF WorkerStarts, FInv, TypeOK, QueuedHasTask, Loaded
    <3>2. Counted' /\ Hit'
      BY <2>4, CountedKept, HitKept DEF WorkerStarts
    <3> QED
      BY <3>1, <3>2 DEF FInv
  <2>5. CASE UNCHANGED vars
    BY <2>5 DEF vars, rows, FInv, TypeOK, QueuedHasTask, Loaded, Hit, Counted
  <2> QED
    BY <2>1, <2>2, <2>3, <2>4, <2>5 DEF Next
<1> QED
  BY <1>1, <1>2, PTL DEF Spec

(* The tables and the requests keep their types.                               *)
THEOREM TypeCorrect == Spec => []TypeOK
BY Inductive, PTL DEF FInv

(* Unless two polls have had a stale task loaded at once, it is not put back    *)
(* more than MaxRetries times (routers.py:2735-2766).                          *)
THEOREM RetriesBounded == Spec => []RetryLimit
<1>1. FInv => RetryLimit
  BY RetriesAssumption DEF FInv, TypeOK, Counted, RetryLimit
<1> QED
  BY <1>1, Inductive, PTL

(* A queued federated session always has a task that some connector can still  *)
(* get or finish, unless it was queued while an emergency stop was under way   *)
(* (routers.py:2729-2783, 2896-2902, 4596-4636).                               *)
THEOREM QueuedSessionsHaveTasks == Spec => []QueuedHasTask
BY Inductive, PTL DEF FInv
=============================================================================

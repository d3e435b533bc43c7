--------------------------- MODULE LibrariesProofs ---------------------------
(***************************************************************************)
(* Safety of five of the shared libraries, for any number of callers,      *)
(* connections, messages and tasks, and any limits.                        *)
(*                                                                         *)
(* The circuit breaker: a trial is always a call under way, so that one    *)
(* that ends leaves the trials when it is counted as unrecorded.           *)
(*                                                                         *)
(* The connection manager: whoever awaits the close of a socket has        *)
(* detached the connection, and nothing attaches it again (Shut), so that  *)
(* its deletion leaves no reference.                                       *)
(*                                                                         *)
(* The flow control: the pending count of a flow is the number of the      *)
(* sends under way on it and of those that were cancelled, and a step that *)
(* makes it flow again wakes all that wait for it.                         *)
(*                                                                         *)
(* The task graph: what a failure blocks is the least set of pending tasks *)
(* that is closed under dependents, so a pending task outside it depends   *)
(* on nothing that failed or is blocked.                                   *)
(*                                                                         *)
(* The ordered channel: a number is in one place, the buffer, a handler's  *)
(* hands or the delivered ones, and is below the next one expected once it *)
(* is accepted (Accepted, Once); while no handler suspends, those places   *)
(* follow each other in order (InSequence).                                *)
(***************************************************************************)
EXTENDS CircuitBreaker, WebSockets, Backpressure, TaskGraph, MessageOrdering, FiniteSetTheorems,
        SequenceTheorems, WellFoundedInduction, TLAPS

-----------------------------------------------------------------------------
(* The circuit breaker.                                                      *)

TrialInv ==
    /\ trials \subseteq calling /\ calling \subseteq Callers
    /\ halfOpenCalls \in Nat /\ unrecorded \in Nat
    /\ TrialsBounded

LEMMA TrialsFinite ==
    ASSUME TrialInv
    PROVE  IsFiniteSet(trials) /\ Cardinality(trials) \in Nat
BY CallersAssumption, FS_Subset, FS_CardinalityType DEF TrialInv

LEMMA AdmitKeeps ==
    ASSUME TrialInv, NEW c \in Callers, c \notin calling, Admit(c)
    PROVE  TrialInv'
<1>1. /\ Cardinality({c}) = 1 /\ Cardinality(trials) \in Nat
      /\ Cardinality(trials \cup {c}) = Cardinality(trials) + 1
  BY TrialsFinite, FS_Singleton, FS_AddElement DEF TrialInv
<1>2. trials' \subseteq calling' /\ calling' \subseteq Callers
  BY DEF TrialInv, Admit
<1>3. halfOpenCalls' \in Nat /\ unrecorded' \in Nat
  BY DEF TrialInv, Admit
<1>4. TrialsBounded'
  <2>1. CASE circuit = "closed" /\ UNCHANGED circuit
    BY <2>1 DEF TrialsBounded
  <2>2. CASE /\ circuit = "half_open" /\ halfOpenCalls < HalfOpenMaxCalls
             /\ halfOpenCalls' = halfOpenCalls + 1
             /\ trials' = trials \cup {c} /\ unrecorded' = unrecorded
    <3>1. c \notin trials
      BY DEF TrialInv
    <3> QED
      BY <1>1, <2>2, <3>1, ThresholdsAssumption DEF TrialInv, TrialsBounded
  <2>3. CASE HalfOpenMaxCalls > 0 /\ halfOpenCalls' = 1 /\ trials' = {c} /\ unrecorded' = 0
    BY <1>1, <2>3, ThresholdsAssumption DEF TrialsBounded
  <2> QED
    BY <2>1, <2>2, <2>3 DEF Admit
<1> QED
  BY <1>2, <1>3, <1>4 DEF TrialInv

LEMMA RefuseKeeps ==
    ASSUME TrialInv, NEW c \in Callers, Refuse(c)
    PROVE  TrialInv'
<1>1. CASE UNCHANGED <<circuit, halfOpenCalls, trials, unrecorded>>
  BY <1>1 DEF TrialInv, TrialsBounded, Refuse
<1>2. CASE HalfOpenMaxCalls = 0 /\ halfOpenCalls' = 0 /\ trials' = {} /\ unrecorded' = 0
  <2>1. TrialsBounded'
    BY <1>2, FS_EmptySet DEF TrialsBounded
  <2> QED
    BY <1>2, <2>1 DEF TrialInv, Refuse
<1> QED
  BY <1>1, <1>2 DEF Refuse

\* A call that ends takes its trial with it.
LEMMA EndsKeeps ==
    ASSUME TrialInv, NEW c \in Callers, Ends(c), unrecorded' \in Nat, UNCHANGED halfOpenCalls,
           circuit' = "half_open" => circuit = "half_open",
           \/ unrecorded' = unrecorded
           \/ c \in trials /\ unrecorded' <= unrecorded + 1
    PROVE  TrialInv'
<1>1. /\ Cardinality(trials) \in Nat
      /\ Cardinality(trials') = IF c \in trials THEN Cardinality(trials) - 1 ELSE Cardinality(trials)
  BY TrialsFinite, FS_RemoveElement DEF Ends
<1> QED
  BY <1>1, ThresholdsAssumption DEF TrialInv, TrialsBounded, Ends

LEMMA TrialInvInit == BreakerInit => TrialInv
BY FS_EmptySet, ThresholdsAssumption DEF BreakerInit, TrialInv, TrialsBounded

LEMMA BreakerStep == TrialInv /\ [BreakerNext]_BreakerVars => TrialInv'
<1> SUFFICES ASSUME TrialInv, [BreakerNext]_BreakerVars PROVE TrialInv'
  OBVIOUS
<1>1. CASE UNCHANGED BreakerVars
  BY <1>1 DEF BreakerVars, TrialInv, TrialsBounded
<1>2. ASSUME NEW c \in Callers, Call(c) PROVE TrialInv'
  BY <1>2, AdmitKeeps, RefuseKeeps DEF Call
<1>3. ASSUME NEW c \in Callers, Succeed(c) \/ Fail(c) PROVE TrialInv'
  <2>1. Ends(c) /\ UNCHANGED <<halfOpenCalls, unrecorded>>
    BY <1>3 DEF Succeed, Fail
  <2>2. CASE Succeed(c)
    <3>1. circuit' = "closed" \/ UNCHANGED circuit
      BY <2>2 DEF Succeed, Close
    <3> QED
      BY <2>1, <3>1, EndsKeeps DEF TrialInv
  <2>3. CASE Fail(c)
    <3>1. circuit' = IF Opens THEN "open" ELSE circuit
      BY <2>3 DEF Fail
    <3>2. circuit' = "half_open" => circuit = "half_open"
      BY <3>1
    <3> QED
      BY <2>1, <3>2, EndsKeeps DEF TrialInv
  <2> QED
    BY <1>3, <2>2, <2>3
<1>4. ASSUME NEW c \in Callers, EndUnrecorded(c) PROVE TrialInv'
  <2>1. Ends(c) /\ UNCHANGED <<circuit, halfOpenCalls>>
    BY <1>4 DEF EndUnrecorded
  <2>2. \/ unrecorded' = unrecorded
        \/ c \in trials /\ unrecorded' = UpTo(unrecorded + 1, HalfOpenMaxCalls)
    BY <1>4 DEF EndUnrecorded
  <2>3. UpTo(unrecorded + 1, HalfOpenMaxCalls) \in Nat
        /\ UpTo(unrecorded + 1, HalfOpenMaxCalls) <= unrecorded + 1
    BY ThresholdsAssumption DEF UpTo, TrialInv
  <2> QED
    BY <2>1, <2>2, <2>3, EndsKeeps DEF TrialInv
<1>5. CASE Reset \/ TimeOut
  BY <1>5 DEF Reset, Close, TimeOut, TrialInv, TrialsBounded
<1> QED
  BY <1>1, <1>2, <1>3, <1>4, <1>5 DEF BreakerNext

\* No half-open period lets more than half_open_max_calls calls through to the
\* failing service, whatever calls of earlier periods end in it
\* (circuit_breaker.py:161).
THEOREM TrialsStayBounded == BreakerSpec => []TrialsBounded
<1>1. TrialInv => TrialsBounded
  BY DEF TrialInv
<1> QED
  BY TrialInvInit, BreakerStep, <1>1, PTL DEF BreakerSpec

-----------------------------------------------------------------------------
(* The connection manager.                                                   *)

ConnectionRecord == [state : {"none", "open", "closing", "closed"},
                     user : Users \cup {Nothing}, subscriptions : SUBSET Channels]
LoopRecord == [at : {"asleep", "closing", "ended", "raised"},
               left : SUBSET Sockets, id : Sockets \cup {Nothing}]

\* Detached, for good.
Shut(c) == c \in Sockets /\ conn[c].state \in {"closing", "closed"}

IndexInv ==
    /\ connections \subseteq Sockets
    /\ conn \in [Sockets -> ConnectionRecord]
    /\ userConns \in [Users -> SUBSET Sockets]
    /\ subscribers \in [Channels -> SUBSET Sockets]
    /\ \A c \in Sockets :
          /\ c \in connections => conn[c].state \in {"open", "closing"}
          /\ conn[c].state = "closing" => conn[c].subscriptions = {}
    /\ NoGhosts

CloserInv ==
    /\ stale \subseteq Sockets
    /\ closers \in [Sockets -> Nat] /\ sweep \in LoopRecord /\ closingAll \in LoopRecord
    /\ \A c \in Sockets : closers[c] > 0 => Shut(c)
    /\ sweep.at = "closing" => Shut(sweep.id)
    /\ closingAll.at = "closing" => Shut(closingAll.id)

LEMMA ChangeKeeps ==
    ASSUME IndexInv, NEW closed, NEW detached,
           \A c \in closed : Shut(c), detached \subseteq connections \ closed,
           Change(closed, detached)
    PROVE  /\ IndexInv'
           /\ \A c \in Sockets : Shut(c) \/ c \in detached => Shut(c)'
<1>1. \A c \in Sockets :
         /\ c \in closed => conn'[c] = [conn[c] EXCEPT !.state = "closed"]
         /\ c \in detached => c \notin closed
              /\ conn'[c] = [conn[c] EXCEPT !.state = "closing", !.subscriptions = {}]
         /\ c \notin closed \cup detached => conn'[c] = conn[c]
  BY DEF Change
<1>2. \A c \in Sockets : conn[c] \in ConnectionRecord
  BY DEF IndexInv
<1>3. \A c \in Sockets :
         /\ c \in closed => conn'[c].state = "closed" /\ conn'[c].user = conn[c].user
                /\ conn'[c].subscriptions = conn[c].subscriptions
         /\ c \in detached => conn'[c].state = "closing" /\ conn'[c].user = conn[c].user
                /\ conn'[c].subscriptions = {}
         /\ c \notin closed \cup detached => conn'[c] = conn[c]
         /\ conn'[c] \in ConnectionRecord
  <2> SUFFICES ASSUME NEW c \in Sockets
               PROVE  /\ c \in closed => conn'[c].state = "closed" /\ conn'[c].user = conn[c].user
                            /\ conn'[c].subscriptions = conn[c].subscriptions
                      /\ c \in detached => conn'[c].state = "closing" /\ conn'[c].user = conn[c].user
                            /\ conn'[c].subscriptions = {}
                      /\ c \notin closed \cup detached => conn'[c] = conn[c]
                      /\ conn'[c] \in ConnectionRecord
    OBVIOUS
  <2>1. conn[c] \in ConnectionRecord
    BY <1>2
  <2>2. CASE c \in closed
    BY <1>1, <2>1, <2>2 DEF ConnectionRecord
  <2>3. CASE c \in detached
    BY <1>1, <2>1, <2>3 DEF ConnectionRecord
  <2>4. CASE c \notin closed \cup detached
    BY <1>1, <2>1, <2>4
  <2> QED
    BY <2>2, <2>3, <2>4
<1>4. /\ connections' = connections \ closed /\ connections' \subseteq Sockets
      /\ conn' \in [Sockets -> ConnectionRecord]
      /\ userConns' \in [Users -> SUBSET Sockets]
      /\ subscribers' \in [Channels -> SUBSET Sockets]
      /\ \A u \in Users : userConns'[u] = userConns[u] \ detached
      /\ \A h \in Channels : subscribers'[h] = subscribers[h] \ detached
  BY <1>3 DEF Change, IndexInv
<1>5. ASSUME NEW c \in Sockets
      PROVE  /\ c \in connections' => conn'[c].state \in {"open", "closing"}
             /\ conn'[c].state = "closing" => conn'[c].subscriptions = {}
  BY <1>3, <1>4 DEF IndexInv
<1>6. ASSUME NEW u \in Users, NEW c \in Sockets
      PROVE  c \in userConns'[u] <=> c \in connections' /\ conn'[c].state = "open" /\ conn'[c].user = u
  BY <1>3, <1>4 DEF IndexInv, NoGhosts, Shut
<1>7. ASSUME NEW h \in Channels, NEW c \in Sockets
      PROVE  c \in subscribers'[h] <=> c \in connections' /\ h \in conn'[c].subscriptions
  <2>1. c \in subscribers[h] <=> c \in connections /\ h \in conn[c].subscriptions
    BY DEF IndexInv, NoGhosts
  <2>2. CASE c \in closed
    <3>1. conn[c].state = "closing" \/ c \notin connections
      BY <2>2 DEF Shut, IndexInv
    <3> QED
      BY <1>4, <2>1, <2>2, <3>1 DEF IndexInv
  <2>3. CASE c \in detached
    BY <1>3, <1>4, <2>3
  <2>4. CASE c \notin closed \cup detached
    BY <1>3, <1>4, <2>1, <2>4
  <2> QED
    BY <2>2, <2>3, <2>4
<1>8. \A c \in Sockets : Shut(c) \/ c \in detached => Shut(c)'
  BY <1>3 DEF Shut
<1> QED
  BY <1>4, <1>5, <1>6, <1>7, <1>8 DEF IndexInv, NoGhosts

LEMMA ConnectKeeps ==
    ASSUME IndexInv, CloserInv, NEW c \in Sockets, NEW u \in Users, Connect(c, u)
    PROVE  IndexInv' /\ CloserInv'
<1>1. conn[c].state = "none" /\ c \notin connections
  BY DEF Connect, IndexInv
<1>2. /\ connections' = connections \cup {c}
      /\ conn' = [conn EXCEPT ![c] = [state |-> "open", user |-> u, subscriptions |-> {}]]
      /\ userConns' = [userConns EXCEPT ![u] = @ \cup {c}] /\ UNCHANGED subscribers
  BY DEF Connect
<1>3. /\ conn' \in [Sockets -> ConnectionRecord]
      /\ userConns' \in [Users -> SUBSET Sockets]
      /\ connections' \subseteq Sockets /\ subscribers' \in [Channels -> SUBSET Sockets]
  BY <1>2 DEF IndexInv, ConnectionRecord
<1>4. /\ conn'[c] = [state |-> "open", user |-> u, subscriptions |-> {}]
      /\ \A d \in Sockets \ {c} : conn'[d] = conn[d]
      /\ \A v \in Users : userConns'[v] = IF v = u THEN userConns[v] \cup {c} ELSE userConns[v]
  BY <1>2 DEF IndexInv
<1>5. \A d \in Sockets :
         /\ d \in connections' => conn'[d].state \in {"open", "closing"}
         /\ conn'[d].state = "closing" => conn'[d].subscriptions = {}
  BY <1>2, <1>4 DEF IndexInv
<1>6. \A v \in Users, d \in Sockets :
         d \in userConns'[v] <=> d \in connections' /\ conn'[d].state = "open" /\ conn'[d].user = v
  BY <1>1, <1>2, <1>4 DEF IndexInv, NoGhosts
<1>7. \A h \in Channels, d \in Sockets :
         d \in subscribers'[h] <=> d \in connections' /\ h \in conn'[d].subscriptions
  BY <1>1, <1>2, <1>4 DEF IndexInv, NoGhosts
<1>8. IndexInv'
  BY <1>3, <1>5, <1>6, <1>7 DEF IndexInv, NoGhosts
<1>9. \A d \in Sockets : Shut(d) => Shut(d)'
  BY <1>1, <1>4 DEF Shut
<1> QED
  BY <1>8, <1>9 DEF Connect, CloserInv, Shut

\* Subscribing and unsubscribing change one connection and one channel together.
LEMMA SubscribeKeeps ==
    ASSUME IndexInv, CloserInv, NEW c \in Sockets, NEW h \in Channels,
           Subscribe(c, h) \/ Unsubscribe(c, h)
    PROVE  IndexInv' /\ CloserInv'
<1>1. PICK S \in SUBSET Channels :
         /\ c \in connections
         /\ conn' = [conn EXCEPT ![c].subscriptions = S]
         /\ \/ /\ conn[c].state = "open" /\ S = conn[c].subscriptions \cup {h}
               /\ subscribers' = [subscribers EXCEPT ![h] = @ \cup {c}]
            \/ /\ S = conn[c].subscriptions \ {h}
               /\ subscribers' = [subscribers EXCEPT ![h] = @ \ {c}]
  <2>1. conn[c].subscriptions \in SUBSET Channels
    BY DEF IndexInv, ConnectionRecord
  <2>2. CASE Subscribe(c, h)
    BY <2>1, <2>2 DEF Subscribe
  <2>3. CASE Unsubscribe(c, h)
    BY <2>1, <2>3 DEF Unsubscribe
  <2> QED
    BY <2>2, <2>3
<1>2. UNCHANGED <<connections, userConns, sendingTo, stale, closers, active, sweep, closingAll>>
  BY DEF Subscribe, Unsubscribe
<1>3. conn[c] \in ConnectionRecord
  BY DEF IndexInv
<1>4. /\ conn'[c].state = conn[c].state /\ conn'[c].user = conn[c].user
      /\ conn'[c].subscriptions = S /\ conn'[c] \in ConnectionRecord
      /\ \A d \in Sockets \ {c} : conn'[d] = conn[d]
      /\ conn' \in [Sockets -> ConnectionRecord]
  BY <1>1, <1>3 DEF IndexInv, ConnectionRecord
<1>5. /\ subscribers' \in [Channels -> SUBSET Sockets]
      /\ \A k \in Channels \ {h} : subscribers'[k] = subscribers[k]
      /\ subscribers'[h] \in {subscribers[h] \cup {c}, subscribers[h] \ {c}}
  BY <1>1 DEF IndexInv
<1>6. \A d \in Sockets :
         /\ d \in connections' => conn'[d].state \in {"open", "closing"}
         /\ conn'[d].state = "closing" => conn'[d].subscriptions = {}
  BY <1>1, <1>2, <1>4 DEF IndexInv
<1>7. \A v \in Users, d \in Sockets :
         d \in userConns'[v] <=> d \in connections' /\ conn'[d].state = "open" /\ conn'[d].user = v
  BY <1>2, <1>4 DEF IndexInv, NoGhosts
<1>8. ASSUME NEW k \in Channels, NEW d \in Sockets
      PROVE  d \in subscribers'[k] <=> d \in connections' /\ k \in conn'[d].subscriptions
  <2>1. d \in subscribers[k] <=> d \in connections /\ k \in conn[d].subscriptions
    BY DEF IndexInv, NoGhosts
  <2>2. CASE k = h /\ d = c
    BY <1>1, <1>2, <1>4, <2>1, <2>2 DEF IndexInv
  <2>3. CASE k # h /\ d = c
    BY <1>1, <1>2, <1>4, <1>5, <2>1, <2>3
  <2>4. CASE d # c
    <3>1. d \in subscribers'[k] <=> d \in subscribers[k]
      BY <1>5, <2>4
    <3> QED
      BY <1>2, <1>4, <2>1, <2>4, <3>1
  <2> QED
    BY <2>2, <2>3, <2>4
<1>9. IndexInv'
  BY <1>2, <1>4, <1>5, <1>6, <1>7, <1>8 DEF IndexInv, NoGhosts
<1>10. \A d : Shut(d) => Shut(d)'
  BY <1>4 DEF Shut
<1> QED
  BY <1>2, <1>9, <1>10 DEF CloserInv

\* One disconnect of a loop after another.
LEMMA DetachesKeep ==
    ASSUME IndexInv, NEW left \in SUBSET Sockets, NEW closed, \A c \in closed : Shut(c),
           NEW pass, NEW end \in LoopRecord, end.at # "closing",
           Detaches(left, closed, pass, end)
    PROVE  /\ IndexInv' /\ \A c : Shut(c) => Shut(c)'
           /\ pass \in LoopRecord
           /\ pass.at = "closing" => Shut(pass.id)'
<1> DEFINE present == left \cap (connections \ closed)
<1>1. CASE Change(closed, {}) /\ pass = end
  BY <1>1, ChangeKeeps DEF Shut
<1>2. ASSUME NEW c \in present, Change(closed, {c}),
             pass = [at |-> "closing", left |-> left \ {c}, id |-> c]
      PROVE  /\ IndexInv' /\ \A d : Shut(d) => Shut(d)'
             /\ pass \in LoopRecord
             /\ pass.at = "closing" => Shut(pass.id)'
  <2>1. c \in Sockets
    OBVIOUS
  <2>2. IndexInv' /\ \A d \in Sockets : Shut(d) \/ d = c => Shut(d)'
    BY <1>2, ChangeKeeps
  <2>3. pass \in LoopRecord /\ pass.id = c
    BY <1>2, <2>1 DEF LoopRecord
  <2> QED
    BY <2>1, <2>2, <2>3 DEF Shut
<1> QED
  BY <1>1, <1>2 DEF Detaches

LEMMA RestingType ==
    /\ Resting \in LoopRecord /\ Resting.at = "asleep"
    /\ [Resting EXCEPT !.at = "ended"] \in LoopRecord
    /\ [Resting EXCEPT !.at = "ended"].at = "ended"
BY DEF Resting, LoopRecord

LEMMA DisconnectKeeps ==
    ASSUME IndexInv, CloserInv, NEW c \in Sockets, BeginDisconnect(c) \/ EndDisconnect(c)
    PROVE  IndexInv' /\ CloserInv'
<1>1. CASE BeginDisconnect(c)
  <2>1. c \in connections /\ Change({}, {c}) /\ closers' = [closers EXCEPT ![c] = @ + 1]
        /\ UNCHANGED <<sendingTo, stale, active, sweep, closingAll>>
    BY <1>1 DEF BeginDisconnect
  <2>2. IndexInv' /\ \A d \in Sockets : Shut(d) \/ d = c => Shut(d)'
    BY <2>1, ChangeKeeps
  <2>3. closers' \in [Sockets -> Nat] /\ \A d \in Sockets : closers'[d] > 0 => closers[d] > 0 \/ d = c
    BY <2>1 DEF CloserInv
  <2> QED
    BY <2>1, <2>2, <2>3 DEF CloserInv, Shut
<1>2. CASE EndDisconnect(c)
  <2>1. Shut(c) /\ Change({c}, {}) /\ closers' = [closers EXCEPT ![c] = @ - 1]
        /\ closers[c] > 0 /\ UNCHANGED <<sendingTo, stale, active, sweep, closingAll>>
    BY <1>2 DEF EndDisconnect, CloserInv
  <2>2. IndexInv' /\ \A d \in Sockets : Shut(d) => Shut(d)'
    BY <2>1, ChangeKeeps
  <2>3. closers' \in [Sockets -> Nat] /\ \A d \in Sockets : closers'[d] > 0 => closers[d] > 0
    BY <2>1 DEF CloserInv
  <2> QED
    BY <2>1, <2>2, <2>3 DEF CloserInv, Shut
<1> QED
  BY <1>1, <1>2

LEMMA SweepKeeps ==
    ASSUME IndexInv, CloserInv, SweepStarts \/ SweepCloses
    PROVE  IndexInv' /\ CloserInv'
<1>1. UNCHANGED <<stale, closers, closingAll>>
  BY DEF SweepStarts, SweepCloses
<1>2. /\ IndexInv' /\ \A c : Shut(c) => Shut(c)'
      /\ sweep' \in LoopRecord
      /\ sweep'.at = "closing" => Shut(sweep.id)'
  <2>1. CASE SweepStarts
    <3> PICK pass : pass = sweep'
      OBVIOUS
    <3>1. Detaches(stale, {}, pass, Resting) /\ stale \in SUBSET Sockets
      BY <2>1 DEF SweepStarts, CloserInv, Detaches
    <3>2. /\ IndexInv' /\ \A c : Shut(c) => Shut(c)'
          /\ pass \in LoopRecord
          /\ pass.at = "closing" => Shut(pass.id)'
      BY <3>1, DetachesKeep, RestingType
    <3>3. sweep'.at = "closing" => Shut(sweep.id)'
      BY <3>2 DEF Shut
    <3> QED
      BY <3>2, <3>3
  <2>2. CASE SweepCloses /\ sweep.id \in connections
    <3> PICK pass : pass = sweep'
      OBVIOUS
    <3>1. /\ Detaches(sweep.left, {sweep.id}, pass, Resting)
          /\ sweep.left \in SUBSET Sockets /\ Shut(sweep.id)
      BY <2>2 DEF SweepCloses, CloserInv, LoopRecord, Detaches
    <3>2. /\ IndexInv' /\ \A c : Shut(c) => Shut(c)'
          /\ pass \in LoopRecord
          /\ pass.at = "closing" => Shut(pass.id)'
      BY <3>1, DetachesKeep, RestingType
    <3>3. sweep'.at = "closing" => Shut(sweep.id)'
      BY <3>2 DEF Shut
    <3> QED
      BY <3>2, <3>3
  <2>3. CASE SweepCloses /\ sweep.id \notin connections
    <3>1. Change({sweep.id}, {}) /\ sweep' = Resting /\ Shut(sweep.id)
      BY <2>3 DEF SweepCloses, CloserInv
    <3>2. IndexInv' /\ \A c \in Sockets : Shut(c) => Shut(c)'
      BY <3>1, ChangeKeeps
    <3> QED
      BY <3>1, <3>2, RestingType DEF Shut
  <2> QED
    BY <2>1, <2>2, <2>3
<1> QED
  BY <1>1, <1>2 DEF CloserInv, Shut

LEMMA StopKeeps ==
    ASSUME IndexInv, CloserInv, StopManager \/ StopCloses
    PROVE  IndexInv' /\ CloserInv'
<1> DEFINE ended == [Resting EXCEPT !.at = "ended"]
<1>1. UNCHANGED <<stale, closers>>
  BY DEF StopManager, StopCloses
<1>2. sweep' = sweep \/ sweep' = ended
  BY DEF StopManager, StopCloses
<1>3. ended \in LoopRecord /\ ended.at = "ended"
  BY RestingType
<1>4. /\ IndexInv' /\ \A c : Shut(c) => Shut(c)'
      /\ closingAll' \in LoopRecord
      /\ closingAll'.at = "closing" => Shut(closingAll.id)'
  <2>1. CASE StopManager
    <3> PICK pass : pass = closingAll'
      OBVIOUS
    <3>1. Detaches(connections, {}, pass, ended) /\ connections \in SUBSET Sockets
      BY <2>1 DEF StopManager, IndexInv, Detaches
    <3> HIDE DEF ended
    <3>2. /\ IndexInv' /\ \A c : Shut(c) => Shut(c)'
          /\ pass \in LoopRecord
          /\ pass.at = "closing" => Shut(pass.id)'
      BY <1>3, <3>1, DetachesKeep
    <3>3. closingAll'.at = "closing" => Shut(closingAll.id)'
      BY <3>2 DEF Shut
    <3> QED
      BY <3>2, <3>3
  <2>2. CASE StopCloses /\ closingAll.id \in connections
    <3> PICK pass : pass = closingAll'
      OBVIOUS
    <3>1. /\ Detaches(closingAll.left, {closingAll.id}, pass, ended)
          /\ closingAll.left \in SUBSET Sockets /\ Shut(closingAll.id)
      BY <2>2 DEF StopCloses, CloserInv, LoopRecord, Detaches
    <3> HIDE DEF ended
    <3>2. /\ IndexInv' /\ \A c : Shut(c) => Shut(c)'
          /\ pass \in LoopRecord
          /\ pass.at = "closing" => Shut(pass.id)'
      BY <1>3, <3>1, DetachesKeep
    <3>3. closingAll'.at = "closing" => Shut(closingAll.id)'
      BY <3>2 DEF Shut
    <3> QED
      BY <3>2, <3>3
  <2>3. CASE StopCloses /\ closingAll.id \notin connections
    <3>1. /\ Change({closingAll.id}, {}) /\ Shut(closingAll.id)
          /\ closingAll' = [closingAll EXCEPT !.at = "raised"]
      BY <2>3 DEF StopCloses, CloserInv
    <3>2. IndexInv' /\ \A c \in Sockets : Shut(c) => Shut(c)'
      BY <3>1, ChangeKeeps
    <3>3. closingAll' \in LoopRecord /\ closingAll'.at = "raised"
      BY <3>1 DEF CloserInv, LoopRecord
    <3> QED
      BY <3>2, <3>3 DEF Shut
  <2> QED
    BY <2>1, <2>2, <2>3
<1> HIDE DEF ended
<1> QED
  BY <1>1, <1>2, <1>3, <1>4 DEF CloserInv, Shut

LEMMA SocketsInit == WebSocketInit => IndexInv /\ CloserInv
<1> SUFFICES ASSUME WebSocketInit PROVE IndexInv /\ CloserInv
  OBVIOUS
<1>1. IndexInv
  BY DEF WebSocketInit, IndexInv, ConnectionRecord, NoGhosts
<1>2. CloserInv
  BY RestingType DEF WebSocketInit, CloserInv
<1> QED
  BY <1>1, <1>2

LEMMA SocketsStep ==
    IndexInv /\ CloserInv /\ [WebSocketNext]_WebSocketVars => IndexInv' /\ CloserInv'
<1> SUFFICES ASSUME IndexInv, CloserInv, [WebSocketNext]_WebSocketVars
             PROVE  IndexInv' /\ CloserInv'
  OBVIOUS
<1>1. ASSUME UNCHANGED <<IndexVars, closers, sweep, closingAll>>, stale' \subseteq Sockets
      PROVE  IndexInv' /\ CloserInv'
  BY <1>1 DEF IndexVars, IndexInv, CloserInv, Shut, NoGhosts
<1>2. CASE UNCHANGED WebSocketVars
  BY <1>1, <1>2 DEF WebSocketVars, IndexVars, CloserInv
<1>3. ASSUME NEW c \in Sockets,
             \/ \E u \in Users : Connect(c, u)
             \/ \E h \in Channels : Subscribe(c, h) \/ Unsubscribe(c, h)
             \/ BeginDisconnect(c) \/ EndDisconnect(c)
      PROVE  IndexInv' /\ CloserInv'
  BY <1>3, ConnectKeeps, SubscribeKeeps, DisconnectKeeps
<1>4. ASSUME NEW c \in Sockets, StartSend(c) \/ EndSendTo(c) \/ TimePasses(c)
      PROVE  IndexInv' /\ CloserInv'
  <2>1. UNCHANGED <<IndexVars, closers, sweep, closingAll>> /\ stale' \subseteq stale \cup {c}
    BY <1>4 DEF StartSend, EndSendTo, TimePasses
  <2> QED
    BY <1>1, <2>1 DEF CloserInv
<1> QED
  BY <1>2, <1>3, <1>4, SweepKeeps, StopKeeps DEF WebSocketNext

\* No user's list and no channel keeps a connection that is gone or being
\* closed, whichever of its handler, the clean-up and stop closes it, one or
\* several of them at a time (websocket_manager.py:170, 324).
THEOREM IndexesHaveNoGhosts == WebSocketSpec => []NoGhosts
<1>1. IndexInv /\ CloserInv => NoGhosts
  BY DEF IndexInv
<1> QED
  BY SocketsInit, SocketsStep, <1>1, PTL DEF WebSocketSpec

-----------------------------------------------------------------------------
(* The flow control.                                                         *)

FlowRecord == [state : {"flowing", "paused", "blocked"}, pending : Int]
CallRecord == [at : {"idle", "waiting", "woken", "sending"}, flow : 0 .. LastConnection]
DrainRecord == [at : {"idle", "sending"}, flow : 0 .. LastConnection, left : Int]

FlowTypes ==
    /\ made \in Nat /\ registered \in 0 .. LastConnection
    /\ flow \in [Connections -> FlowRecord]
    /\ call \in [Senders -> CallRecord] /\ drain \in [Drainers -> DrainRecord]
    /\ leaked \in [Connections -> Nat]
    /\ \A s \in Senders : call[s].at # "idle" => call[s].flow \in Connections
    /\ \A d \in Drainers : drain[d].at = "sending" => drain[d].flow \in Connections

FlowInv == FlowTypes /\ PauseIsBacked

\* A flow that stands for n sends.
Backs(f, n) ==
    /\ f \in FlowRecord /\ f.pending = n
    /\ f.state = "paused" => n > LowWater

LEMMA UnderWayFinite ==
    ASSUME NEW c
    PROVE  IsFiniteSet(UnderWay(c)) /\ Cardinality(UnderWay(c)) \in Nat
<1>1. IsFiniteSet(Senders \cup Drainers)
  BY FlowCallsAssumption, FS_Union
<1>2. UnderWay(c) \in SUBSET (Senders \cup Drainers)
  BY DEF UnderWay
<1> QED
  BY <1>1, <1>2, FS_Subset, FS_CardinalityType

LEMMA BackedNow ==
    ASSUME FlowInv, NEW c \in Connections
    PROVE  /\ Backs(flow[c], Cardinality(UnderWay(c)) + leaked[c])
           /\ leaked[c] \in Nat /\ Cardinality(UnderWay(c)) \in Nat
BY UnderWayFinite DEF FlowInv, FlowTypes, PauseIsBacked, Backs

LEMMA Incremented ==
    ASSUME NEW n \in Int, NEW f, Backs(f, n)
    PROVE  /\ Backs(Increment(f), n + 1)
           /\ Increment(f).state = "flowing" => f.state = "flowing"
BY WaterAssumption DEF Backs, Increment, FlowRecord

LEMMA Decremented ==
    ASSUME NEW n \in Int, NEW f, Backs(f, n)
    PROVE  Backs(Decrement(f), n - 1)
BY WaterAssumption DEF Backs, Decrement, FlowRecord

Actors == Senders \cup Drainers
Sends(x, c) ==
    IF x \in Senders THEN call[x].at = "sending" /\ call[x].flow = c
                     ELSE drain[x].at = "sending" /\ drain[x].flow = c

LEMMA UnderWayActors ==
    ASSUME NEW c
    PROVE  UnderWay(c) = {x \in Actors : Sends(x, c)}
BY FlowCallsAssumption DEF UnderWay, Actors, Sends

LEMMA UnderWayActorsNext ==
    ASSUME NEW c
    PROVE  UnderWay(c)' = {x \in Actors : Sends(x, c)'}
BY FlowCallsAssumption DEF UnderWay, Actors, Sends

\* The others send what they sent: x makes the difference.
LEMMA CountMoves ==
    ASSUME NEW x \in Actors, NEW c, \A y \in Actors \ {x} : Sends(y, c)' <=> Sends(y, c)
    PROVE  Cardinality(UnderWay(c)') = Cardinality(UnderWay(c))
                  + (IF Sends(x, c)' THEN 1 ELSE 0) - (IF Sends(x, c) THEN 1 ELSE 0)
<1>1. x \in UnderWay(c) <=> Sends(x, c)
  BY UnderWayActors
<1>2. UnderWay(c)' = IF Sends(x, c)' THEN UnderWay(c) \cup {x} ELSE UnderWay(c) \ {x}
  BY UnderWayActors, UnderWayActorsNext
<1>3. IsFiniteSet(UnderWay(c)) /\ Cardinality(UnderWay(c)) \in Nat
  BY UnderWayFinite
<1>4. /\ Cardinality(UnderWay(c) \cup {x}) =
            IF x \in UnderWay(c) THEN Cardinality(UnderWay(c)) ELSE Cardinality(UnderWay(c)) + 1
      /\ Cardinality(UnderWay(c) \ {x}) =
            IF x \in UnderWay(c) THEN Cardinality(UnderWay(c)) - 1 ELSE Cardinality(UnderWay(c))
  BY <1>3, FS_AddElement, FS_RemoveElement
<1> QED
  BY <1>1, <1>2, <1>3, <1>4

\* A step keeps the invariant if it leaves each flow backed and nobody waiting on
\* one that flows.
LEMMA BackedKeeps ==
    ASSUME FlowTypes',
           \A c \in Connections : Backs(flow'[c], Cardinality(UnderWay(c)') + leaked'[c]),
           \A s \in Senders : call'[s].at = "waiting" => flow'[call'[s].flow].state # "flowing"
    PROVE  FlowInv'
<1>1. ASSUME NEW c \in Connections
      PROVE  /\ flow'[c].pending = Cardinality(UnderWay(c)') + leaked'[c]
             /\ flow'[c].state = "paused" => flow'[c].pending > LowWater
  BY DEF Backs
<1> QED
  BY <1>1 DEF FlowInv, PauseIsBacked

\* A step of x that touches the flow c only.
LEMMA ActorSteps ==
    ASSUME FlowInv, FlowTypes', NEW x \in Actors, NEW c \in Connections, NEW f,
           \A y \in Actors \ {x}, k \in Connections : Sends(y, k)' <=> Sends(y, k),
           \A k \in Connections \ {c} : ~Sends(x, k) /\ ~Sends(x, k)',
           flow' = [flow EXCEPT ![c] = f],
           \A k \in Connections \ {c} : leaked'[k] = leaked[k],
           Backs(f, Cardinality(UnderWay(c)) + leaked'[c]
                      + (IF Sends(x, c)' THEN 1 ELSE 0) - (IF Sends(x, c) THEN 1 ELSE 0)),
           \A s \in Senders : call'[s].at = "waiting" => flow'[call'[s].flow].state # "flowing"
    PROVE  FlowInv'
<1>1. \A k \in Connections : flow'[k] = IF k = c THEN f ELSE flow[k]
  BY DEF FlowInv, FlowTypes
<1>2. ASSUME NEW k \in Connections
      PROVE  Backs(flow'[k], Cardinality(UnderWay(k)') + leaked'[k])
  <2>1. Cardinality(UnderWay(k)') = Cardinality(UnderWay(k))
                  + (IF Sends(x, k)' THEN 1 ELSE 0) - (IF Sends(x, k) THEN 1 ELSE 0)
    BY CountMoves
  <2>2. leaked'[k] \in Nat /\ Cardinality(UnderWay(k)) \in Nat
    BY BackedNow DEF FlowTypes
  <2>3. CASE k = c
    BY <1>1, <2>1, <2>2, <2>3
  <2>4. CASE k # c
    <3>1. Cardinality(UnderWay(k)') = Cardinality(UnderWay(k)) /\ leaked'[k] = leaked[k]
      BY <2>1, <2>2, <2>4
    <3> QED
      BY <1>1, <2>4, <3>1, BackedNow
  <2> QED
    BY <2>3, <2>4
<1> QED
  BY <1>2, BackedKeeps

\* A step in which nobody starts or stops to send, and no flow but c changes.
LEMMA NobodySends ==
    ASSUME FlowInv, FlowTypes', NEW c \in Connections, NEW f,
           \A y \in Actors, k \in Connections : Sends(y, k)' <=> Sends(y, k),
           flow' = [flow EXCEPT ![c] = f], UNCHANGED leaked,
           Backs(f, flow[c].pending),
           \A s \in Senders : call'[s].at = "waiting" => flow'[call'[s].flow].state # "flowing"
    PROVE  FlowInv'
<1>1. \A k \in Connections : flow'[k] = IF k = c THEN f ELSE flow[k]
  BY DEF FlowInv, FlowTypes
<1>2. ASSUME NEW k \in Connections
      PROVE  Backs(flow'[k], Cardinality(UnderWay(k)') + leaked'[k])
  <2>1. UnderWay(k)' = UnderWay(k)
    BY UnderWayActors, UnderWayActorsNext
  <2>2. Backs(flow[k], Cardinality(UnderWay(k)) + leaked[k])
    BY BackedNow
  <2> QED
    BY <1>1, <2>1, <2>2 DEF Backs
<1> QED
  BY <1>2, BackedKeeps

LEMMA SendMessageKeeps ==
    ASSUME FlowInv, NEW s \in Senders, SendMessage(s)
    PROVE  FlowInv'
<1> PICK c : c = registered
  OBVIOUS
<1>1. c \in Connections /\ call[s] \in CallRecord /\ call[s].at = "idle" /\ flow[c] \in FlowRecord
  BY DEF SendMessage, FlowInv, FlowTypes, Connections
<1>2. UNCHANGED <<made, registered, drain, leaked>> /\ s \in Actors
  BY DEF SendMessage, Actors
<1>3. Backs(flow[c], Cardinality(UnderWay(c)) + leaked[c])
      /\ leaked[c] \in Nat /\ Cardinality(UnderWay(c)) \in Nat
  BY <1>1, BackedNow
<1>4. ASSUME NEW at \in {"sending", "waiting"},
             call' = [call EXCEPT ![s] = [at |-> at, flow |-> c]],
             \/ at = "sending" /\ flow[c].state = "flowing" /\ flow' = [flow EXCEPT ![c] = Increment(flow[c])]
             \/ at = "waiting" /\ flow[c].state # "flowing" /\ flow' = [flow EXCEPT ![c] = flow[c]]
      PROVE  FlowInv'
  <2>1. /\ call' \in [Senders -> CallRecord] /\ call'[s] = [at |-> at, flow |-> c]
        /\ \A t \in Senders \ {s} : call'[t] = call[t]
    BY <1>1, <1>4 DEF FlowInv, FlowTypes, CallRecord, Connections
  <2>2. Backs(Increment(flow[c]), Cardinality(UnderWay(c)) + leaked[c] + 1)
    BY <1>3, Incremented
  <2>3. flow' \in [Connections -> FlowRecord]
    BY <1>1, <1>4, <2>2 DEF FlowInv, FlowTypes, Backs
  <2>4. FlowTypes'
    BY <1>1, <1>2, <2>1, <2>3 DEF FlowInv, FlowTypes
  <2>5. \A y \in Actors \ {s}, k \in Connections : Sends(y, k)' <=> Sends(y, k)
    BY <1>2, <2>1 DEF Sends
  <2>6. /\ \A k \in Connections : ~Sends(s, k)
        /\ \A k \in Connections : Sends(s, k)' <=> at = "sending" /\ k = c
    BY <1>1, <2>1 DEF Sends
  <2>7. \A k \in Connections \ {c} : flow'[k] = flow[k]
    BY <1>4 DEF FlowInv, FlowTypes
  <2>8. ASSUME NEW t \in Senders, call'[t].at = "waiting"
        PROVE  flow'[call'[t].flow].state # "flowing"
    <3>1. CASE t = s
      BY <1>1, <1>4, <2>1, <2>8, <3>1 DEF FlowInv, FlowTypes
    <3>2. CASE t # s
      <4>1. call'[t] = call[t] /\ call[t].flow \in Connections /\ flow[call[t].flow].state # "flowing"
        BY <2>1, <2>8, <3>2 DEF FlowInv, FlowTypes, PauseIsBacked
      <4> QED
        BY <1>4, <2>7, <4>1 DEF FlowInv, FlowTypes
    <3> QED
      BY <3>1, <3>2
  <2>9. CASE at = "sending"
    <3>1. Sends(s, c)' /\ ~Sends(s, c)
      BY <1>1, <2>6, <2>9
    <3>2. Cardinality(UnderWay(c)) + leaked'[c]
             + (IF Sends(s, c)' THEN 1 ELSE 0) - (IF Sends(s, c) THEN 1 ELSE 0)
           = Cardinality(UnderWay(c)) + leaked[c] + 1
      BY <1>2, <1>3, <3>1
    <3>3. PICK f : f = Increment(flow[c])
      OBVIOUS
    <3>4. /\ flow' = [flow EXCEPT ![c] = f]
          /\ Backs(f, Cardinality(UnderWay(c)) + leaked'[c]
                   + (IF Sends(s, c)' THEN 1 ELSE 0) - (IF Sends(s, c) THEN 1 ELSE 0))
      BY <1>4, <2>2, <2>9, <3>2, <3>3
    <3> QED
      BY <1>1, <1>2, <2>4, <2>5, <2>6, <2>8, <2>9, <3>4, ActorSteps
  <2>10. CASE at = "waiting"
    <3>1. \A y \in Actors, k \in Connections : Sends(y, k)' <=> Sends(y, k)
      BY <2>5, <2>6, <2>10
    <3>2. PICK f : f = flow[c]
      OBVIOUS
    <3>3. Backs(f, flow[c].pending) /\ flow' = [flow EXCEPT ![c] = f]
      BY <1>3, <1>4, <2>10, <3>2 DEF Backs
    <3> QED
      BY <1>1, <1>2, <2>4, <2>8, <3>1, <3>3, NobodySends
  <2> QED
    BY <2>9, <2>10
<1>5. flow = [flow EXCEPT ![c] = flow[c]]
  BY DEF FlowInv, FlowTypes
<1> QED
  BY <1>4, <1>5 DEF SendMessage

\* A send that does not send leaves, or waits no longer.
LEMMA LeavesKeeps ==
    ASSUME FlowInv, NEW s \in Senders, call[s].at # "sending",
           call' = [call EXCEPT ![s].at = "idle"],
           UNCHANGED <<made, registered, flow, drain, leaked>>
    PROVE  FlowInv'
<1>1. /\ call[s] \in CallRecord /\ call' \in [Senders -> CallRecord] /\ call'[s].at = "idle"
      /\ \A t \in Senders \ {s} : call'[t] = call[t]
  BY DEF FlowInv, FlowTypes, CallRecord
<1>2. FlowTypes'
  BY <1>1 DEF FlowInv, FlowTypes
<1>3. \A y \in Actors, k \in Connections : Sends(y, k)' <=> Sends(y, k)
  BY <1>1 DEF Sends
<1>4. \A k \in Connections : UnderWay(k)' = UnderWay(k)
  BY <1>3, UnderWayActors, UnderWayActorsNext
<1>5. \A k \in Connections : Backs(flow'[k], Cardinality(UnderWay(k)') + leaked'[k])
  BY <1>4, BackedNow
<1>6. \A t \in Senders : call'[t].at = "waiting" => flow'[call'[t].flow].state # "flowing"
  BY <1>1 DEF FlowInv, PauseIsBacked
<1> QED
  BY <1>2, <1>5, <1>6, BackedKeeps

LEMMA ProceedKeeps ==
    ASSUME FlowInv, NEW s \in Senders, Proceed(s)
    PROVE  FlowInv'
<1> PICK c, f : c = call[s].flow /\ f = Increment(flow[c])
  OBVIOUS
<1>1. c \in Connections /\ call[s] \in CallRecord /\ call[s].at = "woken" /\ s \in Actors
  BY DEF Proceed, FlowInv, FlowTypes, Actors
<1>2. /\ call' = [call EXCEPT ![s].at = "sending"] /\ flow' = [flow EXCEPT ![c] = f]
      /\ UNCHANGED <<made, registered, drain, leaked>>
  BY DEF Proceed
<1>3. Backs(flow[c], Cardinality(UnderWay(c)) + leaked[c])
      /\ leaked[c] \in Nat /\ Cardinality(UnderWay(c)) \in Nat
  BY <1>1, BackedNow
<1>4. /\ Backs(f, Cardinality(UnderWay(c)) + leaked[c] + 1)
      /\ f.state = "flowing" => flow[c].state = "flowing"
  <2>1. Cardinality(UnderWay(c)) + leaked[c] \in Int
    BY <1>3
  <2>2. /\ Backs(Increment(flow[c]), Cardinality(UnderWay(c)) + leaked[c] + 1)
        /\ Increment(flow[c]).state = "flowing" => flow[c].state = "flowing"
    BY <1>3, <2>1, Incremented
  <2> QED
    BY <2>2
<1>5. /\ call' \in [Senders -> CallRecord] /\ call'[s].at = "sending" /\ call'[s].flow = c
      /\ \A t \in Senders \ {s} : call'[t] = call[t]
  BY <1>1, <1>2 DEF FlowInv, FlowTypes, CallRecord
<1>6. FlowTypes'
  BY <1>1, <1>2, <1>4, <1>5 DEF FlowInv, FlowTypes, Backs
<1>7. \A y \in Actors \ {s}, k \in Connections : Sends(y, k)' <=> Sends(y, k)
  BY <1>2, <1>5 DEF Sends
<1>8. /\ \A k \in Connections : ~Sends(s, k)
      /\ \A k \in Connections : Sends(s, k)' <=> k = c
  BY <1>1, <1>5 DEF Sends
<1>9. ASSUME NEW t \in Senders, call'[t].at = "waiting"
      PROVE  flow'[call'[t].flow].state # "flowing"
  <2>1. call'[t] = call[t] /\ call[t].flow \in Connections /\ flow[call[t].flow].state # "flowing"
    BY <1>5, <1>9 DEF FlowInv, FlowTypes, PauseIsBacked
  <2> QED
    BY <1>1, <1>2, <1>4, <2>1 DEF FlowInv, FlowTypes
<1>10. Sends(s, c)' /\ ~Sends(s, c) /\ leaked'[c] = leaked[c]
  BY <1>1, <1>2, <1>8
<1>11. Backs(f, Cardinality(UnderWay(c)) + leaked'[c]
                  + (IF Sends(s, c)' THEN 1 ELSE 0) - (IF Sends(s, c) THEN 1 ELSE 0))
  <2>1. Cardinality(UnderWay(c)) + leaked'[c]
             + (IF Sends(s, c)' THEN 1 ELSE 0) - (IF Sends(s, c) THEN 1 ELSE 0)
           = Cardinality(UnderWay(c)) + leaked[c] + 1
    BY <1>3, <1>10
  <2> QED
    BY <1>4, <2>1
<1> QED
  BY <1>1, <1>2, <1>6, <1>7, <1>8, <1>9, <1>11, ActorSteps

\* What setting the event does to the calls of send.
LEMMA WokenCalls ==
    ASSUME FlowInv, NEW c \in Connections, NEW resumed \in BOOLEAN, NEW own \in SUBSET Senders,
           NEW at \in CallRecord, call' = Woken(c, resumed, own, at)
    PROVE  /\ call' \in [Senders -> CallRecord]
           /\ \A t \in own : call'[t] = at
           /\ \A t \in Senders \ own :
                 \/ call'[t] = call[t] /\ (resumed /\ call[t].at = "waiting" => call[t].flow # c)
                 \/ /\ call'[t].at = "woken" /\ call[t].at = "waiting"
                    /\ call'[t].flow = call[t].flow
<1>1. \A t \in Senders : call[t] \in CallRecord /\ call'[t] =
            IF t \in own THEN at
            ELSE IF resumed /\ call[t].at = "waiting" /\ call[t].flow = c
            THEN [call[t] EXCEPT !.at = "woken"] ELSE call[t]
  BY DEF Woken, FlowInv, FlowTypes
<1>2. ASSUME NEW t \in Senders \ own
      PROVE  /\ call'[t] \in CallRecord
             /\ \/ call'[t] = call[t] /\ (resumed /\ call[t].at = "waiting" => call[t].flow # c)
                \/ /\ call'[t].at = "woken" /\ call[t].at = "waiting"
                   /\ call'[t].flow = call[t].flow
  <2>1. CASE resumed /\ call[t].at = "waiting" /\ call[t].flow = c
    BY <1>1, <2>1 DEF CallRecord
  <2>2. CASE ~(resumed /\ call[t].at = "waiting" /\ call[t].flow = c)
    BY <1>1, <2>2
  <2> QED
    BY <2>1, <2>2
<1>3. call' = [t \in Senders |-> call'[t]]
  BY DEF Woken
<1>4. \A t \in Senders : call'[t] \in CallRecord
  BY <1>1, <1>2
<1> QED
  BY <1>1, <1>2, <1>3, <1>4

\* Nobody waits on a flow that flows, when those who waited on c are woken as it
\* comes to flow.
LEMMA WokenWait ==
    ASSUME FlowInv, NEW c \in Connections, NEW resumed \in BOOLEAN, NEW own \in SUBSET Senders,
           NEW at \in CallRecord, at.at # "waiting", call' = Woken(c, resumed, own, at),
           NEW f, flow' = [flow EXCEPT ![c] = f],
           f.state = "flowing" /\ flow[c].state # "flowing" => resumed
    PROVE  \A s \in Senders : call'[s].at = "waiting" => flow'[call'[s].flow].state # "flowing"
<1> SUFFICES ASSUME NEW s \in Senders, call'[s].at = "waiting"
             PROVE  flow'[call'[s].flow].state # "flowing"
  OBVIOUS
<1>0. /\ \A t \in own : call'[t] = at
      /\ \A t \in Senders \ own :
            \/ call'[t] = call[t] /\ (resumed /\ call[t].at = "waiting" => call[t].flow # c)
            \/ /\ call'[t].at = "woken" /\ call[t].at = "waiting"
               /\ call'[t].flow = call[t].flow
  BY WokenCalls
<1>1. s \notin own /\ call'[s] = call[s] /\ (resumed => call[s].flow # c)
  BY <1>0
<1>2. call[s].flow \in Connections /\ flow[call[s].flow].state # "flowing"
  BY <1>1 DEF FlowInv, FlowTypes, PauseIsBacked
<1>3. \A k \in Connections : flow'[k] = IF k = c THEN f ELSE flow[k]
  BY DEF FlowInv, FlowTypes
<1> QED
  BY <1>1, <1>2, <1>3

LEMMA EndSendKeeps ==
    ASSUME FlowInv, NEW s \in Senders, EndSend(s)
    PROVE  FlowInv'
<1> PICK c, f, at : /\ c = call[s].flow /\ f = Decrement(flow[c])
                    /\ at = [call[s] EXCEPT !.at = "idle"]
  OBVIOUS
<1> PICK resumed \in BOOLEAN : resumed = Resumed(c, f)
  BY DEF Resumed
<1>1. c \in Connections /\ call[s] \in CallRecord /\ call[s].at = "sending" /\ s \in Actors
  BY DEF EndSend, FlowInv, FlowTypes, Actors
<1>2. /\ call' = Woken(c, resumed, {s}, at) /\ flow' = [flow EXCEPT ![c] = f]
      /\ UNCHANGED <<made, registered, drain, leaked>>
  BY DEF EndSend
<1>3. Backs(flow[c], Cardinality(UnderWay(c)) + leaked[c])
      /\ leaked[c] \in Nat /\ Cardinality(UnderWay(c)) \in Nat
  BY <1>1, BackedNow
<1>4. Backs(f, Cardinality(UnderWay(c)) + leaked[c] - 1)
  <2>1. Cardinality(UnderWay(c)) + leaked[c] \in Int
    BY <1>3
  <2>2. Backs(Decrement(flow[c]), Cardinality(UnderWay(c)) + leaked[c] - 1)
    BY <1>3, <2>1, Decremented
  <2> QED
    BY <2>2
<1>5. at \in CallRecord /\ at.at = "idle" /\ at.flow = c
  BY <1>1 DEF CallRecord
<1>6. /\ call' \in [Senders -> CallRecord] /\ call'[s] = at
      /\ \A t \in Senders \ {s} :
            \/ call'[t] = call[t]
            \/ call'[t].at = "woken" /\ call[t].at = "waiting" /\ call'[t].flow = call[t].flow
  <2>1. PICK own \in SUBSET Senders : own = {s}
    OBVIOUS
  <2>2. call' = Woken(c, resumed, own, at)
    BY <1>2, <2>1
  <2>3. /\ call' \in [Senders -> CallRecord]
        /\ \A t \in own : call'[t] = at
        /\ \A t \in Senders \ own :
              \/ call'[t] = call[t] /\ (resumed /\ call[t].at = "waiting" => call[t].flow # c)
              \/ /\ call'[t].at = "woken" /\ call[t].at = "waiting"
                 /\ call'[t].flow = call[t].flow
    BY <1>1, <1>5, <2>2, WokenCalls
  <2> QED
    BY <2>1, <2>3
<1>7. FlowTypes'
  <2>1. flow' \in [Connections -> FlowRecord]
    BY <1>2, <1>4 DEF FlowInv, FlowTypes, Backs
  <2>2. \A t \in Senders : call'[t].at # "idle" => call'[t].flow \in Connections
    BY <1>1, <1>5, <1>6 DEF FlowInv, FlowTypes
  <2> QED
    BY <1>2, <1>6, <2>1, <2>2 DEF FlowInv, FlowTypes
<1>8. \A y \in Actors \ {s}, k \in Connections : Sends(y, k)' <=> Sends(y, k)
  <2> SUFFICES ASSUME NEW y \in Actors \ {s}, NEW k \in Connections
               PROVE  Sends(y, k)' <=> Sends(y, k)
    OBVIOUS
  <2>1. CASE y \in Senders
    <3>1. (call'[y].at = "sending" /\ call'[y].flow = k) <=> (call[y].at = "sending" /\ call[y].flow = k)
      BY <1>6, <2>1
    <3> QED
      BY <2>1, <3>1 DEF Sends
  <2>2. CASE y \notin Senders
    BY <1>2, <2>2 DEF Sends
  <2> QED
    BY <2>1, <2>2
<1>9. \A k \in Connections : ~Sends(s, k)' /\ (Sends(s, k) <=> k = c)
  BY <1>1, <1>5, <1>6 DEF Sends
<1>10. \A t \in Senders : call'[t].at = "waiting" => flow'[call'[t].flow].state # "flowing"
  <2>1. f.state = "flowing" /\ flow[c].state # "flowing" => resumed
    BY DEF Resumed
  <2> QED
    BY <1>1, <1>2, <1>5, <2>1, WokenWait
<1>11. Backs(f, Cardinality(UnderWay(c)) + leaked'[c]
                  + (IF Sends(s, c)' THEN 1 ELSE 0) - (IF Sends(s, c) THEN 1 ELSE 0))
  <2>1. Cardinality(UnderWay(c)) + leaked'[c]
             + (IF Sends(s, c)' THEN 1 ELSE 0) - (IF Sends(s, c) THEN 1 ELSE 0)
           = Cardinality(UnderWay(c)) + leaked[c] - 1
    BY <1>1, <1>2, <1>3, <1>9
  <2> QED
    BY <1>4, <2>1
<1> QED
  BY <1>1, <1>2, <1>7, <1>8, <1>9, <1>10, <1>11, ActorSteps

LEMMA CancelSendKeeps ==
    ASSUME FlowInv, NEW s \in Senders, CancelSend(s)
    PROVE  FlowInv'
<1>1. CASE call[s].at # "sending"
  BY <1>1, LeavesKeeps DEF CancelSend
<1>2. CASE call[s].at = "sending"
  <2> PICK c, f : c = call[s].flow /\ f = flow[c]
    OBVIOUS
  <2>1. c \in Connections /\ call[s] \in CallRecord /\ s \in Actors
    BY <1>2 DEF FlowInv, FlowTypes, Actors
  <2>2. /\ call' = [call EXCEPT ![s].at = "idle"] /\ leaked' = [leaked EXCEPT ![c] = @ + 1]
        /\ UNCHANGED <<made, registered, drain, flow>>
    BY <1>2 DEF CancelSend
  <2>3. Backs(flow[c], Cardinality(UnderWay(c)) + leaked[c])
        /\ leaked[c] \in Nat /\ Cardinality(UnderWay(c)) \in Nat
    BY <2>1, BackedNow
  <2>4. flow' = [flow EXCEPT ![c] = f]
    BY <2>2 DEF FlowInv, FlowTypes
  <2>5. /\ leaked' \in [Connections -> Nat] /\ leaked'[c] = leaked[c] + 1
        /\ \A k \in Connections \ {c} : leaked'[k] = leaked[k]
    BY <2>1, <2>2, <2>3 DEF FlowInv, FlowTypes
  <2>6. /\ call' \in [Senders -> CallRecord] /\ call'[s].at = "idle"
        /\ \A t \in Senders \ {s} : call'[t] = call[t]
    BY <2>1, <2>2 DEF FlowInv, FlowTypes, CallRecord
  <2>7. FlowTypes'
    BY <2>2, <2>5, <2>6 DEF FlowInv, FlowTypes
  <2>8. \A y \in Actors \ {s}, k \in Connections : Sends(y, k)' <=> Sends(y, k)
    BY <2>2, <2>6 DEF Sends
  <2>9. \A k \in Connections : ~Sends(s, k)' /\ (Sends(s, k) <=> k = c)
    BY <1>2, <2>6 DEF Sends
  <2>10. \A t \in Senders : call'[t].at = "waiting" => flow'[call'[t].flow].state # "flowing"
    BY <2>2, <2>6 DEF FlowInv, PauseIsBacked
  <2>11. Backs(f, Cardinality(UnderWay(c)) + leaked'[c]
                    + (IF Sends(s, c)' THEN 1 ELSE 0) - (IF Sends(s, c) THEN 1 ELSE 0))
    <3>1. Cardinality(UnderWay(c)) + leaked'[c]
               + (IF Sends(s, c)' THEN 1 ELSE 0) - (IF Sends(s, c) THEN 1 ELSE 0)
             = Cardinality(UnderWay(c)) + leaked[c]
      BY <2>1, <2>3, <2>5, <2>9
    <3> QED
      BY <2>3, <3>1
  <2> QED
    BY <2>1, <2>4, <2>5, <2>7, <2>8, <2>9, <2>10, <2>11, ActorSteps
<1> QED
  BY <1>1, <1>2

\* Being woken is not to send.
LEMMA WokenSends ==
    ASSUME UNCHANGED drain,
           \A t \in Senders :
              \/ call'[t] = call[t]
              \/ call'[t].at = "woken" /\ call[t].at = "waiting" /\ call'[t].flow = call[t].flow
    PROVE  \A y \in Actors, k \in Connections : Sends(y, k)' <=> Sends(y, k)
<1> SUFFICES ASSUME NEW y \in Actors, NEW k \in Connections
             PROVE  Sends(y, k)' <=> Sends(y, k)
  OBVIOUS
<1>1. CASE y \in Senders
  <2>1. (call'[y].at = "sending" /\ call'[y].flow = k) <=> (call[y].at = "sending" /\ call[y].flow = k)
    BY <1>1
  <2> QED
    BY <1>1, <2>1 DEF Sends
<1>2. CASE y \notin Senders
  BY <1>2 DEF Sends
<1> QED
  BY <1>1, <1>2

LEMMA ForceResumeKeeps ==
    ASSUME FlowInv, ForceResume
    PROVE  FlowInv'
<1> PICK c, f : c = registered /\ f = [flow[c] EXCEPT !.state = "flowing"]
  OBVIOUS
<1>1. c \in Connections /\ UNCHANGED <<made, registered, drain, leaked>>
  BY DEF ForceResume, FlowInv, FlowTypes, Connections
<1>2. flow' = [flow EXCEPT ![c] = f] /\ flow[c] \in FlowRecord
  BY <1>1 DEF ForceResume, FlowInv, FlowTypes
<1>3. Backs(f, flow[c].pending) /\ f \in FlowRecord
  BY <1>2 DEF Backs, FlowRecord
<1>4. NotCalled \in CallRecord /\ NotCalled.at # "waiting"
  BY FlowCallsAssumption DEF NotCalled, CallRecord
<1>5. PICK own \in SUBSET Senders, at \in CallRecord : own = {} /\ at = NotCalled
  BY <1>4
<1>6. PICK resumed \in BOOLEAN : /\ resumed <=> flow[c].state # "flowing"
                                 /\ call' = Woken(c, resumed, own, at)
  BY <1>5 DEF ForceResume
<1>7. /\ call' \in [Senders -> CallRecord]
      /\ \A t \in Senders \ own :
            \/ call'[t] = call[t] /\ (resumed /\ call[t].at = "waiting" => call[t].flow # c)
            \/ /\ call'[t].at = "woken" /\ call[t].at = "waiting"
               /\ call'[t].flow = call[t].flow
  BY <1>1, <1>6, WokenCalls
<1>8. \A t \in Senders :
            \/ call'[t] = call[t]
            \/ call'[t].at = "woken" /\ call[t].at = "waiting" /\ call'[t].flow = call[t].flow
  BY <1>5, <1>7
<1>9. FlowTypes'
  <2>1. flow' \in [Connections -> FlowRecord]
    BY <1>2, <1>3 DEF FlowInv, FlowTypes
  <2>2. \A t \in Senders : call'[t].at # "idle" => call'[t].flow \in Connections
    BY <1>8 DEF FlowInv, FlowTypes
  <2> QED
    BY <1>1, <1>7, <2>1, <2>2 DEF FlowInv, FlowTypes
<1>10. \A y \in Actors, k \in Connections : Sends(y, k)' <=> Sends(y, k)
  BY <1>1, <1>8, WokenSends
<1>11. \A t \in Senders : call'[t].at = "waiting" => flow'[call'[t].flow].state # "flowing"
  BY <1>1, <1>2, <1>4, <1>5, <1>6, WokenWait
<1> QED
  BY <1>1, <1>2, <1>3, <1>9, <1>10, <1>11, NobodySends

LEMMA ForceBlockKeeps ==
    ASSUME FlowInv, ForceBlock
    PROVE  FlowInv'
<1> PICK c, f : c = registered /\ f = [flow[c] EXCEPT !.state = "blocked"]
  OBVIOUS
<1>1. c \in Connections /\ UNCHANGED <<made, registered, call, drain, leaked>>
  BY DEF ForceBlock, FlowInv, FlowTypes, Connections
<1>2. flow' = [flow EXCEPT ![c] = f] /\ flow[c] \in FlowRecord
  BY <1>1 DEF ForceBlock, FlowInv, FlowTypes
<1>3. Backs(f, flow[c].pending) /\ f \in FlowRecord /\ f.state = "blocked"
  BY <1>2 DEF Backs, FlowRecord
<1>4. FlowTypes'
  BY <1>1, <1>2, <1>3 DEF FlowInv, FlowTypes
<1>5. \A y \in Actors, k \in Connections : Sends(y, k)' <=> Sends(y, k)
  BY <1>1 DEF Sends
<1>6. \A t \in Senders : call'[t].at = "waiting" => flow'[call'[t].flow].state # "flowing"
  BY <1>1, <1>2, <1>3 DEF FlowInv, FlowTypes, PauseIsBacked
<1> QED
  BY <1>1, <1>2, <1>3, <1>4, <1>5, <1>6, NobodySends

-----------------------------------------------------------------------------
(* Draining.                                                                 *)

\* A drain that begins to send, goes on with the next message, or ends: n sends
\* stand on its flow besides its own.
LEMMA TakeNextKeeps ==
    ASSUME FlowInv, NEW d \in Drainers, NEW c \in Connections, NEW f, NEW q, NEW left \in Int,
           Backs(f, Cardinality(UnderWay(c)) + leaked[c] - (IF Sends(d, c) THEN 1 ELSE 0)),
           \A k \in Connections \ {c} : ~Sends(d, k),
           TakeNext(d, c, f, q, left), UNCHANGED <<made, registered, leaked>>,
           call' \in [Senders -> CallRecord],
           \A t \in Senders :
              \/ call'[t] = call[t]
              \/ call'[t].at = "woken" /\ call[t].at = "waiting" /\ call'[t].flow = call[t].flow,
           \A t \in Senders : call'[t].at = "waiting" =>
              /\ call'[t].flow \in Connections
              /\ IF call'[t].flow = c THEN f.state # "flowing" ELSE flow[call'[t].flow].state # "flowing"
    PROVE  FlowInv'
<1>1. Cardinality(UnderWay(c)) \in Nat /\ leaked[c] \in Nat /\ d \in Actors /\ d \notin Senders
  BY BackedNow, FlowCallsAssumption DEF Actors
<1>2. ASSUME NEW g, NEW r \in DrainRecord, drain' = [drain EXCEPT ![d] = r],
             flow' = [flow EXCEPT ![c] = g],
             r.at = "sending" => r.flow = c,
             g.state = "flowing" => f.state = "flowing",
             Backs(g, Cardinality(UnderWay(c)) + leaked[c] - (IF Sends(d, c) THEN 1 ELSE 0)
                         + (IF r.at = "sending" THEN 1 ELSE 0))
      PROVE  FlowInv'
  <2>1. /\ drain' \in [Drainers -> DrainRecord] /\ drain'[d] = r
        /\ \A e \in Drainers \ {d} : drain'[e] = drain[e]
    BY <1>2 DEF FlowInv, FlowTypes
  <2>2. /\ flow' \in [Connections -> FlowRecord]
        /\ \A k \in Connections : flow'[k] = IF k = c THEN g ELSE flow[k]
    BY <1>2 DEF FlowInv, FlowTypes, Backs
  <2>3. FlowTypes'
    <3>1. \A t \in Senders : call'[t].at # "idle" => call'[t].flow \in Connections
      BY DEF FlowInv, FlowTypes
    <3>2. \A e \in Drainers : drain'[e].at = "sending" => drain'[e].flow \in Connections
      BY <1>2, <2>1 DEF FlowInv, FlowTypes
    <3> QED
      BY <2>1, <2>2, <3>1, <3>2 DEF FlowInv, FlowTypes
  <2>4. ASSUME NEW y \in Actors \ {d}, NEW k \in Connections
        PROVE  Sends(y, k)' <=> Sends(y, k)
    <3>1. CASE y \in Senders
      <4>1. (call'[y].at = "sending" /\ call'[y].flow = k) <=> (call[y].at = "sending" /\ call[y].flow = k)
        BY <3>1
      <4> QED
        BY <3>1, <4>1 DEF Sends
    <3>2. CASE y \notin Senders
      BY <2>1, <3>2 DEF Sends, Actors
    <3> QED
      BY <3>1, <3>2
  <2>5. \A k \in Connections : Sends(d, k)' <=> r.at = "sending" /\ k = c
    BY <1>1, <1>2, <2>1 DEF Sends
  <2>6. \A k \in Connections \ {c} : ~Sends(d, k) /\ ~Sends(d, k)'
    BY <2>5
  <2>7. Backs(g, Cardinality(UnderWay(c)) + leaked'[c]
                    + (IF Sends(d, c)' THEN 1 ELSE 0) - (IF Sends(d, c) THEN 1 ELSE 0))
    <3>1. Cardinality(UnderWay(c)) + leaked'[c]
               + (IF Sends(d, c)' THEN 1 ELSE 0) - (IF Sends(d, c) THEN 1 ELSE 0)
             = Cardinality(UnderWay(c)) + leaked[c] - (IF Sends(d, c) THEN 1 ELSE 0)
                         + (IF r.at = "sending" THEN 1 ELSE 0)
      BY <1>1, <2>5
    <3> QED
      BY <1>2, <3>1
  <2>8. \A t \in Senders : call'[t].at = "waiting" => flow'[call'[t].flow].state # "flowing"
    BY <1>2, <2>2
  <2> QED
    BY <1>1, <1>2, <2>3, <2>4, <2>6, <2>7, <2>8, ActorSteps
<1>3. CASE /\ flow' = [flow EXCEPT ![c] = Increment(f)]
           /\ drain' = [drain EXCEPT ![d] = [at |-> "sending", flow |-> c, left |-> left - 1]]
  <2>1. [at |-> "sending", flow |-> c, left |-> left - 1] \in DrainRecord
    BY FlowCallsAssumption DEF DrainRecord, Connections
  <2>2. Cardinality(UnderWay(c)) + leaked[c] - (IF Sends(d, c) THEN 1 ELSE 0) \in Int
    BY <1>1
  <2>3. /\ Backs(Increment(f), Cardinality(UnderWay(c)) + leaked[c]
                                  - (IF Sends(d, c) THEN 1 ELSE 0) + 1)
        /\ Increment(f).state = "flowing" => f.state = "flowing"
    BY <2>2, Incremented
  <2> PICK g : g = Increment(f)
    OBVIOUS
  <2>4. PICK r \in DrainRecord : r = [at |-> "sending", flow |-> c, left |-> left - 1]
    BY <2>1
  <2>5. /\ drain' = [drain EXCEPT ![d] = r] /\ flow' = [flow EXCEPT ![c] = g]
        /\ r.at = "sending" /\ r.flow = c
    BY <1>3, <2>4
  <2> QED
    BY <1>2, <2>3, <2>4, <2>5
<1>4. CASE /\ flow' = [flow EXCEPT ![c] = f]
           /\ drain' = [drain EXCEPT ![d] = [at |-> "idle", flow |-> 0, left |-> 0]]
  <2>1. [at |-> "idle", flow |-> 0, left |-> 0] \in DrainRecord
    BY FlowCallsAssumption DEF DrainRecord
  <2>2. PICK r \in DrainRecord : r = [at |-> "idle", flow |-> 0, left |-> 0]
    BY <2>1
  <2>3. drain' = [drain EXCEPT ![d] = r] /\ r.at = "idle"
    BY <1>4, <2>2
  <2>4. Backs(f, Cardinality(UnderWay(c)) + leaked[c] - (IF Sends(d, c) THEN 1 ELSE 0)
                    + (IF r.at = "sending" THEN 1 ELSE 0))
    <3>1. Cardinality(UnderWay(c)) + leaked[c] - (IF Sends(d, c) THEN 1 ELSE 0)
                    + (IF r.at = "sending" THEN 1 ELSE 0)
            = Cardinality(UnderWay(c)) + leaked[c] - (IF Sends(d, c) THEN 1 ELSE 0)
      BY <1>1, <2>3
    <3> QED
      BY <3>1
  <2> QED
    BY <1>2, <1>4, <2>3, <2>4
<1> QED
  BY <1>3, <1>4 DEF TakeNext

LEMMA DrainQueueKeeps ==
    ASSUME FlowInv, NEW d \in Drainers, DrainQueue(d)
    PROVE  FlowInv'
<1> PICK c, f : c = registered /\ f = flow[c]
  OBVIOUS
<1>1. c \in Connections /\ d \notin Senders /\ drain[d].at = "idle"
  BY FlowCallsAssumption DEF DrainQueue, FlowInv, FlowTypes, Connections
<1>2. \A k \in Connections : ~Sends(d, k)
  BY <1>1 DEF Sends
<1>3. Backs(f, Cardinality(UnderWay(c)) + leaked[c] - (IF Sends(d, c) THEN 1 ELSE 0))
  <2>1. /\ Backs(f, Cardinality(UnderWay(c)) + leaked[c])
        /\ leaked[c] \in Nat /\ Cardinality(UnderWay(c)) \in Nat
    BY <1>1, BackedNow
  <2>2. Cardinality(UnderWay(c)) + leaked[c] - (IF Sends(d, c) THEN 1 ELSE 0)
          = Cardinality(UnderWay(c)) + leaked[c]
    BY <1>1, <1>2, <2>1
  <2> QED
    BY <2>1, <2>2
<1>4. TakeNext(d, c, f, queued, DrainBatch) /\ UNCHANGED <<made, registered, call, leaked>>
  BY DEF DrainQueue
<1>5. DrainBatch \in Int
  BY FlowCallsAssumption
<1>6. \A t \in Senders : call'[t].at = "waiting" =>
         /\ call'[t].flow \in Connections
         /\ IF call'[t].flow = c THEN f.state # "flowing" ELSE flow[call'[t].flow].state # "flowing"
  BY <1>4 DEF FlowInv, FlowTypes, PauseIsBacked
<1>7. call' \in [Senders -> CallRecord] /\ \A t \in Senders : call'[t] = call[t]
  BY <1>4 DEF FlowInv, FlowTypes
<1> QED
  BY <1>1, <1>2, <1>3, <1>4, <1>5, <1>6, <1>7, TakeNextKeeps

LEMMA DrainEndsKeeps ==
    ASSUME FlowInv, NEW d \in Drainers, DrainEnds(d)
    PROVE  FlowInv'
<1> PICK c, f : c = drain[d].flow /\ f = Decrement(flow[c])
  OBVIOUS
<1>1. /\ c \in Connections /\ d \notin Senders /\ drain[d].at = "sending"
      /\ drain[d].left \in Int
  BY FlowCallsAssumption DEF DrainEnds, FlowInv, FlowTypes, DrainRecord
<1>2. \A k \in Connections : Sends(d, k) <=> k = c
  BY <1>1 DEF Sends
<1>3. Backs(f, Cardinality(UnderWay(c)) + leaked[c] - (IF Sends(d, c) THEN 1 ELSE 0))
  <2>1. /\ Backs(flow[c], Cardinality(UnderWay(c)) + leaked[c])
        /\ leaked[c] \in Nat /\ Cardinality(UnderWay(c)) \in Nat
    BY <1>1, BackedNow
  <2> PICK n \in Int : n = Cardinality(UnderWay(c)) + leaked[c]
    BY <2>1
  <2>2. Backs(Decrement(flow[c]), n - 1)
    BY <2>1, Decremented
  <2>3. Cardinality(UnderWay(c)) + leaked[c] - (IF Sends(d, c) THEN 1 ELSE 0)
          = n - 1
    BY <1>1, <1>2, <2>1
  <2> QED
    BY <2>2, <2>3
<1>4. NotCalled \in CallRecord /\ NotCalled.at # "waiting"
  BY FlowCallsAssumption DEF NotCalled, CallRecord
<1>5. PICK own \in SUBSET Senders, at \in CallRecord : own = {} /\ at = NotCalled
  BY <1>4
<1>6. PICK resumed \in BOOLEAN : /\ resumed <=> flow[c].state # "flowing" /\ f.state = "flowing"
                                 /\ call' = Woken(c, resumed, own, at)
  <2>1. call' = Woken(c, Resumed(c, f), {}, NotCalled)
    BY DEF DrainEnds
  <2>2. Resumed(c, f) \in BOOLEAN
        /\ (Resumed(c, f) <=> flow[c].state # "flowing" /\ f.state = "flowing")
    BY DEF Resumed
  <2> QED
    BY <1>5, <2>1, <2>2
<1>7. /\ call' \in [Senders -> CallRecord]
      /\ \A t \in Senders \ own :
            \/ call'[t] = call[t] /\ (resumed /\ call[t].at = "waiting" => call[t].flow # c)
            \/ /\ call'[t].at = "woken" /\ call[t].at = "waiting"
               /\ call'[t].flow = call[t].flow
  BY <1>1, <1>6, WokenCalls
<1>8. \A t \in Senders :
            \/ call'[t] = call[t]
            \/ call'[t].at = "woken" /\ call[t].at = "waiting" /\ call'[t].flow = call[t].flow
  BY <1>5, <1>7
<1>9. ASSUME NEW t \in Senders, call'[t].at = "waiting"
      PROVE  /\ call'[t].flow \in Connections
             /\ IF call'[t].flow = c THEN f.state # "flowing" ELSE flow[call'[t].flow].state # "flowing"
  <2>1. call'[t] = call[t] /\ (resumed => call[t].flow # c)
    BY <1>5, <1>7, <1>9
  <2>2. call[t].flow \in Connections /\ flow[call[t].flow].state # "flowing"
    BY <1>9, <2>1 DEF FlowInv, FlowTypes, PauseIsBacked
  <2> QED
    BY <1>6, <2>1, <2>2
<1>10. PICK left \in Int : \E q : TakeNext(d, c, f, q, left)
  <2>1. \/ TakeNext(d, c, f, queued, drain[d].left)
        \/ TakeNext(d, c, f, Put(queued, registered), 0)
        \/ TakeNext(d, c, f, queued, 0)
    BY DEF DrainEnds
  <2> QED
    BY <1>1, <2>1
<1>11. UNCHANGED <<made, registered, leaked>>
  BY DEF DrainEnds
<1> QED
  BY <1>1, <1>2, <1>3, <1>7, <1>8, <1>9, <1>10, <1>11, TakeNextKeeps

LEMMA CancelDrainKeeps ==
    ASSUME FlowInv, NEW d \in Drainers, CancelDrain(d)
    PROVE  FlowInv'
<1> PICK c, f, r : /\ c = drain[d].flow /\ f = flow[c]
                   /\ r = [at |-> "idle", flow |-> 0, left |-> 0]
  OBVIOUS
<1>1. /\ c \in Connections /\ d \in Actors /\ d \notin Senders /\ drain[d].at = "sending"
  BY FlowCallsAssumption DEF CancelDrain, FlowInv, FlowTypes, Actors
<1>2. /\ leaked' = [leaked EXCEPT ![c] = @ + 1] /\ drain' = [drain EXCEPT ![d] = r]
      /\ UNCHANGED <<made, registered, flow, call>>
  BY DEF CancelDrain
<1>3. Backs(flow[c], Cardinality(UnderWay(c)) + leaked[c])
      /\ leaked[c] \in Nat /\ Cardinality(UnderWay(c)) \in Nat
  BY <1>1, BackedNow
<1>4. flow' = [flow EXCEPT ![c] = f]
  BY <1>2 DEF FlowInv, FlowTypes
<1>5. /\ leaked' \in [Connections -> Nat] /\ leaked'[c] = leaked[c] + 1
      /\ \A k \in Connections \ {c} : leaked'[k] = leaked[k]
  BY <1>1, <1>2, <1>3 DEF FlowInv, FlowTypes
<1>6. r \in DrainRecord /\ r.at = "idle"
  BY FlowCallsAssumption DEF DrainRecord
<1>7. /\ drain' \in [Drainers -> DrainRecord] /\ drain'[d].at = "idle"
      /\ \A e \in Drainers \ {d} : drain'[e] = drain[e]
  BY <1>2, <1>6 DEF FlowInv, FlowTypes
<1>8. FlowTypes'
  BY <1>2, <1>5, <1>7 DEF FlowInv, FlowTypes
<1>9. \A y \in Actors \ {d}, k \in Connections : Sends(y, k)' <=> Sends(y, k)
  BY <1>2, <1>7 DEF Sends, Actors
<1>10. \A k \in Connections : ~Sends(d, k)' /\ (Sends(d, k) <=> k = c)
  BY <1>1, <1>7 DEF Sends
<1>11. \A t \in Senders : call'[t].at = "waiting" => flow'[call'[t].flow].state # "flowing"
  BY <1>2 DEF FlowInv, PauseIsBacked
<1>12. Backs(f, Cardinality(UnderWay(c)) + leaked'[c]
                    + (IF Sends(d, c)' THEN 1 ELSE 0) - (IF Sends(d, c) THEN 1 ELSE 0))
  <2>1. Cardinality(UnderWay(c)) + leaked'[c]
             + (IF Sends(d, c)' THEN 1 ELSE 0) - (IF Sends(d, c) THEN 1 ELSE 0)
           = Cardinality(UnderWay(c)) + leaked[c]
    BY <1>1, <1>3, <1>5, <1>10
  <2> QED
    BY <1>3, <2>1
<1> QED
  BY <1>1, <1>4, <1>5, <1>8, <1>9, <1>10, <1>11, <1>12, ActorSteps

-----------------------------------------------------------------------------
(* The theorem.                                                              *)

LEMMA FlowInvInit == FlowInit => FlowInv
<1> SUFFICES ASSUME FlowInit PROVE FlowInv
  OBVIOUS
<1>1. FlowTypes
  BY FlowCallsAssumption DEF FlowInit, FlowTypes, FlowRecord, CallRecord, DrainRecord, NotCalled
<1>2. ASSUME NEW c \in Connections
      PROVE  /\ flow[c].pending = Cardinality(UnderWay(c)) + leaked[c]
             /\ flow[c].state = "flowing"
  <2>1. UnderWay(c) = {}
    BY DEF FlowInit, UnderWay, NotCalled
  <2> QED
    BY <1>2, <2>1, FS_EmptySet DEF FlowInit
<1>3. \A s \in Senders : call[s].at = "idle"
  BY DEF FlowInit, NotCalled
<1> QED
  BY <1>1, <1>2, <1>3 DEF FlowInv, PauseIsBacked

LEMMA FlowStep == FlowInv /\ [FlowNext]_FlowVars => FlowInv'
<1> SUFFICES ASSUME FlowInv, [FlowNext]_FlowVars PROVE FlowInv'
  OBVIOUS
<1>1. ASSUME UNCHANGED <<flow, call, drain, leaked>>,
             made' \in Nat, registered' \in 0 .. LastConnection
      PROVE  FlowInv'
  BY <1>1 DEF FlowInv, FlowTypes, PauseIsBacked, UnderWay
<1>2. CASE UNCHANGED FlowVars \/ QueueMessage
  BY <1>1, <1>2 DEF FlowVars, QueueMessage, FlowInv, FlowTypes
<1>3. CASE Register \/ Unregister
  <2>1. UNCHANGED <<flow, call, drain, leaked>>
    BY <1>3 DEF Register, Unregister
  <2>2. made' \in Nat /\ registered' \in 0 .. LastConnection
    BY <1>3, FlowCallsAssumption DEF Register, Unregister, FlowInv, FlowTypes
  <2> QED
    BY <1>1, <2>1, <2>2
<1>4. CASE ForceResume \/ ForceBlock
  BY <1>4, ForceResumeKeeps, ForceBlockKeeps
<1>5. ASSUME NEW s \in Senders,
             SendMessage(s) \/ TimeOutSend(s) \/ Proceed(s) \/ EndSend(s) \/ CancelSend(s)
      PROVE  FlowInv'
  <2>1. CASE TimeOutSend(s)
    BY <2>1, LeavesKeeps DEF TimeOutSend
  <2> QED
    BY <1>5, <2>1, SendMessageKeeps, ProceedKeeps, EndSendKeeps, CancelSendKeeps
<1>6. ASSUME NEW d \in Drainers, DrainQueue(d) \/ DrainEnds(d) \/ CancelDrain(d)
      PROVE  FlowInv'
  BY <1>6, DrainQueueKeeps, DrainEndsKeeps, CancelDrainKeeps
<1> QED
  BY <1>2, <1>3, <1>4, <1>5, <1>6 DEF FlowNext

\* A flow is paused only over sends that are under way or were cancelled, and
\* nobody waits on a flow that flows, however sends, drains, cancellations and
\* registrations of the id overlap (backpressure.py:57, 68, 84).
THEOREM PausesAreBacked == FlowSpec => []PauseIsBacked
<1>1. FlowInv => PauseIsBacked
  BY DEF FlowInv
<1> QED
  BY FlowInvInit, FlowStep, <1>1, PTL DEF FlowSpec
-----------------------------------------------------------------------------
(* The task graphs.  A failure blocks the least set of pending tasks that is *)
(* closed under dependents: each of them has a dependency that failed or is  *)
(* in the set, and no pending task outside depends on one in it.             *)

NodeStates == {"pending", "ready", "running", "completed", "failed", "blocked"}

NInv == node \in [Nodes -> NodeStates] /\ DependenciesRespected

LEMMA BlockedPending ==
    ASSUME NEW n \in Nodes, NEW m \in Blocked(n)
    PROVE  m \in Nodes /\ m # n /\ node[m] = "pending"
<1>1. PICK S : S = {n} \cup {k \in Nodes : node[k] = "pending"}
  OBVIOUS
<1>2. n \in S /\ S \in SUBSET Nodes /\ ClosedUnderDependents(S)
  BY <1>1 DEF ClosedUnderDependents
<1>3. m \in S
  BY <1>2 DEF Blocked
<1> QED
  BY <1>1, <1>3 DEF Blocked

LEMMA BlockedClosed ==
    ASSUME NEW n \in Nodes, NEW k \in Nodes, node[k] = "pending", k # n,
           NEW m \in DependsOn[k], m = n \/ m \in Blocked(n)
    PROVE  k \in Blocked(n)
<1> SUFFICES ASSUME NEW S \in SUBSET Nodes, n \in S, ClosedUnderDependents(S)
             PROVE  k \in S
  BY DEF Blocked
<1>1. m \in S
  BY DEF Blocked
<1> QED
  BY <1>1 DEF ClosedUnderDependents

\* The least such set without one of its tasks would be one as well, if that task
\* depended on none in it.
LEMMA BlockedSupported ==
    ASSUME NEW n \in Nodes, node[n] # "pending", NEW m \in Blocked(n)
    PROVE  \E k \in DependsOn[m] : k = n \/ k \in Blocked(n)
<1> SUFFICES ASSUME \A k \in DependsOn[m] : k # n /\ k \notin Blocked(n)
             PROVE  FALSE
  OBVIOUS
<1>1. PICK S : S = (Blocked(n) \cup {n}) \ {m}
  OBVIOUS
<1>2. m \in Nodes /\ m # n
  BY BlockedPending
<1>3. n \in S /\ S \in SUBSET Nodes
  BY <1>1, <1>2 DEF Blocked
<1>4. ASSUME NEW k \in Nodes, node[k] = "pending", DependsOn[k] \cap S # {}
      PROVE  k \in S
  <2>1. PICK l \in DependsOn[k] : l \in S
    BY <1>4
  <2>2. l = n \/ l \in Blocked(n)
    BY <1>1, <2>1
  <2>3. k \in Blocked(n)
    BY <1>4, <2>2, BlockedClosed
  <2>4. k # m
    BY <2>2
  <2> QED
    BY <1>1, <2>3, <2>4
<1>5. ClosedUnderDependents(S)
  BY <1>4 DEF ClosedUnderDependents
<1>6. m \in S
  BY <1>3, <1>5 DEF Blocked
<1> QED
  BY <1>1, <1>6

\* A task that was ready or ran fails.
LEMMA MarkFailedKeeps ==
    ASSUME NInv, NEW n \in Nodes, node[n] \in {"ready", "running"}, MarkFailed(n)
    PROVE  NInv'
<1>1. \A m \in Nodes : node'[m] = IF m = n THEN "failed"
                                  ELSE IF m \in Blocked(n) THEN "blocked" ELSE node[m]
  BY DEF MarkFailed
<1>2. node' \in [Nodes -> NodeStates]
  BY DEF MarkFailed, NInv, NodeStates
<1>3. \A m \in Blocked(n) : m \in Nodes /\ m # n /\ node[m] = "pending"
  BY BlockedPending
<1>4. ASSUME NEW k \in Nodes, node'[k] \in {"ready", "running", "completed"}
      PROVE  CanRun(k)'
  <2>1. node[k] = node'[k]
    BY <1>1, <1>4
  <2>2. \A m \in DependsOn[k] : node[m] = "completed"
    BY <1>4, <2>1 DEF NInv, DependenciesRespected, CanRun
  <2>3. \A m \in DependsOn[k] : m \in Nodes
    BY DependsOnAssumption
  <2>4. \A m \in DependsOn[k] : node'[m] = "completed"
    BY <1>1, <1>3, <2>2, <2>3
  <2> QED
    BY <2>4 DEF CanRun
<1>5. ASSUME NEW k \in Nodes, node'[k] = "blocked"
      PROVE  \E m \in DependsOn[k] : node'[m] \in {"failed", "blocked"}
  <2>1. \A m \in DependsOn[k] : m \in Nodes
    BY DependsOnAssumption
  <2>2. CASE k \in Blocked(n)
    <3>1. PICK m \in DependsOn[k] : m = n \/ m \in Blocked(n)
      BY <2>2, BlockedSupported
    <3> QED
      BY <1>1, <2>1, <3>1
  <2>3. CASE k \notin Blocked(n)
    <3>1. node[k] = "blocked"
      BY <1>1, <1>5, <2>3
    <3>2. PICK m \in DependsOn[k] : node[m] \in {"failed", "blocked"}
      BY <3>1 DEF NInv, DependenciesRespected
    <3>3. m # n /\ m \notin Blocked(n)
      BY <1>3, <3>2
    <3> QED
      BY <1>1, <2>1, <3>2, <3>3
  <2> QED
    BY <2>2, <2>3
<1>6. ASSUME NEW k \in Nodes, node'[k] # "failed",
             NEW m \in DependsOn[k], node'[m] \in {"failed", "blocked"}
      PROVE  node'[k] = "blocked"
  <2>1. m \in Nodes /\ k # n
    BY <1>1, <1>6, DependsOnAssumption
  <2>2. CASE node[m] \in {"failed", "blocked"}
    <3>1. node[k] = "blocked" \/ node[k] = "failed"
      BY <2>2 DEF NInv, DependenciesRespected
    <3> QED
      BY <1>1, <1>3, <1>6, <2>1, <3>1
  <2>3. CASE node[m] \notin {"failed", "blocked"}
    <3>1. m = n \/ m \in Blocked(n)
      BY <1>1, <1>6, <2>1, <2>3
    <3>2. node[m] # "completed"
      BY <1>3, <3>1
    <3>3. node[k] \notin {"ready", "running", "completed"}
      BY <3>2 DEF NInv, DependenciesRespected, CanRun
    <3>4. CASE node[k] = "pending"
      <4>1. k \in Blocked(n)
        BY <2>1, <3>1, <3>4, BlockedClosed
      <4> QED
        BY <1>1, <2>1, <4>1
    <3>5. CASE node[k] # "pending"
      <4>1. node'[k] = node[k]
        BY <1>1, <1>3, <2>1, <3>5
      <4>2. node[k] \in {"failed", "blocked"}
        BY <3>3, <3>5 DEF NInv, NodeStates
      <4> QED
        BY <1>6, <4>1, <4>2
    <3> QED
      BY <3>4, <3>5
  <2> QED
    BY <2>2, <2>3
<1>7. DependenciesRespected'
  BY <1>4, <1>5, <1>6 DEF DependenciesRespected
<1> QED
  BY <1>2, <1>7 DEF NInv

\* Tasks move on whose dependencies are all completed.
LEMMA MoveOnKeeps ==
    ASSUME NInv, NEW S \in SUBSET Nodes, NEW to \in {"ready", "running", "completed"},
           \A n \in S : CanRun(n) /\ node[n] \in {"pending", "ready", "running"},
           node' = [n \in Nodes |-> IF n \in S THEN to ELSE node[n]]
    PROVE  NInv'
<1>1. node' \in [Nodes -> NodeStates]
  BY DEF NInv, NodeStates
<1>2. \A n \in Nodes : node'[n] = IF n \in S THEN to ELSE node[n]
  OBVIOUS
<1>3. \A n \in Nodes : \A m \in DependsOn[n] : m \in Nodes
  BY DependsOnAssumption
<1>4. \A m \in Nodes : node'[m] \in {"failed", "blocked"} <=> node[m] \in {"failed", "blocked"}
  BY <1>2
<1>5. \A m \in Nodes : node[m] = "completed" => node'[m] = "completed"
  BY <1>2
<1>6. ASSUME NEW n \in Nodes, node'[n] \in {"ready", "running", "completed"}
      PROVE  CanRun(n)'
  <2>1. CanRun(n)
    BY <1>2, <1>6 DEF NInv, DependenciesRespected
  <2> QED
    BY <1>3, <1>5, <2>1 DEF CanRun
<1>7. ASSUME NEW n \in Nodes
      PROVE  node'[n] = "blocked" <=>
                 /\ node'[n] \notin {"failed"}
                 /\ \E m \in DependsOn[n] : node'[m] \in {"failed", "blocked"}
  <2>1. CASE n \in S
    <3>1. \A m \in DependsOn[n] : node[m] = "completed"
      BY <2>1 DEF CanRun
    <3> QED
      BY <1>2, <1>3, <1>4, <2>1, <3>1
  <2>2. CASE n \notin S
    <3>1. node[n] = "blocked" <=>
              /\ node[n] \notin {"failed"}
              /\ \E m \in DependsOn[n] : node[m] \in {"failed", "blocked"}
      BY DEF NInv, DependenciesRespected
    <3> QED
      BY <1>2, <1>3, <1>4, <2>2, <3>1
  <2> QED
    BY <2>1, <2>2
<1>8. DependenciesRespected'
  BY <1>6, <1>7 DEF DependenciesRespected
<1> QED
  BY <1>1, <1>8 DEF NInv

\* One of them.
LEMMA OneMovesOn ==
    ASSUME NInv, NEW n \in Nodes, node[n] \in {"ready", "running"},
           NEW to \in {"running", "completed"}, node' = [node EXCEPT ![n] = to]
    PROVE  NInv'
<1>1. CanRun(n)
  BY DEF NInv, DependenciesRespected
<1>2. node' = [m \in Nodes |-> IF m \in {n} THEN to ELSE node[m]]
  BY DEF NInv
<1> QED
  BY <1>1, <1>2, MoveOnKeeps

LEMMA NInvStep == NInv /\ [GraphNext]_GraphVars => NInv'
<1> SUFFICES ASSUME NInv, [GraphNext]_GraphVars PROVE NInv'
  OBVIOUS
<1>1. CASE UNCHANGED node
  BY <1>1 DEF NInv, DependenciesRespected, CanRun
<1>2. ASSUME NEW g \in Graphs, NEW known, Round(g, known)
      PROVE  NInv'
  <2>1. CASE UNCHANGED node
    BY <1>1, <2>1
  <2>2. CASE StartBatch(g, known)
    <3>1. PICK S : S = Ready(g)
      OBVIOUS
    <3>2. S \in SUBSET Nodes /\ \A n \in S : CanRun(n) /\ node[n] = "pending"
      BY <3>1 DEF Ready, Of
    <3>3. node' = [n \in Nodes |-> IF n \in S THEN "ready" ELSE node[n]]
      BY <2>2, <3>1 DEF StartBatch
    <3> QED
      BY <3>2, <3>3, MoveOnKeeps
  <2> QED
    BY <1>2, <2>1, <2>2 DEF Round, Return, Sleep
<1>3. CASE \E g \in Graphs : ExecuteGraph(g) \/ WakeUp(g) \/ FirstCompleted(g)
  BY <1>2, <1>3 DEF ExecuteGraph, WakeUp, FirstCompleted
<1>4. ASSUME NEW n \in Nodes, Begin(n)
      PROVE  NInv'
  <2>1. node[n] = "ready" /\ (node' = [node EXCEPT ![n] = "running"] \/ MarkFailed(n))
    BY <1>4 DEF Begin
  <2> QED
    BY <2>1, OneMovesOn, MarkFailedKeeps
<1>5. ASSUME NEW n \in Nodes, CompleteTask(n) \/ FailTask(n)
      PROVE  NInv'
  <2>1. node[n] = "running" /\ (node' = [node EXCEPT ![n] = "completed"] \/ MarkFailed(n))
    BY <1>5 DEF CompleteTask, FailTask, Running
  <2> QED
    BY <2>1, OneMovesOn, MarkFailedKeeps
<1>6. CASE Stop \/ StopEnds \/ UNCHANGED GraphVars
  BY <1>1, <1>6 DEF Stop, StopEnds, GraphVars
<1> QED
  BY <1>3, <1>4, <1>5, <1>6 DEF GraphNext

\* No task of a graph is ever started before all it depends on is completed, and
\* a failure blocks every task that depends on it, directly or through others, and
\* no other, also when several graphs run, tasks fail at once and the manager is
\* stopped in the middle (concurrency.py:114, 147).
THEOREM DependenciesAlwaysRespected == GraphSpec => []DependenciesRespected
<1>1. ASSUME GraphInit PROVE NInv
  <2>1. node \in [Nodes -> NodeStates] /\ \A n \in Nodes : node[n] = "pending"
    BY <1>1 DEF GraphInit, NodeStates
  <2>2. \A n \in Nodes : \A m \in DependsOn[n] : m \in Nodes
    BY DependsOnAssumption
  <2> QED
    BY <2>1, <2>2 DEF NInv, DependenciesRespected
<1>2. NInv => DependenciesRespected
  BY DEF NInv
<1> QED
  BY <1>1, <1>2, NInvStep, PTL DEF GraphSpec

-----------------------------------------------------------------------------
(* The ordered channel.  A number is accepted once, since record() moves the *)
(* next expected number past it; from then on it is in one place at a time.  *)
(* Without a handler that suspends, one task at a time holds a message, and  *)
(* what is buffered lies ahead of it and of the next delivery.               *)

ChannelTypes ==
    /\ handled \in BOOLEAN /\ network \subseteq Arrivals
    /\ nextExpected \in Nat /\ nextDelivery \in Nat
    /\ buffer \subseteq Messages /\ aged \subseteq buffer
    /\ delivering \in [Deliverers -> Messages \cup {-1}]
    /\ delivered \in Seq(Messages)

\* Whatever is in the channel has been accepted, and a copy is delivered only
\* after it has arrived.
Accepted ==
    /\ \A n \in buffer : n < nextExpected
    /\ \A d \in Deliverers : delivering[d] < nextExpected
    /\ \A i \in 1 .. Len(delivered) : delivered[i] < nextExpected
    /\ \A a \in Arrivals : Busy(a) => a \notin network

\* A number is in one place.
Once ==
    /\ \A i, j \in 1 .. Len(delivered) : delivered[i] = delivered[j] => i = j
    /\ \A d, e \in Deliverers : Busy(d) /\ delivering[d] = delivering[e] => d = e
    /\ \A i \in 1 .. Len(delivered), d \in Deliverers : delivered[i] # delivering[d]
    /\ \A i \in 1 .. Len(delivered) : delivered[i] \notin buffer
    /\ \A d \in Deliverers : delivering[d] \notin buffer

InSequence ==
    /\ nextDelivery <= nextExpected
    /\ \A i \in 1 .. Len(delivered) : delivered[i] < nextDelivery
    /\ \A i, j \in 1 .. Len(delivered) : i < j => delivered[i] < delivered[j]
    /\ \A d, e \in Deliverers : Busy(d) /\ Busy(e) => d = e
    /\ \A d \in Deliverers : Busy(d) => nextDelivery <= delivering[d]
    /\ \A a \in Arrivals : Busy(a) => delivering[a] = nextDelivery
    /\ \A n \in buffer : nextDelivery <= n
    /\ \A n \in buffer, d \in Deliverers : delivering[d] < n

\* The oldest buffered numbers are the lowest.
OldestFirst ==
    /\ \A m \in aged, n \in buffer \ aged : m < n
    /\ Busy(Loop) => \A m \in staleLeft \cap buffer, n \in buffer \ staleLeft : m < n

ChannelInv == ChannelTypes /\ Accepted /\ Once /\ (~handled => InSequence /\ OldestFirst)

LEMMA MessageType == \A n \in Messages : n \in Nat
BY OrderingAssumption DEF Messages

LEMMA LoopApart == Loop \notin Arrivals /\ Loop \in Deliverers /\ Arrivals \subseteq Deliverers
<1>1. Loop[1] = -1
  BY DEF Loop
<1>2. \A a \in Arrivals : a[1] \in Nat
  BY MessageType DEF Arrivals
<1>3. ~(-1 \in Nat)
  OBVIOUS
<1>4. Loop \notin Arrivals
  BY <1>1, <1>2, <1>3
<1> QED
  BY <1>4 DEF Deliverers

LEMMA LeastIs ==
    ASSUME NEW S \in SUBSET Messages, S # {}
    PROVE  Least(S) \in S /\ \A m \in S : Least(S) <= m
<1>1. PICK R : R = OpToRel(<, Nat)
  OBVIOUS
<1>2. IsWellFoundedOn(R, Nat)
  BY <1>1, NatLessThanWellFounded
<1>3. S \subseteq Nat
  BY MessageType
<1>4. PICK n \in S : \A m \in S : <<m, n>> \notin R
  BY <1>2, <1>3, WFMin
<1>5. ASSUME NEW m \in S, m < n
      PROVE  FALSE
  <2>1. R = {e \in Nat \X Nat : e[1] < e[2]}
    BY <1>1, Zenon DEF OpToRel
  <2>2. <<m, n>> \in R
    BY <1>3, <1>5, <2>1
  <2> QED
    BY <1>4, <2>2
<1>6. n \in S /\ \A m \in S : n <= m
  BY <1>3, <1>5
<1> QED
  BY <1>6 DEF Least

LEMMA Delivering ==
    ASSUME delivered \in Seq(Messages), NEW x \in Messages, delivered' = Append(delivered, x)
    PROVE  /\ delivered' \in Seq(Messages)
           /\ \E k \in Nat : /\ k = Len(delivered) /\ k + 1 = Len(delivered')
                             /\ \A i \in 1 .. k : delivered'[i] = delivered[i]
                             /\ delivered'[k + 1] = x
BY AppendProperties, LenProperties

LEMMA Numbered ==
    ASSUME ChannelTypes
    PROVE  /\ \A i \in 1 .. Len(delivered) : delivered[i] \in Messages /\ delivered[i] \in Nat
           /\ \A d \in Deliverers : /\ delivering[d] \in Messages \cup {-1} /\ delivering[d] \in Int
                                    /\ Busy(d) => delivering[d] \in Messages
           /\ \A n \in buffer : n \in Messages /\ n \in Nat
<1>1. \A i \in 1 .. Len(delivered) : delivered[i] \in Messages
  BY ElementOfSeq DEF ChannelTypes
<1>2. \A d \in Deliverers : delivering[d] \in Messages \cup {-1}
  BY DEF ChannelTypes
<1> QED
  BY <1>1, <1>2, MessageType DEF ChannelTypes, Busy

\* record() moves the next expected number past n, and never back.
LEMMA Recorded ==
    ASSUME ChannelTypes, NEW n \in Messages, Record(n)
    PROVE  nextExpected' \in Nat /\ nextExpected <= nextExpected' /\ n < nextExpected'
BY MessageType DEF ChannelTypes, Record

\* A task hands over its message, and takes n from the buffer or nothing.
LEMMA HandingOver ==
    ASSUME ChannelTypes, Accepted, Once, NEW d \in Deliverers, Busy(d),
           delivered' = Append(delivered, delivering[d]),
           NEW n, n = -1 \/ n \in buffer, delivering' = [delivering EXCEPT ![d] = n],
           buffer' = buffer \ {n}, aged' = aged \ {n}, nextDelivery' \in Nat,
           UNCHANGED <<handled, nextExpected, network>>
    PROVE  ChannelTypes' /\ Accepted' /\ Once'
<1>1. PICK x \in Messages : x = delivering[d]
  BY Numbered
<1>2. PICK k \in Nat : /\ k = Len(delivered) /\ k + 1 = Len(delivered')
                       /\ \A i \in 1 .. k : delivered'[i] = delivered[i]
                       /\ delivered'[k + 1] = x
  BY <1>1, Delivering DEF ChannelTypes
<1>3. \A e \in Deliverers : delivering'[e] = IF e = d THEN n ELSE delivering[e]
  BY DEF ChannelTypes
<1>4. n \in Messages \cup {-1} /\ n # x /\ x \in Nat
  BY <1>1, Numbered, MessageType DEF Once
<1>5. ChannelTypes'
  <2>1. delivered' \in Seq(Messages)
    BY <1>1, Delivering DEF ChannelTypes
  <2>2. delivering' \in [Deliverers -> Messages \cup {-1}]
    BY <1>4 DEF ChannelTypes
  <2> QED
    BY <2>1, <2>2 DEF ChannelTypes
<1>6. \A i \in 1 .. k + 1 : i \in 1 .. k \/ i = k + 1
  BY <1>2
<1>7. Accepted'
  <2>1. x < nextExpected /\ n < nextExpected
    BY <1>1 DEF Accepted, ChannelTypes
  <2>2. \A i \in 1 .. k + 1 : delivered'[i] < nextExpected
    BY <1>2, <1>6, <2>1 DEF Accepted
  <2>3. \A e \in Deliverers : delivering'[e] < nextExpected
    BY <1>3, <2>1 DEF Accepted
  <2>4. \A a \in Arrivals : Busy(a)' => a \notin network
    BY <1>3, LoopApart DEF Accepted, Busy
  <2> QED
    BY <1>2, <2>2, <2>3, <2>4 DEF Accepted
<1>8. Once'
  <2>1. /\ \A i \in 1 .. k : delivered[i] # x /\ delivered[i] # n
        /\ \A i, j \in 1 .. k : delivered[i] = delivered[j] => i = j
    BY <1>1, <1>2, Numbered, MessageType DEF Once
  <2>2. \A i, j \in 1 .. k + 1 : delivered'[i] = delivered'[j] => i = j
    BY <1>2, <1>6, <2>1
  <2>3. \A e \in Deliverers : e # d => delivering[e] # x /\ (n \in buffer => delivering[e] # n)
    BY <1>1, <1>4 DEF Once, Busy
  <2>4. ASSUME NEW e \in Deliverers, NEW f \in Deliverers, delivering'[e] # -1,
               delivering'[e] = delivering'[f]
        PROVE  e = f
    <3>1. CASE e = d
      BY <1>3, <2>3, <2>4, <3>1
    <3>2. CASE e # d
      <4>1. f # d
        BY <1>3, <2>3, <2>4, <3>2
      <4> QED
        BY <1>3, <2>4, <3>2, <4>1 DEF Once, Busy
    <3> QED
      BY <3>1, <3>2
  <2>5. ASSUME NEW i \in 1 .. k + 1, NEW e \in Deliverers
        PROVE  delivered'[i] # delivering'[e]
    <3>1. delivered'[i] # n
      BY <1>2, <1>4, <1>6, <2>1
    <3>2. e # d => delivered'[i] # delivering[e]
      BY <1>2, <1>6, <2>3 DEF Once
    <3> QED
      BY <1>3, <3>1, <3>2
  <2>6. x \notin buffer
    BY <1>1 DEF Once
  <2>7. \A i \in 1 .. k + 1 : delivered'[i] \notin buffer'
    BY <1>2, <1>6, <2>6 DEF Once
  <2>8. \A e \in Deliverers : delivering'[e] \notin buffer'
    BY <1>3 DEF Once
  <2> QED
    BY <1>2, <2>2, <2>4, <2>5, <2>7, <2>8 DEF Once, Busy
<1> QED
  BY <1>5, <1>7, <1>8

\* A task that holds nothing takes n, from the buffer or as it arrives.
LEMMA TakingUp ==
    ASSUME ChannelTypes, Accepted, Once, NEW d \in Deliverers,
           NEW n \in Messages, n \in buffer \/ n >= nextExpected,
           delivering' = [delivering EXCEPT ![d] = n],
           buffer' = buffer \ {n}, aged' = aged \ {n},
           nextExpected' \in Nat, nextExpected <= nextExpected', n < nextExpected',
           network' \subseteq network, d \in Arrivals => d \notin network',
           UNCHANGED <<handled, nextDelivery, delivered>>
    PROVE  ChannelTypes' /\ Accepted' /\ Once'
<1>1. \A e \in Deliverers : delivering'[e] = IF e = d THEN n ELSE delivering[e]
  BY DEF ChannelTypes
<1>2. n \in Nat /\ n # -1
  BY MessageType
<1>3. /\ \A i \in 1 .. Len(delivered) : delivered[i] # n
      /\ \A e \in Deliverers : delivering[e] # n
  <2>1. CASE n \in buffer
    BY <2>1 DEF Once
  <2>2. CASE n >= nextExpected
    <3>1. \A i \in 1 .. Len(delivered) : delivered[i] < nextExpected /\ delivered[i] \in Nat
      BY Numbered DEF Accepted
    <3>2. \A e \in Deliverers : delivering[e] < nextExpected /\ delivering[e] \in Int
      BY Numbered DEF Accepted
    <3> QED
      BY <1>2, <2>2, <3>1, <3>2 DEF ChannelTypes
  <2> QED
    BY <2>1, <2>2
<1>4. ChannelTypes'
  <2>1. delivering' \in [Deliverers -> Messages \cup {-1}]
    BY DEF ChannelTypes
  <2> QED
    BY <2>1 DEF ChannelTypes
<1>5. Accepted'
  <2>1. \A i \in 1 .. Len(delivered) : delivered[i] < nextExpected'
    BY Numbered DEF Accepted, ChannelTypes
  <2>2. \A e \in Deliverers : delivering'[e] < nextExpected'
    BY <1>1, Numbered DEF Accepted, ChannelTypes
  <2>3. \A m \in buffer' : m < nextExpected'
    BY Numbered DEF Accepted, ChannelTypes
  <2>4. \A a \in Arrivals : Busy(a)' => a \notin network'
    BY <1>1, LoopApart DEF Accepted, Busy
  <2> QED
    BY <2>1, <2>2, <2>3, <2>4 DEF Accepted
<1>6. Once'
  <2>1. \A e, f \in Deliverers : delivering'[e] # -1 /\ delivering'[e] = delivering'[f] => e = f
    BY <1>1, <1>3 DEF Once, Busy
  <2>2. \A i \in 1 .. Len(delivered), e \in Deliverers : delivered[i] # delivering'[e]
    BY <1>1, <1>3 DEF Once
  <2>3. \A e \in Deliverers : delivering'[e] \notin buffer'
    BY <1>1 DEF Once
  <2>4. \A i \in 1 .. Len(delivered) : delivered[i] \notin buffer'
    BY DEF Once
  <2>5. \A i, j \in 1 .. Len(delivered) : delivered[i] = delivered[j] => i = j
    BY DEF Once
  <2> QED
    BY <2>1, <2>2, <2>3, <2>4, <2>5 DEF Once, Busy
<1> QED
  BY <1>4, <1>5, <1>6

-----------------------------------------------------------------------------
\* One lemma for each step of the channel.

LEMMA LoseKeeps ==
    ASSUME ChannelInv, NEW a, Lose(a)
    PROVE  ChannelInv'
<1>1. /\ network' \subseteq network
      /\ UNCHANGED <<handled, nextExpected, buffer, aged, nextDelivery, delivering,
                     staleLeft, delivered>>
  BY DEF Lose
<1>2. ChannelTypes' /\ Accepted' /\ Once'
  BY <1>1 DEF ChannelInv, ChannelTypes, Accepted, Once, Busy
<1>3. ~handled => InSequence' /\ OldestFirst'
  BY <1>1 DEF ChannelInv, InSequence, OldestFirst, Busy
<1> QED
  BY <1>1, <1>2, <1>3 DEF ChannelInv

\* A duplicate changes the next expected number no more.
LEMMA DuplicateKeeps ==
    ASSUME ChannelInv, NEW a, ReceiveDuplicate(a)
    PROVE  ChannelInv'
<1>1. a \in Arrivals /\ a[1] \in Messages /\ a[1] < nextExpected
  BY DEF ChannelInv, ChannelTypes, ReceiveDuplicate, IsDuplicate, Arrivals
<1>2. nextExpected' = nextExpected
  BY <1>1, MessageType DEF ReceiveDuplicate, Record, ChannelInv, ChannelTypes
<1>3. /\ network' \subseteq network
      /\ UNCHANGED <<handled, nextExpected, buffer, aged, nextDelivery, delivering,
                     staleLeft, delivered>>
  BY <1>2 DEF ReceiveDuplicate
<1>4. ChannelTypes' /\ Accepted' /\ Once'
  BY <1>3 DEF ChannelInv, ChannelTypes, Accepted, Once, Busy
<1>5. ~handled => InSequence' /\ OldestFirst'
  BY <1>3 DEF ChannelInv, InSequence, OldestFirst, Busy
<1> QED
  BY <1>3, <1>4, <1>5 DEF ChannelInv

LEMMA ReceiveNextKeeps ==
    ASSUME ChannelInv, NEW a \in Arrivals, Alone(a), ReceiveNext(a)
    PROVE  ChannelInv'
<1>1. PICK n \in Messages : n = a[1]
  BY DEF Arrivals
<1>2. /\ a \in network /\ n >= nextExpected /\ n = nextDelivery /\ Record(n)
      /\ network' = network \ {a} /\ delivering' = [delivering EXCEPT ![a] = n]
      /\ UNCHANGED <<handled, buffer, aged, nextDelivery, staleLeft, delivered>>
  BY <1>1, MessageType DEF ReceiveNext, IsDuplicate, ChannelInv, ChannelTypes
<1>3. nextExpected' \in Nat /\ nextExpected <= nextExpected' /\ n < nextExpected' /\ n \in Nat
  BY <1>2, Recorded, MessageType DEF ChannelInv
<1>4. a \in Deliverers /\ a # Loop
  BY LoopApart
<1>5. n \notin buffer
  BY <1>2, <1>3 DEF ChannelInv, Accepted, ChannelTypes
<1>6. buffer' = buffer \ {n} /\ aged' = aged \ {n}
  BY <1>2, <1>5 DEF ChannelInv, ChannelTypes
<1>7. network' \subseteq network /\ a \notin network'
  BY <1>2
<1>8. ChannelTypes' /\ Accepted' /\ Once'
  BY <1>2, <1>3, <1>4, <1>6, <1>7, TakingUp DEF ChannelInv
<1>9. ASSUME ~handled
      PROVE  InSequence' /\ OldestFirst'
  <2>1. InSequence /\ OldestFirst
    BY <1>9 DEF ChannelInv
  <2>2. \A e \in Deliverers : delivering'[e] = IF e = a THEN n ELSE delivering[e]
    BY <1>2 DEF ChannelInv, ChannelTypes
  <2>3. \A e \in Deliverers : e # a => delivering[e] = -1
    BY <1>9 DEF Alone, Busy
  <2>4. buffer = {}
    <3> SUFFICES ASSUME NEW m \in buffer PROVE FALSE
      OBVIOUS
    <3>1. m \in Nat /\ nextDelivery <= m /\ m < nextExpected /\ nextExpected \in Nat
      BY <2>1, Numbered DEF ChannelInv, InSequence, Accepted, ChannelTypes
    <3> QED
      BY <1>2, <1>3, <3>1
  <2>5. nextDelivery' <= nextExpected'
    BY <1>2, <1>3
  <2>6. /\ \A d, e \in Deliverers : delivering'[d] # -1 /\ delivering'[e] # -1 => d = e
        /\ \A d \in Deliverers : delivering'[d] # -1 => delivering'[d] = nextDelivery
    BY <1>2, <2>2, <2>3
  <2>7. InSequence'
    BY <1>2, <1>3, <1>4, <2>1, <2>4, <2>5, <2>6, LoopApart DEF InSequence, Busy
  <2>8. OldestFirst'
    BY <1>2, <1>4, <2>2, <2>3, <2>4 DEF OldestFirst, Busy, ChannelInv, ChannelTypes
  <2> QED
    BY <2>7, <2>8
<1> QED
  BY <1>2, <1>8, <1>9 DEF ChannelInv

LEMMA ReceiveEarlyKeeps ==
    ASSUME ChannelInv, NEW a \in Arrivals, Alone(a), ReceiveEarly(a)
    PROVE  ChannelInv'
<1>1. PICK n \in Messages : n = a[1]
  BY DEF Arrivals
<1>2. /\ a \in network /\ n >= nextExpected /\ n # nextDelivery /\ Record(n)
      /\ network' = network \ {a} /\ (buffer' = buffer \/ buffer' = buffer \cup {n})
      /\ UNCHANGED <<handled, aged, nextDelivery, delivering, staleLeft, delivered>>
  BY <1>1, MessageType DEF ReceiveEarly, IsDuplicate, ChannelInv, ChannelTypes
<1>3. nextExpected' \in Nat /\ nextExpected <= nextExpected' /\ n < nextExpected' /\ n \in Nat
  BY <1>2, Recorded, MessageType DEF ChannelInv
<1>4. /\ \A i \in 1 .. Len(delivered) : delivered[i] < nextExpected /\ delivered[i] \in Nat
      /\ \A d \in Deliverers : delivering[d] < nextExpected /\ delivering[d] \in Int
      /\ \A m \in buffer : m < nextExpected /\ m \in Nat
      /\ nextExpected \in Nat
  BY Numbered DEF ChannelInv, Accepted, ChannelTypes
<1>5. ChannelTypes'
  BY <1>2, <1>3 DEF ChannelInv, ChannelTypes
<1>6. Accepted'
  <2>1. \A i \in 1 .. Len(delivered) : delivered[i] < nextExpected'
    BY <1>3, <1>4
  <2>2. \A d \in Deliverers : delivering[d] < nextExpected'
    BY <1>3, <1>4
  <2>3. \A m \in buffer' : m < nextExpected'
    BY <1>2, <1>3, <1>4
  <2>4. \A c \in Arrivals : Busy(c) => c \notin network'
    BY <1>2 DEF ChannelInv, Accepted
  <2> QED
    BY <1>2, <2>1, <2>2, <2>3, <2>4 DEF Accepted, Busy
<1>7. Once'
  <2>1. \A i \in 1 .. Len(delivered) : delivered[i] # n
    BY <1>2, <1>3, <1>4
  <2>2. \A d \in Deliverers : delivering[d] # n
    BY <1>2, <1>3, <1>4
  <2> QED
    BY <1>2, <2>1, <2>2 DEF ChannelInv, Once, Busy
<1>8. ASSUME ~handled
      PROVE  InSequence' /\ OldestFirst'
  <2>1. InSequence /\ OldestFirst
    BY <1>8 DEF ChannelInv
  <2>2. nextDelivery <= nextExpected /\ nextDelivery \in Nat
    BY <2>1 DEF InSequence, ChannelInv, ChannelTypes
  <2>3. nextDelivery <= n /\ nextDelivery <= nextExpected'
    BY <1>2, <1>3, <1>4, <2>2
  <2>4. \A d \in Deliverers : delivering[d] < n
    BY <1>2, <1>3, <1>4
  <2>5. InSequence'
    <3>1. \A m \in buffer' : nextDelivery <= m /\ \A d \in Deliverers : delivering[d] < m
      BY <1>2, <2>1, <2>3, <2>4 DEF InSequence
    <3> QED
      BY <1>2, <2>1, <2>3, <3>1 DEF InSequence, Busy
  <2>6. ~Busy(Loop)
    BY <1>8, LoopApart DEF Alone
  <2>7. \A m \in aged, k \in buffer' \ aged : m < k
    <3>1. \A m \in aged : m \in buffer /\ m < n
      BY <1>2, <1>3, <1>4 DEF ChannelInv, ChannelTypes
    <3> QED
      BY <1>2, <2>1, <3>1 DEF OldestFirst
  <2>8. OldestFirst'
    BY <1>2, <2>6, <2>7 DEF OldestFirst, Busy
  <2> QED
    BY <2>5, <2>8
<1> QED
  BY <1>2, <1>5, <1>6, <1>7, <1>8 DEF ChannelInv

LEMMA FlushKeeps ==
    ASSUME ChannelInv, NEW a \in Arrivals, Alone(a), Flush(a)
    PROVE  ChannelInv'
<1>1. PICK n : n = IF nextDelivery + 1 \in buffer THEN nextDelivery + 1 ELSE -1
  OBVIOUS
<1>2. -1 \notin buffer /\ -1 \notin aged
  BY Numbered DEF ChannelInv, ChannelTypes
<1>3. nextDelivery + 1 \in buffer \/ nextDelivery + 1 \notin aged
  BY DEF ChannelInv, ChannelTypes
<1>4. /\ Busy(a) /\ delivered' = Append(delivered, delivering[a])
      /\ delivering' = [delivering EXCEPT ![a] = n] /\ nextDelivery' = nextDelivery + 1
      /\ buffer' = buffer \ {n} /\ aged' = aged \ {n} /\ (n = -1 \/ n \in buffer)
      /\ UNCHANGED <<handled, network, nextExpected, staleLeft>>
  BY <1>1, <1>2, <1>3 DEF Flush
<1>5. a \in Deliverers /\ a # Loop /\ nextDelivery' \in Nat
  BY <1>4, LoopApart DEF ChannelInv, ChannelTypes
<1>6. ChannelTypes' /\ Accepted' /\ Once'
  BY <1>4, <1>5, HandingOver DEF ChannelInv
<1>7. ASSUME ~handled
      PROVE  InSequence' /\ OldestFirst'
  <2>1. InSequence /\ OldestFirst
    BY <1>7 DEF ChannelInv
  <2>2. PICK x \in Messages : x = delivering[a]
    BY <1>4, <1>5, Numbered DEF ChannelInv
  <2>3. x = nextDelivery /\ x \in Nat /\ x < nextExpected /\ nextExpected \in Nat
    BY <1>4, <1>5, <2>1, <2>2, MessageType DEF InSequence, ChannelInv, Accepted, ChannelTypes
  <2>4. PICK k \in Nat : /\ k = Len(delivered) /\ k + 1 = Len(delivered')
                         /\ \A i \in 1 .. k : delivered'[i] = delivered[i]
                         /\ delivered'[k + 1] = x
    BY <1>4, <2>2, Delivering DEF ChannelInv, ChannelTypes
  <2>5. /\ \A i \in 1 .. k : delivered[i] < x /\ delivered[i] \in Nat
        /\ \A i, j \in 1 .. k : i < j => delivered[i] < delivered[j]
    BY <2>1, <2>3, <2>4, Numbered DEF InSequence, ChannelInv
  <2>6. \A i \in 1 .. k + 1 : i \in 1 .. k \/ i = k + 1
    BY <2>4
  <2>7. \A i \in 1 .. k + 1 : delivered'[i] < nextDelivery'
    BY <1>4, <2>3, <2>4, <2>5, <2>6
  <2>8. \A i, j \in 1 .. k + 1 : i < j => delivered'[i] < delivered'[j]
    BY <2>4, <2>5, <2>6
  <2>9. \A e \in Deliverers : delivering'[e] = IF e = a THEN n ELSE -1
    BY <1>4, <1>7 DEF Alone, Busy, ChannelInv, ChannelTypes
  <2>10. n = -1 \/ n = nextDelivery'
    BY <1>1, <1>4
  <2>11. \A m \in buffer' : nextDelivery' <= m /\ n < m /\ -1 < m
    <3> SUFFICES ASSUME NEW m \in buffer' PROVE nextDelivery' <= m /\ n < m /\ -1 < m
      OBVIOUS
    <3>1. m \in buffer /\ m # n /\ m \in Nat /\ x < m
      BY <1>4, <1>5, <2>1, <2>2, Numbered DEF InSequence, ChannelInv
    <3>2. nextDelivery' <= m
      BY <1>4, <2>3, <3>1
    <3> QED
      BY <1>5, <2>10, <3>1, <3>2
  <2>12. InSequence'
    <3>1. nextDelivery' <= nextExpected'
      BY <1>4, <2>3
    <3>2. \A d, e \in Deliverers : Busy(d)' /\ Busy(e)' => d = e
      BY <2>9 DEF Busy
    <3>3. \A d \in Deliverers : Busy(d)' => delivering'[d] = nextDelivery'
      BY <2>9, <2>10 DEF Busy
    <3>4. \A m \in buffer', d \in Deliverers : delivering'[d] < m
      BY <2>9, <2>11
    <3> QED
      BY <1>5, <2>4, <2>7, <2>8, <2>11, <3>1, <3>2, <3>3, <3>4, LoopApart DEF InSequence, Busy
  <2>13. OldestFirst'
    BY <1>4, <1>5, <2>1, <2>9, LoopApart DEF OldestFirst, Busy
  <2> QED
    BY <2>12, <2>13
<1> QED
  BY <1>4, <1>6, <1>7 DEF ChannelInv

\* The lowest number that has not aged does.
LEMMA AgeKeeps ==
    ASSUME ChannelInv, NEW n \in Messages, Age(n)
    PROVE  ChannelInv'
<1>1. /\ n \in buffer \ aged /\ (\A m \in buffer \ aged : n <= m) /\ aged' = aged \cup {n}
      /\ UNCHANGED <<handled, network, nextExpected, buffer, nextDelivery, delivering,
                     staleLeft, delivered>>
  BY DEF Age
<1>2. ChannelTypes' /\ Accepted' /\ Once'
  BY <1>1 DEF ChannelInv, ChannelTypes, Accepted, Once, Busy
<1>3. ASSUME ~handled
      PROVE  InSequence' /\ OldestFirst'
  <2>1. InSequence /\ OldestFirst
    BY <1>3 DEF ChannelInv
  <2>2. \A m \in buffer \ aged' : n < m
    <3>1. \A m \in buffer : m \in Nat
      BY Numbered DEF ChannelInv
    <3> QED
      BY <1>1, <3>1
  <2>3. OldestFirst'
    BY <1>1, <2>1, <2>2 DEF OldestFirst, Busy
  <2>4. InSequence'
    BY <1>1, <2>1 DEF InSequence, Busy
  <2> QED
    BY <2>3, <2>4
<1> QED
  BY <1>1, <1>2, <1>3 DEF ChannelInv

LEMMA WakeKeeps ==
    ASSUME ChannelInv, Alone(Loop), Wake
    PROVE  ChannelInv'
<1>1. PICK n : n = Least(aged)
  OBVIOUS
<1>2. n \in aged /\ \A m \in aged : n <= m
  BY <1>1, LeastIs DEF Wake, ChannelInv, ChannelTypes
<1>3. n \in buffer /\ n \in Messages /\ n \in Nat /\ n < nextExpected
  BY <1>2, Numbered DEF ChannelInv, ChannelTypes, Accepted
<1>4. /\ ~Busy(Loop) /\ delivering' = [delivering EXCEPT ![Loop] = n]
      /\ buffer' = buffer \ {n} /\ staleLeft' = aged \ {n} /\ aged' = aged \ {n}
      /\ UNCHANGED <<handled, network, nextExpected, nextDelivery, delivered>>
  BY <1>1 DEF Wake
<1>5. nextExpected' \in Nat /\ nextExpected <= nextExpected' /\ n < nextExpected'
  BY <1>3, <1>4 DEF ChannelInv, ChannelTypes
<1>6. ChannelTypes' /\ Accepted' /\ Once'
  BY <1>3, <1>4, <1>5, LoopApart, TakingUp DEF ChannelInv
<1>7. ASSUME ~handled
      PROVE  InSequence' /\ OldestFirst'
  <2>1. InSequence /\ OldestFirst
    BY <1>7 DEF ChannelInv
  <2>2. \A e \in Deliverers : delivering'[e] = IF e = Loop THEN n ELSE -1
    BY <1>4, <1>7 DEF Alone, Busy, ChannelInv, ChannelTypes
  <2>3. \A m \in buffer' : n < m /\ -1 < m
    <3> SUFFICES ASSUME NEW m \in buffer' PROVE n < m /\ -1 < m
      OBVIOUS
    <3>1. m \in buffer /\ m # n /\ m \in Nat
      BY <1>4, Numbered DEF ChannelInv
    <3>2. CASE m \in aged
      BY <1>2, <1>3, <3>1, <3>2
    <3>3. CASE m \notin aged
      BY <1>2, <2>1, <3>1, <3>3 DEF OldestFirst
    <3> QED
      BY <3>2, <3>3
  <2>4. \A m \in buffer', d \in Deliverers : delivering'[d] < m
    BY <2>2, <2>3
  <2>5. /\ \A d, e \in Deliverers : Busy(d)' /\ Busy(e)' => d = e
        /\ \A d \in Deliverers : Busy(d)' => d = Loop /\ delivering'[d] = n
    BY <2>2 DEF Busy
  <2>6. nextDelivery <= n
    BY <1>3, <2>1 DEF InSequence
  <2>7. InSequence'
    BY <1>4, <2>1, <2>4, <2>5, <2>6, LoopApart DEF InSequence
  <2>8. \A m \in aged \ {n}, k \in buffer' \ (aged \ {n}) : m < k
    BY <1>4, <2>1 DEF OldestFirst
  <2>9. OldestFirst'
    BY <1>4, <2>8 DEF OldestFirst
  <2> QED
    BY <2>7, <2>9
<1> QED
  BY <1>4, <1>6, <1>7 DEF ChannelInv

LEMMA DeliverStaleKeeps ==
    ASSUME ChannelInv, Alone(Loop), DeliverStale
    PROVE  ChannelInv'
<1>1. PICK left, n : /\ left = staleLeft \cap buffer
                     /\ n = IF left = {} THEN -1 ELSE Least(left)
  OBVIOUS
<1>2. left \in SUBSET Messages /\ left \subseteq buffer
  BY <1>1 DEF ChannelInv, ChannelTypes
<1>3. \/ left = {} /\ n = -1
      \/ n \in left /\ \A m \in left : n <= m
  BY <1>1, <1>2, LeastIs
<1>4. -1 \notin buffer /\ -1 \notin aged
  BY Numbered DEF ChannelInv, ChannelTypes
<1>5. /\ Busy(Loop) /\ delivered' = Append(delivered, delivering[Loop])
      /\ nextDelivery' = IF delivering[Loop] >= nextDelivery
                         THEN delivering[Loop] + 1 ELSE nextDelivery
      /\ delivering' = [delivering EXCEPT ![Loop] = n]
      /\ buffer' = buffer \ {n} /\ aged' = aged \ {n} /\ staleLeft' = left \ {n}
      /\ UNCHANGED <<handled, network, nextExpected>>
  BY <1>1, <1>4 DEF DeliverStale
<1>6. PICK x \in Messages : x = delivering[Loop]
  BY <1>5, LoopApart, Numbered DEF ChannelInv
<1>7. x \in Nat /\ nextDelivery \in Nat /\ nextDelivery' \in Nat
  BY <1>5, <1>6, MessageType DEF ChannelInv, ChannelTypes
<1>8. n = -1 \/ n \in buffer
  BY <1>2, <1>3
<1>9. ChannelTypes' /\ Accepted' /\ Once'
  BY <1>5, <1>7, <1>8, LoopApart, HandingOver DEF ChannelInv
<1>10. ASSUME ~handled
       PROVE  InSequence' /\ OldestFirst'
  <2>1. InSequence /\ OldestFirst
    BY <1>10 DEF ChannelInv
  <2>2. nextDelivery <= x /\ x < nextExpected /\ nextExpected \in Nat
    BY <1>5, <1>6, <2>1, LoopApart DEF InSequence, ChannelInv, Accepted, ChannelTypes
  <2>3. nextDelivery' = x + 1
    BY <1>5, <1>6, <1>7, <2>2
  <2>4. PICK k \in Nat : /\ k = Len(delivered) /\ k + 1 = Len(delivered')
                         /\ \A i \in 1 .. k : delivered'[i] = delivered[i]
                         /\ delivered'[k + 1] = x
    BY <1>5, <1>6, Delivering DEF ChannelInv, ChannelTypes
  <2>5. \A i \in 1 .. k : delivered[i] < x /\ delivered[i] \in Nat
    <3> SUFFICES ASSUME NEW i \in 1 .. k PROVE delivered[i] < x /\ delivered[i] \in Nat
      OBVIOUS
    <3>1. delivered[i] < nextDelivery /\ delivered[i] \in Nat
      BY <2>1, <2>4, Numbered DEF InSequence, ChannelInv
    <3> QED
      BY <1>7, <2>2, <3>1
  <2>6. \A i, j \in 1 .. k : i < j => delivered[i] < delivered[j]
    BY <2>1, <2>4 DEF InSequence
  <2>7. \A i \in 1 .. k + 1 : i \in 1 .. k \/ i = k + 1
    BY <2>4
  <2>8. \A i \in 1 .. k + 1 : delivered'[i] < x + 1
    BY <1>7, <2>4, <2>5, <2>7
  <2>9. \A i, j \in 1 .. k + 1 : i < j => delivered'[i] < delivered'[j]
    BY <2>4, <2>5, <2>6, <2>7
  <2>10. \A e \in Deliverers : delivering'[e] = IF e = Loop THEN n ELSE -1
    BY <1>5, <1>10 DEF Alone, Busy, ChannelInv, ChannelTypes
  <2>11. \A m \in buffer : x < m /\ m \in Nat /\ x + 1 <= m
    <3> SUFFICES ASSUME NEW m \in buffer PROVE x < m /\ m \in Nat /\ x + 1 <= m
      OBVIOUS
    <3>1. m \in Nat /\ x < m
      BY <1>6, <2>1, LoopApart, Numbered DEF InSequence, ChannelInv
    <3> QED
      BY <1>7, <3>1
  <2>12. \A m \in left, l \in buffer \ left : m < l
    BY <1>1, <1>5, <2>1 DEF OldestFirst
  <2>13. \A m \in buffer' : n < m
    <3> SUFFICES ASSUME NEW m \in buffer' PROVE n < m
      OBVIOUS
    <3>1. m \in buffer /\ m # n /\ m \in Nat
      BY <1>5, <2>11
    <3>2. CASE n = -1
      BY <3>1, <3>2
    <3>3. CASE n \in left /\ m \in left
      <4>1. n \in Nat /\ n <= m
        BY <1>2, <1>3, <1>4, <2>11, <3>3
      <4> QED
        BY <3>1, <4>1
    <3>4. CASE n \in left /\ m \notin left
      BY <2>12, <3>1, <3>4
    <3> QED
      BY <1>3, <3>2, <3>3, <3>4
  <2>14. InSequence'
    <3>1. nextDelivery' <= nextExpected'
      BY <1>5, <1>7, <2>2, <2>3
    <3>2. \A d, e \in Deliverers : Busy(d)' /\ Busy(e)' => d = e
      BY <2>10 DEF Busy
    <3>3. \A d \in Deliverers : Busy(d)' => d = Loop /\ nextDelivery' <= delivering'[d]
      BY <1>3, <1>8, <2>3, <2>10, <2>11 DEF Busy
    <3>4. \A m \in buffer', d \in Deliverers : delivering'[d] < m
      <4>1. \A m \in buffer' : -1 < m
        BY <1>5, <2>11
      <4> QED
        BY <2>10, <2>13, <4>1
    <3>5. \A m \in buffer' : nextDelivery' <= m
      BY <1>5, <2>3, <2>11
    <3> QED
      BY <2>3, <2>4, <2>8, <2>9, <3>1, <3>2, <3>3, <3>4, <3>5, LoopApart DEF InSequence
  <2>15. OldestFirst'
    BY <1>2, <1>5, <2>1, <2>12 DEF OldestFirst
  <2> QED
    BY <2>14, <2>15
<1> QED
  BY <1>5, <1>9, <1>10 DEF ChannelInv

LEMMA ChannelInit == OrderingInit => ChannelInv
<1> SUFFICES ASSUME OrderingInit PROVE ChannelInv
  OBVIOUS
<1>1. /\ delivered = <<>> /\ buffer = {} /\ aged = {} /\ nextDelivery = 0 /\ nextExpected = 0
      /\ delivering = [d \in Deliverers |-> -1] /\ handled \in BOOLEAN /\ network = Arrivals
  BY DEF OrderingInit
<1>2. Len(delivered) = 0 /\ delivered \in Seq(Messages)
  BY <1>1
<1>3. ChannelTypes /\ \A d \in Deliverers : ~Busy(d)
  BY <1>1, <1>2 DEF ChannelTypes, Busy
<1>4. Accepted /\ Once
  BY <1>1, <1>2, <1>3, LoopApart DEF Accepted, Once, Busy
<1>5. InSequence /\ OldestFirst
  BY <1>1, <1>2, <1>3, LoopApart DEF InSequence, OldestFirst
<1> QED
  BY <1>3, <1>4, <1>5 DEF ChannelInv

LEMMA ChannelStep == ChannelInv /\ [OrderingNext]_OrderingVars => ChannelInv'
<1> SUFFICES ASSUME ChannelInv, [OrderingNext]_OrderingVars PROVE ChannelInv'
  OBVIOUS
<1>1. CASE UNCHANGED OrderingVars
  <2>1. UNCHANGED <<handled, network, nextExpected, buffer, aged, nextDelivery, delivering,
                    staleLeft, delivered>>
    BY <1>1 DEF OrderingVars
  <2>2. ChannelTypes' /\ Accepted' /\ Once'
    BY <2>1 DEF ChannelInv, ChannelTypes, Accepted, Once, Busy
  <2>3. ~handled => InSequence' /\ OldestFirst'
    BY <2>1 DEF ChannelInv, InSequence, OldestFirst, Busy
  <2> QED
    BY <2>1, <2>2, <2>3 DEF ChannelInv
<1>2. ASSUME NEW a \in Arrivals, Alone(a),
             \/ Lose(a) \/ ReceiveDuplicate(a) \/ ReceiveNext(a)
             \/ ReceiveEarly(a) \/ Flush(a)
      PROVE  ChannelInv'
  BY <1>2, LoseKeeps, DuplicateKeeps, ReceiveNextKeeps, ReceiveEarlyKeeps, FlushKeeps
<1>3. ASSUME NEW n \in Messages, Age(n)
      PROVE  ChannelInv'
  BY <1>3, AgeKeeps
<1>4. CASE Alone(Loop) /\ (Wake \/ DeliverStale)
  BY <1>4, WakeKeeps, DeliverStaleKeeps
<1> QED
  BY <1>1, <1>2, <1>3, <1>4 DEF OrderingNext

\* However the network reorders, repeats and loses the messages of a channel, no
\* message is delivered, handed over or buffered twice; and unless a handler
\* suspends its task, the consumer gets them in the order of their numbers, those
\* the loop gave up waiting for included (ordering.py:167, 211).
THEOREM DeliveryAlwaysInOrder == OrderingSpec => []DeliveredInOrder
<1>1. ASSUME ChannelInv PROVE DeliveredInOrder
  <2>1. \A i, j \in 1 .. Len(delivered) : delivered[i] = delivered[j] => i = j
    BY <1>1 DEF ChannelInv, Once
  <2>2. \A d, e \in Deliverers : Busy(d) /\ delivering[d] = delivering[e] => d = e
    BY <1>1 DEF ChannelInv, Once
  <2>3. Queued \cap InHand = {} /\ (Queued \cup InHand) \cap buffer = {}
    BY <1>1 DEF ChannelInv, Once, Queued, InHand
  <2>4. ~handled => \A i, j \in 1 .. Len(delivered) : i < j => delivered[i] < delivered[j]
    BY <1>1 DEF ChannelInv, InSequence
  <2> QED
    BY <2>1, <2>2, <2>3, <2>4 DEF DeliveredInOrder
<1> QED
  BY <1>1, ChannelInit, ChannelStep, PTL DEF OrderingSpec

=============================================================================

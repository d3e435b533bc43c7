----------------------------- MODULE Backpressure -----------------------------
(***************************************************************************)
(* The flow control of one connection id                                   *)
(* (shared/messaging/backpressure.py).  A send counts itself as pending,   *)
(* awaits the sender function and takes itself off again; a flow with too  *)
(* many pending sends is paused until few are left, and later sends wait   *)
(* for an event.  A step is what runs between two awaits.  Each            *)
(* registration of the id makes a new flow and a new queue, and a call     *)
(* keeps those it found.  The metrics are left out, and so is the global   *)
(* flow, which nothing moves.                                              *)
(***************************************************************************)
EXTENDS Integers, FiniteSets

CONSTANTS
    Senders,            \* calls of send at a time
    Drainers,           \* calls of drain_queue at a time
    HighWater, LowWater,
    QueueSize,          \* max_queue_size
    DrainBatch,         \* batch_size of drain_queue
    LastConnection,     \* bound: registrations of the id
    MaxCancelled        \* bound: cancelled sends of one registration

ASSUME WaterAssumption ==
    HighWater \in Nat \ {0} /\ LowWater \in Nat /\ LowWater < HighWater
ASSUME FlowCallsAssumption ==
    /\ IsFiniteSet(Senders) /\ IsFiniteSet(Drainers) /\ Senders \cap Drainers = {}
    /\ {DrainBatch, LastConnection} \subseteq Nat

VARIABLES
    made,        \* registrations so far
    registered,  \* the one the id stands for, 0: none
    flow,        \* FlowControl per registration: state, pending
    queued,      \* messages in the queue of a registration
    call,        \* a call of send: where it is, on which flow
    drain,       \* a call of drain_queue, and how many messages it may still take
    leaked       \* cancelled sends, which stay pending

FlowVars == <<made, registered, flow, queued, call, drain, leaked>>

Connections == 1 .. LastConnection
NotCalled == [at |-> "idle", flow |-> 0]

FlowInit ==
    /\ made = 0 /\ registered = 0
    /\ flow = [c \in Connections |-> [state |-> "flowing", pending |-> 0]]
    /\ queued = [c \in Connections |-> 0]
    /\ call = [s \in Senders |-> NotCalled]
    /\ drain = [d \in Drainers |-> [at |-> "idle", flow |-> 0, left |-> 0]]
    /\ leaked = [c \in Connections |-> 0]

-----------------------------------------------------------------------------
Increment(f) ==
    [state |-> IF f.pending + 1 >= HighWater /\ f.state = "flowing" THEN "paused" ELSE f.state,
     pending |-> f.pending + 1]

\* As the code must not be: the flow resumes below the low mark only.
Decrement_Below(f) ==
    [state |-> IF f.pending - 1 < LowWater /\ f.state = "paused" THEN "flowing" ELSE f.state,
     pending |-> f.pending - 1]

Decrement(f) ==
    [state |-> IF f.pending - 1 <= LowWater /\ f.state = "paused" THEN "flowing" ELSE f.state,
     pending |-> f.pending - 1]

\* Setting the event wakes those who wait for it, whatever it is when they run;
\* those in own go to where at says.
Woken(c, resumed, own, at) ==
    [t \in Senders |->
        IF t \in own THEN at
        ELSE IF resumed /\ call[t].at = "waiting" /\ call[t].flow = c
        THEN [call[t] EXCEPT !.at = "woken"] ELSE call[t]]

Resumed(c, f) == flow[c].state # "flowing" /\ f.state = "flowing"

-----------------------------------------------------------------------------
Register ==
    /\ made < LastConnection
    /\ made' = made + 1 /\ registered' = made + 1
    /\ UNCHANGED <<flow, queued, call, drain, leaked>>

Unregister ==
    /\ registered # 0 /\ registered' = 0
    /\ UNCHANGED <<made, flow, queued, call, drain, leaked>>

SendMessage(s) ==
    /\ call[s].at = "idle" /\ registered # 0
    /\ LET f == flow[registered]
       IN  \/ /\ f.state = "flowing"
              /\ flow' = [flow EXCEPT ![registered] = Increment(f)]
              /\ call' = [call EXCEPT ![s] = [at |-> "sending", flow |-> registered]]
           \/ /\ f.state # "flowing"
              /\ call' = [call EXCEPT ![s] = [at |-> "waiting", flow |-> registered]]
              /\ UNCHANGED flow
    /\ UNCHANGED <<made, registered, queued, drain, leaked>>

\* The message is dropped.
TimeOutSend(s) ==
    /\ call[s].at = "waiting"
    /\ call' = [call EXCEPT ![s].at = "idle"]
    /\ UNCHANGED <<made, registered, flow, queued, drain, leaked>>

\* The state of the flow is not looked at again.
Proceed(s) ==
    /\ call[s].at = "woken"
    /\ call' = [call EXCEPT ![s].at = "sending"]
    /\ flow' = [flow EXCEPT ![call[s].flow] = Increment(@)]
    /\ UNCHANGED <<made, registered, queued, drain, leaked>>

\* The sender function returned or raised.
EndSend(s) ==
    /\ call[s].at = "sending"
    /\ LET c == call[s].flow
           f == Decrement(flow[c])
       IN  /\ flow' = [flow EXCEPT ![c] = f]
           /\ call' = Woken(c, Resumed(c, f), {s}, [call[s] EXCEPT !.at = "idle"])
    /\ UNCHANGED <<made, registered, queued, drain, leaked>>

\* CancelledError is no Exception: a send that is cancelled while it sends stays
\* pending for ever.
CancelSend(s) ==
    /\ call[s].at # "idle"
    /\ LET c == call[s].flow
       IN  IF call[s].at = "sending"
           THEN leaked[c] < MaxCancelled /\ leaked' = [leaked EXCEPT ![c] = @ + 1]
           ELSE UNCHANGED leaked
    /\ call' = [call EXCEPT ![s].at = "idle"]
    /\ UNCHANGED <<made, registered, flow, queued, drain>>

ForceResume ==
    /\ registered # 0
    /\ flow' = [flow EXCEPT ![registered].state = "flowing"]
    /\ call' = Woken(registered, flow[registered].state # "flowing", {}, NotCalled)
    /\ UNCHANGED <<made, registered, queued, drain, leaked>>

ForceBlock ==
    /\ registered # 0
    /\ flow' = [flow EXCEPT ![registered].state = "blocked"]
    /\ UNCHANGED <<made, registered, queued, call, drain, leaked>>

-----------------------------------------------------------------------------
\* A full queue keeps its length, whichever message the policy drops.
Put(q, c) == IF c # 0 /\ q[c] < QueueSize THEN [q EXCEPT ![c] = @ + 1] ELSE q

QueueMessage ==
    /\ queued' = Put(queued, registered)
    /\ UNCHANGED <<made, registered, flow, call, drain, leaked>>

\* drain_queue goes on with the next message, or returns.  f is the flow and q
\* the queues by then.
TakeNext(d, c, f, q, left) ==
    IF left > 0 /\ q[c] > 0 /\ f.state = "flowing"
    THEN /\ queued' = [q EXCEPT ![c] = @ - 1]
         /\ flow' = [flow EXCEPT ![c] = Increment(f)]
         /\ drain' = [drain EXCEPT ![d] = [at |-> "sending", flow |-> c, left |-> left - 1]]
    ELSE /\ queued' = q
         /\ flow' = [flow EXCEPT ![c] = f]
         /\ drain' = [drain EXCEPT ![d] = [at |-> "idle", flow |-> 0, left |-> 0]]

DrainQueue(d) ==
    /\ drain[d].at = "idle" /\ registered # 0
    /\ TakeNext(d, registered, flow[registered], queued, DrainBatch)
    /\ UNCHANGED <<made, registered, call, leaked>>

\* Sent: on with the next one.  Refused: it goes to the end of the queue the id
\* has by now, if there is room, and the call returns.  Raised: it is gone.
DrainEnds(d) ==
    /\ drain[d].at = "sending"
    /\ LET c == drain[d].flow
           f == Decrement(flow[c])
       IN  /\ \/ TakeNext(d, c, f, queued, drain[d].left)
              \/ TakeNext(d, c, f, Put(queued, registered), 0)
              \/ TakeNext(d, c, f, queued, 0)
           /\ call' = Woken(c, Resumed(c, f), {}, NotCalled)
    /\ UNCHANGED <<made, registered, leaked>>

CancelDrain(d) ==
    /\ drain[d].at = "sending"
    /\ leaked[drain[d].flow] < MaxCancelled
    /\ leaked' = [leaked EXCEPT ![drain[d].flow] = @ + 1]
    /\ drain' = [drain EXCEPT ![d] = [at |-> "idle", flow |-> 0, left |-> 0]]
    /\ UNCHANGED <<made, registered, flow, queued, call>>

FlowNext ==
    \/ Register \/ Unregister \/ ForceResume \/ ForceBlock \/ QueueMessage
    \/ \E s \in Senders :
          SendMessage(s) \/ TimeOutSend(s) \/ Proceed(s) \/ EndSend(s) \/ CancelSend(s)
    \/ \E d \in Drainers : DrainQueue(d) \/ DrainEnds(d) \/ CancelDrain(d)

FlowSpec == FlowInit /\ [][FlowNext]_FlowVars

-----------------------------------------------------------------------------
UnderWay(c) ==
    {s \in Senders : call[s].at = "sending" /\ call[s].flow = c}
        \cup {d \in Drainers : drain[d].at = "sending" /\ drain[d].flow = c}

\* A send waits only while the flow is held, and a flow is paused only over sends
\* that are still under way, the last of which resumes it, or were cancelled:
\* whichever end, time out, drain or register again meanwhile, nobody is left to
\* wait for an event that no one will set.
PauseIsBacked ==
    /\ \A s \in Senders : call[s].at = "waiting" => flow[call[s].flow].state # "flowing"
    /\ \A c \in Connections :
          /\ flow[c].pending = Cardinality(UnderWay(c)) + leaked[c]
          /\ flow[c].state = "paused" => flow[c].pending > LowWater
=============================================================================

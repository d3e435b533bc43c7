----------------------------- MODULE MCLibraries -----------------------------
(***************************************************************************)
(* The model of the run "libraries": the circuit breaker, an ordered       *)
(* channel, a concurrency manager with two graphs, the connection manager  *)
(* and the priority scheduler.  They share no state, so each behaviour     *)
(* exercises one of them (part).                                           *)
(***************************************************************************)
EXTENDS CircuitBreaker, MessageOrdering, TaskGraph, WebSockets, PriorityScheduler, TLC

CONSTANTS c1, c2, c3, g1, g2, n1, n2, n3, n4, n5, n6, w1, w2, u1, h1

VARIABLE part

LibrariesVars == <<part, BreakerVars, OrderingVars, GraphVars, WebSocketVars, SchedulerVars>>

LibrariesInit ==
    /\ part \in {"breaker", "channel", "graphs", "sockets", "scheduler"}
    /\ BreakerInit /\ GraphInit /\ WebSocketInit
    /\ OrderingInit /\ (part # "channel" => ~handled)
    /\ PriorityInit /\ (part # "scheduler" => policy = "priority")

LibrariesNext ==
    /\ UNCHANGED part
    /\ \/ /\ part = "breaker" /\ BreakerNext
          /\ UNCHANGED <<OrderingVars, GraphVars, WebSocketVars, SchedulerVars>>
       \/ /\ part = "channel" /\ OrderingNext
          /\ UNCHANGED <<BreakerVars, GraphVars, WebSocketVars, SchedulerVars>>
       \/ /\ part = "graphs" /\ GraphNext
          /\ UNCHANGED <<BreakerVars, OrderingVars, WebSocketVars, SchedulerVars>>
       \/ /\ part = "sockets" /\ WebSocketNext
          /\ UNCHANGED <<BreakerVars, OrderingVars, GraphVars, SchedulerVars>>
       \/ /\ part = "scheduler" /\ PriorityNext
          /\ UNCHANGED <<BreakerVars, OrderingVars, GraphVars, WebSocketVars>>

\* The fairness of each part, in its own behaviours: in the others it has nothing
\* to do.
LibrariesFairness ==
    /\ \A c \in Callers :
          /\ WF_BreakerVars(part = "breaker" /\ Call(c))
          /\ WF_BreakerVars(part = "breaker" /\ (Succeed(c) \/ Fail(c) \/ EndUnrecorded(c)))
    /\ WF_BreakerVars(part = "breaker" /\ TimeOut)
    /\ \A a \in Arrivals : WF_OrderingVars(part = "channel" /\ Flush(a))
    /\ \A n \in Messages : WF_OrderingVars(part = "channel" /\ Alone(Loop) /\ Age(n))
    /\ WF_OrderingVars(part = "channel" /\ Alone(Loop) /\ (Wake \/ DeliverStale))
    /\ \A g \in Graphs : WF_GraphVars(part = "graphs" /\ (WakeUp(g) \/ FirstCompleted(g)))
    /\ \A n \in Nodes : /\ SF_GraphVars(part = "graphs" /\ Begin(n))
                        /\ WF_GraphVars(part = "graphs" /\ (CompleteTask(n) \/ FailTask(n)))
    /\ WF_GraphVars(part = "graphs" /\ StopEnds)
    /\ WF_WebSocketVars(part = "sockets" /\ SweepStarts)
    /\ WF_WebSocketVars(part = "sockets" /\ SweepCloses)
    /\ \A l \in 1 .. MaxStarts : WF_SchedulerVars(part = "scheduler" /\ LoopRound(l))
    /\ \A i \in Items :
          WF_SchedulerVars(part = "scheduler" /\ (BeginTask(i) \/ EndTask(i) \/ RetryTask(i)))

LibrariesSpec == LibrariesInit /\ [][LibrariesNext]_LibrariesVars /\ LibrariesFairness

\* Two tasks of two users, the second the more urgent.
Urgency == <<1, 0>>
Owners == <<1, 2>>

\* A chain of three tasks and a single one in one graph, a chain in the other.
TwoGraphs == n1 :> g1 @@ n2 :> g1 @@ n3 :> g1 @@ n4 :> g1 @@ n5 :> g2 @@ n6 :> g2
Chains == n1 :> {} @@ n2 :> {} @@ n3 :> {n1} @@ n4 :> {n3} @@ n5 :> {} @@ n6 :> {n5}
=============================================================================

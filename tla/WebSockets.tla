------------------------------ MODULE WebSockets ------------------------------
(***************************************************************************)
(* The connection manager (shared/messaging/websocket_manager.py): the     *)
(* connections, who they belong to and what they subscribe to, the clean-  *)
(* up loop and stop.  disconnect takes a connection out of the indexes,    *)
(* awaits the close of its socket, and only then deletes it; a send awaits *)
(* the socket; everything else runs in one step.  A connection id is a     *)
(* fresh UUID, so that each is used once.  Heartbeats are sends.  The      *)
(* message queues are made and deleted with the connection and never used. *)
(***************************************************************************)
EXTENDS Integers, FiniteSets

CONSTANTS
    Sockets,         \* connection ids
    Users, Channels,
    MaxConnections,
    MaxClosers,      \* bound: disconnects of one connection at a time
    Nothing          \* no connection

VARIABLES
    connections,     \* _connections: the ids present
    conn,            \* per id: state, user, subscriptions
    userConns,       \* _user_connections
    subscribers,     \* _channel_subscribers
    sendingTo,       \* the ids a send awaits
    stale,           \* the ids without activity for connection_timeout
    closers,         \* the disconnects that await the close of an id
    active,          \* _running
    sweep,           \* _cleanup_loop: at, the ids of this round left, the one it closes
    closingAll         \* stop: at, the ids left, the one it closes

WebSocketVars == <<connections, conn, userConns, subscribers, sendingTo, stale,
                   closers, active, sweep, closingAll>>

Resting == [at |-> "asleep", left |-> {}, id |-> Nothing]

WebSocketInit ==
    /\ connections = {} /\ sendingTo = {} /\ stale = {}
    /\ conn = [c \in Sockets |-> [state |-> "none", user |-> Nothing, subscriptions |-> {}]]
    /\ userConns = [u \in Users |-> {}] /\ subscribers = [h \in Channels |-> {}]
    /\ closers = [c \in Sockets |-> 0]
    /\ active = TRUE /\ sweep = Resting /\ closingAll = Resting

IndexVars == <<connections, conn, userConns, subscribers>>

-----------------------------------------------------------------------------
Connect(c, u) ==
    /\ conn[c].state = "none"
    /\ Cardinality(connections) < MaxConnections
    /\ connections' = connections \cup {c}
    /\ conn' = [conn EXCEPT ![c] = [state |-> "open", user |-> u, subscriptions |-> {}]]
    /\ userConns' = [userConns EXCEPT ![u] = @ \cup {c}]
    /\ UNCHANGED <<subscribers, sendingTo, stale, closers, active, sweep, closingAll>>

\* As the code must not be: a connection that is being closed may subscribe.
Subscribe_Closing(c, h) ==
    /\ c \in connections
    /\ conn' = [conn EXCEPT ![c].subscriptions = @ \cup {h}]
    /\ subscribers' = [subscribers EXCEPT ![h] = @ \cup {c}]
    /\ UNCHANGED <<connections, userConns, sendingTo, stale, closers, active, sweep, closingAll>>

Subscribe(c, h) ==
    /\ c \in connections /\ conn[c].state = "open"
    /\ conn' = [conn EXCEPT ![c].subscriptions = @ \cup {h}]
    /\ subscribers' = [subscribers EXCEPT ![h] = @ \cup {c}]
    /\ UNCHANGED <<connections, userConns, sendingTo, stale, closers, active, sweep, closingAll>>

Unsubscribe(c, h) ==
    /\ c \in connections
    /\ conn' = [conn EXCEPT ![c].subscriptions = @ \ {h}]
    /\ subscribers' = [subscribers EXCEPT ![h] = @ \ {c}]
    /\ UNCHANGED <<connections, userConns, sendingTo, stale, closers, active, sweep, closingAll>>

\* send_to_user, broadcast and the heartbeat send to the ids they listed.
StartSend(c) ==
    /\ c \in connections /\ conn[c].state = "open"
    /\ sendingTo' = sendingTo \cup {c}
    /\ UNCHANGED <<IndexVars, stale, closers, active, sweep, closingAll>>

\* A send that fails is no activity.
EndSendTo(c) ==
    /\ c \in sendingTo
    /\ sendingTo' = sendingTo \ {c}
    /\ stale' \in {stale, stale \ {c}}
    /\ UNCHANGED <<IndexVars, closers, active, sweep, closingAll>>

TimePasses(c) ==
    /\ c \in connections \ stale /\ stale' = stale \cup {c}
    /\ UNCHANGED <<IndexVars, sendingTo, closers, active, sweep, closingAll>>

-----------------------------------------------------------------------------
\* disconnect up to the close of the socket of each in detached, and the rest of
\* it for each in closed.
Change(closed, detached) ==
    /\ connections' = connections \ closed
    /\ conn' = [c \in Sockets |->
          IF c \in closed THEN [conn[c] EXCEPT !.state = "closed"]
          ELSE IF c \in detached THEN [conn[c] EXCEPT !.state = "closing", !.subscriptions = {}]
          ELSE conn[c]]
    /\ userConns' = [u \in Users |-> userConns[u] \ detached]
    /\ subscribers' = [h \in Channels |-> subscribers[h] \ detached]

BeginDisconnect(c) ==
    /\ c \in connections /\ closers[c] < MaxClosers
    /\ Change({}, {c})
    /\ closers' = [closers EXCEPT ![c] = @ + 1]
    /\ UNCHANGED <<sendingTo, stale, active, sweep, closingAll>>

\* A second one finds the connection gone and raises KeyError.
EndDisconnect(c) ==
    /\ closers[c] > 0
    /\ Change({c}, {})
    /\ closers' = [closers EXCEPT ![c] = @ - 1]
    /\ UNCHANGED <<sendingTo, stale, active, sweep, closingAll>>

-----------------------------------------------------------------------------
\* The next disconnect of a loop over left, after that of closed; those who are
\* gone by now are passed over.
Detaches(left, closed, loop, end) ==
    LET present == left \cap (connections \ closed)
    IN  IF present = {}
        THEN Change(closed, {}) /\ loop = end
        ELSE \E c \in present :
                /\ Change(closed, {c})
                /\ loop = [at |-> "closing", left |-> left \ {c}, id |-> c]

SweepStarts ==
    /\ active /\ sweep.at = "asleep"
    /\ stale \cap connections # {}
    /\ Detaches(stale, {}, sweep', Resting)
    /\ UNCHANGED <<sendingTo, stale, closers, active, closingAll>>

\* As the code must not be: the loop ends with its first KeyError.
SweepCloses_Dies ==
    /\ sweep.at = "closing"
    /\ IF sweep.id \in connections
       THEN Detaches(sweep.left, {sweep.id}, sweep', Resting)
       ELSE Change({sweep.id}, {}) /\ sweep' = [Resting EXCEPT !.at = "ended"]
    /\ UNCHANGED <<sendingTo, stale, closers, active, closingAll>>

\* A KeyError ends the round; the loop sleeps and starts another.
SweepCloses ==
    /\ sweep.at = "closing"
    /\ IF sweep.id \in connections
       THEN Detaches(sweep.left, {sweep.id}, sweep', Resting)
       ELSE Change({sweep.id}, {}) /\ sweep' = Resting
    /\ UNCHANGED <<sendingTo, stale, closers, active, closingAll>>

\* stop cancels the clean-up, which ends where it awaits: what it was closing is
\* still there for stop to find.
StopManager ==
    /\ active /\ active' = FALSE
    /\ sweep' = [Resting EXCEPT !.at = "ended"]
    /\ Detaches(connections, {}, closingAll', [Resting EXCEPT !.at = "ended"])
    /\ UNCHANGED <<sendingTo, stale, closers>>

\* A KeyError leaves stop, and the connections it had not come to stay open.
StopCloses ==
    /\ closingAll.at = "closing"
    /\ IF closingAll.id \in connections
       THEN Detaches(closingAll.left, {closingAll.id}, closingAll', [Resting EXCEPT !.at = "ended"])
       ELSE Change({closingAll.id}, {}) /\ closingAll' = [closingAll EXCEPT !.at = "raised"]
    /\ UNCHANGED <<sendingTo, stale, closers, active, sweep>>

WebSocketNext ==
    \/ \E c \in Sockets :
          \/ \E u \in Users : Connect(c, u)
          \/ \E h \in Channels : Subscribe(c, h) \/ Unsubscribe(c, h)
          \/ StartSend(c) \/ EndSendTo(c) \/ TimePasses(c)
          \/ BeginDisconnect(c) \/ EndDisconnect(c)
    \/ SweepStarts \/ SweepCloses
    \/ StopManager \/ StopCloses

\* The event loop runs the clean-up, and a close of a socket returns.
WebSocketFairness ==
    WF_WebSocketVars(SweepStarts) /\ WF_WebSocketVars(SweepCloses)

WebSocketSpec == WebSocketInit /\ [][WebSocketNext]_WebSocketVars /\ WebSocketFairness

-----------------------------------------------------------------------------
\* No user and no channel refers to a connection that is gone, whichever of its
\* handler, the clean-up and stop closes it, and what it subscribes meanwhile.
NoGhosts ==
    /\ \A u \in Users, c \in Sockets :
          c \in userConns[u] <=> c \in connections /\ conn[c].state = "open" /\ conn[c].user = u
    /\ \A h \in Channels, c \in Sockets :
          c \in subscribers[h] <=> c \in connections /\ h \in conn[c].subscriptions

\* A connection that stays silent is removed while the manager runs, whoever else
\* disconnects it or another of the same round at the same time.
StaleRemoved ==
    \A c \in Sockets :
        c \in connections \cap stale ~> c \notin connections \cap stale \/ ~active
=============================================================================

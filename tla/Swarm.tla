------------------------------- MODULE Swarm -------------------------------
(***************************************************************************)
(* A swarm of the swarm controller (app/swarm_controller.py): its agents   *)
(* work on one goal while requests scale the swarm and the control loop    *)
(* replaces failed agents.  Spawning an agent never suspends, so creation, *)
(* scaling and a replacement by the health check are single steps; an      *)
(* agent's work is one request to the language model.                      *)
(*                                                                         *)
(* The agents are kept in a dictionary that some executions iterate over   *)
(* while it changes, so its table is modelled as the interpreter (CPython  *)
(* 3.11, the image's) keeps it: a deleted entry leaves a hole, and an      *)
(* insertion that finds no room moves the entries together.                *)
(***************************************************************************)
EXTENDS Integers, Sequences, FiniteSets

CONSTANTS
    Modes,          \* of SwarmMode
    MaxSize,        \* bound on the size asked for
    MaxSpawned      \* bound on the agents spawned altogether

ASSUME SwarmAssumption ==
    /\ Modes \subseteq {"parallel", "pipeline", "collaborative", "consensus", "competitive"}
    /\ MaxSize \in Nat /\ MaxSpawned \in Nat

Spawned == 1 .. MaxSpawned
Nobody == 0

VARIABLES
    mode,       \* Swarm.mode
    swarm,      \* Swarm.status
    slots,      \* the entries of the table of Swarm.agents, Nobody where one was deleted
    room,       \* the insertions it has room for
    agent,      \* SwarmAgent.status
    pool,       \* agent_pool
    todo,       \* agents an execution over a snapshot has not reached
    turn,       \* the agent a sequential execution waits for
    inFlight,   \* agents a parallel execution waits for
    cursor,     \* the iterator over the live dictionary: position, size, items left
    asked,      \* agents that were given work
    results,    \* the proposals, then the results
    started,    \* the execution task has started
    compacted   \* history: its table was since moved together over holes

SwarmVars == <<mode, swarm, slots, room, agent, pool, todo, turn,
               inFlight, cursor, asked, results, started, compacted>>

SwarmInit ==
    /\ mode \in Modes /\ swarm = "initializing"
    /\ slots = <<>> /\ room = 0
    /\ agent = [i \in Spawned |-> "none"] /\ pool = {}
    /\ todo = <<>> /\ turn = Nobody /\ inFlight = {}
    /\ cursor = [at |-> 0, used |-> 0, left |-> 0]
    /\ asked = {} /\ results = 0
    /\ started = FALSE /\ compacted = FALSE

\* The modes that iterate over swarm.agents while its agents work; the others
\* iterate over a list made at the start.
Iterating == {"consensus", "competitive"}

SwarmAgents == {slots[i] : i \in DOMAIN slots} \ {Nobody}

\* They are numbered as they are inserted.
InOrder == [k \in 1 .. Cardinality(SwarmAgents) |->
                CHOOSE a \in SwarmAgents : Cardinality({b \in SwarmAgents : b <= a}) = k]

\* The entries a new table takes, at three times the entries in use: two thirds of
\* a power of two, five at first.
Usable(used) ==
    LET wide == {2^k : k \in 4 .. used + 4}
        enough == {w \in wide : w >= 3 * used}
    IN  IF used = 0 THEN 5 ELSE (2 * (CHOOSE w \in enough : \A v \in enough : w <= v)) \div 3

\* Entries are appended; those in S are deleted afterwards.
Insert(new, S) ==
    LET moved == Len(new) > room /\ \E i \in DOMAIN slots : slots[i] = Nobody
        grown == (IF moved THEN InOrder ELSE slots) \o new
        left[size \in Nat] == IF Len(grown) <= size THEN size - Len(grown) ELSE left[Usable(size)]
    IN  /\ slots' = [i \in DOMAIN grown |-> IF grown[i] \in S THEN Nobody ELSE grown[i]]
        /\ room' = IF Len(new) <= room THEN room - Len(new) ELSE left[Usable(Len(InOrder) + room)]
        /\ compacted' = (compacted \/ (started /\ moved))

\* Agents are numbered as they are spawned, registered in the pool and inserted.
Spawn(n, S) ==
    LET born == Cardinality({a \in Spawned : agent[a] # "none"})
        new == born + 1 .. born + n
    IN  /\ born + n <= MaxSpawned
        /\ Insert([i \in 1 .. n |-> born + i], S)
        /\ pool' = pool \cup new
        /\ agent' = [a \in Spawned |-> IF a \in new THEN "idle" ELSE agent[a]]

-----------------------------------------------------------------------------
Create(n) ==
    /\ swarm = "initializing"
    /\ Spawn(n, {})
    /\ swarm' = "active"
    /\ UNCHANGED <<mode, todo, turn, inFlight, cursor, asked, results, started>>

\* next() on the values of the live dictionary, as the interpreter has it: an
\* error if the size has changed, or if there are more keys than there were.
Upcoming(cur) == {i \in cur.at + 1 .. Len(slots) : slots[i] # Nobody}

Changed(cur) == Cardinality(SwarmAgents) # cur.used \/ (Upcoming(cur) # {} /\ cur.left = 0)
First(S) == CHOOSE i \in S : \A j \in S : i <= j

\* The execution goes on, with the agents' states after, and gives work to a.
Ask(a, after) ==
    /\ agent' = [after EXCEPT ![a] = "working"]
    /\ turn' = a /\ asked' = asked \cup {a}
    /\ UNCHANGED swarm

Finish(how, after) ==
    /\ swarm' = how /\ agent' = after /\ turn' = Nobody
    /\ UNCHANGED asked

\* The winner of a competition or of a vote; a single agent has nobody to vote
\* for its proposal.
Winners(found) ==
    IF found > 0 /\ (mode = "competitive" \/ Cardinality(SwarmAgents) > 1) THEN 1 ELSE 0

\* As the code must not be: the agents there were at the start are counted off.
ContinueLive_CountsOff(cur, found, after) ==
    /\ UNCHANGED todo
    /\ \/ /\ (cur.left = 0 \/ Upcoming(cur) = {}) /\ Finish("completed", after)
          /\ cursor' = cur /\ results' = Winners(found)
       \/ /\ cur.left > 0 /\ Upcoming(cur) # {} /\ Ask(slots[First(Upcoming(cur))], after)
          /\ cursor' = [at |-> First(Upcoming(cur)), used |-> cur.used, left |-> cur.left - 1]
          /\ results' = found

ContinueLive(cur, found, after) ==
    /\ UNCHANGED todo
    /\ \/ /\ Changed(cur) /\ Finish("failed", after)
          /\ cursor' = cur /\ results' = 0
       \/ /\ ~Changed(cur) /\ Upcoming(cur) = {} /\ Finish("completed", after)
          /\ cursor' = cur /\ results' = Winners(found)
       \/ /\ ~Changed(cur) /\ Upcoming(cur) # {} /\ Ask(slots[First(Upcoming(cur))], after)
          /\ cursor' = [at |-> First(Upcoming(cur)), used |-> cur.used, left |-> cur.left - 1]
          /\ results' = found

ContinueListed(list, found, after) ==
    /\ UNCHANGED cursor
    /\ \/ /\ list = <<>> /\ Finish("completed", after)
          /\ todo' = list /\ results' = IF mode = "collaborative" THEN 1 ELSE found
       \/ /\ list # <<>> /\ Ask(Head(list), after)
          /\ todo' = Tail(list) /\ results' = found

\* All agents at once; gather() waits for the last of them, and keeps the
\* results of refused and failed requests, which are None.
ContinueParallel(waiting, after) ==
    /\ inFlight' = waiting /\ agent' = after
    /\ swarm' = IF waiting = {} THEN "completed" ELSE swarm
    /\ UNCHANGED <<todo, turn, cursor>>

Execute ==
    /\ swarm = "active" /\ ~started /\ started' = TRUE
    /\ \/ /\ mode = "parallel"
          /\ ContinueParallel(SwarmAgents, [a \in Spawned |-> IF a \in SwarmAgents THEN "working" ELSE agent[a]])
          /\ asked' = SwarmAgents /\ results' = Cardinality(SwarmAgents)
       \/ /\ mode \in Iterating /\ UNCHANGED inFlight
          /\ LET size == Cardinality(SwarmAgents)
             IN  ContinueLive([at |-> 0, used |-> size, left |-> size], 0, agent)
       \/ /\ mode \in {"pipeline", "collaborative"} /\ UNCHANGED inFlight
          /\ ContinueListed(InOrder, 0, agent)
    /\ UNCHANGED <<mode, slots, room, pool, compacted>>

\* A request answers, is refused (the agent stays "working") or raises.
Outcomes == [answered |-> "idle", refused |-> "working", raised |-> "error"]

Answer(a, outcome) ==
    LET after == [agent EXCEPT ![a] = Outcomes[outcome]]
        found == results + (IF outcome = "answered" THEN 1 ELSE 0)
    IN  /\ \/ /\ a \in inFlight
              /\ ContinueParallel(inFlight \ {a}, after) /\ UNCHANGED <<asked, results>>
           \/ /\ a = turn /\ mode \in Iterating /\ UNCHANGED inFlight
              /\ ContinueLive(cursor, found, after)
           \/ /\ a = turn /\ mode \notin Iterating /\ UNCHANGED inFlight
              /\ ContinueListed(todo, found, after)
        /\ UNCHANGED <<mode, slots, room, pool, started, compacted>>

-----------------------------------------------------------------------------
\* Scaling down keeps those that were inserted first.
Scale(n) ==
    /\ swarm # "initializing" /\ n # Cardinality(SwarmAgents)
    /\ \/ /\ n > Cardinality(SwarmAgents)
          /\ Spawn(n - Cardinality(SwarmAgents), {})
       \/ /\ n < Cardinality(SwarmAgents)
          /\ LET kept == {InOrder[i] : i \in 1 .. n}
             IN  /\ slots' = [i \in DOMAIN slots |-> IF slots[i] \in kept THEN slots[i] ELSE Nobody]
                 /\ pool' = pool \ (SwarmAgents \ kept)
          /\ UNCHANGED <<room, agent, compacted>>
    /\ UNCHANGED <<mode, swarm, todo, turn, inFlight, cursor, asked, results, started>>

\* The control loop replaces a failed agent, which leaves the swarm, not the pool.
\* A pass replaces the failed one after the other, but its own iteration over the
\* dictionary may skip some or raise; the next pass finds them.
CheckHealth(a) ==
    /\ swarm = "active" /\ a \in SwarmAgents /\ agent[a] = "error"
    /\ Spawn(1, {a})
    /\ UNCHANGED <<mode, swarm, todo, turn, inFlight, cursor, asked, results, started>>

SwarmNext ==
    \/ \E n \in 0 .. MaxSize : Create(n) \/ Scale(n)
    \/ Execute
    \/ \E a \in Spawned, outcome \in DOMAIN Outcomes : Answer(a, outcome)
    \/ \E a \in Spawned : CheckHealth(a)

\* The execution task runs, and requests end (they time out after a minute).
SwarmFairness ==
    WF_SwarmVars(Execute \/ \E a \in Spawned, outcome \in DOMAIN Outcomes : Answer(a, outcome))

SwarmSpec == SwarmInit /\ [][SwarmNext]_SwarmVars /\ SwarmFairness

-----------------------------------------------------------------------------

\* Nobody decides for agents that were not heard: when a vote or a competition
\* completes, every agent of the swarm as it is by then has had its turn.  Excepted
\* are executions under which the table was moved together over holes: their
\* iterator goes on at the same place of another table, and may have passed agents.
AllHeard ==
    [][swarm = "active" /\ swarm' = "completed" /\ mode \in Iterating
           => compacted \/ SwarmAgents \subseteq asked]_SwarmVars
=============================================================================

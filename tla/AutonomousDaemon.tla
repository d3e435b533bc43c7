-------------------------- MODULE AutonomousDaemon --------------------------
(***************************************************************************)
(* The autonomous daemon (app/autonomous_daemon.py) and the self-trigger   *)
(* of each agent (app/self_trigger.py).  A trigger is a coroutine that     *)
(* decides by the agent's internal state whether it acts; the daemon's     *)
(* main loop sets that state, and stops and starts the triggers as the     *)
(* kill switch of another service says.  Tenths stand for the numbers.     *)
(* Nothing in the program puts a message in the daemon's queue or calls    *)
(* update_curiosity, update_resource_level or force_immediate_trigger.     *)
(***************************************************************************)
EXTENDS Integers

CONSTANTS
    Loaded,       \* autonomous agents in the database when the daemon starts
    Newcomers,    \* agents registered by requests and swarms
    MaxStarts,    \* bound: how often the daemon is started
    MaxFreezes    \* bound: how often the kill switch is used

Agents == Loaded \cup Newcomers

\* Each start begins a main loop of its own.
Loops == 1 .. MaxStarts

VARIABLES
    agents,    \* the keys of _agents
    loading,   \* the starts whose _load_autonomous_agents is under way
    loaded,    \* one of them has loaded
    hasGoal,   \* [Agents -> BOOLEAN]: current_goal
    state,     \* [Agents -> state of the context]
    thought,   \* [Agents -> BOOLEAN]: think_count is positive
    trigger,   \* [Agents -> where the agent's trigger loop is]
    mood,      \* [Agents -> internal_state of the trigger]
    main,      \* [Loops -> where the main loop is]
    walk,      \* [Loops -> of a loop over _agents: the keys it began with, those left]
    frozen,    \* the kill switch
    freezes

TriggerVars == <<trigger, mood>>
ContextVars == <<agents, loading, loaded, hasGoal, state, thought>>
MainVars == <<main, walk>>
SwitchVars == <<frozen, freezes>>
DaemonVars == <<ContextVars, TriggerVars, MainVars, SwitchVars>>

NoWalk == [all |-> {}, left |-> {}]
Calm == [urgency |-> 5, resource |-> 10, curiosity |-> 5, failures |-> 0]

DaemonInit ==
    /\ agents = {} /\ loading = {1} /\ loaded = FALSE
    /\ hasGoal = [a \in Agents |-> FALSE]
    /\ state = [a \in Agents |-> "idle"]
    /\ thought = [a \in Agents |-> FALSE]
    /\ trigger = [a \in Agents |-> "none"]
    /\ mood = [a \in Agents |-> Calm]
    /\ main = [l \in Loops |-> IF l = 1 THEN "check" ELSE "none"]
    /\ walk = [l \in Loops |-> NoWalk]
    /\ frozen = FALSE /\ freezes = 0

-----------------------------------------------------------------------------
(* The triggers.                                                             *)

Stopped(a) == trigger[a] \in {"none", "stopped"}

ActNow(a) ==
    \/ mood[a].urgency > 9 \/ mood[a].resource < 1
    \/ 10 * mood[a].curiosity > 85 \/ mood[a].failures >= 3

GoTo(a, place) == trigger' = [trigger EXCEPT ![a] = place]

\* It acts at once, or decides again after the time it has chosen.
DecideTrigger(a) ==
    /\ trigger[a] \in {"decide", "sleep"}
    /\ GoTo(a, IF ActNow(a) THEN "act"
               ELSE IF trigger[a] = "decide" THEN "sleep" ELSE "decide")
    /\ UNCHANGED <<ContextVars, mood, MainVars, SwitchVars>>

\* Only the triggers of loaded agents have a callback; it asks for the kill switch
\* if the agent is idle.
CallBack(a) ==
    /\ trigger[a] = "act"
    /\ GoTo(a, IF a \in Loaded /\ state[a] = "idle" THEN "ask" ELSE "decide")
    /\ UNCHANGED <<ContextVars, mood, MainVars, SwitchVars>>

\* An answer that does not come counts as no.
AskSwitch(a) ==
    /\ trigger[a] = "ask"
    /\ \/ frozen /\ GoTo(a, "decide") /\ UNCHANGED <<state, thought>>
       \/ /\ GoTo(a, "think")
          /\ state' = [state EXCEPT ![a] = "thinking"]
          /\ thought' = [thought EXCEPT ![a] = TRUE]
    /\ UNCHANGED <<agents, loading, loaded, hasGoal, mood, MainVars, SwitchVars>>

\* A goal is made up if there is none, and the model's decision awaited; what it
\* decides is done as "executing".
Think(a) ==
    /\ trigger[a] = "think"
    /\ \/ state' = [state EXCEPT ![a] = "executing"] /\ GoTo(a, "perform")
       \/ GoTo(a, "end") /\ UNCHANGED state
    /\ hasGoal' \in {hasGoal, [hasGoal EXCEPT ![a] = TRUE]}
    /\ UNCHANGED <<agents, loading, loaded, thought, mood, MainVars, SwitchVars>>

\* A session, a message to another agent, another goal, an observation; spawning a
\* child raises, as the row it would add has columns there are not, and changes nothing.
Perform(a) ==
    /\ trigger[a] = "perform" /\ GoTo(a, "end")
    /\ \E goal \in BOOLEAN : hasGoal' \in {hasGoal, [hasGoal EXCEPT ![a] = goal]}
    /\ UNCHANGED <<agents, loading, loaded, state, thought, mood, MainVars, SwitchVars>>

\* The agent is idle by then, so each thought is a success.
EndThought(a) ==
    /\ trigger[a] = "end" /\ GoTo(a, "decide")
    /\ state' = [state EXCEPT ![a] = "idle"]
    /\ mood' = [mood EXCEPT ![a].failures = 0]
    /\ UNCHANGED <<agents, loading, loaded, hasGoal, thought, MainVars, SwitchVars>>

TriggerStep(a) ==
    DecideTrigger(a) \/ CallBack(a) \/ AskSwitch(a) \/ Think(a) \/ Perform(a) \/ EndThought(a)

-----------------------------------------------------------------------------
(* The daemon.                                                               *)

Started(A) == [a \in Agents |-> IF a \in A /\ Stopped(a) THEN "decide" ELSE trigger[a]]

\* POST /autonomous/daemon/start, whether or not the daemon runs.
Start(l) ==
    /\ main[l] = "none" /\ main' = [main EXCEPT ![l] = "check"]
    /\ loading' = loading \cup {l}
    /\ UNCHANGED <<agents, loaded, hasGoal, state, thought, TriggerVars, walk, SwitchVars>>

\* The query answers or fails.  A context replaces the one there is; a trigger that
\* runs goes on.  (A thought under way keeps the old context, which is not told apart.)
Load(l) ==
    /\ l \in loading /\ loading' = loading \ {l}
    /\ \/ /\ loaded' = TRUE
          /\ agents' = agents \cup Loaded
          /\ hasGoal' = [a \in Agents |-> hasGoal[a] \/ a \in Loaded]
          /\ state' = [a \in Agents |-> IF a \in Loaded THEN "idle" ELSE state[a]]
          /\ trigger' = Started(Loaded)
       \/ UNCHANGED <<agents, loaded, hasGoal, state, trigger>>
    /\ UNCHANGED <<thought, mood, MainVars, SwitchVars>>

At(l, place) == main[l] = place
Go(l, place) == main' = [main EXCEPT ![l] = place]

\* Agents that seem to hang are idle again, and goals make urgent.
Monitor ==
    /\ \E hanging \in SUBSET {a \in agents : state[a] = "executing"} :
          state' = [a \in Agents |-> IF a \in hanging THEN "idle" ELSE state[a]]
    /\ mood' = [a \in Agents |->
                   IF a \in agents THEN [mood[a] EXCEPT !.urgency = IF hasGoal[a] THEN 6 ELSE 3]
                   ELSE mood[a]]

CheckSwitch(l) ==
    /\ At(l, "check") /\ Go(l, "rest") /\ Monitor
    /\ UNCHANGED <<agents, loading, loaded, hasGoal, thought, trigger, walk, SwitchVars>>

\* The trigger is cancelled, and waited for; a thought that is cut off ends idle.
StopOne(l, running) ==
    \E a \in running :
        /\ GoTo(a, "stopped")
        /\ state' = [state EXCEPT ![a] = "idle"]
        /\ walk' = [walk EXCEPT ![l] = [all |-> agents, left |-> running \ {a}]]

\* One after the other, those that do not run without a wait.
Freeze(l) ==
    LET running == {a \in agents : ~Stopped(a)} IN
    /\ At(l, "check") /\ frozen
    /\ IF running = {} THEN Go(l, "frozen") /\ UNCHANGED <<state, trigger, walk>>
                       ELSE Go(l, "stop") /\ StopOne(l, running)
    /\ UNCHANGED <<agents, loading, loaded, hasGoal, thought, mood, SwitchVars>>

\* If an agent came meanwhile the loop over them fails, and those that were stopped
\* are not started again.
StopTriggers(l) ==
    /\ At(l, "stop")
    /\ IF agents # walk[l].all \/ walk[l].left = {}
       THEN /\ Go(l, IF agents # walk[l].all THEN "rest" ELSE "frozen")
            /\ walk' = [walk EXCEPT ![l] = NoWalk] /\ UNCHANGED <<state, trigger>>
       ELSE StopOne(l, walk[l].left) /\ UNCHANGED main
    /\ UNCHANGED <<agents, loading, loaded, hasGoal, thought, mood, SwitchVars>>

\* Five seconds later, whatever the switch says by then.
StartTriggers(l) ==
    /\ At(l, "frozen") /\ Go(l, "check")
    /\ trigger' = Started(agents)
    /\ UNCHANGED <<ContextVars, mood, walk, SwitchVars>>

Rest(l) ==
    /\ At(l, "rest") /\ Go(l, "check")
    /\ UNCHANGED <<ContextVars, TriggerVars, walk, SwitchVars>>

MainStep(l) == CheckSwitch(l) \/ Freeze(l) \/ StopTriggers(l) \/ StartTriggers(l) \/ Rest(l)

-----------------------------------------------------------------------------
(* Requests, swarms and the operators of the other service.                  *)

Register(a) ==
    /\ a \in Agents \ agents
    /\ agents' = agents \cup {a}
    /\ hasGoal' = [hasGoal EXCEPT ![a] = TRUE]
    /\ state' = [state EXCEPT ![a] = "idle"]
    /\ UNCHANGED <<loading, loaded, thought, TriggerVars, MainVars, SwitchVars>>

SetGoal(a) ==
    /\ a \in agents
    /\ \E goal \in BOOLEAN : hasGoal' = [hasGoal EXCEPT ![a] = goal]
    /\ UNCHANGED <<agents, loading, loaded, state, thought, TriggerVars, MainVars, SwitchVars>>

TurnSwitch ==
    /\ frozen \/ freezes < MaxFreezes
    /\ frozen' = ~frozen
    /\ freezes' = IF frozen THEN freezes ELSE freezes + 1
    /\ UNCHANGED <<ContextVars, TriggerVars, MainVars>>

DaemonNext ==
    \/ \E l \in Loops : Start(l) \/ Load(l) \/ MainStep(l)
    \/ TurnSwitch
    \/ \E a \in Agents : TriggerStep(a) \/ Register(a) \/ SetGoal(a)

\* The event loop runs every coroutine that is ready, and sleeps end.
DaemonFairness ==
    /\ \A l \in Loops : WF_DaemonVars(Load(l)) /\ WF_DaemonVars(MainStep(l))
    /\ \A a \in Agents : WF_DaemonVars(TriggerStep(a))

DaemonSpec == DaemonInit /\ [][DaemonNext]_DaemonVars /\ DaemonFairness

-----------------------------------------------------------------------------
\* "Agents run continuously WITHOUT requiring API calls. They self-trigger, pursue
\* goals" (app/autonomous_daemon.py:6): an agent the daemon has loaded acts, unless
\* the system is frozen.
LoadedAgentsAct == \A a \in Loaded : loaded ~> thought[a] \/ frozen
=============================================================================

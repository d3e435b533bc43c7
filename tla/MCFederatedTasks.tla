-------------------------- MODULE MCFederatedTasks --------------------------
(***************************************************************************)
(* The model of the run "fed_tasks": FederatedTasks in two scopes.  In     *)
(* "races" the polls of all connectors overlap over one task; in "single"  *)
(* one connector polls, one request after the other, for all tasks.        *)
(***************************************************************************)
EXTENDS FederatedTasks

CONSTANTS
    OneConnector,   \* of the scope "single"
    OneTask         \* of the scope "races"

VARIABLE scope

Scoped == IF scope = "single"
          THEN /\ cancelling' = {} /\ crashes' = 0
               /\ \A c \in Connectors \ {OneConnector} : pc'[c] = "idle"
          ELSE \A t \in Tasks \ {OneTask} : sess'[t] = "none"

ScopedVars == <<scope, vars>>

InScope(A) == A /\ Scoped /\ UNCHANGED scope

ScopedInit == scope \in {"races", "single"} /\ Init
ScopedNext == Next /\ Scoped /\ UNCHANGED scope

\* What a request still uses of the rows it has loaded: nothing depends on the
\* counts and sessions of a poll that has written its decisions.
Used(c) == [t \in Tasks |->
    IF pc[c] \in {"flushed", "picked"}
    THEN mem[c][t].task = "dispatched" /\ ~mem[c][t].stale
    ELSE mem[c][t]]

\* Nor does anything depend on how often a task has been put back once two polls
\* have raced over it.
Relevant ==
    <<scope, rows, order, pc, held, [c \in Connectors |-> Used(c)], others, raced,
      overlapped, [t \in Tasks \ raced |-> requeues[t]]>>

\* The connectors poll periodically and work on a task for a finite time; an
\* emergency stop that has begun ends.
ScopedSpec ==
    /\ ScopedInit /\ [][ScopedNext]_ScopedVars
    /\ \A c \in Connectors : WF_ScopedVars(InScope(Request(c))) /\ WF_ScopedVars(InScope(Leave(c)))
    /\ \A t \in Tasks : WF_ScopedVars(InScope(Age(t)))
    /\ WF_ScopedVars(InScope(StopTasks))
=============================================================================

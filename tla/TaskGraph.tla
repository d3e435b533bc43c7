----------------------------- MODULE TaskGraph -----------------------------
(***************************************************************************)
(* Task graphs run by one ConcurrencyManager (shared/agent/                *)
(* concurrency.py).  A graph's loop starts a batch of tasks whose          *)
(* dependencies are done, waits for the first of the batch, and goes       *)
(* round; its tasks run under a semaphore shared by all graphs, as is the  *)
(* table of running tasks.  Steps run from one suspension to the next: the *)
(* waits of the loop, the semaphore, and a task's handler.                 *)
(***************************************************************************)
EXTENDS Integers, FiniteSets

CONSTANTS
    Graphs,
    Nodes,          \* the tasks of all graphs
    GraphOf,        \* [Nodes -> Graphs]
    DependsOn,      \* [Nodes -> SUBSET Nodes]: depends_on, within a graph
    MaxConcurrent   \* max_concurrent

ASSUME NodesAssumption == IsFiniteSet(Nodes) /\ IsFiniteSet(Graphs)
ASSUME MaxConcurrentAssumption == MaxConcurrent \in Nat \ {0}
ASSUME DependsOnAssumption ==
    /\ GraphOf \in [Nodes -> Graphs] /\ DependsOn \in [Nodes -> SUBSET Nodes]
    /\ \A n \in Nodes : \A m \in DependsOn[n] : GraphOf[m] = GraphOf[n]

VARIABLES
    node,       \* TaskNode.state
    entries,    \* _running_tasks: the tasks the manager believes to run
    cancelled,  \* tasks whose coroutine was cancelled
    loop,       \* of each graph: where execute_graph is
    batch,      \* of each graph: the tasks it waits for
    up,         \* _running
    stopping    \* stop() is waiting for the entries

GraphVars == <<node, entries, cancelled, loop, batch, up, stopping>>

GraphInit ==
    /\ node = [n \in Nodes |-> "pending"]
    /\ entries = {} /\ cancelled = {}
    /\ loop = [g \in Graphs |-> "idle"] /\ batch = [g \in Graphs |-> {}]
    /\ up = TRUE /\ stopping = FALSE

Of(g) == {n \in Nodes : GraphOf[n] = g}
Running == {n \in Nodes : node[n] = "running"} \ cancelled
Settled(n) == node[n] \in {"completed", "failed"}
Done(n) == Settled(n) \/ n \in cancelled

CanRun(n) == \A m \in DependsOn[n] : node[m] = "completed"
Ready(g) == {n \in Of(g) : node[n] = "pending" /\ CanRun(n)}

\* is_terminal leaves BLOCKED out.
IsComplete(g) == \A n \in Of(g) : Settled(n)

-----------------------------------------------------------------------------
(* The loop of execute_graph.                                                *)

Return(g, known) ==
    /\ IsComplete(g) \/ ~up \/ (Ready(g) = {} /\ known = {})
    /\ loop' = [loop EXCEPT ![g] = "returned"]
    /\ batch' = [batch EXCEPT ![g] = {}]
    /\ entries' = known
    /\ UNCHANGED node

StartBatch(g, known) ==
    /\ up /\ Ready(g) # {}
    /\ node' = [n \in Nodes |-> IF n \in Ready(g) THEN "ready" ELSE node[n]]
    /\ loop' = [loop EXCEPT ![g] = "waiting"]
    /\ batch' = [batch EXCEPT ![g] = Ready(g)]
    /\ entries' = known \cup Ready(g)

\* Nothing is ready and the table is not empty: sleep and look again.
Sleep(g, known) ==
    /\ up /\ ~IsComplete(g) /\ Ready(g) = {} /\ known # {}
    /\ loop' = [loop EXCEPT ![g] = "sleeping"]
    /\ batch' = [batch EXCEPT ![g] = {}]
    /\ entries' = known
    /\ UNCHANGED node

Round(g, known) ==
    /\ Return(g, known) \/ StartBatch(g, known) \/ Sleep(g, known)
    /\ UNCHANGED <<cancelled, up, stopping>>

ExecuteGraph(g) == loop[g] = "idle" /\ Round(g, entries)

WakeUp(g) == loop[g] = "sleeping" /\ Round(g, entries)

\* FIRST_COMPLETED: the entries of the batch's finished tasks are removed, and
\* with the next batch the rest of this one is no longer waited for.
\* As the code must not be: the whole batch is waited for, failures excepted.
FirstCompleted_All(g) ==
    /\ loop[g] = "waiting" /\ \A n \in batch[g] : node[n] = "completed"
    /\ Round(g, entries \ batch[g])

FirstCompleted(g) ==
    /\ loop[g] = "waiting" /\ \E n \in batch[g] : Done(n)
    /\ Round(g, entries \ {n \in batch[g] : Done(n)})

-----------------------------------------------------------------------------
(* The tasks.                                                                *)

\* _block_dependents: the pending tasks that depend on n, and theirs in turn,
\* which is the least set closed under pending dependents.
ClosedUnderDependents(S) ==
    \A m \in Nodes : node[m] = "pending" /\ DependsOn[m] \cap S # {} => m \in S

\* As the code must not be: only direct dependents are blocked.
Blocked_Direct(n) == {m \in Nodes : node[m] = "pending" /\ n \in DependsOn[m]}

Blocked(n) ==
    {m \in Nodes \ {n} :
        \A S \in SUBSET Nodes : n \in S /\ ClosedUnderDependents(S) => m \in S}

MarkFailed(n) ==
    node' = [m \in Nodes |-> IF m = n THEN "failed"
                             ELSE IF m \in Blocked(n) THEN "blocked" ELSE node[m]]

\* A task of a batch takes the semaphore; a manager that was stopped fails it.
Begin(n) ==
    /\ node[n] = "ready" /\ n \notin cancelled
    /\ Cardinality(Running) < MaxConcurrent
    /\ IF up THEN node' = [node EXCEPT ![n] = "running"] ELSE MarkFailed(n)
    /\ UNCHANGED <<entries, cancelled, loop, batch, up, stopping>>

CompleteTask(n) ==
    /\ n \in Running
    /\ node' = [node EXCEPT ![n] = "completed"]
    /\ UNCHANGED <<entries, cancelled, loop, batch, up, stopping>>

\* The handler raises, or its time-out expires.
FailTask(n) ==
    /\ n \in Running
    /\ MarkFailed(n)
    /\ UNCHANGED <<entries, cancelled, loop, batch, up, stopping>>

-----------------------------------------------------------------------------
Stop ==
    /\ up
    /\ up' = FALSE /\ stopping' = (entries # {})
    /\ UNCHANGED <<node, entries, cancelled, loop, batch>>

\* The entries stop() found have finished, or its time-out cancels the others.
StopEnds ==
    /\ stopping
    /\ stopping' = FALSE
    /\ cancelled' = cancelled \cup {n \in entries : ~Done(n)}
    /\ UNCHANGED <<node, entries, loop, batch, up>>

GraphNext ==
    \/ \E g \in Graphs : ExecuteGraph(g) \/ WakeUp(g) \/ FirstCompleted(g)
    \/ \E n \in Nodes : Begin(n) \/ CompleteTask(n) \/ FailTask(n)
    \/ Stop \/ StopEnds

\* The event loop runs what is runnable, sleeps and time-outs end, and the
\* semaphore is handed out first come, first served.
GraphFairness ==
    /\ \A g \in Graphs : WF_GraphVars(WakeUp(g) \/ FirstCompleted(g))
    /\ \A n \in Nodes : /\ SF_GraphVars(Begin(n))
                        /\ WF_GraphVars(CompleteTask(n) \/ FailTask(n))
    /\ WF_GraphVars(StopEnds)

GraphSpec == GraphInit /\ [][GraphNext]_GraphVars /\ GraphFairness

-----------------------------------------------------------------------------
\* A task that was started has all its dependencies completed, and a task is
\* blocked exactly when one of its dependencies failed or is itself blocked:
\* failures reach every dependent, however far, and no other task.
DependenciesRespected ==
    \A n \in Nodes :
        /\ node[n] \in {"ready", "running", "completed"} => CanRun(n)
        /\ node[n] = "blocked" <=>
              node[n] \notin {"failed"} /\ \E m \in DependsOn[n] : node[m] \in {"failed", "blocked"}

\* A graph that was started returns.  The exception is in the code: with a task
\* blocked, a finished task left over from an earlier batch keeps the table
\* from ever being empty, and the loop sleeps for ever.
GraphReturns ==
    \A g \in Graphs :
        loop[g] # "idle" ~> \/ loop[g] = "returned"
                            \/ /\ \E n \in Of(g) : node[n] = "blocked"
                               /\ \E n \in entries : Done(n)
=============================================================================

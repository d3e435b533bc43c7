------------------------ MODULE FederatedTasksClaims ------------------------
(***************************************************************************)
(* What a docstring says of the queue of federated tasks, and the code     *)
(* does not do: the formula is refuted by one run.                         *)
(***************************************************************************)
EXTENDS FederatedTasks

\* "Returns the oldest pending task and marks it as 'dispatched'" (routers.py:2721):
\* a poll hands out a task that is pending when it is marked.
HandsOutPending ==
    [][\A c \in Connectors :
         (pc[c] = "picked" /\ pc'[c] = "working") => task[held[c]] = "pending"]_vars
=============================================================================

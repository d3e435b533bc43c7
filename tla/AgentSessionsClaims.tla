------------------------- MODULE AgentSessionsClaims -------------------------
(***************************************************************************)
(* What comments and docstrings of the program say of sessions, and the    *)
(* code does not do: the formula is refuted by a run.                      *)
(***************************************************************************)
EXTENDS MCAgentSessions

\* "Check if session was cancelled" (executor.py:2699): a runner that sees the
\* cancellation leaves the session cancelled.  The break of the loop falls into
\* the code after it, which marks the session completed, "loop limit reached".
CancelIsHonoured ==
    [][\A c \in Calls :
         (InLoop(c) /\ mem[c] = "cancelled" /\ row[sess[c]] = "cancelled")
            => row'[sess[c]] = "cancelled"]_vars
=============================================================================

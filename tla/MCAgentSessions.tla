--------------------------- MODULE MCAgentSessions ---------------------------
(* Instances of AgentSessions for TLC. *)
EXTENDS AgentSessions, TLC

\* Calls are interchangeable until they are received, and so are workers and
\* sessions; the runs that check only safety use this.
Symmetric == Permutations(Calls) \cup Permutations(Workers) \cup Permutations(Sessions)

\* What can still matter: of a call that is over, whether it abandoned a session.
Relevant ==
    <<row, loops, free, up, crashes, pc,
      [c \in Calls |-> CASE Active(c) -> <<kind[c], sess[c], home[c], mem[c]>>
                         [] pc[c] = "dropped" -> <<sess[c]>>
                         [] OTHER -> <<>>],
      [c \in Calls |-> IF InLoop(c) THEN <<cnt[c], res[c]>> ELSE <<>>]>>
=============================================================================

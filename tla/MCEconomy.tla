------------------------------ MODULE MCEconomy ------------------------------
(***************************************************************************)
(* The model of the run "economy": the wallets, the execution gate and the *)
(* negotiations of the same agents, the billing of an organisation and the *)
(* flow control of a connection: what counts money, tokens and messages.   *)
(* They share the modes and the calendar at most, so each behaviour        *)
(* exercises one of them (part).                                           *)
(***************************************************************************)
EXTENDS AgentWallet, ExecutionGate, Negotiation, OrgBilling, Backpressure, TLC

CONSTANTS a1, a2, p1, p2, q1

VARIABLE part

AgentsVars == <<ModeVars, WalletVars, GateVars, NegotiationVars>>
EconomyVars == <<part, AgentsVars, BillingVars, FlowVars>>

EconomyInit ==
    /\ part \in {"wallets", "gate", "negotiation", "billing", "flow"}
    /\ ModeInit /\ WalletInit /\ GateInit /\ NegotiationInit /\ FlowInit
    /\ BillingInit /\ (part # "billing" => ~org.overage)

\* No operation looks at the modes of two agents: one of them unbounded at a time
\* is a bound that loses nothing.
OneUnbounded == \E a \in Agents : \A b \in Agents \ {a} : mode'[b] = "governed"

\* No negotiation reads the calendar, and no bill the modes.
EconomyNext ==
    /\ UNCHANGED part
    /\ \/ /\ UNCHANGED <<BillingVars, FlowVars>>
          /\ \/ part = "wallets" /\ WalletNext /\ UNCHANGED <<ModeVars, GateVars, NegotiationVars>>
             \/ part = "gate" /\ GateNext /\ UNCHANGED <<ModeVars, WalletVars, NegotiationVars>>
             \/ part = "negotiation" /\ NegotiationNext /\ UNCHANGED <<ModeVars, WalletVars, GateVars>>
             \/ /\ part \notin {"billing", "flow"} /\ (part = "negotiation" => today' = today)
                /\ ModeNext /\ OneUnbounded
                /\ UNCHANGED <<WalletVars, GateVars, NegotiationVars>>
       \/ part = "billing" /\ BillingNext /\ UNCHANGED <<AgentsVars, FlowVars>>
       \/ part = "flow" /\ FlowNext /\ UNCHANGED <<AgentsVars, BillingVars>>

EconomySpec == EconomyInit /\ [][EconomyNext]_EconomyVars

\* Figures of either sign.
GateCosts == {-1, 1}
SomeCredits == {-2}
Openings == {-1, 3}
SomeUsage == {-1, 2}

Everybody == [a \in Agents |-> Agents]
Nobody == [a \in Agents |-> {}]
Themselves == [a \in Agents |-> {a}]
AgentSymmetry == Permutations(Agents)
=============================================================================

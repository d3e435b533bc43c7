---------------------------- MODULE ExecutionGate ----------------------------
(***************************************************************************)
(* The execution gate (shared/agent/execution_gate.py): whether an action  *)
(* of an agent may run, judged by the mode of the agent and by the spend   *)
(* and the executions it counts for the day.  Nothing suspends.  An        *)
(* unbounded agent is not audited, so its evaluation changes nothing;      *)
(* mark_approved and mark_rejected have no caller.  The gate is that of    *)
(* one server process: each has its own, and forgets it when it restarts.  *)
(***************************************************************************)
EXTENDS ModeManager, Sequences, FiniteSets, FiniteSetsExt

CONSTANTS
    Costs,              \* estimated costs of requests, of which nothing bounds the sign
    GateBudget,         \* max_budget_per_day
    PaymentLimit,       \* transaction_limit
    ApprovalThreshold,  \* approval_threshold_usd
    MaxEvaluations      \* bound on the recorded evaluations

ASSUME GateAssumption ==
    /\ Costs \subseteq Int /\ {GateBudget, PaymentLimit, ApprovalThreshold} \subseteq Int
    /\ MaxEvaluations \in Nat

VARIABLES
    dailySpend,         \* _daily_spend
    dailyExecutions,    \* _daily_executions
    lastDailyReset,     \* _last_daily_reset; -1 for an agent it does not hold
    history             \* _execution_history

GateVars == <<dailySpend, dailyExecutions, lastDailyReset, history>>

GateInit ==
    /\ dailySpend = [a \in Agents |-> 0]
    /\ dailyExecutions = [a \in Agents |-> 0]
    /\ lastDailyReset = [a \in Agents |-> -1]
    /\ history = <<>>

\* The counters as _maybe_reset_daily_limits leaves them.
NewDay(a) == lastDailyReset[a] # today

\* As the code must not be: a day that is over counts on.
SpendToday_OfAnyDay(a) == dailySpend[a]

SpendToday(a) == IF NewDay(a) THEN 0 ELSE dailySpend[a]
ExecutionsToday(a) == IF NewDay(a) THEN 0 ELSE dailyExecutions[a]

\* What a governed request asks for, beside its cost: risky stands for a risk
\* at the threshold or a real-world effect.
Requests == [cost : Costs, financial : BOOLEAN, risky : BOOLEAN, governance : BOOLEAN]

Verdict(a, r) ==
    IF SpendToday(a) + r.cost > GateBudget THEN "over_budget"
    ELSE IF r.financial /\ r.cost > PaymentLimit THEN "pending_approval"
    ELSE IF r.governance THEN "blocked"
    ELSE IF r.risky \/ r.cost > ApprovalThreshold THEN "pending_approval"
    ELSE "allowed"

EvaluateGoverned(a, r) ==
    LET verdict == Verdict(a, r)
    IN  /\ mode[a] = "governed"
        /\ Len(history) < MaxEvaluations
        /\ lastDailyReset' = [lastDailyReset EXCEPT ![a] = today]
        /\ history' = Append(history, [agent |-> a, cost |-> r.cost, decision |-> verdict, day |-> today])
        /\ dailyExecutions' = [dailyExecutions EXCEPT ![a] = ExecutionsToday(a) + 1]
        /\ dailySpend' = [dailySpend EXCEPT
                ![a] = SpendToday(a) + (IF verdict = "allowed" THEN r.cost ELSE 0)]

\* The reads of the day's figures reset them, too.
ReadDay(a) ==
    /\ lastDailyReset' = [lastDailyReset EXCEPT ![a] = today]
    /\ dailyExecutions' = [dailyExecutions EXCEPT ![a] = ExecutionsToday(a)]
    /\ dailySpend' = [dailySpend EXCEPT ![a] = SpendToday(a)]
    /\ UNCHANGED history

GateNext ==
    \E a \in Agents :
        \/ \E r \in Requests : EvaluateGoverned(a, r)
        \/ ReadDay(a)

GatesNext ==
    \/ GateNext /\ UNCHANGED ModeVars
    \/ ModeNext /\ UNCHANGED GateVars

GateSpec == ModeInit /\ GateInit /\ [][GatesNext]_<<ModeVars, GateVars>>

-----------------------------------------------------------------------------

\* What an agent was allowed on the day of an evaluation, before it.
AllowedBefore(i) ==
    {j \in 1 .. i - 1 : /\ history[j].agent = history[i].agent /\ history[j].day = history[i].day
                        /\ history[j].decision = "allowed"}
CostOf(S) == MapThenSumSet(LAMBDA j : history[j].cost, S)

\* A request is refused for the budget exactly if its cost and what the agent was
\* allowed before on the same day pass it together: no figure of a day that is over
\* is decided on, and none of the day is lost, however often the agent was unbounded
\* and governed again, whichever of the resets came first, and with costs of either
\* sign (execution_gate.py:149, 276).  One process's gate knows its own history only.
JudgedByTheDay ==
    \A i \in 1 .. Len(history) :
        history[i].decision = "over_budget" <=> CostOf(AllowedBefore(i)) + history[i].cost > GateBudget
=============================================================================

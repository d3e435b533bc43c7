------------------------------ MODULE OrgBilling ------------------------------
(***************************************************************************)
(* The row of one organization in the billing database: Stripe's webhooks  *)
(* and the plan changes (services/billing_service.py), and the recording   *)
(* of usage (services/usage_service.py).  A request loads the row, and     *)
(* writes the columns it changed when it commits; others run in between.   *)
(* Stripe delivers each event at least once, in any order (external).      *)
(***************************************************************************)
EXTENDS Integers

CONSTANTS
    Handlers,       \* requests that may overlap
    Subscriptions,  \* ids of Stripe subscriptions
    FreeTokens, PlusTokens,     \* PLAN_TOKENS; the third plan is unlimited
    UsageCosts,     \* TOKEN_COSTS times a quantity, of which nothing bounds the sign
    PackTokens,     \* tokens of a pack
    OverageLimit,   \* 0: none
    MaxPeriod, MaxDeliveries, MaxRecords, MaxChanges

ASSUME BillingAssumption ==
    /\ {FreeTokens, PlusTokens, PackTokens} \subseteq Nat /\ UsageCosts \subseteq Int
    /\ OverageLimit \in Nat
    /\ {MaxPeriod, MaxDeliveries, MaxRecords, MaxChanges} \subseteq Nat

VARIABLES
    org,        \* the organization's row
    stripe,     \* [subscription -> what Stripe knows of it]
    sent,       \* events Stripe has sent, each of which it may deliver again
    handler,    \* [handler -> the request it serves, with the row it loaded]
    recorded,   \* history: tokens of the usage records since the last reset, less the negative ones
    behind,     \* history: requests that hold a row loaded before the last reset
    carried,    \* history: usage was recorded on such a row since the last reset
    deliveries, records, changes

HistoryVars == <<recorded, behind, carried>>
BoundVars == <<deliveries, records, changes>>
BillingVars == <<org, stripe, sent, handler, HistoryVars, BoundVars>>

Plans == {"free", "plus", "enterprise"}
PaidPlans == Plans \ {"free"}
PlanTokens(p) == CASE p = "free" -> FreeTokens [] p = "plus" -> PlusTokens [] OTHER -> -1

NoSubscription == 0
NotSubscribed == [status |-> "none", plan |-> "free", period |-> 0]
NoRequest == [kind |-> "none"]

BillingInit ==
    /\ org \in [plan : {"free"}, sub : {NoSubscription}, status : {"active"}, limit : {FreeTokens},
                used : {0}, over : {0}, period : {0}, overage : BOOLEAN]
    /\ stripe = [s \in Subscriptions |-> NotSubscribed]
    /\ sent = {} /\ handler = [h \in Handlers |-> NoRequest]
    /\ recorded = 0 /\ behind = {} /\ carried = FALSE
    /\ deliveries = 0 /\ records = 0 /\ changes = 0

-----------------------------------------------------------------------------
(* Stripe.                                                                   *)

Event(kind, s, now) == [kind |-> kind, sub |-> s, stripe |-> now]
Send(e) == sent' = sent \cup {e}

\* A checkout creates a subscription; nothing asks whether there is one.
Checkout(s, p) ==
    /\ stripe[s].status = "none" /\ changes < MaxChanges
    /\ LET now == [status |-> "active", plan |-> p, period |-> 1]
       IN stripe' = [stripe EXCEPT ![s] = now] /\ Send(Event("created", s, now))
    /\ changes' = changes + 1
    /\ UNCHANGED <<org, handler, HistoryVars, deliveries, records>>

\* The next period is paid, or is not.
Renew(s, paid) ==
    /\ stripe[s].status \in {"active", "past_due"} /\ stripe[s].period < MaxPeriod
    /\ LET now == [stripe[s] EXCEPT !.period = @ + 1,
                                    !.status = IF paid THEN "active" ELSE "past_due"]
       IN stripe' = [stripe EXCEPT ![s] = now] /\ Send(Event("updated", s, now))
    /\ UNCHANGED <<org, handler, HistoryVars, BoundVars>>

Cancelled(s) == [stripe[s] EXCEPT !.status = "canceled"]

\* cancel_subscription only talks to Stripe, which ends it at once or with the period.
EndSubscription(s) ==
    /\ stripe[s].status \in {"active", "past_due"}
    /\ stripe' = [stripe EXCEPT ![s] = Cancelled(s)]
    /\ Send(Event("deleted", s, Cancelled(s)))
    /\ UNCHANGED <<org, handler, HistoryVars, BoundVars>>

BuyPack ==
    /\ changes < MaxChanges /\ changes' = changes + 1
    /\ Send(Event("purchase", NoSubscription, NotSubscribed))
    /\ UNCHANGED <<org, stripe, handler, HistoryVars, deliveries, records>>

-----------------------------------------------------------------------------
(* Requests: the row is loaded,                                              *)

Load(h, request) == handler' = [handler EXCEPT ![h] = request]
Free(h) == handler[h] = NoRequest

Deliver(h) ==
    /\ Free(h) /\ deliveries < MaxDeliveries
    /\ \E e \in sent : Load(h, [kind |-> e.kind, event |-> e, row |-> org])
    /\ deliveries' = deliveries + 1
    /\ UNCHANGED <<org, stripe, sent, HistoryVars, records, changes>>

AskUsage(h) ==
    /\ Free(h) /\ records < MaxRecords
    /\ \E c \in UsageCosts : Load(h, [kind |-> "usage", cost |-> c, row |-> org])
    /\ records' = records + 1
    /\ UNCHANGED <<org, stripe, sent, HistoryVars, deliveries, changes>>

AskPlan(h) ==
    /\ Free(h) /\ changes < MaxChanges
    /\ \E p \in Plans : Load(h, [kind |-> "change", plan |-> p, row |-> org])
    /\ changes' = changes + 1
    /\ UNCHANGED <<org, stripe, sent, HistoryVars, deliveries, records>>

(* and the columns that differ from it are written.                          *)

Serves(h, kind) == handler[h].kind = kind
Loaded(h) == handler[h].row
Commit(h, row) ==
    /\ org' = [c \in DOMAIN org |-> IF row[c] = Loaded(h)[c] THEN org[c] ELSE row[c]]
    /\ handler' = [handler EXCEPT ![h] = NoRequest]
Refuse(h) == handler' = [handler EXCEPT ![h] = NoRequest] /\ UNCHANGED org

\* A commit that does not record usage and the history of what does.
Keeps(h) == behind' = behind \ {h} /\ UNCHANGED <<recorded, carried>>

\* The figure starts anew, unless the row was loaded with a zero, which is not written.
NewPeriod(row) == [row EXCEPT !.used = 0, !.over = 0]
Resets(h) ==
    \/ org'.used # 0 /\ Keeps(h)
    \/ /\ org'.used = 0
       /\ recorded' = 0 /\ carried' = FALSE
       /\ behind' = {k \in Handlers \ {h} : handler[k] # NoRequest}

HandleCreated(h) ==
    /\ Serves(h, "created")
    /\ LET e == handler[h].event
       IN Commit(h, NewPeriod([Loaded(h) EXCEPT !.sub = e.sub, !.plan = e.stripe.plan,
                                 !.status = "active", !.limit = PlanTokens(e.stripe.plan),
                                 !.period = e.stripe.period]))
    /\ Resets(h) /\ UNCHANGED <<stripe, sent, BoundVars>>

HandleUpdated(h) ==
    /\ Serves(h, "updated")
    /\ LET now == handler[h].event.stripe
           row == [Loaded(h) EXCEPT !.period = now.period, !.status = now.status]
       IN IF now.status = "active"
          THEN Commit(h, NewPeriod(row)) /\ Resets(h)
          ELSE Commit(h, row) /\ Keeps(h)
    /\ UNCHANGED <<stripe, sent, BoundVars>>

HandleCanceled(h) ==
    /\ Serves(h, "deleted")
    /\ Commit(h, [Loaded(h) EXCEPT !.plan = "free", !.status = "canceled",
                    !.limit = FreeTokens, !.sub = NoSubscription])
    /\ Keeps(h) /\ UNCHANGED <<stripe, sent, BoundVars>>

HandlePurchase(h) ==
    /\ Serves(h, "purchase")
    /\ Commit(h, [Loaded(h) EXCEPT !.limit = @ + PackTokens])
    /\ Keeps(h) /\ UNCHANGED <<stripe, sent, BoundVars>>

\* change_plan tells Stripe first, which says so in an event of its own; a plan
\* that cannot be changed is refused.
TellStripe(h) ==
    LET s == Loaded(h).sub
        p == handler[h].plan
        now == IF p = "free" THEN Cancelled(s) ELSE [stripe[s] EXCEPT !.plan = p]
    IN /\ Serves(h, "change")
       /\ \/ /\ s # NoSubscription /\ stripe[s].status # "canceled"
             /\ stripe' = [stripe EXCEPT ![s] = now]
             /\ Send(Event(IF p = "free" THEN "deleted" ELSE "updated", s, now))
             /\ handler' = [handler EXCEPT ![h].kind = "changed"]
          \/ /\ s = NoSubscription /\ p = "free"
             /\ handler' = [handler EXCEPT ![h].kind = "changed"] /\ UNCHANGED <<stripe, sent>>
          \/ /\ IF s = NoSubscription THEN p # "free" ELSE stripe[s].status = "canceled"
             /\ handler' = [handler EXCEPT ![h] = NoRequest] /\ UNCHANGED <<stripe, sent>>
       /\ behind' = IF Free(h)' THEN behind \ {h} ELSE behind
       /\ UNCHANGED <<org, recorded, carried, BoundVars>>

ChangePlan(h) ==
    /\ Serves(h, "changed")
    /\ Commit(h, [Loaded(h) EXCEPT !.plan = handler[h].plan,
                                    !.limit = PlanTokens(handler[h].plan)])
    /\ Keeps(h) /\ UNCHANGED <<stripe, sent, BoundVars>>

\* The process dies, or the database refuses: nothing is written.
RequestDies(h) ==
    /\ ~Free(h) /\ Refuse(h)
    /\ Keeps(h) /\ UNCHANGED <<stripe, sent, BoundVars>>

\* What passes the limit, counted from the start of the period.
Excess(row, cost) ==
    IF row.limit = -1 \/ row.used + cost <= row.limit THEN 0 ELSE row.used + cost - row.limit

Allowed(row, cost) ==
    \/ Excess(row, cost) = 0
    \/ row.overage /\ (OverageLimit = 0 \/ row.over + Excess(row, cost) <= OverageLimit)

\* A record of c tokens; what takes tokens back may be lost by a request that overlaps.
Counts(h, c) ==
    /\ recorded' = IF c > 0 THEN recorded + c ELSE recorded
    /\ carried' = (carried \/ h \in behind)
    /\ behind' = behind \ {h}

\* As the code must not be: refused usage is counted.
RecordUsage_CountsRefused(h) ==
    /\ Serves(h, "usage")
    /\ LET c == handler[h].cost
           row == Loaded(h)
       IN /\ Commit(h, [row EXCEPT !.used = @ + c, !.over = @ + Excess(row, c)])
          /\ Counts(h, IF Allowed(row, c) THEN c ELSE 0)
    /\ UNCHANGED <<stripe, sent, BoundVars>>

RecordUsage(h) ==
    /\ Serves(h, "usage")
    /\ LET c == handler[h].cost
           row == Loaded(h)
       IN IF Allowed(row, c)
          THEN /\ Commit(h, [row EXCEPT !.used = @ + c, !.over = @ + Excess(row, c)])
               /\ Counts(h, c)
          ELSE Refuse(h) /\ Keeps(h)
    /\ UNCHANGED <<stripe, sent, BoundVars>>

BillingNext ==
    \/ BuyPack
    \/ \E s \in Subscriptions :
          \/ \E p \in PaidPlans : Checkout(s, p)
          \/ \E paid \in BOOLEAN : Renew(s, paid)
          \/ EndSubscription(s)
    \/ \E h \in Handlers :
          \/ Deliver(h) \/ AskUsage(h) \/ AskPlan(h)
          \/ HandleCreated(h) \/ HandleUpdated(h) \/ HandleCanceled(h) \/ HandlePurchase(h)
          \/ TellStripe(h) \/ ChangePlan(h) \/ RecordUsage(h) \/ RequestDies(h)

BillingSpec == BillingInit /\ [][BillingNext]_BillingVars

-----------------------------------------------------------------------------
(* Properties. *)

\* Types of the state.
BillingTypeOK ==
    LET Row == [plan : Plans, sub : Subscriptions \cup {NoSubscription},
                status : {"active", "past_due", "canceled"}, limit : Int,
                used : Int, over : Nat, period : Nat, overage : BOOLEAN]
    IN /\ org \in Row /\ recorded \in Nat /\ behind \subseteq Handlers /\ carried \in BOOLEAN
       /\ \A h \in Handlers :
             /\ handler[h] # NoRequest => handler[h].row \in Row
             /\ handler[h].kind = "usage" => handler[h].cost \in UsageCosts

\* However requests and webhooks overlap, are lost or come again, no organization
\* is charged more tokens in a period than were recorded in it (usage_service.py:59, 84).
\* The exception is a period in which a usage request that loaded the row before
\* the reset has written its figure back (billing_service.py:257-259): the organization
\* then pays the tokens of the last period again.
NeverOvercharged == carried \/ org.used <= recorded

\* "Reset usage on period change" (billing_service.py:256): an update of a
\* subscription forgets the used tokens only when it brings a new period.
ResetOnPeriodChange ==
    [][\A h \in Handlers :
          HandleUpdated(h) /\ org.used > 0 /\ org'.used = 0 => org'.period # org.period]_BillingVars
=============================================================================

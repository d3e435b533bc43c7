----------------------------- MODULE AgentWallet -----------------------------
(***************************************************************************)
(* The wallets of agents (shared/agent/wallet.py, and its endpoints in     *)
(* app/routers_autonomy.py).  The system of the program has no approval    *)
(* callback, so no operation suspends and each is one step; an agent has   *)
(* one wallet at most, and a wallet is named by its agent.  The system is  *)
(* that of one server process: each has its own, and forgets it when it    *)
(* restarts.                                                               *)
(***************************************************************************)
EXTENDS ModeManager, Sequences, FiniteSetsExt

CONSTANTS
    Amounts,            \* what requests spend and transfer
    Credits,            \* what requests credit, of either sign
    Initial,            \* initial balances of created wallets, of either sign
    TransactionLimit,   \* the lower of the wallet's and the mode's limit
    DailyBudget,        \* max_budget_per_day
    MonthlyBudget,      \* max_budget_per_month
    ApprovedRecipients, \* [Agents -> SUBSET Agents]; empty: any recipient
    BlockedRecipients,  \* [Agents -> SUBSET Agents]
    MaxTransactions     \* bound on the transactions recorded

ASSUME WalletAssumption ==
    /\ Amounts \subseteq Nat \ {0} /\ Credits \subseteq Int /\ Initial \subseteq Int
    /\ {TransactionLimit, DailyBudget, MonthlyBudget} \subseteq Int
    /\ ApprovedRecipients \in [Agents -> SUBSET Agents]
    /\ BlockedRecipients \in [Agents -> SUBSET Agents]
    /\ MaxTransactions \in Nat

VARIABLES
    wallet,         \* _wallets: one record per agent
    transactions    \* _transactions, in the order they were recorded

WalletVars == <<wallet, transactions>>

\* exists is FALSE until the wallet is created; opening is its first balance.
NoWallet == [exists |-> FALSE, opening |-> 0, balance |-> 0, daily |-> 0, monthly |-> 0,
             spent |-> 0, earned |-> 0, resetDay |-> 0, resetMonth |-> 0, frozen |-> FALSE]

NewWallet(x) == [NoWallet EXCEPT !.exists = TRUE, !.opening = x, !.balance = x,
                                 !.resetDay = today, !.resetMonth = MonthOf(today)]

WalletInit ==
    /\ wallet = [a \in Agents |-> NoWallet]
    /\ transactions = <<>>

Transaction(a, kind, x, other, status) ==
    [wallet |-> a, kind |-> kind, amount |-> x, other |-> other, status |-> status,
     day |-> today, mode |-> mode[a], approved |-> FALSE]

RoomFor(n) == Len(transactions) + n <= MaxTransactions
Record(t) == transactions' = Append(transactions, t)

-----------------------------------------------------------------------------
CreateWallet(a, x) ==
    /\ ~wallet[a].exists
    /\ wallet' = [wallet EXCEPT ![a] = NewWallet(x)]
    /\ UNCHANGED transactions

Added(w, x) == [w EXCEPT !.balance = @ + x, !.earned = @ + x]

\* The endpoint creates a wallet for an agent that has none.
Credit(a, x) ==
    /\ RoomFor(1)
    /\ wallet' = [wallet EXCEPT ![a] = Added(IF @.exists THEN @ ELSE NewWallet(0), x)]
    /\ Record(Transaction(a, "credit", x, a, "completed"))

\* As the code must not be: the month's counter reset, the day's forgotten.
Reset_MonthOnly(w) ==
    [w EXCEPT !.resetDay = today,
              !.monthly = IF w.resetMonth = MonthOf(today) THEN @ ELSE 0,
              !.resetMonth = MonthOf(today)]

\* The counters start anew on the first spend of a day, and of a month.
Reset(w) ==
    [w EXCEPT !.daily = IF w.resetDay = today THEN @ ELSE 0,
              !.resetDay = today,
              !.monthly = IF w.resetMonth = MonthOf(today) THEN @ ELSE 0,
              !.resetMonth = MonthOf(today)]

Spent(w, x) ==
    [w EXCEPT !.balance = @ - x, !.daily = @ + x, !.monthly = @ + x, !.spent = @ + x]

Usable(a, x) == wallet[a].exists /\ ~wallet[a].frozen /\ wallet[a].balance >= x

NeedsApproval(a, x) == mode[a] = "governed" /\ x > TransactionLimit

WithinBudget(w, a, x) ==
    mode[a] = "governed" => w.daily + x <= DailyBudget /\ w.monthly + x <= MonthlyBudget

Kind(a, other) == IF other = a THEN "debit" ELSE "transfer_out"

\* spend(): the request may name a recipient, who is not credited here.
SpendPending(a, x, kind, other) ==
    /\ Usable(a, x) /\ NeedsApproval(a, x)
    /\ RoomFor(1)
    /\ wallet' = [wallet EXCEPT ![a] = Reset(@)]
    /\ Record(Transaction(a, kind, x, other, "pending_approval"))

SpendRefused(a, x) ==
    /\ Usable(a, x) /\ ~NeedsApproval(a, x) /\ ~WithinBudget(Reset(wallet[a]), a, x)
    /\ wallet' = [wallet EXCEPT ![a] = Reset(@)]
    /\ UNCHANGED transactions

SpendNow(a, x) ==
    Usable(a, x) /\ ~NeedsApproval(a, x) /\ WithinBudget(Reset(wallet[a]), a, x)

Spend(a, x, kind, other) ==
    \/ SpendPending(a, x, kind, other)
    \/ SpendRefused(a, x)
    \/ /\ SpendNow(a, x) /\ RoomFor(1)
       /\ wallet' = [wallet EXCEPT ![a] = Spent(Reset(@), x)]
       /\ Record(Transaction(a, kind, x, other, "completed"))

\* transfer(): a spend of the source, and only if it went through a credit of
\* the destination.  The two may be one wallet.
MayReceive(a, b) ==
    mode[a] = "governed" => /\ b \notin BlockedRecipients[a]
                            /\ ApprovedRecipients[a] = {} \/ b \in ApprovedRecipients[a]

Transfer(a, b, x) ==
    /\ wallet[a].exists /\ wallet[b].exists /\ MayReceive(a, b)
    /\ \/ SpendPending(a, x, "transfer_out", b)
       \/ SpendRefused(a, x)
       \/ /\ SpendNow(a, x) /\ RoomFor(2)
          /\ LET paid == [wallet EXCEPT ![a] = Spent(Reset(@), x)]
             IN  wallet' = [paid EXCEPT ![b] = Added(@, x)]
          /\ transactions' = transactions \o
                << Transaction(a, "transfer_out", x, b, "completed"),
                   Transaction(b, "transfer_in", x, a, "completed") >>

Approve_Again(i) ==
    LET t == transactions[i]
    IN  /\ t.kind \in {"debit", "transfer_out"} /\ wallet[t.wallet].balance >= t.amount
        /\ transactions' = [transactions EXCEPT ![i].status = "completed", ![i].approved = TRUE]
        /\ wallet' = [wallet EXCEPT ![t.wallet] = Spent(@, t.amount)]

\* Only the balance is looked at again: not the limits, the mode or the freeze;
\* the counters are not reset; the recipient of a transfer gets nothing.
Approve(i) ==
    LET t == transactions[i]
    IN  /\ i \in 1 .. Len(transactions) /\ t.status = "pending_approval"
        /\ \/ /\ wallet[t.wallet].balance < t.amount
              /\ transactions' = [transactions EXCEPT ![i].status = "failed"]
              /\ UNCHANGED wallet
           \/ /\ wallet[t.wallet].balance >= t.amount
              /\ transactions' = [transactions EXCEPT ![i].status = "completed",
                                                      ![i].approved = TRUE]
              /\ wallet' = [wallet EXCEPT ![t.wallet] = Spent(@, t.amount)]

Reject(i) ==
    /\ i \in 1 .. Len(transactions) /\ transactions[i].status = "pending_approval"
    /\ transactions' = [transactions EXCEPT ![i].status = "rejected"]
    /\ UNCHANGED wallet

Freeze(a, b) ==
    /\ wallet[a].exists
    /\ wallet' = [wallet EXCEPT ![a].frozen = b]
    /\ UNCHANGED transactions

\* get_remaining_daily_budget() resets the counters, too.
ReadBudget(a) ==
    /\ wallet[a].exists
    /\ wallet' = [wallet EXCEPT ![a] = Reset(@)]
    /\ UNCHANGED transactions

WalletNext ==
    \/ \E a \in Agents :
          \/ \E x \in Initial : CreateWallet(a, x)
          \/ \E x \in Credits : Credit(a, x)
          \/ \E x \in Amounts, b \in Agents : Spend(a, x, Kind(a, b), b) \/ Transfer(a, b, x)
          \/ \E b \in BOOLEAN : Freeze(a, b)
          \/ ReadBudget(a)
    \/ \E i \in 1 .. Len(transactions) : Approve(i) \/ Reject(i)

\* The wallets together with the modes and the calendar they read.
WalletsNext ==
    \/ WalletNext /\ UNCHANGED ModeVars
    \/ ModeNext /\ UNCHANGED WalletVars

WalletSpec == ModeInit /\ WalletInit /\ [][WalletsNext]_<<ModeVars, WalletVars>>

-----------------------------------------------------------------------------
WalletRecord == [exists : BOOLEAN, opening : Int, balance : Int, daily : Nat, monthly : Nat,
                 spent : Nat, earned : Int, resetDay : 0 .. MaxDay, resetMonth : Nat,
                 frozen : BOOLEAN]
TransactionRecord ==
    {t \in [wallet : Agents, kind : {"credit", "debit", "transfer_out", "transfer_in"},
            amount : Int, other : Agents,
            status : {"pending_approval", "completed", "failed", "rejected"},
            day : 0 .. MaxDay, mode : {"governed", "unbounded"}, approved : BOOLEAN] :
        IF t.kind = "credit" THEN t.status = "completed" ELSE t.amount > 0}

\* Balances may be negative, as credits and opening balances may; what is spent not.
WalletTypeOK ==
    /\ wallet \in [Agents -> WalletRecord]
    /\ transactions \in Seq(TransactionRecord)

\* The counters of a wallet agree: its balance is what came in less what was
\* spent, what was spent today is part of this month's, and that of the total,
\* although approvals add to counters that nobody has reset.
CountersAgree ==
    \A a \in Agents :
        LET w == wallet[a]
        IN  /\ w.balance = w.opening + w.earned - w.spent
            /\ w.daily <= w.monthly /\ w.monthly <= w.spent
            /\ w.exists => w.resetMonth = MonthOf(w.resetDay) /\ w.resetDay <= today

Total(S) == MapThenSumSet(LAMBDA i : transactions[i].amount, S)

Completed(a, kinds) ==
    {i \in 1 .. Len(transactions) : /\ transactions[i].wallet = a /\ transactions[i].kind \in kinds
                                    /\ transactions[i].status = "completed"}
Payments(a) == Completed(a, {"debit", "transfer_out"})

\* The books balance: the totals of a wallet are the sums of its completed
\* transactions, each counted once however it was approved.
LedgerBalanced ==
    \A a \in Agents : /\ wallet[a].spent = Total(Payments(a))
                      /\ wallet[a].earned = Total(Completed(a, {"credit", "transfer_in"}))
=============================================================================

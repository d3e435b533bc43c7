----------------------------- MODULE Negotiation -----------------------------
(***************************************************************************)
(* Auctions, bids and contracts between agents                             *)
(* (shared/agent/negotiation.py, with its endpoints and those of the       *)
(* approvals in app/routers_autonomy.py).  The engine of the program has   *)
(* neither an approval callback nor a wallet system, so every operation is *)
(* one step and pays nobody.  breach_contract and create_resource_trade    *)
(* have no caller; a deadline is never looked at.                          *)
(***************************************************************************)
EXTENDS ModeManager, Sequences

CONSTANTS
    Prices,             \* what bids ask
    ContractLimit,      \* contract_value_limit
    Contestants,        \* [Agents -> SUBSET Agents]: whom an agent invites
    MaxAuctions,        \* bounds on what is created
    MaxBids,
    MaxContracts,
    MaxApprovals

ASSUME NegotiationAssumption ==
    /\ Prices \subseteq Nat /\ ContractLimit \in Nat
    /\ Contestants \in [Agents -> SUBSET Agents]
    /\ {MaxAuctions, MaxBids, MaxContracts, MaxApprovals} \subseteq Nat

VARIABLES
    negotiations,   \* _negotiations: [initiator, maximum, status, winner, contract]
    bids,           \* _bids: [negotiation, agent, price, isWinning, isRejected]
    contracts,      \* _contracts: [negotiation, bid, parties, value, waited, status, done, approved]
    approvals       \* _pending_approvals: [contract, status]

NegotiationVars == <<negotiations, bids, contracts, approvals>>

NegotiationInit ==
    /\ negotiations = <<>> /\ bids = <<>> /\ contracts = <<>> /\ approvals = <<>>

\* 0 stands for no winner, no contract, and no maximal bid.
CreateAuction(a, maximum) ==
    /\ Len(negotiations) < MaxAuctions
    /\ negotiations' = Append(negotiations,
            [initiator |-> a, maximum |-> maximum, status |-> "bidding", winner |-> 0, contract |-> 0])
    /\ UNCHANGED <<bids, contracts, approvals>>

\* As the code must not be: the maximum of the auction is not looked at.
SubmitBid_Unlimited(a, n, price) ==
    /\ a \in Contestants[negotiations[n].initiator]
    /\ negotiations[n].status = "bidding" /\ Len(bids) < MaxBids
    /\ bids' = Append(bids, [negotiation |-> n, agent |-> a, price |-> price,
                             isWinning |-> FALSE, isRejected |-> FALSE])
    /\ UNCHANGED <<negotiations, contracts, approvals>>

SubmitBid(a, n, price) ==
    /\ a \in Contestants[negotiations[n].initiator]
    /\ negotiations[n].status = "bidding"
    /\ negotiations[n].maximum # 0 => price <= negotiations[n].maximum
    /\ Len(bids) < MaxBids
    /\ bids' = Append(bids, [negotiation |-> n, agent |-> a, price |-> price,
                             isWinning |-> FALSE, isRejected |-> FALSE])
    /\ UNCHANGED <<negotiations, contracts, approvals>>

\* Neither the status of the negotiation nor that of the bid is looked at.
AcceptBid(b) ==
    LET n == bids[b].negotiation
        initiator == negotiations[n].initiator
        waits == mode[initiator] = "governed" /\ bids[b].price > ContractLimit
        c == Len(contracts) + 1
    IN  /\ c <= MaxContracts
        /\ contracts' = Append(contracts,
                [negotiation |-> n, bid |-> b, parties |-> {initiator, bids[b].agent},
                 value |-> bids[b].price, waited |-> waits,
                 status |-> IF waits THEN "pending_approval" ELSE "active",
                 done |-> {}, approved |-> FALSE])
        /\ negotiations' = [negotiations EXCEPT ![n].status = "agreed",
                                                ![n].winner = b, ![n].contract = c]
        /\ bids' = [i \in DOMAIN bids |->
                CASE i = b -> [bids[i] EXCEPT !.isWinning = TRUE]
                  [] i # b /\ bids[i].negotiation = n -> [bids[i] EXCEPT !.isRejected = TRUE]
                  [] OTHER -> bids[i]]
        /\ UNCHANGED approvals

CompleteContract(c, a) ==
    LET done == contracts[c].done \cup {a}
    IN  /\ contracts[c].status = "active" /\ a \in contracts[c].parties
        /\ contracts' = [contracts EXCEPT
                ![c].done = done,
                ![c].status = IF done = contracts[c].parties THEN "completed" ELSE @]
        /\ UNCHANGED <<negotiations, bids, approvals>>

Approved(c) ==
    contracts' = [contracts EXCEPT ![c].status = "active", ![c].approved = TRUE]

ApproveContract(c) ==
    /\ contracts[c].status = "pending_approval"
    /\ Approved(c)
    /\ UNCHANGED <<negotiations, bids, approvals>>

\* The negotiation is reopened whatever contract it points to by now.
RejectContract(c) ==
    /\ contracts[c].status = "pending_approval"
    /\ contracts' = [contracts EXCEPT ![c].status = "cancelled"]
    /\ negotiations' = [negotiations EXCEPT ![contracts[c].negotiation] =
                            [@ EXCEPT !.status = "bidding", !.winner = 0, !.contract = 0]]
    /\ UNCHANGED <<bids, approvals>>

RequestApproval(c) ==
    /\ Len(approvals) < MaxApprovals
    /\ approvals' = Append(approvals, [contract |-> c, status |-> "pending"])
    /\ UNCHANGED <<negotiations, bids, contracts>>

\* The decision is kept even when the contract no longer waits for it, and a
\* rejection does not reach the contract.
DecideApproval(i, decision) ==
    /\ approvals[i].status = "pending"
    /\ approvals' = [approvals EXCEPT ![i].status = decision]
    /\ IF decision = "approved" /\ contracts[approvals[i].contract].status = "pending_approval"
       THEN Approved(approvals[i].contract)
       ELSE UNCHANGED contracts
    /\ UNCHANGED <<negotiations, bids>>

NegotiationNext ==
    \/ \E a \in Agents, maximum \in Prices \cup {0} : CreateAuction(a, maximum)
    \/ \E a \in Agents, n \in DOMAIN negotiations, price \in Prices : SubmitBid(a, n, price)
    \/ \E b \in DOMAIN bids : AcceptBid(b)
    \/ \E c \in DOMAIN contracts : \/ \E a \in Agents : CompleteContract(c, a)
                                   \/ ApproveContract(c) \/ RejectContract(c) \/ RequestApproval(c)
    \/ \E i \in DOMAIN approvals, decision \in {"approved", "rejected"} : DecideApproval(i, decision)

NegotiationsNext ==
    \/ NegotiationNext /\ UNCHANGED ModeVars
    \/ ModeNext /\ UNCHANGED NegotiationVars

NegotiationSpec == ModeInit /\ NegotiationInit /\ [][NegotiationsNext]_<<ModeVars, NegotiationVars>>

-----------------------------------------------------------------------------

\* A contract is binding only if its value was within the limit, its initiator
\* was unbounded, or somebody approved it; and never above the auction's maximum.
BindingIsApproved ==
    \A c \in DOMAIN contracts :
        contracts[c].status \in {"active", "completed"} =>
            /\ contracts[c].waited => contracts[c].approved
            /\ LET n == negotiations[contracts[c].negotiation]
               IN  n.maximum # 0 => contracts[c].value <= n.maximum
=============================================================================

---------------------------- MODULE EconomyProofs ----------------------------
(***************************************************************************)
(* Money and contracts, for any number of agents and requests and any      *)
(* tables of amounts, limits, plans and costs.                             *)
(*                                                                         *)
(* Wallets: every operation rewrites one wallet by Added, Reset and Spent, *)
(* each of which keeps a wallet fit (Fits): typed, and with counters that  *)
(* agree.                                                                  *)
(*                                                                         *)
(* Their books: a step completes at most one transaction, or two with a    *)
(* transfer, and moves a wallet's totals by its amount (LInv). What a sum  *)
(* over transactions gains by one more is proved for the sums that         *)
(* MapThenSumSet computes, by induction on the number of elements.         *)
(*                                                                         *)
(* The gate: the costs allowed to an agent since its figures were last     *)
(* reset add up to its daily figure, and none carries a later date (GInv); *)
(* so the figure a request is judged by is that of its day.                *)
(*                                                                         *)
(* Billing: since the last reset what was recorded only grows, so the row  *)
(* a request has loaded after it is covered for as long as it holds it     *)
(* (Covered); a reset leaves every other request behind. A commit writes   *)
(* the figure it loaded with the cost that is recorded in the same step, a *)
(* zero, or none.                                                          *)
(*                                                                         *)
(* Contracts: a bid is within its auction's maximum, which never changes,  *)
(* and no operation makes a contract that waited binding unless it marks   *)
(* it approved (Sound).                                                    *)
(***************************************************************************)
EXTENDS AgentWallet, ExecutionGate, OrgBilling, Negotiation, TLAPS, SequenceTheorems,
        FiniteSetTheorems, WellFoundedInduction

-----------------------------------------------------------------------------
(* Sums over finite sets: what MapThenSumSet computes, by induction on the   *)
(* number of elements.  The induction is over a set of numbers, which has a  *)
(* least element among those it misses; a predicate could not be cited.      *)

\* Induction: a set of numbers that holds 0 and is closed under + 1 misses none.
LEMMA Reached ==
    ASSUME NEW B \in SUBSET Nat, 0 \in B, \A n \in B : n + 1 \in B
    PROVE  B = Nat
<1>1. PICK R : R = OpToRel(<, Nat)
  OBVIOUS
<1>2. IsWellFoundedOn(R, Nat)
  BY <1>1, NatLessThanWellFounded
<1>3. PICK missed \in SUBSET Nat : missed = Nat \ B
  OBVIOUS
<1>4. CASE missed # {}
  <2>1. PICK n \in missed : \A m \in missed : <<m, n>> \notin R
    BY <1>2, <1>4, WFMin
  <2>2. n \in Nat /\ n # 0 /\ n - 1 \in Nat
    BY <1>3
  <2>3. <<n - 1, n>> \in R
    <3>1. R = {e \in Nat \X Nat : e[1] < e[2]}
      BY <1>1, Zenon DEF OpToRel
    <3> QED
      BY <2>2, <3>1
  <2>4. n - 1 \notin missed
    BY <2>1, <2>3
  <2>5. n - 1 \in B
    BY <1>3, <2>2, <2>4
  <2>6. (n - 1) + 1 = n
    BY <2>2
  <2> QED
    BY <1>3, <2>5, <2>6
<1> QED
  BY <1>3, <1>4

\* The sum of c over S, as the folds of the community modules compute it: f is
\* the recursive function, and SumOf the value of the one CHOOSE finds.
Picked(s) == CHOOSE x \in s : TRUE
AddsUp(c, s, f) == f[s] = IF s = {} THEN 0 ELSE c[Picked(s)] + f[s \ {Picked(s)}]
Summing(c, S, f) == f = [s \in SUBSET S |-> IF s = {} THEN 0 ELSE c[Picked(s)] + f[s \ {Picked(s)}]]
SumOf(c, S) == (CHOOSE f : Summing(c, S, f))[S]

LEMMA PickedIn == \A s : s # {} => Picked(s) \in s
BY DEF Picked

LEMMA Smaller ==
    ASSUME NEW S, IsFiniteSet(S), NEW s \in SUBSET S, NEW x \in s,
           NEW n \in Nat, Cardinality(s) <= n + 1
    PROVE  s \ {x} \in SUBSET S /\ Cardinality(s \ {x}) \in Nat /\ Cardinality(s \ {x}) <= n
<1>1. IsFiniteSet(s)
  BY FS_Subset
<1>2. Cardinality(s) \in Nat /\ Cardinality(s \ {x}) = Cardinality(s) - 1
  BY <1>1, FS_RemoveElement, FS_CardinalityType
<1>3. Cardinality(s \ {x}) \in Nat
  BY <1>1, FS_RemoveElement, FS_CardinalityType
<1> QED
  BY <1>2, <1>3

LEMMA Empties ==
    ASSUME NEW S, IsFiniteSet(S), NEW s \in SUBSET S, Cardinality(s) <= 0
    PROVE  s = {}
<1>1. IsFiniteSet(s)
  BY FS_Subset
<1>2. Cardinality(s) \in Nat
  BY <1>1, FS_CardinalityType
<1> QED
  BY <1>1, <1>2, FS_EmptySet

LEMMA SizeWithin ==
    ASSUME NEW S, IsFiniteSet(S)
    PROVE  \E n \in Nat : \A s \in SUBSET S : Cardinality(s) <= n
BY FS_Subset, FS_CardinalityType

\* The recursion has a solution: one for the subsets of n elements at most can
\* be extended to those of n + 1.
LEMMA SummingExists ==
    ASSUME NEW S, IsFiniteSet(S), NEW c, \A x \in S : c[x] \in Int
    PROVE  \E f : Summing(c, S, f)
<1> DEFINE B == {n \in Nat : \E f \in [SUBSET S -> Int] :
                             \A s \in SUBSET S : Cardinality(s) <= n => AddsUp(c, s, f)}
<1>1. 0 \in B
  <2>1. [s \in SUBSET S |-> 0] \in [SUBSET S -> Int]
    OBVIOUS
  <2>2. \A s \in SUBSET S : Cardinality(s) <= 0 => AddsUp(c, s, [t \in SUBSET S |-> 0])
    BY Empties DEF AddsUp
  <2> QED
    BY <2>1, <2>2
<1>2. ASSUME NEW n \in B PROVE n + 1 \in B
  <2>1. PICK f \in [SUBSET S -> Int] : \A s \in SUBSET S : Cardinality(s) <= n => AddsUp(c, s, f)
    BY <1>2
  <2> DEFINE g == [s \in SUBSET S |-> IF Cardinality(s) <= n \/ s = {} THEN f[s]
                                     ELSE c[Picked(s)] + f[s \ {Picked(s)}]]
  <2>2. g \in [SUBSET S -> Int]
    <3>1. \A s \in SUBSET S : s # {} => Picked(s) \in S /\ s \ {Picked(s)} \in SUBSET S
      BY PickedIn
    <3> QED
      BY <3>1
  <2>3. ASSUME NEW s \in SUBSET S, Cardinality(s) <= n + 1 PROVE AddsUp(c, s, g)
    <3>0. n \in Nat
      OBVIOUS
    <3>1. CASE s = {}
      <4>1. Cardinality(s) <= n
        BY <3>0, <3>1, FS_EmptySet
      <4> QED
        BY <3>1, <4>1, <2>1 DEF AddsUp
    <3>2. CASE s # {}
      <4>1. Picked(s) \in s
        BY <3>2, PickedIn
      <4>2. PICK p : p = Picked(s)
        OBVIOUS
      <4>3. s \ {p} \in SUBSET S /\ Cardinality(s \ {p}) <= n
        BY <2>3, <3>0, <4>1, <4>2, Smaller
      <4>4. g[s \ {p}] = f[s \ {p}]
        BY <4>3
      <4>5. g[s] = c[p] + f[s \ {p}]
        BY <2>1, <3>2, <4>2 DEF AddsUp
      <4> QED
        BY <3>2, <4>2, <4>4, <4>5 DEF AddsUp
    <3> QED
      BY <3>1, <3>2
  <2> HIDE DEF g
  <2> QED
    BY <2>2, <2>3
<1>3. B = Nat
  <2> HIDE DEF B
  <2>1. \A n \in B : n + 1 \in B
    BY <1>2
  <2>2. B \in SUBSET Nat
    BY DEF B
  <2> QED
    BY <1>1, <2>1, <2>2, Reached
<1>4. PICK n \in Nat : \A s \in SUBSET S : Cardinality(s) <= n
  BY SizeWithin
<1>5. PICK f \in [SUBSET S -> Int] : \A s \in SUBSET S : AddsUp(c, s, f)
  BY <1>3, <1>4
<1>6. Summing(c, S, f)
  BY <1>5 DEF Summing, AddsUp
<1> QED
  BY <1>6

\* The function CHOOSE returns satisfies the equation, at every subset.
LEMMA SummingChosen ==
    ASSUME NEW S, IsFiniteSet(S), NEW c, \A x \in S : c[x] \in Int
    PROVE  \E f : SumOf(c, S) = f[S] /\ \A s \in SUBSET S : AddsUp(c, s, f)
<1>1. PICK f : f = CHOOSE g : Summing(c, S, g)
  OBVIOUS
<1>2. Summing(c, S, f)
  BY <1>1, SummingExists
<1>3. \A s \in SUBSET S : AddsUp(c, s, f)
  BY <1>2, Zenon DEF Summing, AddsUp
<1> QED
  BY <1>1, <1>3 DEF SumOf

\* The order in which the elements are taken makes no difference.
LEMMA AnyFirst ==
    ASSUME NEW S, IsFiniteSet(S), NEW c, \A x \in S : c[x] \in Int,
           NEW f, \A s \in SUBSET S : AddsUp(c, s, f)
    PROVE  \A s \in SUBSET S : f[s] \in Int /\ \A x \in s : f[s] = c[x] + f[s \ {x}]
<1> DEFINE Good(s) == f[s] \in Int /\ \A x \in s : f[s] = c[x] + f[s \ {x}]
           B == {n \in Nat : \A s \in SUBSET S : Cardinality(s) <= n => Good(s)}
<1>0. ASSUME NEW s \in SUBSET S, s = {} PROVE Good(s)
  <2>1. f[s] = 0
    BY <1>0 DEF AddsUp
  <2> QED
    BY <1>0, <2>1
<1>1. 0 \in B
  <2>1. \A s \in SUBSET S : Cardinality(s) <= 0 => s = {}
    BY Empties
  <2> QED
    BY <2>1, <1>0
<1>2. ASSUME NEW n \in B PROVE n + 1 \in B
  <2>1. n \in Nat /\ \A s \in SUBSET S : Cardinality(s) <= n => Good(s)
    OBVIOUS
  <2> HIDE DEF B
  <2>2. ASSUME NEW s \in SUBSET S, Cardinality(s) <= n + 1 PROVE Good(s)
    <3>1. CASE s = {}
      BY <3>1, <1>0
    <3>2. CASE s # {}
      <4>1. PICK p \in s : p = Picked(s)
        BY <3>2, PickedIn
      <4>2. f[s] = c[p] + f[s \ {p}]
        BY <3>2, <4>1 DEF AddsUp
      <4>3. \A x \in s : s \ {x} \in SUBSET S /\ Good(s \ {x})
        <5> SUFFICES ASSUME NEW x \in s PROVE s \ {x} \in SUBSET S /\ Good(s \ {x})
          OBVIOUS
        <5>1. PICK r : r = s \ {x}
          OBVIOUS
        <5>2. r \in SUBSET S /\ Cardinality(r) <= n
          BY <2>1, <2>2, <5>1, Smaller
        <5>3. Good(r)
          BY <2>1, <5>2
        <5> QED
          BY <5>1, <5>2, <5>3
      <4>4. f[s] \in Int
        <5>1. PICK r : r = s \ {p}
          OBVIOUS
        <5>2. f[r] \in Int /\ c[p] \in Int
          BY <4>1, <4>3, <5>1
        <5> QED
          BY <4>2, <5>1, <5>2
      <4>5. ASSUME NEW x \in s PROVE f[s] = c[x] + f[s \ {x}]
        <5>1. CASE x = p
          BY <5>1, <4>2
        <5>2. CASE x # p
          <6>1. PICK t : t = (s \ {p}) \ {x}
            OBVIOUS
          <6>2. t = (s \ {x}) \ {p} /\ x \in s \ {p} /\ p \in s \ {x}
            BY <5>2, <6>1, <4>1
          <6>3. f[s \ {p}] = c[x] + f[t] /\ f[s \ {x}] = c[p] + f[t]
            <7>1. PICK u, v : u = s \ {p} /\ v = s \ {x}
              OBVIOUS
            <7>2. Good(u) /\ Good(v)
              BY <4>1, <4>3, <7>1
            <7>3. f[u] = c[x] + f[u \ {x}] /\ f[v] = c[p] + f[v \ {p}]
              BY <6>2, <7>1, <7>2
            <7> QED
              BY <6>1, <6>2, <7>1, <7>3
          <6>4. t \in SUBSET S /\ Good(t)
            <7>0. PICK u : u = s \ {p}
              OBVIOUS
            <7>1. Cardinality(u) \in Nat /\ Cardinality(u) <= n /\ u \in SUBSET S
              BY <4>1, <2>1, <2>2, <7>0, Smaller
            <7>3. Cardinality(u) <= n + 1 /\ x \in u /\ t = u \ {x}
              BY <2>1, <7>0, <7>1, <6>1, <6>2
            <7>2. t \in SUBSET S /\ Cardinality(t) <= n
              BY <7>1, <7>3, <2>1, Smaller
            <7> QED
              BY <7>2, <2>1
          <6>5. c[x] \in Int /\ c[p] \in Int /\ f[t] \in Int
            BY <6>4, <4>1
          <6> QED
            BY <4>2, <6>3, <6>5
        <5> QED
          BY <5>1, <5>2
      <4> QED
        BY <4>4, <4>5
    <3> QED
      BY <3>1, <3>2
  <2>3. n + 1 \in Nat /\ \A s \in SUBSET S : Cardinality(s) <= n + 1 => Good(s)
    BY <2>1, <2>2
  <2> HIDE DEF Good
  <2> QED
    BY <2>3 DEF B
<1>3. B = Nat
  <2> HIDE DEF B
  <2>1. \A n \in B : n + 1 \in B
    BY <1>2
  <2>2. B \in SUBSET Nat
    BY DEF B
  <2> QED
    BY <1>1, <2>1, <2>2, Reached
<1>4. PICK n \in Nat : \A s \in SUBSET S : Cardinality(s) <= n
  BY SizeWithin
<1>5. \A s \in SUBSET S : Good(s)
  <2> HIDE DEF Good
  <2> QED
    BY <1>3, <1>4
<1> QED
  BY <1>5

\* Two sums agree where their terms do.
LEMMA SumsAgree ==
    ASSUME NEW S, IsFiniteSet(S), NEW c, NEW d, \A x \in S : c[x] = d[x],
           NEW f, \A s \in SUBSET S : AddsUp(c, s, f),
           NEW g, \A s \in SUBSET S : AddsUp(d, s, g)
    PROVE  f[S] = g[S]
<1> DEFINE B == {n \in Nat : \A s \in SUBSET S : Cardinality(s) <= n => f[s] = g[s]}
<1>0. f[{}] = g[{}]
  BY DEF AddsUp
<1>1. 0 \in B
  BY <1>0, Empties
<1>2. ASSUME NEW n \in B PROVE n + 1 \in B
  <2>1. n \in Nat /\ \A s \in SUBSET S : Cardinality(s) <= n => f[s] = g[s]
    OBVIOUS
  <2> HIDE DEF B
  <2>2. ASSUME NEW s \in SUBSET S, Cardinality(s) <= n + 1, s # {} PROVE f[s] = g[s]
    <3>1. PICK p \in s : p = Picked(s)
      BY <2>2, PickedIn
    <3>2. s \ {p} \in SUBSET S /\ Cardinality(s \ {p}) <= n
      BY <2>1, <2>2, Smaller
    <3>3. f[s] = c[p] + f[s \ {p}] /\ g[s] = d[p] + g[s \ {p}]
      BY <2>2, <3>1 DEF AddsUp
    <3> QED
      BY <2>1, <3>2, <3>3
  <2> QED
    BY <1>0, <2>1, <2>2 DEF B
<1>3. B = Nat
  <2> HIDE DEF B
  <2>1. \A n \in B : n + 1 \in B
    BY <1>2
  <2>2. B \in SUBSET Nat
    BY DEF B
  <2> QED
    BY <1>1, <2>1, <2>2, Reached
<1>4. PICK n \in Nat : \A s \in SUBSET S : Cardinality(s) <= n
  BY SizeWithin
<1> QED
  BY <1>3, <1>4

LEMMA SumType ==
    ASSUME NEW S, IsFiniteSet(S), NEW c, \A x \in S : c[x] \in Int
    PROVE  SumOf(c, S) \in Int
<1>1. PICK f : SumOf(c, S) = f[S] /\ \A s \in SUBSET S : AddsUp(c, s, f)
  BY SummingChosen
<1>2. f[S] \in Int
  BY <1>1, AnyFirst
<1> QED
  BY <1>1, <1>2

LEMMA SumEmpty ==
    ASSUME NEW c
    PROVE  SumOf(c, {}) = 0
<1>1. PICK none : none = {}
  OBVIOUS
<1>2. IsFiniteSet(none) /\ \A x \in none : c[x] \in Int
  BY <1>1, FS_EmptySet
<1>3. PICK f : SumOf(c, none) = f[none] /\ \A s \in SUBSET none : AddsUp(c, s, f)
  BY <1>2, SummingChosen
<1> QED
  BY <1>1, <1>3 DEF AddsUp

LEMMA SumSame ==
    ASSUME NEW S, IsFiniteSet(S), NEW c, NEW d, \A x \in S : c[x] \in Int /\ c[x] = d[x]
    PROVE  SumOf(c, S) = SumOf(d, S)
<1>1. \A x \in S : d[x] \in Int
  OBVIOUS
<1>2. PICK f : SumOf(c, S) = f[S] /\ \A s \in SUBSET S : AddsUp(c, s, f)
  BY SummingChosen
<1>3. PICK g : SumOf(d, S) = g[S] /\ \A s \in SUBSET S : AddsUp(d, s, g)
  BY <1>1, SummingChosen
<1> QED
  BY <1>2, <1>3, SumsAgree

\* One more term.
LEMMA SumAdd ==
    ASSUME NEW S, IsFiniteSet(S), NEW x, x \notin S, NEW c, \A y \in S \cup {x} : c[y] \in Int
    PROVE  SumOf(c, S \cup {x}) = c[x] + SumOf(c, S)
<1>1. PICK more : more = S \cup {x}
  OBVIOUS
<1>2. IsFiniteSet(more) /\ \A y \in more : c[y] \in Int
  BY <1>1, FS_AddElement
<1>3. PICK f : SumOf(c, more) = f[more] /\ \A s \in SUBSET more : AddsUp(c, s, f)
  BY <1>2, SummingChosen
<1>4. PICK g : SumOf(c, S) = g[S] /\ \A s \in SUBSET S : AddsUp(c, s, g)
  BY SummingChosen
<1>5. more \ {x} = S /\ x \in more /\ more \in SUBSET more
  BY <1>1
<1>6. f[more] = c[x] + f[S]
  BY <1>2, <1>3, <1>5, AnyFirst
<1>7. \A s \in SUBSET S : AddsUp(c, s, f)
  BY <1>1, <1>3
<1>8. f[S] = g[S]
  BY <1>4, <1>7, SumsAgree
<1> QED
  BY <1>1, <1>3, <1>4, <1>6, <1>8

-----------------------------------------------------------------------------
(* Wallets.                                                                  *)

Modes == {"governed", "unbounded"}

Agrees(w) ==
    /\ w.balance = w.opening + w.earned - w.spent
    /\ w.daily <= w.monthly /\ w.monthly <= w.spent
    /\ w.exists => w.resetMonth = MonthOf(w.resetDay) /\ w.resetDay <= today

Fits(w) == w \in WalletRecord /\ Agrees(w)

WInv ==
    /\ mode \in [Agents -> Modes] /\ today \in 0 .. MaxDay
    /\ wallet \in [Agents -> WalletRecord]
    /\ \A a \in Agents : Agrees(wallet[a])
    /\ transactions \in Seq(TransactionRecord)

-----------------------------------------------------------------------------
(* What becomes of one wallet.                                               *)

LEMMA MonthType ==
    ASSUME NEW d \in Nat
    PROVE  MonthOf(d) \in Nat
<1>1. MonthLength \in Nat /\ MonthLength > 0
  BY CalendarAssumption
<1>2. \A m \in Nat : m > 0 => d \div m \in Int /\ d \div m >= 0
  OBVIOUS
<1> QED
  BY <1>1, <1>2 DEF MonthOf

LEMMA NewFits ==
    ASSUME today \in 0 .. MaxDay, NEW x \in Int
    PROVE  Fits(NewWallet(x))
<1>1. today \in Nat /\ MonthOf(today) \in Nat
  BY MonthType, CalendarAssumption
<1>2. NewWallet(x) \in WalletRecord
  <2>1. NoWallet \in WalletRecord
    BY CalendarAssumption DEF NoWallet, WalletRecord
  <2> QED
    BY <1>1, <2>1 DEF NewWallet, WalletRecord
<1>3. Agrees(NewWallet(x))
  BY <1>1 DEF NewWallet, NoWallet, Agrees
<1> QED
  BY <1>2, <1>3 DEF Fits

LEMMA AddedFits ==
    ASSUME NEW w, Fits(w), NEW x \in Int
    PROVE  Fits(Added(w, x))
<1>1. w.balance + x \in Int /\ w.earned + x \in Int
  BY DEF Fits, WalletRecord
<1>2. Added(w, x) \in WalletRecord
  BY <1>1 DEF Added, Fits, WalletRecord
<1>3. Agrees(Added(w, x))
  BY <1>1 DEF Added, Fits, Agrees, WalletRecord
<1> QED
  BY <1>2, <1>3 DEF Fits

\* The counters of another day or month are put back to zero, never those of this one.
LEMMA ResetFits ==
    ASSUME today \in 0 .. MaxDay, NEW w, Fits(w), w.exists
    PROVE  Fits(Reset(w)) /\ Reset(w).balance = w.balance
<1>1. today \in Nat /\ MonthOf(today) \in Nat
  BY MonthType, CalendarAssumption
<1>2. Reset(w) \in WalletRecord /\ Reset(w).balance = w.balance
  BY <1>1 DEF Reset, Fits, WalletRecord
<1>3. Reset(w).daily <= Reset(w).monthly /\ Reset(w).monthly <= Reset(w).spent
  BY <1>1 DEF Reset, Fits, Agrees, WalletRecord
<1>4. Agrees(Reset(w))
  BY <1>1, <1>3 DEF Reset, Fits, Agrees, WalletRecord
<1> QED
  BY <1>2, <1>4 DEF Fits

LEMMA SpentFits ==
    ASSUME NEW w, Fits(w), NEW x \in Nat
    PROVE  Fits(Spent(w, x))
<1>1. /\ w.balance - x \in Int /\ w.daily + x \in Nat
      /\ w.monthly + x \in Nat /\ w.spent + x \in Nat
  BY DEF Fits, WalletRecord
<1>2. Spent(w, x) \in WalletRecord
  BY <1>1 DEF Spent, Fits, WalletRecord
<1>3. Agrees(Spent(w, x))
  BY <1>1 DEF Spent, Fits, Agrees, WalletRecord
<1> QED
  BY <1>2, <1>3 DEF Fits

\* Freezing changes no counter.
LEMMA FrozenFits ==
    ASSUME NEW w, Fits(w), NEW b \in BOOLEAN
    PROVE  Fits([w EXCEPT !.frozen = b])
BY DEF Fits, Agrees, WalletRecord

-----------------------------------------------------------------------------
(* What becomes of the wallets and the transactions.                         *)

LEMMA TransactionType ==
    ASSUME WInv, NEW a \in Agents, NEW b \in Agents, NEW x \in Amounts,
           NEW kind \in {"debit", "transfer_out", "transfer_in"},
           NEW status \in {"pending_approval", "completed"}
    PROVE  Transaction(a, kind, x, b, status) \in TransactionRecord
<1>1. x \in Int /\ x > 0
  BY WalletAssumption
<1> QED
  BY <1>1 DEF WInv, Modes, Transaction, TransactionRecord

LEMMA CreditType ==
    ASSUME WInv, NEW a \in Agents, NEW x \in Credits
    PROVE  x \in Int /\ Transaction(a, "credit", x, a, "completed") \in TransactionRecord
BY WalletAssumption DEF WInv, Modes, Transaction, TransactionRecord

LEMMA Recorded ==
    ASSUME WInv, NEW t \in TransactionRecord, Record(t)
    PROVE  transactions' \in Seq(TransactionRecord)
BY AppendProperties DEF WInv, Record

LEMMA Replacing ==
    ASSUME WInv, NEW a \in Agents, NEW w, Fits(w), wallet' = [wallet EXCEPT ![a] = w],
           transactions' \in Seq(TransactionRecord), UNCHANGED ModeVars
    PROVE  WInv'
BY DEF WInv, Fits, Agrees, ModeVars, MonthOf

LEMMA Unmoved ==
    ASSUME WInv, UNCHANGED <<wallet, ModeVars>>, transactions' \in Seq(TransactionRecord)
    PROVE  WInv'
BY DEF WInv, Agrees, ModeVars, MonthOf

LEMMA Marking ==
    ASSUME WInv, NEW i \in 1 .. Len(transactions), NEW s \in {"completed", "failed", "rejected"},
           NEW b \in BOOLEAN, transactions[i].status = "pending_approval"
    PROVE  [transactions EXCEPT ![i] = [@ EXCEPT !.status = s, !.approved = b]]
               \in Seq(TransactionRecord)
<1>1. transactions[i] \in TransactionRecord
  BY ElementOfSeq DEF WInv
<1>2. [transactions[i] EXCEPT !.status = s, !.approved = b] \in TransactionRecord
  BY <1>1 DEF TransactionRecord
<1> QED
  BY <1>2, ExceptSeq DEF WInv

LEMMA FitNow ==
    ASSUME WInv, NEW a \in Agents
    PROVE  Fits(wallet[a]) /\ today \in 0 .. MaxDay
BY DEF WInv, Fits

LEMMA AmountType == \A x \in Amounts : x \in Nat
BY WalletAssumption

-----------------------------------------------------------------------------
(* One lemma for each operation.                                             *)

LEMMA CreateKeeps ==
    ASSUME WInv, NEW a \in Agents, NEW x \in Initial, CreateWallet(a, x), UNCHANGED ModeVars
    PROVE  WInv'
<1>1. Fits(NewWallet(x))
  BY NewFits, WalletAssumption DEF WInv
<1> QED
  BY <1>1, Replacing DEF CreateWallet, WInv

LEMMA CreditKeeps ==
    ASSUME WInv, NEW a \in Agents, NEW x \in Credits, Credit(a, x), UNCHANGED ModeVars
    PROVE  WInv'
<1> DEFINE w == IF wallet[a].exists THEN wallet[a] ELSE NewWallet(0)
<1>1. Fits(w)
  BY FitNow, NewFits
<1>2. Fits(Added(w, x))
  BY <1>1, AddedFits, CreditType
<1>3. wallet' = [wallet EXCEPT ![a] = Added(w, x)]
  BY DEF Credit
<1>4. transactions' \in Seq(TransactionRecord)
  BY Recorded, CreditType DEF Credit
<1> HIDE DEF w
<1> QED
  BY <1>2, <1>3, <1>4, Replacing

\* A spend that waits for approval, or is refused for the budget, resets at most.
LEMMA ResetKeeps ==
    ASSUME WInv, NEW a \in Agents, wallet[a].exists,
           wallet' = [wallet EXCEPT ![a] = Reset(@)],
           transactions' \in Seq(TransactionRecord), UNCHANGED ModeVars
    PROVE  WInv'
<1>1. Fits(Reset(wallet[a]))
  BY FitNow, ResetFits
<1> QED
  BY <1>1, Replacing

LEMMA PendingKeeps ==
    ASSUME WInv, NEW a \in Agents, NEW b \in Agents, NEW x \in Amounts,
           NEW kind \in {"debit", "transfer_out"},
           SpendPending(a, x, kind, b) \/ SpendRefused(a, x), UNCHANGED ModeVars
    PROVE  WInv'
<1>1. wallet[a].exists /\ wallet' = [wallet EXCEPT ![a] = Reset(@)]
  BY DEF SpendPending, SpendRefused, Usable
<1>2. transactions' \in Seq(TransactionRecord)
  BY Recorded, TransactionType DEF SpendPending, SpendRefused, WInv
<1> QED
  BY <1>1, <1>2, ResetKeeps

LEMMA PaidFits ==
    ASSUME WInv, NEW a \in Agents, NEW x \in Amounts, SpendNow(a, x)
    PROVE  Fits(Spent(Reset(wallet[a]), x))
<1>1. wallet[a].exists /\ x <= wallet[a].balance
  <2>1. wallet[a].exists /\ wallet[a].balance >= x
    BY DEF SpendNow, Usable
  <2> QED
    BY <2>1, FitNow, AmountType DEF Fits, WalletRecord
<1>2. Fits(Reset(wallet[a])) /\ Reset(wallet[a]).balance = wallet[a].balance
  BY <1>1, FitNow, ResetFits
<1> QED
  BY <1>1, <1>2, SpentFits, AmountType

LEMMA SpendKeeps ==
    ASSUME WInv, NEW a \in Agents, NEW b \in Agents, NEW x \in Amounts,
           Spend(a, x, Kind(a, b), b), UNCHANGED ModeVars
    PROVE  WInv'
<1>1. Kind(a, b) \in {"debit", "transfer_out"}
  BY DEF Kind
<1>2. CASE SpendPending(a, x, Kind(a, b), b) \/ SpendRefused(a, x)
  BY <1>1, <1>2, PendingKeeps
<1>3. CASE /\ SpendNow(a, x)
           /\ wallet' = [wallet EXCEPT ![a] = Spent(Reset(@), x)]
           /\ Record(Transaction(a, Kind(a, b), x, b, "completed"))
  <2>1. transactions' \in Seq(TransactionRecord)
    BY <1>1, <1>3, Recorded, TransactionType
  <2> QED
    BY <1>3, <2>1, PaidFits, Replacing
<1> QED
  BY <1>2, <1>3 DEF Spend

\* The destination may be the source: it is credited after it has paid.
LEMMA TransferKeeps ==
    ASSUME WInv, NEW a \in Agents, NEW b \in Agents, NEW x \in Amounts,
           Transfer(a, b, x), UNCHANGED ModeVars
    PROVE  WInv'
<1> DEFINE paid == [wallet EXCEPT ![a] = Spent(Reset(@), x)]
           out == Transaction(a, "transfer_out", x, b, "completed")
           in  == Transaction(b, "transfer_in", x, a, "completed")
<1>1. CASE SpendPending(a, x, "transfer_out", b) \/ SpendRefused(a, x)
  BY <1>1, PendingKeeps
<1>2. CASE /\ SpendNow(a, x)
           /\ wallet' = [paid EXCEPT ![b] = Added(@, x)]
           /\ transactions' = transactions \o <<out, in>>
  <2>1. \A c \in Agents : Fits(paid[c])
    BY <1>2, PaidFits, FitNow DEF WInv
  <2>2. Fits(Added(paid[b], x))
    <3> HIDE DEF paid
    <3> QED BY <2>1, AddedFits, AmountType
  <2>3. \A c \in Agents : Fits(wallet'[c])
    BY <1>2, <2>1, <2>2 DEF WInv
  <2>4. wallet' = [c \in Agents |-> wallet'[c]]
    BY <1>2 DEF WInv
  <2>5. transactions' \in Seq(TransactionRecord)
    <3>1. out \in TransactionRecord /\ in \in TransactionRecord
      BY TransactionType
    <3> HIDE DEF out, in
    <3>2. <<out, in>> \in Seq(TransactionRecord)
      BY <3>1
    <3> QED
      BY <1>2, <3>2, ConcatProperties DEF WInv
  <2> HIDE DEF paid
  <2>6. wallet' \in [Agents -> WalletRecord] /\ \A c \in Agents : Agrees(wallet'[c])
    BY <2>3, <2>4 DEF Fits
  <2> QED
    BY <2>5, <2>6 DEF WInv, ModeVars, Agrees, MonthOf
<1> QED
  BY <1>1, <1>2 DEF Transfer

LEMMA ApproveKeeps ==
    ASSUME WInv, NEW i \in 1 .. Len(transactions), Approve(i), UNCHANGED ModeVars
    PROVE  WInv'
<1> DEFINE t == transactions[i]
<1>1. t \in TransactionRecord
  BY ElementOfSeq DEF WInv
<1>0. t.status = "pending_approval"
  BY DEF Approve
<1>2. t.wallet \in Agents /\ t.amount \in Nat
  BY <1>0, <1>1 DEF TransactionRecord
<1>3. CASE transactions' = [transactions EXCEPT ![i].status = "failed"] /\ UNCHANGED wallet
  <2>1. transactions' = [transactions EXCEPT ![i] = [@ EXCEPT !.status = "failed", !.approved = t.approved]]
    BY <1>1, <1>3 DEF TransactionRecord
  <2>2. t.approved \in BOOLEAN
    BY <1>1 DEF TransactionRecord
  <2>3. transactions' \in Seq(TransactionRecord)
    BY <1>0, <2>1, <2>2, Marking
  <2> QED
    BY <1>3, <2>3, Unmoved
<1>4. CASE /\ wallet[t.wallet].balance >= t.amount
           /\ transactions' = [transactions EXCEPT ![i].status = "completed", ![i].approved = TRUE]
           /\ wallet' = [wallet EXCEPT ![t.wallet] = Spent(@, t.amount)]
  <2>1. transactions' = [transactions EXCEPT ![i] = [@ EXCEPT !.status = "completed", !.approved = TRUE]]
    BY <1>4
  <2>3. Fits(Spent(wallet[t.wallet], t.amount))
    BY <1>2, FitNow, SpentFits
  <2>4. transactions' \in Seq(TransactionRecord)
    BY <1>0, <2>1, Marking
  <2> HIDE DEF t
  <2> QED
    BY <1>2, <1>4, <2>3, <2>4, Replacing
<1> QED
  BY <1>3, <1>4 DEF Approve

LEMMA RejectKeeps ==
    ASSUME WInv, NEW i \in 1 .. Len(transactions), Reject(i), UNCHANGED ModeVars
    PROVE  WInv'
<1> DEFINE t == transactions[i]
<1>1. t \in TransactionRecord
  BY ElementOfSeq DEF WInv
<1>2. t.approved \in BOOLEAN
  BY <1>1 DEF TransactionRecord
<1>3. transactions' = [transactions EXCEPT ![i] = [@ EXCEPT !.status = "rejected", !.approved = t.approved]]
  BY <1>1 DEF Reject, TransactionRecord
<1>4. transactions' \in Seq(TransactionRecord)
  BY <1>2, <1>3, Marking DEF Reject
<1> QED
  BY <1>4, Unmoved DEF Reject

LEMMA FreezeKeeps ==
    ASSUME WInv, NEW a \in Agents, NEW b \in BOOLEAN, Freeze(a, b), UNCHANGED ModeVars
    PROVE  WInv'
<1>1. Fits([wallet[a] EXCEPT !.frozen = b])
  BY FitNow, FrozenFits
<1>2. wallet' = [wallet EXCEPT ![a] = [wallet[a] EXCEPT !.frozen = b]]
  BY DEF Freeze
<1> QED
  BY <1>1, <1>2, Replacing DEF Freeze, WInv

LEMMA ModesKeep ==
    ASSUME WInv, ModeNext, UNCHANGED WalletVars
    PROVE  WInv'
<1>1. mode' \in [Agents -> Modes] /\ today' \in 0 .. MaxDay /\ today <= today'
  BY CalendarAssumption DEF ModeNext, SwitchMode, NextDay, WInv, Modes
<1>2. \A a \in Agents : Agrees(wallet[a])'
  <2> SUFFICES ASSUME NEW a \in Agents PROVE Agrees(wallet[a])'
    OBVIOUS
  <2>1. wallet[a] \in WalletRecord /\ Agrees(wallet[a])
    BY DEF WInv
  <2>2. wallet[a].resetDay <= today => wallet[a].resetDay <= today'
    BY <1>1, <2>1 DEF WalletRecord, WInv
  <2> QED
    BY <2>1, <2>2 DEF Agrees, WalletVars, MonthOf
<1> QED
  BY <1>1, <1>2 DEF WInv, WalletVars

-----------------------------------------------------------------------------
(* The theorems.                                                             *)

LEMMA WInvInit == ModeInit /\ WalletInit => WInv
<1> SUFFICES ASSUME ModeInit, WalletInit PROVE WInv
  OBVIOUS
<1>1. today = 0 /\ 0 \in 0 .. MaxDay
  BY CalendarAssumption DEF ModeInit
<1>2. NoWallet \in WalletRecord /\ Agrees(NoWallet)
  BY <1>1 DEF NoWallet, WalletRecord, Agrees
<1>3. transactions \in Seq(TransactionRecord)
  BY DEF WalletInit
<1> QED
  BY <1>1, <1>2, <1>3 DEF WInv, ModeInit, WalletInit, Modes

LEMMA WInvStep == WInv /\ [WalletsNext]_<<ModeVars, WalletVars>> => WInv'
<1> SUFFICES ASSUME WInv, [WalletsNext]_<<ModeVars, WalletVars>> PROVE WInv'
  OBVIOUS
<1>1. CASE UNCHANGED <<ModeVars, WalletVars>>
  BY <1>1 DEF WInv, ModeVars, WalletVars, Agrees, MonthOf
<1>2. CASE ModeNext /\ UNCHANGED WalletVars
  BY <1>2, ModesKeep
<1>3. CASE WalletNext /\ UNCHANGED ModeVars
  <2>1. CASE \E a \in Agents, x \in Initial : CreateWallet(a, x)
    BY <1>3, <2>1, CreateKeeps
  <2>2. CASE \E a \in Agents, x \in Credits : Credit(a, x)
    BY <1>3, <2>2, CreditKeeps
  <2>3. CASE \E a \in Agents, x \in Amounts, b \in Agents :
               Spend(a, x, Kind(a, b), b) \/ Transfer(a, b, x)
    BY <1>3, <2>3, SpendKeeps, TransferKeeps
  <2>4. CASE \E a \in Agents, b \in BOOLEAN : Freeze(a, b)
    BY <1>3, <2>4, FreezeKeeps
  <2>5. CASE \E a \in Agents : ReadBudget(a)
    BY <1>3, <2>5, ResetKeeps DEF ReadBudget, WInv
  <2>6. CASE \E i \in 1 .. Len(transactions) : Approve(i) \/ Reject(i)
    BY <1>3, <2>6, ApproveKeeps, RejectKeeps
  <2> QED
    BY <1>3, <2>1, <2>2, <2>3, <2>4, <2>5, <2>6 DEF WalletNext
<1> QED
  BY <1>1, <1>2, <1>3 DEF WalletsNext

LEMMA WInvAlways == WalletSpec => []WInv
BY WInvInit, WInvStep, PTL DEF WalletSpec

\* Every wallet and transaction stays well typed, with opening balances and credits
\* of either sign; what an agent has spent is never negative (routers_autonomy.py:125, 667).
THEOREM WalletTypeCorrect == WalletSpec => []WalletTypeOK
<1>1. WInv => WalletTypeOK
  BY DEF WInv, WalletTypeOK
<1> QED
  BY WInvAlways, <1>1, PTL

\* The balance of a wallet is what came in less what was spent, and the counters
\* of a day, a month and the total are nested, whatever is spent, transferred,
\* approved late or reset in between (wallet.py:411, 567).
THEOREM CountersAlwaysAgree == WalletSpec => []CountersAgree
<1>1. WInv => CountersAgree
  BY DEF WInv, CountersAgree, Agrees
<1> QED
  BY WInvAlways, <1>1, PTL

-----------------------------------------------------------------------------
(* The books: the totals of a wallet are the sums of its completed           *)
(* transactions.                                                             *)

Paid == {"debit", "transfer_out"}
Gained == {"credit", "transfer_in"}

Books(w, a) == w.spent = Total(Completed(a, Paid)) /\ w.earned = Total(Completed(a, Gained))

LInv ==
    /\ WInv
    /\ \A a \in Agents : Books(wallet[a], a)
    /\ \A a \in Agents : ~wallet[a].exists => wallet[a] = NoWallet
    /\ \A i \in 1 .. Len(transactions) :
          transactions[i].status = "pending_approval" => transactions[i].kind \in Paid

LEMMA TotalIs ==
    ASSUME NEW S, NEW c, \A i \in S : c[i] = transactions[i].amount
    PROVE  Total(S) = SumOf(c, S)
<1> DEFINE F(f) == [s \in SUBSET S |-> IF s = {} THEN 0
                        ELSE transactions[CHOOSE x \in s : TRUE].amount + f[s \ {CHOOSE x \in s : TRUE}]]
<1>1. Total(S) = (CHOOSE f : f = F(f))[S]
  BY DEF Total, MapThenSumSet, MapThenFoldSet
<1>2. \A s \in SUBSET S : s # {} => transactions[CHOOSE x \in s : TRUE].amount = c[Picked(s)]
  BY PickedIn DEF Picked
<1>3. \A f : f = F(f) <=> Summing(c, S, f)
  BY <1>2 DEF Summing, Picked
<1> QED
  BY <1>1, <1>3 DEF SumOf

\* The same of the next state.
LEMMA TotalWillBe ==
    ASSUME NEW a, NEW kinds, NEW c, NEW S, S = Completed(a, kinds)',
           \A i \in S : c[i] = transactions'[i].amount
    PROVE  Total(Completed(a, kinds))' = SumOf(c, S)
<1> DEFINE F(f) == [s \in SUBSET S |-> IF s = {} THEN 0
                        ELSE transactions'[CHOOSE x \in s : TRUE].amount + f[s \ {CHOOSE x \in s : TRUE}]]
<1>1. Total(Completed(a, kinds))' = (CHOOSE f : f = F(f))[S]
  BY DEF Total, MapThenSumSet, MapThenFoldSet
<1>2. \A s \in SUBSET S : s # {} => transactions'[CHOOSE x \in s : TRUE].amount = c[Picked(s)]
  BY PickedIn DEF Picked
<1>3. \A f : f = F(f) <=> Summing(c, S, f)
  BY <1>2 DEF Summing, Picked
<1> QED
  BY <1>1, <1>3 DEF SumOf

LEMMA CompletedTerms ==
    ASSUME WInv, NEW a, NEW kinds
    PROVE  /\ IsFiniteSet(Completed(a, kinds)) /\ Completed(a, kinds) \subseteq 1 .. Len(transactions)
           /\ \A i \in Completed(a, kinds) : transactions[i].amount \in Int
<1>1. Len(transactions) \in Nat
  BY LenProperties DEF WInv
<1>2. IsFiniteSet(1 .. Len(transactions))
  BY <1>1, FS_Interval
<1>3. Completed(a, kinds) \subseteq 1 .. Len(transactions)
  BY DEF Completed
<1>4. \A i \in 1 .. Len(transactions) : transactions[i] \in TransactionRecord
  BY ElementOfSeq DEF WInv
<1>5. \A i \in 1 .. Len(transactions) : transactions[i].amount \in Int
  BY <1>4 DEF TransactionRecord
<1> QED
  BY <1>2, <1>3, <1>5, FS_Subset

\* A step that changes no amount adds one transaction to a total, or none.
LEMMA Booked ==
    ASSUME WInv, NEW a, NEW kinds, NEW S, S = Completed(a, kinds),
           \A i \in S : transactions'[i].amount = transactions[i].amount,
           NEW j, j \notin S, NEW x \in Int, NEW T, T = Completed(a, kinds)',
           T = S \/ (T = S \cup {j} /\ transactions'[j].amount = x)
    PROVE  /\ Total(Completed(a, kinds)) \in Int
           /\ Total(Completed(a, kinds))' =
                  IF T = S THEN Total(Completed(a, kinds)) ELSE Total(Completed(a, kinds)) + x
<1>1. PICK c : c = [i \in S \cup {j} |-> IF i = j THEN x ELSE transactions[i].amount]
  OBVIOUS
<1>2. IsFiniteSet(S) /\ \A i \in S : transactions[i].amount \in Int
  BY CompletedTerms
<1>3. /\ \A i \in S : c[i] = transactions[i].amount /\ c[i] \in Int
      /\ c[j] = x
  BY <1>1, <1>2
<1>4. \A i \in T : c[i] = transactions'[i].amount
  BY <1>3
<1>5. Total(Completed(a, kinds)) = SumOf(c, S)
  BY <1>3, TotalIs
<1>6. Total(Completed(a, kinds))' = SumOf(c, T)
  BY <1>4, TotalWillBe
<1>7. SumOf(c, S) \in Int
  BY <1>2, <1>3, SumType
<1>8. SumOf(c, S \cup {j}) = x + SumOf(c, S)
  <2>1. \A y \in S \cup {j} : c[y] \in Int
    BY <1>3
  <2> QED
    BY <1>2, <1>3, <2>1, SumAdd
<1>9. CASE T = S
  BY <1>5, <1>6, <1>7, <1>9
<1>10. CASE T # S
  <2>1. Total(Completed(a, kinds))' = x + SumOf(c, S)
    BY <1>6, <1>8, <1>10
  <2> QED
    BY <1>5, <1>7, <1>10, <2>1
<1> QED
  BY <1>9, <1>10

\* What the books gain by the transaction t.
Gain(t, a, kinds) ==
    IF t.wallet = a /\ t.kind \in kinds /\ t.status = "completed" THEN t.amount ELSE 0

LEMMA OneMore ==
    ASSUME WInv, NEW n \in Nat, n = Len(transactions), n + 1 = Len(transactions'),
           \A i \in 1 .. n : transactions'[i] = transactions[i],
           NEW t \in TransactionRecord, transactions'[n + 1] = t, NEW a, NEW kinds
    PROVE  /\ Total(Completed(a, kinds)) \in Int
           /\ Total(Completed(a, kinds))' = Total(Completed(a, kinds)) + Gain(t, a, kinds)
<1>1. PICK S, T, j : S = Completed(a, kinds) /\ T = Completed(a, kinds)' /\ j = n + 1
  OBVIOUS
<1>2. t.amount \in Int
  BY DEF TransactionRecord
<1>3. S \subseteq 1 .. n
  BY <1>1, CompletedTerms
<1>4. T = IF t.wallet = a /\ t.kind \in kinds /\ t.status = "completed" THEN S \cup {j} ELSE S
  BY <1>1 DEF Completed
<1>5. j \notin S /\ \A i \in S : transactions'[i].amount = transactions[i].amount
  BY <1>1, <1>3
<1>6. transactions'[j].amount = t.amount /\ (T = S \/ T = S \cup {j})
  BY <1>1, <1>4
<1>7. /\ Total(Completed(a, kinds)) \in Int
      /\ Total(Completed(a, kinds))' =
             IF T = S THEN Total(Completed(a, kinds)) ELSE Total(Completed(a, kinds)) + t.amount
  BY <1>1, <1>2, <1>5, <1>6, Booked
<1>8. T = S <=> ~(t.wallet = a /\ t.kind \in kinds /\ t.status = "completed")
  BY <1>4, <1>5
<1> QED
  BY <1>2, <1>7, <1>8 DEF Gain

\* The i-th transaction, which was not completed, gets the status of t.
LEMMA Settled ==
    ASSUME WInv, NEW i \in 1 .. Len(transactions), Len(transactions') = Len(transactions),
           transactions[i].status # "completed",
           NEW t \in TransactionRecord, t.amount = transactions[i].amount, transactions'[i] = t,
           \A k \in 1 .. Len(transactions) : k # i => transactions'[k] = transactions[k],
           NEW a, NEW kinds
    PROVE  /\ Total(Completed(a, kinds)) \in Int
           /\ Total(Completed(a, kinds))' = Total(Completed(a, kinds)) + Gain(t, a, kinds)
<1>1. PICK S, T : S = Completed(a, kinds) /\ T = Completed(a, kinds)'
  OBVIOUS
<1>2. t.amount \in Int
  BY DEF TransactionRecord
<1>3. S \subseteq 1 .. Len(transactions)
  BY <1>1, CompletedTerms
<1>4. T = IF t.wallet = a /\ t.kind \in kinds /\ t.status = "completed" THEN S \cup {i} ELSE S
  BY <1>1 DEF Completed
<1>5. i \notin S /\ \A k \in S : transactions'[k].amount = transactions[k].amount
  BY <1>1, <1>3 DEF Completed
<1>6. transactions'[i].amount = t.amount /\ (T = S \/ T = S \cup {i})
  BY <1>4
<1>7. /\ Total(Completed(a, kinds)) \in Int
      /\ Total(Completed(a, kinds))' =
             IF T = S THEN Total(Completed(a, kinds)) ELSE Total(Completed(a, kinds)) + t.amount
  BY <1>1, <1>2, <1>5, <1>6, Booked
<1>8. T = S <=> ~(t.wallet = a /\ t.kind \in kinds /\ t.status = "completed")
  BY <1>4, <1>5
<1> QED
  BY <1>2, <1>7, <1>8 DEF Gain

\* Two transactions that are not of the same kinds.
LEMMA TwoMore ==
    ASSUME WInv, NEW n \in Nat, n = Len(transactions), n + 2 = Len(transactions'),
           \A i \in 1 .. n : transactions'[i] = transactions[i],
           NEW t \in TransactionRecord, transactions'[n + 1] = t,
           NEW u \in TransactionRecord, transactions'[n + 2] = u,
           NEW a, NEW kinds, t.kind \notin kinds \/ u.kind \notin kinds
    PROVE  /\ Total(Completed(a, kinds)) \in Int
           /\ Total(Completed(a, kinds))' =
                  Total(Completed(a, kinds)) + Gain(t, a, kinds) + Gain(u, a, kinds)
<1>1. PICK S, T : S = Completed(a, kinds) /\ T = Completed(a, kinds)'
  OBVIOUS
<1>2. t.amount \in Int /\ u.amount \in Int
  BY DEF TransactionRecord
<1>3. S \subseteq 1 .. n
  BY <1>1, CompletedTerms
<1>4. PICK r \in {t, u}, j \in {n + 1, n + 2} :
          /\ transactions'[j] = r
          /\ T = IF r.wallet = a /\ r.kind \in kinds /\ r.status = "completed" THEN S \cup {j} ELSE S
          /\ Gain(r, a, kinds) = Gain(t, a, kinds) + Gain(u, a, kinds)
  <2>1. T = S \cup {k \in {n + 1, n + 2} : /\ transactions'[k].wallet = a
                                           /\ transactions'[k].kind \in kinds
                                           /\ transactions'[k].status = "completed"}
    BY <1>1 DEF Completed
  <2>2. CASE t.kind \notin kinds
    <3>1. Gain(t, a, kinds) = 0 /\ Gain(u, a, kinds) \in Int
      BY <1>2, <2>2 DEF Gain
    <3>2. T = IF u.wallet = a /\ u.kind \in kinds /\ u.status = "completed" THEN S \cup {n + 2} ELSE S
      BY <2>1, <2>2
    <3> QED
      BY <3>1, <3>2
  <2>3. CASE u.kind \notin kinds
    <3>1. Gain(u, a, kinds) = 0 /\ Gain(t, a, kinds) \in Int
      BY <1>2, <2>3 DEF Gain
    <3>2. T = IF t.wallet = a /\ t.kind \in kinds /\ t.status = "completed" THEN S \cup {n + 1} ELSE S
      BY <2>1, <2>3
    <3> QED
      BY <3>1, <3>2
  <2> QED
    BY <2>2, <2>3
<1>5. j \notin S /\ \A i \in S : transactions'[i].amount = transactions[i].amount
  BY <1>3
<1>6. transactions'[j].amount = r.amount /\ r.amount \in Int /\ (T = S \/ T = S \cup {j})
  BY <1>2, <1>4
<1>7. /\ Total(Completed(a, kinds)) \in Int
      /\ Total(Completed(a, kinds))' =
             IF T = S THEN Total(Completed(a, kinds)) ELSE Total(Completed(a, kinds)) + r.amount
  BY <1>1, <1>5, <1>6, Booked
<1>8. T = S <=> ~(r.wallet = a /\ r.kind \in kinds /\ r.status = "completed")
  BY <1>4, <1>5
<1>9. Total(Completed(a, kinds))' = Total(Completed(a, kinds)) + Gain(r, a, kinds)
  BY <1>6, <1>7, <1>8 DEF Gain
<1>10. Gain(t, a, kinds) \in Int /\ Gain(u, a, kinds) \in Int
  BY <1>2 DEF Gain
<1> QED
  BY <1>4, <1>7, <1>9, <1>10

LEMMA Movements ==
    ASSUME NEW w \in WalletRecord, NEW x \in Int
    PROVE  /\ Reset(w).spent = w.spent /\ Reset(w).earned = w.earned /\ Reset(w).exists = w.exists
           /\ Spent(w, x).spent = w.spent + x /\ Spent(w, x).earned = w.earned
           /\ Spent(w, x).exists = w.exists
           /\ Added(w, x).spent = w.spent /\ Added(w, x).earned = w.earned + x
           /\ Added(w, x).exists = w.exists
BY DEF Reset, Spent, Added, WalletRecord

LEMMA FreshWallet ==
    ASSUME NEW x
    PROVE  /\ NewWallet(x).spent = 0 /\ NewWallet(x).earned = 0
           /\ NewWallet(x).exists = TRUE
BY DEF NewWallet, NoWallet

LEMMA Untouched == NoWallet.spent = 0 /\ NoWallet.earned = 0 /\ NoWallet.balance = 0
BY DEF NoWallet

LEMMA AppendedPointwise ==
    ASSUME WInv, NEW t \in TransactionRecord, Record(t)
    PROVE  \E n \in Nat : /\ n = Len(transactions) /\ n + 1 = Len(transactions')
                          /\ \A i \in 1 .. n : transactions'[i] = transactions[i]
                          /\ transactions'[n + 1] = t
BY AppendProperties, LenProperties DEF WInv, Record

LEMMA TwoAppended ==
    ASSUME WInv, NEW t \in TransactionRecord, NEW u \in TransactionRecord,
           transactions' = transactions \o <<t, u>>
    PROVE  \E n \in Nat : /\ n = Len(transactions) /\ n + 2 = Len(transactions')
                          /\ \A i \in 1 .. n : transactions'[i] = transactions[i]
                          /\ transactions'[n + 1] = t /\ transactions'[n + 2] = u
<1>1. PICK both, n : both = <<t, u>> /\ n = Len(transactions)
  OBVIOUS
<1>2. both \in Seq(TransactionRecord) /\ Len(both) = 2 /\ both[1] = t /\ both[2] = u
  BY <1>1
<1>3. transactions \in Seq(TransactionRecord) /\ n \in Nat
  BY <1>1, LenProperties DEF WInv
<1>4. transactions' = transactions \o both
  BY <1>1
<1>5. /\ Len(transactions') = n + 2
      /\ \A i \in 1 .. n + 2 :
            transactions'[i] = IF i <= n THEN transactions[i] ELSE both[i - n]
  BY <1>1, <1>2, <1>3, <1>4, ConcatProperties
<1>6. PICK j, k : j = n + 1 /\ k = n + 2
  OBVIOUS
<1>7. /\ j \in 1 .. n + 2 /\ ~(j <= n) /\ j - n = 1
      /\ k \in 1 .. n + 2 /\ ~(k <= n) /\ k - n = 2
  BY <1>3, <1>6
<1>8. transactions'[j] = t /\ transactions'[k] = u
  BY <1>2, <1>5, <1>7
<1>9. \A i \in 1 .. n : transactions'[i] = transactions[i]
  BY <1>3, <1>5
<1> QED
  BY <1>1, <1>3, <1>5, <1>6, <1>8, <1>9

\* The wallets stay in the books when no transaction is recorded or changed.
LEMMA Unbooked ==
    ASSUME LInv, WInv', UNCHANGED transactions,
           \A b \in Agents : /\ wallet'[b].spent = wallet[b].spent
                             /\ wallet'[b].earned = wallet[b].earned
                             /\ wallet'[b].exists \/ wallet'[b] = wallet[b]
    PROVE  LInv'
<1>1. ASSUME NEW b \in Agents PROVE Books(wallet[b], b)'
  <2>1. Books(wallet[b], b)
    BY DEF LInv
  <2>2. \A kinds : Total(Completed(b, kinds))' = Total(Completed(b, kinds))
    <3> SUFFICES ASSUME NEW kinds
                 PROVE  Total(Completed(b, kinds))' = Total(Completed(b, kinds))
      OBVIOUS
    <3>1. PICK S, c : /\ S = Completed(b, kinds)
                      /\ c = [i \in 1 .. Len(transactions) |-> transactions[i].amount]
      OBVIOUS
    <3>2. S = Completed(b, kinds)'
      BY <3>1 DEF Completed
    <3>3. \A i \in S : c[i] = transactions[i].amount /\ c[i] = transactions'[i].amount
      BY <3>1 DEF Completed
    <3>4. Total(S) = SumOf(c, S)
      BY <3>3, TotalIs
    <3>5. Total(Completed(b, kinds))' = SumOf(c, S)
      BY <3>2, <3>3, TotalWillBe
    <3> QED
      BY <3>1, <3>4, <3>5
  <2> QED
    BY <2>1, <2>2 DEF Books, Paid, Gained
<1> QED
  BY <1>1 DEF LInv

\* One transaction is recorded, and the wallets move by it.
LEMMA Recording ==
    ASSUME LInv, WInv', NEW t \in TransactionRecord, t.status = "pending_approval" => t.kind \in Paid,
           Record(t),
           \A b \in Agents : /\ wallet'[b].spent = wallet[b].spent + Gain(t, b, Paid)
                             /\ wallet'[b].earned = wallet[b].earned + Gain(t, b, Gained)
                             /\ ~wallet'[b].exists => wallet'[b] = NoWallet
    PROVE  LInv'
<1>1. PICK n \in Nat : /\ n = Len(transactions) /\ n + 1 = Len(transactions')
                       /\ \A i \in 1 .. n : transactions'[i] = transactions[i]
                       /\ transactions'[n + 1] = t
  BY AppendedPointwise DEF LInv
<1>2. ASSUME NEW b \in Agents PROVE Books(wallet[b], b)'
  <2>1. Books(wallet[b], b)
    BY DEF LInv
  <2>2. \A kinds : Total(Completed(b, kinds))' = Total(Completed(b, kinds)) + Gain(t, b, kinds)
    BY <1>1, OneMore DEF LInv
  <2> QED
    BY <2>1, <2>2 DEF Books, Paid, Gained
<1>3. ASSUME NEW i \in 1 .. n + 1, transactions'[i].status = "pending_approval"
      PROVE  transactions'[i].kind \in Paid
  <2>1. CASE i = n + 1
    BY <1>1, <1>3, <2>1
  <2>2. CASE i \in 1 .. n
    BY <1>1, <1>3, <2>2 DEF LInv
  <2> QED
    BY <2>1, <2>2
<1> QED
  BY <1>1, <1>2, <1>3 DEF LInv

LEMMA Replaced ==
    ASSUME WInv, NEW i \in 1 .. Len(transactions), NEW t \in TransactionRecord,
           transactions' = [transactions EXCEPT ![i] = t]
    PROVE  /\ Len(transactions') = Len(transactions) /\ transactions'[i] = t
           /\ \A k \in 1 .. Len(transactions) : k # i => transactions'[k] = transactions[k]
BY ExceptSeq DEF WInv

\* A transaction that waited is settled, and its wallet moves by it.
LEMMA Settling ==
    ASSUME LInv, WInv', NEW i \in 1 .. Len(transactions), transactions[i].status = "pending_approval",
           NEW t \in TransactionRecord, t.wallet = transactions[i].wallet,
           t.kind = transactions[i].kind, t.amount = transactions[i].amount,
           t.status # "pending_approval", transactions' = [transactions EXCEPT ![i] = t],
           \A b \in Agents : /\ wallet'[b].spent = wallet[b].spent + Gain(t, b, Paid)
                             /\ wallet'[b].earned = wallet[b].earned
                             /\ ~wallet'[b].exists => wallet'[b] = NoWallet
    PROVE  LInv'
<1>1. /\ Len(transactions') = Len(transactions) /\ transactions'[i] = t
      /\ \A k \in 1 .. Len(transactions) : k # i => transactions'[k] = transactions[k]
  BY Replaced DEF LInv
<1>2. t.kind \in Paid
  BY DEF LInv
<1>3. ASSUME NEW b \in Agents PROVE Books(wallet[b], b)'
  <2>1. Books(wallet[b], b)
    BY DEF LInv
  <2>2. \A kinds : /\ Total(Completed(b, kinds)) \in Int
                   /\ Total(Completed(b, kinds))' = Total(Completed(b, kinds)) + Gain(t, b, kinds)
    BY <1>1, Settled DEF LInv
  <2>3. Gain(t, b, Gained) = 0
    BY <1>2 DEF Gain, Paid, Gained
  <2> QED
    BY <2>1, <2>2, <2>3 DEF Books, Paid, Gained
<1>4. \A k \in 1 .. Len(transactions') :
         transactions'[k].status = "pending_approval" => transactions'[k].kind \in Paid
  BY <1>1 DEF LInv
<1> QED
  BY <1>1, <1>3, <1>4 DEF LInv

-----------------------------------------------------------------------------
LEMMA CreateBooks ==
    ASSUME LInv, WInv', NEW a \in Agents, NEW x \in Initial, CreateWallet(a, x)
    PROVE  LInv'
<1>1. /\ ~wallet[a].exists /\ wallet' = [wallet EXCEPT ![a] = NewWallet(x)]
      /\ UNCHANGED transactions
  BY DEF CreateWallet
<1>2. \A b \in Agents : /\ wallet'[b].spent = wallet[b].spent
                        /\ wallet'[b].earned = wallet[b].earned
                        /\ wallet'[b].exists \/ wallet'[b] = wallet[b]
  <2>1. wallet[a].spent = 0 /\ wallet[a].earned = 0
    BY <1>1, Untouched DEF LInv
  <2>2. PICK w : w = NewWallet(x)
    OBVIOUS
  <2>3. w.spent = 0 /\ w.earned = 0 /\ w.exists
    BY <2>2, FreshWallet
  <2> SUFFICES ASSUME NEW b \in Agents
               PROVE  /\ wallet'[b].spent = wallet[b].spent
                      /\ wallet'[b].earned = wallet[b].earned
                      /\ wallet'[b].exists \/ wallet'[b] = wallet[b]
    OBVIOUS
  <2>4. CASE b = a
    BY <1>1, <2>1, <2>2, <2>3, <2>4 DEF LInv, WInv
  <2>5. CASE b # a
    BY <1>1, <2>5 DEF LInv, WInv
  <2> QED
    BY <2>4, <2>5
<1> QED
  BY <1>1, <1>2, Unbooked

LEMMA CreditBooks ==
    ASSUME LInv, WInv', NEW a \in Agents, NEW x \in Credits, Credit(a, x)
    PROVE  LInv'
<1>1. PICK t \in TransactionRecord : t = Transaction(a, "credit", x, a, "completed")
  BY CreditType DEF LInv
<1>2. t.wallet = a /\ t.kind = "credit" /\ t.status = "completed" /\ t.amount = x /\ x \in Int
  BY <1>1, CreditType DEF Transaction, LInv
<1>3. PICK w : w = IF wallet[a].exists THEN wallet[a] ELSE NewWallet(0)
  OBVIOUS
<1>4. /\ w \in WalletRecord /\ w.exists
      /\ w.spent = wallet[a].spent /\ w.earned = wallet[a].earned
  <2>1. CASE wallet[a].exists
    BY <1>3, <2>1 DEF LInv, WInv
  <2>2. CASE ~wallet[a].exists
    <3>1. w = NewWallet(0)
      BY <1>3, <2>2
    <3>2. Fits(NewWallet(0))
      BY NewFits, FitNow DEF LInv
    <3> QED
      BY <2>2, <3>1, <3>2, FreshWallet, Untouched DEF LInv, Fits
  <2> QED
    BY <2>1, <2>2
<1>5. wallet' = [wallet EXCEPT ![a] = Added(w, x)] /\ Record(t)
  BY <1>1, <1>3 DEF Credit
<1>6. \A b \in Agents : wallet[b].spent \in Nat /\ wallet[b].earned \in Int
  BY DEF LInv, WInv, WalletRecord
<1>7. /\ Added(w, x).spent = wallet[a].spent /\ Added(w, x).earned = wallet[a].earned + x
      /\ Added(w, x).exists
  BY <1>2, <1>4, Movements
<1>8. ASSUME NEW b \in Agents
      PROVE  /\ wallet'[b].spent = wallet[b].spent + Gain(t, b, Paid)
             /\ wallet'[b].earned = wallet[b].earned + Gain(t, b, Gained)
             /\ ~wallet'[b].exists => wallet'[b] = NoWallet
  <2>1. Gain(t, b, Paid) = 0 /\ Gain(t, b, Gained) = IF b = a THEN x ELSE 0
    BY <1>2 DEF Gain, Paid, Gained
  <2>2. CASE b = a
    BY <1>5, <1>6, <1>7, <2>1, <2>2 DEF LInv, WInv
  <2>3. CASE b # a
    BY <1>5, <1>6, <2>1, <2>3 DEF LInv, WInv
  <2> QED
    BY <2>2, <2>3
<1> QED
  BY <1>2, <1>5, <1>8, Recording

LEMMA ResetBooks ==
    ASSUME LInv, WInv', NEW a \in Agents, wallet[a].exists,
           wallet' = [wallet EXCEPT ![a] = Reset(@)],
           UNCHANGED transactions
    PROVE  LInv'
<1>1. wallet[a] \in WalletRecord /\ 0 \in Int
  BY DEF LInv, WInv
<1>2. /\ Reset(wallet[a]).spent = wallet[a].spent /\ Reset(wallet[a]).earned = wallet[a].earned
      /\ Reset(wallet[a]).exists = wallet[a].exists
  BY <1>1, Movements
<1>3. \A b \in Agents : /\ wallet'[b].spent = wallet[b].spent
                        /\ wallet'[b].earned = wallet[b].earned
                        /\ wallet'[b].exists \/ wallet'[b] = wallet[b]
  <2> SUFFICES ASSUME NEW b \in Agents
               PROVE  /\ wallet'[b].spent = wallet[b].spent
                      /\ wallet'[b].earned = wallet[b].earned
                      /\ wallet'[b].exists \/ wallet'[b] = wallet[b]
    OBVIOUS
  <2>1. CASE b = a
    BY <1>2, <2>1 DEF LInv, WInv
  <2>2. CASE b # a
    BY <2>2 DEF LInv, WInv
  <2> QED
    BY <2>1, <2>2
<1> QED
  BY <1>3, Unbooked

\* A spend waits for its approval, is refused, or goes through.
LEMMA PendingBooks ==
    ASSUME LInv, WInv', NEW a \in Agents, NEW b \in Agents, NEW x \in Amounts,
           NEW kind \in Paid, SpendPending(a, x, kind, b) \/ SpendRefused(a, x)
    PROVE  LInv'
<1>1. wallet[a].exists /\ wallet' = [wallet EXCEPT ![a] = Reset(@)]
  BY DEF SpendPending, SpendRefused, Usable
<1>2. CASE SpendRefused(a, x)
  BY <1>1, <1>2, ResetBooks DEF SpendRefused
<1>3. CASE SpendPending(a, x, kind, b)
  <2>1. PICK t \in TransactionRecord : t = Transaction(a, kind, x, b, "pending_approval")
    BY TransactionType DEF LInv, Paid
  <2>2. t.kind \in Paid /\ t.status = "pending_approval" /\ Record(t)
    BY <1>3, <2>1 DEF Transaction, SpendPending
  <2>3. wallet[a] \in WalletRecord /\ 0 \in Nat
    BY DEF LInv, WInv
  <2>4. /\ Reset(wallet[a]).spent = wallet[a].spent /\ Reset(wallet[a]).earned = wallet[a].earned
        /\ Reset(wallet[a]).exists = wallet[a].exists
    BY <2>3, Movements
  <2>5. \A c \in Agents : wallet[c].spent \in Nat /\ wallet[c].earned \in Int
    BY DEF LInv, WInv, WalletRecord
  <2>6. \A c : Gain(t, c, Paid) = 0 /\ Gain(t, c, Gained) = 0
    BY <2>2 DEF Gain
  <2>7. ASSUME NEW c \in Agents
        PROVE  /\ wallet'[c].spent = wallet[c].spent + Gain(t, c, Paid)
               /\ wallet'[c].earned = wallet[c].earned + Gain(t, c, Gained)
               /\ ~wallet'[c].exists => wallet'[c] = NoWallet
    <3>1. CASE c = a
      <4>1. wallet'[a] = Reset(wallet[a])
        BY <1>1 DEF LInv, WInv
      <4>2. wallet'[a].exists /\ wallet'[a].spent = wallet[a].spent
        BY <1>1, <2>4, <4>1
      <4>3. wallet'[a].earned = wallet[a].earned
        BY <2>4, <4>1
      <4> QED
        BY <2>5, <2>6, <3>1, <4>2, <4>3
    <3>2. CASE c # a
      <4>1. wallet'[c] = wallet[c]
        BY <1>1, <3>2 DEF LInv, WInv
      <4> QED
        BY <2>5, <2>6, <4>1 DEF LInv
    <3> QED
      BY <3>1, <3>2
  <2> QED
    BY <2>2, <2>7, Recording
<1> QED
  BY <1>2, <1>3

LEMMA SpendBooks ==
    ASSUME LInv, WInv', NEW a \in Agents, NEW b \in Agents, NEW x \in Amounts,
           Spend(a, x, Kind(a, b), b)
    PROVE  LInv'
<1>1. PICK kind \in Paid : kind = Kind(a, b)
  BY DEF Kind, Paid
<1>2. CASE SpendPending(a, x, kind, b) \/ SpendRefused(a, x)
  BY <1>2, PendingBooks
<1>3. CASE /\ SpendNow(a, x)
           /\ wallet' = [wallet EXCEPT ![a] = Spent(Reset(@), x)]
           /\ Record(Transaction(a, kind, x, b, "completed"))
  <2>1. PICK t \in TransactionRecord : t = Transaction(a, kind, x, b, "completed")
    BY TransactionType DEF LInv, Paid
  <2>2. /\ t.wallet = a /\ t.kind = kind /\ t.status = "completed" /\ t.amount = x
        /\ x \in Nat /\ Record(t)
    BY <1>3, <2>1, AmountType DEF Transaction
  <2>3. PICK w : w = Spent(Reset(wallet[a]), x)
    OBVIOUS
  <2>4. w.spent = wallet[a].spent + x /\ w.earned = wallet[a].earned /\ w.exists
    <3>1. wallet[a].exists /\ today \in 0 .. MaxDay /\ Fits(wallet[a])
      BY <1>3, FitNow DEF SpendNow, Usable, LInv
    <3>2. Reset(wallet[a]) \in WalletRecord /\ wallet[a] \in WalletRecord
      BY <3>1, ResetFits DEF Fits
    <3> QED
      BY <2>2, <2>3, <3>1, <3>2, Movements
  <2>5. \A c \in Agents : wallet[c].spent \in Nat /\ wallet[c].earned \in Int
    BY DEF LInv, WInv, WalletRecord
  <2>6. ASSUME NEW c \in Agents
        PROVE  /\ wallet'[c].spent = wallet[c].spent + Gain(t, c, Paid)
               /\ wallet'[c].earned = wallet[c].earned + Gain(t, c, Gained)
               /\ ~wallet'[c].exists => wallet'[c] = NoWallet
    <3>1. Gain(t, c, Gained) = 0 /\ Gain(t, c, Paid) = IF c = a THEN x ELSE 0
      BY <2>2 DEF Gain, Paid, Gained
    <3>2. CASE c = a
      BY <1>3, <2>3, <2>4, <2>5, <3>1, <3>2 DEF LInv, WInv
    <3>3. CASE c # a
      BY <1>3, <2>5, <3>1, <3>3 DEF LInv, WInv
    <3> QED
      BY <3>2, <3>3
  <2> QED
    BY <2>2, <2>6, Recording
<1> QED
  BY <1>1, <1>2, <1>3 DEF Spend

\* A transfer that goes through records a payment and an income.
LEMMA TransferBooks ==
    ASSUME LInv, WInv', NEW a \in Agents, NEW b \in Agents, NEW x \in Amounts, Transfer(a, b, x)
    PROVE  LInv'
<1>1. CASE SpendPending(a, x, "transfer_out", b) \/ SpendRefused(a, x)
  BY <1>1, PendingBooks DEF Paid
<1>2. CASE /\ SpendNow(a, x)
           /\ wallet' = [[wallet EXCEPT ![a] = Spent(Reset(@), x)] EXCEPT ![b] = Added(@, x)]
           /\ transactions' = transactions \o << Transaction(a, "transfer_out", x, b, "completed"),
                                                Transaction(b, "transfer_in", x, a, "completed") >>
  <2>1. PICK t \in TransactionRecord, u \in TransactionRecord :
            /\ t = Transaction(a, "transfer_out", x, b, "completed")
            /\ u = Transaction(b, "transfer_in", x, a, "completed")
    BY TransactionType DEF LInv
  <2>2. /\ t.wallet = a /\ t.kind = "transfer_out" /\ t.status = "completed" /\ t.amount = x
        /\ u.wallet = b /\ u.kind = "transfer_in" /\ u.status = "completed" /\ u.amount = x
        /\ x \in Nat
    BY <2>1, AmountType DEF Transaction
  <2>3. PICK n \in Nat : /\ n = Len(transactions) /\ n + 2 = Len(transactions')
                         /\ \A i \in 1 .. n : transactions'[i] = transactions[i]
                         /\ transactions'[n + 1] = t /\ transactions'[n + 2] = u
    <3>1. transactions' = transactions \o <<t, u>>
      BY <1>2, <2>1
    <3> QED
      BY <3>1, TwoAppended DEF LInv
  <2>4. PICK w : w = Spent(Reset(wallet[a]), x)
    OBVIOUS
  <2>5. /\ w \in WalletRecord
        /\ w.spent = wallet[a].spent + x /\ w.earned = wallet[a].earned /\ w.exists
    <3>1. wallet[a].exists /\ today \in 0 .. MaxDay /\ Fits(wallet[a])
      BY <1>2, FitNow DEF SpendNow, Usable, LInv
    <3>2. Reset(wallet[a]) \in WalletRecord /\ wallet[a] \in WalletRecord
      BY <3>1, ResetFits DEF Fits
    <3>3. Fits(w)
      BY <1>2, <2>4, PaidFits DEF LInv
    <3> QED
      BY <2>2, <2>4, <3>1, <3>2, <3>3, Movements DEF Fits
  <2>6. PICK paid : paid = [wallet EXCEPT ![a] = w]
    OBVIOUS
  <2>7. ASSUME NEW c \in Agents
        PROVE  /\ paid[c] \in WalletRecord
               /\ paid[c].spent = wallet[c].spent + Gain(t, c, Paid)
               /\ paid[c].earned = wallet[c].earned
               /\ ~paid[c].exists => paid[c] = NoWallet
    <3>1. Gain(t, c, Paid) = IF c = a THEN x ELSE 0
      BY <2>2 DEF Gain, Paid
    <3>2. wallet[c] \in WalletRecord /\ wallet[c].spent \in Nat
      BY DEF LInv, WInv, WalletRecord
    <3>3. CASE c = a
      BY <2>5, <2>6, <3>1, <3>2, <3>3 DEF LInv, WInv
    <3>4. CASE c # a
      BY <2>6, <3>1, <3>2, <3>4 DEF LInv, WInv
    <3> QED
      BY <3>3, <3>4
  <2>8. wallet' = [paid EXCEPT ![b] = Added(paid[b], x)] /\ DOMAIN paid = Agents
    BY <1>2, <2>4, <2>6 DEF LInv, WInv
  <2>9. paid[b].exists
    BY <1>2, <2>5, <2>6 DEF LInv, WInv, Transfer
  <2>10. ASSUME NEW c \in Agents
         PROVE  /\ wallet'[c].spent = wallet[c].spent + Gain(t, c, Paid)
                /\ wallet'[c].earned = wallet[c].earned + Gain(u, c, Gained)
                /\ ~wallet'[c].exists => wallet'[c] = NoWallet
    <3>1. Gain(u, c, Gained) = IF c = b THEN x ELSE 0
      BY <2>2 DEF Gain, Gained
    <3>2. wallet[c].earned \in Int
      BY DEF LInv, WInv, WalletRecord
    <3>3. CASE c = b
      <4>1. /\ Added(paid[b], x).spent = paid[b].spent /\ Added(paid[b], x).earned = paid[b].earned + x
            /\ Added(paid[b], x).exists = paid[b].exists
        BY <2>2, <2>7, Movements
      <4> QED
        BY <2>7, <2>8, <2>9, <3>1, <3>3, <4>1
    <3>4. CASE c # b
      BY <2>7, <2>8, <3>1, <3>2, <3>4
    <3> QED
      BY <3>3, <3>4
  <2>11. ASSUME NEW c \in Agents PROVE Books(wallet[c], c)'
    <3>1. Books(wallet[c], c)
      BY DEF LInv
    <3>2. /\ t.kind \notin Gained /\ u.kind \notin Paid /\ x \in Nat
          /\ Gain(t, c, Gained) = 0 /\ Gain(u, c, Paid) = 0
          /\ Gain(t, c, Paid) \in Int /\ Gain(u, c, Gained) \in Int
      BY <2>2 DEF Gain, Paid, Gained
    <3>3. PICK K, G : K = Paid /\ G = Gained
      OBVIOUS
    <3>4. /\ Total(Completed(c, K)) \in Int
          /\ Total(Completed(c, K))' = Total(Completed(c, K)) + Gain(t, c, K) + Gain(u, c, K)
      BY <2>3, <3>2, <3>3, TwoMore DEF LInv
    <3>5. /\ Total(Completed(c, G)) \in Int
          /\ Total(Completed(c, G))' = Total(Completed(c, G)) + Gain(t, c, G) + Gain(u, c, G)
      BY <2>3, <3>2, <3>3, TwoMore DEF LInv
    <3>6. /\ wallet'[c].spent = Total(Completed(c, K)) + Gain(t, c, K)
          /\ wallet'[c].earned = Total(Completed(c, G)) + Gain(u, c, G)
      BY <2>10, <3>1, <3>3 DEF Books
    <3>7. wallet'[c].spent = Total(Completed(c, K))' /\ wallet'[c].earned = Total(Completed(c, G))'
      BY <3>2, <3>3, <3>4, <3>5, <3>6
    <3> QED
      BY <3>3, <3>7 DEF Books, Paid, Gained
  <2>12. \A i \in 1 .. n + 2 :
            transactions'[i].status = "pending_approval" => transactions'[i].kind \in Paid
    <3> SUFFICES ASSUME NEW i \in 1 .. n + 2, transactions'[i].status = "pending_approval"
                 PROVE  transactions'[i].kind \in Paid
      OBVIOUS
    <3>1. CASE i \in 1 .. n
      BY <2>3, <3>1 DEF LInv
    <3>2. CASE i = n + 1 \/ i = n + 2
      BY <2>2, <2>3, <3>2
    <3> QED
      BY <3>1, <3>2
  <2> QED
    BY <2>3, <2>10, <2>11, <2>12 DEF LInv
<1> QED
  BY <1>1, <1>2 DEF Transfer

LEMMA ApproveBooks ==
    ASSUME LInv, WInv', NEW i \in 1 .. Len(transactions), Approve(i)
    PROVE  LInv'
<1>1. PICK t : t = transactions[i]
  OBVIOUS
<1>2. /\ t \in TransactionRecord /\ t.status = "pending_approval"
      /\ t.wallet \in Agents /\ t.amount \in Nat
  <2>1. t \in TransactionRecord
    BY <1>1, ElementOfSeq DEF LInv, WInv
  <2> QED
    BY <1>1, <2>1 DEF Approve, TransactionRecord
<1>3. \A c \in Agents : wallet[c] \in WalletRecord /\ wallet[c].spent \in Nat
  BY DEF LInv, WInv, WalletRecord
<1>4. CASE transactions' = [transactions EXCEPT ![i].status = "failed"] /\ UNCHANGED wallet
  <2>1. PICK u : u = [t EXCEPT !.status = "failed"]
    OBVIOUS
  <2>2. /\ u \in TransactionRecord /\ u.status = "failed"
        /\ u.wallet = t.wallet /\ u.kind = t.kind /\ u.amount = t.amount
    BY <1>2, <2>1 DEF TransactionRecord
  <2>3. transactions' = [transactions EXCEPT ![i] = u]
    BY <1>1, <1>4, <2>1
  <2>4. \A c : Gain(u, c, Paid) = 0
    BY <2>2 DEF Gain
  <2>5. \A c \in Agents : /\ wallet'[c].spent = wallet[c].spent + Gain(u, c, Paid)
                          /\ wallet'[c].earned = wallet[c].earned
                          /\ ~wallet'[c].exists => wallet'[c] = NoWallet
    BY <1>3, <1>4, <2>4 DEF LInv
  <2> QED
    BY <1>1, <1>2, <2>2, <2>3, <2>5, Settling
<1>5. CASE /\ wallet[t.wallet].balance >= t.amount
           /\ transactions' = [transactions EXCEPT ![i].status = "completed", ![i].approved = TRUE]
           /\ wallet' = [wallet EXCEPT ![t.wallet] = Spent(@, t.amount)]
  <2>1. PICK u : u = [t EXCEPT !.status = "completed", !.approved = TRUE]
    OBVIOUS
  <2>2. /\ u \in TransactionRecord /\ u.status = "completed"
        /\ u.wallet = t.wallet /\ u.kind = t.kind /\ u.amount = t.amount
    BY <1>2, <2>1 DEF TransactionRecord
  <2>3. transactions' = [transactions EXCEPT ![i] = u]
    BY <1>1, <1>5, <2>1
  <2>4. u.kind \in Paid
    BY <1>1, <1>2, <2>2 DEF LInv
  <2>5. \A c : Gain(u, c, Paid) = IF c = t.wallet THEN t.amount ELSE 0
    BY <2>2, <2>4 DEF Gain
  <2>6. PICK w : w = Spent(wallet[t.wallet], t.amount)
    OBVIOUS
  <2>7. /\ w.spent = wallet[t.wallet].spent + t.amount /\ w.earned = wallet[t.wallet].earned
        /\ w.exists = wallet[t.wallet].exists
    <3>1. t.amount \in Int /\ wallet[t.wallet] \in WalletRecord
      BY <1>2, <1>3 DEF TransactionRecord
    <3> QED
      BY <2>6, <3>1, Movements
  <2>8. wallet[t.wallet].exists
    <3>1. t.amount > 0
      BY <1>2 DEF TransactionRecord
    <3> QED
      BY <1>2, <1>5, <3>1, Untouched DEF LInv
  <2>9. ASSUME NEW c \in Agents
        PROVE  /\ wallet'[c].spent = wallet[c].spent + Gain(u, c, Paid)
               /\ wallet'[c].earned = wallet[c].earned
               /\ ~wallet'[c].exists => wallet'[c] = NoWallet
    <3>1. CASE c = t.wallet
      BY <1>2, <1>5, <2>5, <2>6, <2>7, <2>8, <3>1 DEF LInv, WInv
    <3>2. CASE c # t.wallet
      BY <1>3, <1>5, <2>5, <3>2 DEF LInv, WInv
    <3> QED
      BY <3>1, <3>2
  <2> QED
    BY <1>1, <1>2, <2>2, <2>3, <2>9, Settling
<1> QED
  BY <1>1, <1>4, <1>5 DEF Approve

LEMMA RejectBooks ==
    ASSUME LInv, WInv', NEW i \in 1 .. Len(transactions), Reject(i)
    PROVE  LInv'
<1>1. PICK t, u : t = transactions[i] /\ u = [t EXCEPT !.status = "rejected"]
  OBVIOUS
<1>2. t \in TransactionRecord /\ t.status = "pending_approval"
  BY <1>1, ElementOfSeq DEF LInv, WInv, Reject
<1>3. /\ u \in TransactionRecord /\ u.status = "rejected"
      /\ u.wallet = t.wallet /\ u.kind = t.kind /\ u.amount = t.amount
  BY <1>1, <1>2 DEF TransactionRecord
<1>4. transactions' = [transactions EXCEPT ![i] = u] /\ UNCHANGED wallet
  BY <1>1 DEF Reject
<1>5. \A c : Gain(u, c, Paid) = 0
  BY <1>3 DEF Gain
<1>6. \A c \in Agents : wallet[c].spent \in Nat
  BY DEF LInv, WInv, WalletRecord
<1>7. \A c \in Agents : /\ wallet'[c].spent = wallet[c].spent + Gain(u, c, Paid)
                        /\ wallet'[c].earned = wallet[c].earned
                        /\ ~wallet'[c].exists => wallet'[c] = NoWallet
  BY <1>4, <1>5, <1>6 DEF LInv
<1>8. transactions[i].status = "pending_approval" /\ u.status # "pending_approval"
  BY <1>1, <1>2, <1>3
<1>9. /\ u.wallet = transactions[i].wallet /\ u.kind = transactions[i].kind
      /\ u.amount = transactions[i].amount
  BY <1>1, <1>3
<1> QED
  BY <1>3, <1>4, <1>7, <1>8, <1>9, Settling

LEMMA FreezeBooks ==
    ASSUME LInv, WInv', NEW a \in Agents, NEW b \in BOOLEAN, Freeze(a, b)
    PROVE  LInv'
<1>1. wallet[a].exists /\ wallet' = [wallet EXCEPT ![a] = [wallet[a] EXCEPT !.frozen = b]]
  BY DEF Freeze
<1>2. wallet[a] \in WalletRecord
  BY DEF LInv, WInv
<1>3. ASSUME NEW c \in Agents
      PROVE  /\ wallet'[c].spent = wallet[c].spent /\ wallet'[c].earned = wallet[c].earned
             /\ wallet'[c].exists \/ wallet'[c] = wallet[c]
  <2>1. CASE c = a
    <3>1. wallet'[a] = [wallet[a] EXCEPT !.frozen = b]
      BY <1>1 DEF LInv, WInv
    <3> QED
      BY <1>1, <1>2, <2>1, <3>1 DEF WalletRecord
  <2>2. CASE c # a
    BY <1>1, <2>2 DEF LInv, WInv
  <2> QED
    BY <2>1, <2>2
<1> QED
  BY <1>3, Unbooked DEF Freeze

LEMMA LInvInit == ModeInit /\ WalletInit => LInv
<1> SUFFICES ASSUME ModeInit, WalletInit PROVE LInv
  OBVIOUS
<1>1. WInv /\ Len(transactions) = 0
  BY WInvInit DEF WalletInit
<1>2. ASSUME NEW a, NEW kinds PROVE Total(Completed(a, kinds)) = 0
  <2>1. Completed(a, kinds) = {}
    BY <1>1 DEF Completed
  <2>2. PICK c : c = [i \in {} |-> 0]
    OBVIOUS
  <2> QED
    BY <2>1, TotalIs, SumEmpty
<1>3. \A a \in Agents : Books(wallet[a], a)
  BY <1>2 DEF Books, WalletInit, NoWallet
<1> QED
  BY <1>1, <1>3 DEF LInv, WalletInit

LEMMA LInvStep == LInv /\ [WalletsNext]_<<ModeVars, WalletVars>> => LInv'
<1> SUFFICES ASSUME LInv, [WalletsNext]_<<ModeVars, WalletVars>> PROVE LInv'
  OBVIOUS
<1>1. WInv'
  BY WInvStep DEF LInv
<1>2. CASE UNCHANGED WalletVars
  BY <1>1, <1>2, Unbooked DEF WalletVars
<1>3. CASE WalletNext
  <2>1. CASE \E a \in Agents, x \in Initial : CreateWallet(a, x)
    BY <1>1, <2>1, CreateBooks
  <2>2. CASE \E a \in Agents, x \in Credits : Credit(a, x)
    BY <1>1, <2>2, CreditBooks
  <2>3. CASE \E a \in Agents, x \in Amounts, b \in Agents :
               Spend(a, x, Kind(a, b), b) \/ Transfer(a, b, x)
    BY <1>1, <2>3, SpendBooks, TransferBooks
  <2>4. CASE \E a \in Agents, b \in BOOLEAN : Freeze(a, b)
    BY <1>1, <2>4, FreezeBooks
  <2>5. CASE \E a \in Agents : ReadBudget(a)
    BY <1>1, <2>5, ResetBooks DEF ReadBudget
  <2>6. CASE \E i \in 1 .. Len(transactions) : Approve(i) \/ Reject(i)
    BY <1>1, <2>6, ApproveBooks, RejectBooks
  <2> QED
    BY <1>3, <2>1, <2>2, <2>3, <2>4, <2>5, <2>6 DEF WalletNext
<1> QED
  BY <1>2, <1>3 DEF WalletsNext, WalletVars

\* What a wallet says it has spent and earned is what its completed transactions
\* add up to: a spend that waited is counted once, when it is approved, one that
\* was rejected or failed is never counted, and a transfer is a payment and an
\* income even when it is to the same wallet (wallet.py:411, 567).
THEOREM BooksAlwaysBalance == WalletSpec => []LedgerBalanced
<1>1. LInv => LedgerBalanced
  BY DEF LInv, LedgerBalanced, Books, Paid, Gained, Payments
<1> QED
  BY LInvInit, LInvStep, <1>1, PTL DEF WalletSpec

-----------------------------------------------------------------------------
(* The execution gate: what an agent was allowed in a day is what the gate   *)
(* counts for it, as long as the counters are those of that day.             *)

Decisions == {"over_budget", "blocked", "pending_approval", "allowed"}
ExecutionRecord == [agent : Agents, cost : Int, decision : Decisions, day : 0 .. MaxDay]

GTypes ==
    /\ today \in 0 .. MaxDay
    /\ dailySpend \in [Agents -> Int] /\ dailyExecutions \in [Agents -> Nat]
    /\ lastDailyReset \in [Agents -> {-1} \cup (0 .. MaxDay)]
    /\ history \in Seq(ExecutionRecord)

Of(a, day) == {i \in 1 .. Len(history) : history[i].agent = a /\ history[i].day = day}
AllowedIn(a, day) == {i \in Of(a, day) : history[i].decision = "allowed"}
AllowedCost(a, day) == CostOf(AllowedIn(a, day))

\* Nothing is recorded for a day after the last reset, which is never ahead.
NothingAhead ==
    /\ \A a \in Agents : lastDailyReset[a] <= today
    /\ \A i \in 1 .. Len(history) : history[i].day <= lastDailyReset[history[i].agent]

CountsTheDay ==
    \A a \in Agents :
        lastDailyReset[a] # -1 => dailySpend[a] = AllowedCost(a, lastDailyReset[a])

GInv == GTypes /\ NothingAhead /\ CountsTheDay /\ JudgedByTheDay

LEMMA AllowedFinite == GTypes => \A a, day : IsFiniteSet(AllowedIn(a, day))
<1> SUFFICES ASSUME GTypes, NEW a, NEW day PROVE IsFiniteSet(AllowedIn(a, day))
  OBVIOUS
<1>1. Len(history) \in Nat
  BY LenProperties DEF GTypes
<1>2. IsFiniteSet(1 .. Len(history))
  BY <1>1, FS_Interval
<1> QED
  BY <1>2, FS_Subset DEF AllowedIn, Of

LEMMA AllowedIs ==
    ASSUME NEW a, NEW day, NEW c, \A i \in AllowedIn(a, day) : c[i] = history[i].cost
    PROVE  AllowedCost(a, day) = SumOf(c, AllowedIn(a, day))
<1> DEFINE S == AllowedIn(a, day)
           F(f) == [s \in SUBSET S |-> IF s = {} THEN 0
                        ELSE history[CHOOSE x \in s : TRUE].cost + f[s \ {CHOOSE x \in s : TRUE}]]
<1>1. AllowedCost(a, day) = (CHOOSE f : f = F(f))[S]
  BY DEF AllowedCost, CostOf, AllowedIn, MapThenSumSet, MapThenFoldSet
<1>2. \A s \in SUBSET S : s # {} => history[CHOOSE x \in s : TRUE].cost = c[Picked(s)]
  BY PickedIn DEF Picked
<1>3. \A f : f = F(f) <=> Summing(c, S, f)
  BY <1>2 DEF Summing, Picked
<1> QED
  BY <1>1, <1>3 DEF SumOf

\* The same of the next state.
LEMMA AllowedWillBe ==
    ASSUME NEW a, NEW day, NEW c, NEW S, S = AllowedIn(a, day)',
           \A i \in S : c[i] = history'[i].cost
    PROVE  AllowedCost(a, day)' = SumOf(c, S)
<1> DEFINE F(f) == [s \in SUBSET S |-> IF s = {} THEN 0
                        ELSE history'[CHOOSE x \in s : TRUE].cost + f[s \ {CHOOSE x \in s : TRUE}]]
<1>1. AllowedCost(a, day)' = (CHOOSE f : f = F(f))[S]
  BY DEF AllowedCost, CostOf, AllowedIn, MapThenSumSet, MapThenFoldSet
<1>2. \A s \in SUBSET S : s # {} => history'[CHOOSE x \in s : TRUE].cost = c[Picked(s)]
  BY PickedIn DEF Picked
<1>3. \A f : f = F(f) <=> Summing(c, S, f)
  BY <1>2 DEF Summing, Picked
<1> QED
  BY <1>1, <1>3 DEF SumOf

LEMMA AllowedStays ==
    ASSUME UNCHANGED history, NEW a, NEW day
    PROVE  AllowedCost(a, day)' = AllowedCost(a, day)
<1>1. PICK c : c = [i \in 1 .. Len(history) |-> history[i].cost]
  OBVIOUS
<1>2. PICK S : S = AllowedIn(a, day)
  OBVIOUS
<1>3. S = AllowedIn(a, day)'
  BY <1>2 DEF AllowedIn, Of
<1>4. \A i \in S : c[i] = history[i].cost /\ c[i] = history'[i].cost
  BY <1>1, <1>2 DEF AllowedIn, Of
<1>5. AllowedCost(a, day) = SumOf(c, S)
  BY <1>2, <1>4, AllowedIs
<1>6. AllowedCost(a, day)' = SumOf(c, S)
  BY <1>3, <1>4, AllowedWillBe
<1> QED
  BY <1>5, <1>6

LEMMA AllowedTerms ==
    ASSUME GTypes, NEW a, NEW day
    PROVE  \A i \in AllowedIn(a, day) : i \in 1 .. Len(history) /\ history[i].cost \in Int
<1>1. \A i \in 1 .. Len(history) : history[i] \in ExecutionRecord
  BY ElementOfSeq DEF GTypes
<1> QED
  BY <1>1 DEF AllowedIn, Of, ExecutionRecord

LEMMA AllowedCostType ==
    ASSUME GTypes, NEW a, NEW day
    PROVE  AllowedCost(a, day) \in Int
<1>1. PICK c : c = [i \in 1 .. Len(history) |-> history[i].cost]
  OBVIOUS
<1>2. PICK S : S = AllowedIn(a, day)
  OBVIOUS
<1>3. \A i \in S : c[i] = history[i].cost /\ c[i] \in Int
  BY <1>1, <1>2, AllowedTerms
<1>4. IsFiniteSet(S)
  BY <1>2, AllowedFinite
<1>5. SumOf(c, S) \in Int
  BY <1>3, <1>4, SumType
<1> QED
  BY <1>2, <1>3, <1>5, AllowedIs

LEMMA Appending ==
    ASSUME NEW e \in ExecutionRecord, history \in Seq(ExecutionRecord), history' = Append(history, e)
    PROVE  /\ Len(history) \in Nat /\ Len(history') = Len(history) + 1
           /\ \A i \in 1 .. Len(history) : history'[i] = history[i]
           /\ history'[Len(history) + 1] = e
           /\ history' \in Seq(ExecutionRecord)
BY AppendProperties, LenProperties

\* What was recorded before the last entry stays what it was.
LEMMA CostGrows ==
    ASSUME GTypes, NEW a, NEW day, NEW e \in ExecutionRecord,
           NEW n \in Nat, n = Len(history), n + 1 = Len(history'),
           \A i \in 1 .. n : history'[i] = history[i], history'[n + 1] = e
    PROVE  AllowedCost(a, day)' =
               IF e.agent = a /\ e.day = day /\ e.decision = "allowed"
               THEN e.cost + AllowedCost(a, day) ELSE AllowedCost(a, day)
<1>3. PICK c : c = [i \in 1 .. n + 1 |-> history'[i].cost]
  OBVIOUS
<1>4. PICK S, T : S = AllowedIn(a, day) /\ T = AllowedIn(a, day)'
  OBVIOUS
<1>5. S \subseteq 1 .. n /\ n + 1 \notin S /\ IsFiniteSet(S)
  BY <1>4, AllowedTerms, AllowedFinite
<1>6. T = IF e.agent = a /\ e.day = day /\ e.decision = "allowed" THEN S \cup {n + 1} ELSE S
  BY <1>4 DEF AllowedIn, Of
<1>7. e.cost \in Int
  BY DEF ExecutionRecord
<1>8. (\A i \in S : c[i] = history[i].cost /\ c[i] \in Int) /\ c[n + 1] = e.cost
  BY <1>3, <1>4, <1>5, AllowedTerms
<1>9. \A i \in T : c[i] = history'[i].cost
  <2>1. T \subseteq 1 .. n + 1
    BY <1>5, <1>6
  <2> QED
    BY <1>3, <2>1
<1>10. AllowedCost(a, day) = SumOf(c, S)
  BY <1>4, <1>8, AllowedIs
<1>11. AllowedCost(a, day)' = SumOf(c, T)
  <2>1. T = AllowedIn(a, day)'
    BY <1>4
  <2>2. AllowedCost(a, day)' = SumOf(c, T)
    BY <1>9, <2>1, AllowedWillBe
  <2> QED
    BY <2>2
<1>12. SumOf(c, S \cup {n + 1}) = c[n + 1] + SumOf(c, S)
  <2>1. PICK x : x = n + 1
    OBVIOUS
  <2>2. x \notin S /\ \A y \in S \cup {x} : c[y] \in Int
    BY <1>5, <1>7, <1>8, <2>1
  <2>3. SumOf(c, S \cup {x}) = c[x] + SumOf(c, S)
    BY <1>5, <2>2, SumAdd
  <2> QED
    BY <2>1, <2>3
<1> QED
  BY <1>6, <1>8, <1>10, <1>11, <1>12

LEMMA BeforeIs ==
    ASSUME NEW i, NEW c, \A j \in AllowedBefore(i) : c[j] = history[j].cost
    PROVE  CostOf(AllowedBefore(i)) = SumOf(c, AllowedBefore(i))
<1> DEFINE S == AllowedBefore(i)
           F(f) == [s \in SUBSET S |-> IF s = {} THEN 0
                        ELSE history[CHOOSE x \in s : TRUE].cost + f[s \ {CHOOSE x \in s : TRUE}]]
<1>1. CostOf(S) = (CHOOSE f : f = F(f))[S]
  BY DEF CostOf, MapThenSumSet, MapThenFoldSet
<1>2. \A s \in SUBSET S : s # {} => history[CHOOSE x \in s : TRUE].cost = c[Picked(s)]
  BY PickedIn DEF Picked
<1>3. \A f : f = F(f) <=> Summing(c, S, f)
  BY <1>2 DEF Summing, Picked
<1> QED
  BY <1>1, <1>3 DEF SumOf

LEMMA BeforeWillBe ==
    ASSUME NEW i, NEW c, NEW S, S = AllowedBefore(i)', \A j \in S : c[j] = history'[j].cost
    PROVE  CostOf(AllowedBefore(i))' = SumOf(c, S)
<1> DEFINE F(f) == [s \in SUBSET S |-> IF s = {} THEN 0
                        ELSE history'[CHOOSE x \in s : TRUE].cost + f[s \ {CHOOSE x \in s : TRUE}]]
<1>1. CostOf(AllowedBefore(i))' = (CHOOSE f : f = F(f))[S]
  BY DEF CostOf, MapThenSumSet, MapThenFoldSet
<1>2. \A s \in SUBSET S : s # {} => history'[CHOOSE x \in s : TRUE].cost = c[Picked(s)]
  BY PickedIn DEF Picked
<1>3. \A f : f = F(f) <=> Summing(c, S, f)
  BY <1>2 DEF Summing, Picked
<1> QED
  BY <1>1, <1>3 DEF SumOf

\* What was allowed before an evaluation stays what it was.
LEMMA BeforeStays ==
    ASSUME GTypes, NEW n \in Nat, n <= Len(history), \A j \in 1 .. n : history'[j] = history[j],
           NEW i \in 1 .. n
    PROVE  CostOf(AllowedBefore(i))' = CostOf(AllowedBefore(i))
<1>1. PICK c, S : c = [j \in 1 .. n |-> history[j].cost] /\ S = AllowedBefore(i)
  OBVIOUS
<1>2. S \subseteq 1 .. n /\ S = AllowedBefore(i)'
  BY <1>1 DEF AllowedBefore
<1>3. \A j \in S : c[j] = history[j].cost /\ c[j] = history'[j].cost
  BY <1>1, <1>2
<1>4. CostOf(AllowedBefore(i)) = SumOf(c, S)
  BY <1>1, <1>3, BeforeIs
<1>5. CostOf(AllowedBefore(i))' = SumOf(c, S)
  BY <1>2, <1>3, BeforeWillBe
<1> QED
  BY <1>4, <1>5

\* What was allowed before the newest one is what its day has allowed.
LEMMA BeforeTheNewest ==
    ASSUME GTypes, NEW n \in Nat, n = Len(history), NEW i, i = n + 1,
           \A j \in 1 .. n : history'[j] = history[j]
    PROVE  CostOf(AllowedBefore(i))' = AllowedCost(history'[i].agent, history'[i].day)
<1>1. PICK c, S, a, day : /\ c = [j \in 1 .. n |-> history[j].cost] /\ S = AllowedIn(a, day)
                          /\ a = history'[i].agent /\ day = history'[i].day
  OBVIOUS
<1>2. S \subseteq 1 .. n /\ S = AllowedBefore(i)'
  <2>1. i - 1 = n
    OBVIOUS
  <2> QED
    BY <1>1, <2>1 DEF AllowedBefore, AllowedIn, Of
<1>3. \A j \in S : c[j] = history[j].cost /\ c[j] = history'[j].cost
  BY <1>1, <1>2
<1>4. AllowedCost(a, day) = SumOf(c, S)
  BY <1>1, <1>3, AllowedIs
<1>5. CostOf(AllowedBefore(i))' = SumOf(c, S)
  BY <1>2, <1>3, BeforeWillBe
<1> QED
  BY <1>1, <1>4, <1>5

LEMMA JudgedStays ==
    ASSUME GInv, UNCHANGED history
    PROVE  JudgedByTheDay'
<1>1. Len(history) \in Nat
  BY LenProperties DEF GInv, GTypes
<1>2. \A i \in 1 .. Len(history) : CostOf(AllowedBefore(i))' = CostOf(AllowedBefore(i))
  BY <1>1, BeforeStays DEF GInv
<1> QED
  BY <1>2 DEF GInv, JudgedByTheDay

LEMMA NoneAhead ==
    ASSUME GTypes, NothingAhead, NEW a \in Agents, NEW day \in 0 .. MaxDay, lastDailyReset[a] < day
    PROVE  AllowedCost(a, day) = 0
<1>1. \A i \in 1 .. Len(history) : history[i] \in ExecutionRecord
  BY ElementOfSeq DEF GTypes
<1>2. ASSUME NEW i \in 1 .. Len(history), history[i].agent = a, history[i].day = day PROVE FALSE
  <2>1. day <= lastDailyReset[a]
    BY <1>2 DEF NothingAhead
  <2>2. day \in Int /\ lastDailyReset[a] \in Int
    BY CalendarAssumption DEF GTypes
  <2> QED
    BY <2>1, <2>2
<1>3. AllowedIn(a, day) = {}
  BY <1>2 DEF AllowedIn, Of
<1>4. PICK S, c : S = AllowedIn(a, day) /\ c = [i \in 1 .. Len(history) |-> history[i].cost]
  OBVIOUS
<1>5. AllowedCost(a, day) = SumOf(c, S)
  BY <1>3, <1>4, AllowedIs
<1> QED
  BY <1>3, <1>4, <1>5, SumEmpty

\* The spend of the day, reset or not, is what was allowed in it.
LEMMA SpendIsAllowed ==
    ASSUME GInv, NEW a \in Agents
    PROVE  SpendToday(a) = AllowedCost(a, today) /\ SpendToday(a) \in Int
<1>1. today \in 0 .. MaxDay /\ today \in Nat /\ MaxDay \in Nat
  BY CalendarAssumption DEF GInv, GTypes
<1>2. SpendToday(a) \in Int
  BY DEF SpendToday, GInv, GTypes
<1>3. CASE lastDailyReset[a] = today
  BY <1>1, <1>2, <1>3 DEF SpendToday, NewDay, GInv, CountsTheDay
<1>4. CASE lastDailyReset[a] # today
  <2>1. lastDailyReset[a] <= today /\ lastDailyReset[a] \in Int
    BY <1>1 DEF GInv, GTypes, NothingAhead
  <2>2. lastDailyReset[a] < today
    BY <1>1, <1>4, <2>1
  <2>3. AllowedCost(a, today) = 0
    BY <1>1, <2>2, NoneAhead DEF GInv
  <2> QED
    BY <1>2, <1>4, <2>3 DEF SpendToday, NewDay
<1> QED
  BY <1>3, <1>4

-----------------------------------------------------------------------------
LEMMA EvaluateKeeps ==
    ASSUME GInv, NEW a \in Agents, NEW r \in Requests, EvaluateGoverned(a, r), UNCHANGED ModeVars
    PROVE  GInv'
<1> DEFINE v == Verdict(a, r)
           e == [agent |-> a, cost |-> r.cost, decision |-> v, day |-> today]
<1>1. r.cost \in Int /\ GateBudget \in Int /\ today \in 0 .. MaxDay /\ today \in Nat
  <2>1. r.cost \in Costs
    BY DEF Requests
  <2>2. today \in 0 .. MaxDay /\ MaxDay \in Nat
    BY CalendarAssumption DEF GInv, GTypes
  <2>3. Costs \subseteq Int /\ GateBudget \in Int
    BY GateAssumption
  <2>4. r.cost \in Int
    BY <2>1, <2>3
  <2>5. today \in Nat
    BY <2>2
  <2> QED
    BY <2>2, <2>3, <2>4, <2>5
<1>2. v \in Decisions /\ (v = "over_budget" <=> SpendToday(a) + r.cost > GateBudget)
  <2>1. r.financial \in BOOLEAN /\ r.governance \in BOOLEAN /\ r.risky \in BOOLEAN
    BY DEF Requests
  <2>2. SpendToday(a) \in Int
    BY DEF SpendToday, GInv, GTypes
  <2>3. v = "over_budget" <=> SpendToday(a) + r.cost > GateBudget
    BY DEF Verdict
  <2>4. v \in Decisions
    BY <2>1 DEF Verdict, Decisions
  <2> QED
    BY <2>3, <2>4
<1>3. e \in ExecutionRecord /\ e.agent = a /\ e.cost = r.cost /\ e.decision = v /\ e.day = today
  BY <1>1, <1>2 DEF ExecutionRecord
<1>4. /\ history' = Append(history, e)
      /\ lastDailyReset' = [lastDailyReset EXCEPT ![a] = today]
      /\ dailySpend' = [dailySpend EXCEPT ![a] = SpendToday(a) + (IF v = "allowed" THEN r.cost ELSE 0)]
      /\ dailyExecutions' = [dailyExecutions EXCEPT ![a] = ExecutionsToday(a) + 1]
      /\ today' = today
  BY DEF EvaluateGoverned, ModeVars
<1> HIDE DEF v, e
<1>n. PICK n \in Nat : /\ n = Len(history) /\ n + 1 = Len(history')
                       /\ \A i \in 1 .. n : history'[i] = history[i]
                       /\ history'[n + 1] = e /\ history' \in Seq(ExecutionRecord)
  BY <1>3, <1>4, Appending DEF GInv, GTypes
<1>5. GTypes'
  <2>1. SpendToday(a) \in Int /\ ExecutionsToday(a) \in Nat
    BY DEF SpendToday, ExecutionsToday, GInv, GTypes
  <2> QED
    BY <1>n, <1>1, <1>4, <2>1 DEF GInv, GTypes
<1>6. NothingAhead'
  <2>1. \A i \in 1 .. n : history[i].agent \in Agents /\ history[i].day \in Nat
    <3>1. \A i \in 1 .. n : history[i] \in ExecutionRecord
      BY <1>n, ElementOfSeq DEF GInv, GTypes
    <3> QED
      BY <3>1, CalendarAssumption DEF ExecutionRecord
  <2>2. ASSUME NEW i \in 1 .. n + 1
        PROVE  history'[i].day <= lastDailyReset'[history'[i].agent]
    <3>1. CASE i = n + 1
      <4>1. lastDailyReset'[a] = today
        BY <1>4 DEF GInv, GTypes
      <4>2. history'[i].agent = a /\ history'[i].day = today
        BY <1>3, <1>n, <3>1
      <4> QED
        BY <1>1, <4>1, <4>2
    <3>2. CASE i \in 1 .. n
      <4>1. history'[i] = history[i] /\ history[i].day <= lastDailyReset[history[i].agent]
        BY <1>n, <3>2 DEF GInv, NothingAhead
      <4>2. lastDailyReset[a] <= today /\ lastDailyReset[a] \in Int
        BY DEF GInv, GTypes, NothingAhead
      <4> QED
        BY <1>1, <1>4, <2>1, <3>2, <4>1, <4>2 DEF GInv, GTypes
    <3> QED
      BY <1>n, <3>1, <3>2
  <2>3. \A b \in Agents : lastDailyReset'[b] <= today'
    BY <1>1, <1>4 DEF GInv, GTypes, NothingAhead
  <2> QED
    BY <1>n, <2>2, <2>3 DEF NothingAhead
<1>7. CountsTheDay' /\ JudgedByTheDay'
  <2>1. SpendToday(a) = AllowedCost(a, today)
    BY SpendIsAllowed
  <2>2. ASSUME NEW b \in Agents, NEW day \in 0 .. MaxDay, b # a \/ day # today
        PROVE  AllowedCost(b, day)' = AllowedCost(b, day)
    BY <1>n, <1>3, <2>2, CostGrows DEF GInv
  <2>3. /\ AllowedCost(a, today) \in Int
        /\ AllowedCost(a, today)' = SpendToday(a) + (IF v = "allowed" THEN r.cost ELSE 0)
    <3>1. PICK day : day = today
      OBVIOUS
    <3>2. AllowedCost(a, day)' = IF v = "allowed" THEN r.cost + AllowedCost(a, day) ELSE AllowedCost(a, day)
      BY <1>n, <1>3, <3>1, CostGrows DEF GInv
    <3>3. AllowedCost(a, day) \in Int
      BY AllowedCostType DEF GInv
    <3>4. AllowedCost(a, today)' = AllowedCost(a, day)'
      BY <1>4, <3>1
    <3> QED
      BY <1>1, <2>1, <3>1, <3>2, <3>3, <3>4
  <2>4. CountsTheDay'
    <3> SUFFICES ASSUME NEW b \in Agents, lastDailyReset'[b] # -1
                 PROVE  dailySpend'[b] = AllowedCost(b, lastDailyReset[b])'
      BY DEF CountsTheDay
    <3>1. CASE b = a
      <4>1. lastDailyReset'[a] = today' /\ dailySpend'[a] = SpendToday(a) + (IF v = "allowed" THEN r.cost ELSE 0)
        BY <1>4 DEF GInv, GTypes
      <4>2. AllowedCost(a, lastDailyReset[a])' = AllowedCost(a, today)'
        BY <4>1
      <4> QED
        BY <2>3, <3>1, <4>1, <4>2
    <3>2. CASE b # a
      <4>1. PICK day : day = lastDailyReset[b]
        OBVIOUS
      <4>2. lastDailyReset'[b] = day /\ dailySpend'[b] = dailySpend[b] /\ day \in 0 .. MaxDay
        BY <1>4, <3>2, <4>1, CalendarAssumption DEF GInv, GTypes
      <4>3. AllowedCost(b, lastDailyReset[b])' = AllowedCost(b, day)'
        BY <4>2
      <4> QED
        BY <2>2, <3>2, <4>1, <4>2, <4>3 DEF GInv, CountsTheDay
    <3> QED
      BY <3>1, <3>2
  <2>5. JudgedByTheDay'
    <3> SUFFICES ASSUME NEW i \in 1 .. n + 1
                 PROVE  history'[i].decision = "over_budget"
                            <=> CostOf(AllowedBefore(i))' + history'[i].cost > GateBudget
      BY <1>n DEF JudgedByTheDay
    <3>1. CASE i \in 1 .. n
      BY <1>n, <3>1, BeforeStays DEF GInv, JudgedByTheDay
    <3>2. CASE i = n + 1
      <4>1. history'[i] = e
        BY <1>n, <3>2
      <4>2. CostOf(AllowedBefore(i))' = AllowedCost(a, today)
        BY <1>n, <1>3, <3>2, <4>1, BeforeTheNewest DEF GInv
      <4> QED
        BY <1>2, <1>3, <2>1, <4>1, <4>2
    <3> QED
      BY <3>1, <3>2
  <2> QED
    BY <2>4, <2>5
<1> QED
  BY <1>5, <1>6, <1>7 DEF GInv

LEMMA ReadDayKeeps ==
    ASSUME GInv, NEW a \in Agents, ReadDay(a), UNCHANGED ModeVars
    PROVE  GInv'
<1>1. today \in 0 .. MaxDay /\ today \in Nat /\ MaxDay \in Nat /\ today' = today
  BY CalendarAssumption DEF GInv, GTypes, ModeVars
<1>2. /\ lastDailyReset' = [lastDailyReset EXCEPT ![a] = today]
      /\ dailySpend' = [dailySpend EXCEPT ![a] = SpendToday(a)]
      /\ dailyExecutions' = [dailyExecutions EXCEPT ![a] = ExecutionsToday(a)]
      /\ history' = history
  BY DEF ReadDay
<1>3. GTypes'
  <2>1. SpendToday(a) \in Int /\ ExecutionsToday(a) \in Nat
    BY DEF SpendToday, ExecutionsToday, GInv, GTypes
  <2> QED
    BY <1>1, <1>2, <2>1 DEF GInv, GTypes
<1>4. \A b \in Agents : lastDailyReset[b] \in Int /\ lastDailyReset[b] <= today
  BY <1>1 DEF GInv, GTypes, NothingAhead
<1>5. NothingAhead'
  <2>1. \A i \in 1 .. Len(history) : history[i].agent \in Agents /\ history[i].day \in Nat
    <3>1. \A i \in 1 .. Len(history) : history[i] \in ExecutionRecord
      BY ElementOfSeq DEF GInv, GTypes
    <3> QED
      BY <1>1, <3>1 DEF ExecutionRecord
  <2> QED
    BY <1>1, <1>2, <1>4, <2>1 DEF GInv, GTypes, NothingAhead
<1>6. \A b, day : AllowedCost(b, day)' = AllowedCost(b, day)
  BY <1>2, AllowedStays
<1>7. CountsTheDay'
  <2> SUFFICES ASSUME NEW b \in Agents, lastDailyReset'[b] # -1
               PROVE  dailySpend'[b] = AllowedCost(b, lastDailyReset[b])'
    BY DEF CountsTheDay
  <2>1. PICK day : day = lastDailyReset'[b]
    OBVIOUS
  <2>2. AllowedCost(b, lastDailyReset[b])' = AllowedCost(b, day)
    BY <1>6, <2>1
  <2>3. CASE b = a
    BY <1>2, <2>1, <2>2, <2>3, SpendIsAllowed DEF GInv, GTypes
  <2>4. CASE b # a
    BY <1>2, <2>1, <2>2, <2>4 DEF GInv, GTypes, CountsTheDay
  <2> QED
    BY <2>3, <2>4
<1>8. JudgedByTheDay'
  BY <1>2, JudgedStays
<1> QED
  BY <1>3, <1>5, <1>7, <1>8 DEF GInv

LEMMA ModesKeepGate ==
    ASSUME GInv, ModeNext, UNCHANGED GateVars
    PROVE  GInv'
<1>1. today \in Nat /\ today' \in 0 .. MaxDay /\ today <= today' /\ MaxDay \in Nat
  BY CalendarAssumption DEF ModeNext, SwitchMode, NextDay, GInv, GTypes
<1>2. UNCHANGED <<dailySpend, dailyExecutions, lastDailyReset, history>>
  BY DEF GateVars
<1>3. NothingAhead'
  <2>1. \A b \in Agents : lastDailyReset[b] \in Int /\ lastDailyReset[b] <= today
    BY <1>1 DEF GInv, GTypes, NothingAhead
  <2> QED
    BY <1>1, <1>2, <2>1 DEF GInv, NothingAhead
<1>4. \A b, day : AllowedCost(b, day)' = AllowedCost(b, day)
  BY <1>2, AllowedStays
<1>5. CountsTheDay' /\ JudgedByTheDay'
  BY <1>2, <1>4, JudgedStays DEF GInv, CountsTheDay
<1> QED
  BY <1>1, <1>2, <1>3, <1>5 DEF GInv, GTypes

LEMMA GInvInit == ModeInit /\ GateInit => GInv
<1> SUFFICES ASSUME ModeInit, GateInit PROVE GInv
  OBVIOUS
<1>1. today = 0 /\ today \in 0 .. MaxDay
  BY CalendarAssumption DEF ModeInit
<1>2. GTypes /\ NothingAhead
  BY <1>1 DEF GateInit, GTypes, NothingAhead
<1>4. JudgedByTheDay
  BY DEF GateInit, JudgedByTheDay
<1>5. CountsTheDay
  BY DEF CountsTheDay, GateInit
<1> QED
  BY <1>2, <1>4, <1>5 DEF GInv

LEMMA GInvStep == GInv /\ [GatesNext]_<<ModeVars, GateVars>> => GInv'
<1> SUFFICES ASSUME GInv, [GatesNext]_<<ModeVars, GateVars>> PROVE GInv'
  OBVIOUS
<1>1. CASE UNCHANGED <<ModeVars, GateVars>>
  <2>1. UNCHANGED <<today, dailySpend, dailyExecutions, lastDailyReset, history>>
    BY <1>1 DEF ModeVars, GateVars
  <2>2. \A b, day : AllowedCost(b, day)' = AllowedCost(b, day)
    BY <2>1, AllowedStays
  <2> QED
    BY <2>1, <2>2, JudgedStays DEF GInv, GTypes, NothingAhead, CountsTheDay
<1>2. CASE GateNext /\ UNCHANGED ModeVars
  BY <1>2, EvaluateKeeps, ReadDayKeeps DEF GateNext
<1>3. CASE ModeNext /\ UNCHANGED GateVars
  BY <1>3, ModesKeepGate
<1> QED
  BY <1>1, <1>2, <1>3 DEF GatesNext

\* A governed request is refused for the budget exactly if its cost and what the
\* agent was allowed before on the same day pass it together, whatever the order in
\* which requests, reads, switches of the mode and changes of the date come, and
\* whatever the sign of the costs (execution_gate.py:149, 276).
THEOREM AlwaysJudgedByTheDay == GateSpec => []JudgedByTheDay
<1>1. GInv => JudgedByTheDay
  BY DEF GInv
<1> QED
  BY GInvInit, GInvStep, <1>1, PTL DEF GateSpec

-----------------------------------------------------------------------------
(* Billing.                                                                  *)

OrgRow == [plan : Plans, sub : Subscriptions \cup {NoSubscription},
           status : {"none", "active", "past_due", "canceled"}, limit : Int,
           used : Int, over : Nat, period : Nat, overage : BOOLEAN]
StripeState == [status : {"none", "active", "past_due", "canceled"}, plan : Plans, period : Nat]
EventKinds == {"created", "updated", "deleted", "purchase"}

\* What an event says of a subscription that a handler may write.
Events == [kind : EventKinds, sub : Subscriptions \cup {NoSubscription}, stripe : StripeState]

Deliveries ==
    [kind : EventKinds, event : Events, row : OrgRow]
UsageRequests == [kind : {"usage"}, cost : UsageCosts, row : OrgRow]
PlanRequests == [kind : {"change", "changed"}, plan : Plans, row : OrgRow]
BillingRequests == Deliveries \cup UsageRequests \cup PlanRequests \cup {NoRequest}

BillingTypes ==
    /\ org \in OrgRow
    /\ stripe \in [Subscriptions -> StripeState]
    /\ sent \subseteq Events
    /\ handler \in [Handlers -> BillingRequests]
    /\ recorded \in Nat /\ behind \subseteq Handlers /\ carried \in BOOLEAN

Covered(row) == carried \/ row.used <= recorded

BInv ==
    /\ BillingTypes
    /\ NeverOvercharged
    /\ \A h \in Handlers : handler[h] # NoRequest /\ h \notin behind => Covered(handler[h].row)

-----------------------------------------------------------------------------
(* BillingRequests as they are loaded, and rows as they are written.                *)

LEMMA Loading ==
    ASSUME BInv, NEW h \in Handlers, NEW r \in BillingRequests \ {NoRequest}, r.row = org,
           Load(h, r), UNCHANGED <<org, stripe, sent, HistoryVars>>
    PROVE  BInv'
<1>1. BillingTypes'
  BY DEF BInv, BillingTypes, Load, HistoryVars
<1>2. \A k \in Handlers : handler'[k] # NoRequest /\ k \notin behind
                             => carried \/ handler'[k].row.used <= recorded
  BY DEF BInv, BillingTypes, Load, NeverOvercharged, Covered
<1> QED
  BY <1>1, <1>2 DEF BInv, NeverOvercharged, Covered, HistoryVars

\* The requests that hold a row, when one of them is over.
LEMMA Freeing ==
    ASSUME BInv, NEW h \in Handlers, handler' = [handler EXCEPT ![h] = NoRequest],
           \A k \in Handlers \ {h} : handler[k] # NoRequest /\ k \notin behind'
                                      => carried' \/ handler[k].row.used <= recorded'
    PROVE  /\ handler' \in [Handlers -> BillingRequests]
           /\ \A k \in Handlers : handler'[k] # NoRequest /\ k \notin behind' => Covered(handler[k].row)'
<1>1. handler' \in [Handlers -> BillingRequests]
  BY DEF BInv, BillingTypes, BillingRequests
<1>2. ASSUME NEW k \in Handlers, handler'[k] # NoRequest, k \notin behind'
      PROVE  carried' \/ handler'[k].row.used <= recorded'
  <2>1. k # h /\ handler'[k] = handler[k]
    BY <1>2 DEF BInv, BillingTypes
  <2> QED
    BY <1>2, <2>1
<1> QED
  BY <1>1, <1>2 DEF Covered

LEMMA Committing ==
    ASSUME BInv, NEW h \in Handlers, NEW row \in OrgRow, Commit(h, row),
           recorded' \in Nat, behind' \subseteq Handlers, carried' \in BOOLEAN, NeverOvercharged',
           \A k \in Handlers \ {h} : handler[k] # NoRequest /\ k \notin behind'
                                      => carried' \/ handler[k].row.used <= recorded',
           UNCHANGED <<stripe, sent>>
    PROVE  BInv'
<1>1. DOMAIN org = {"plan", "sub", "status", "limit", "used", "over", "period", "overage"}
  BY DEF BInv, BillingTypes, OrgRow
<1>2. \A c \in DOMAIN org : org'[c] \in {org[c], row[c]}
  BY DEF Commit
<1>3. org' = [plan |-> org'["plan"], sub |-> org'["sub"], status |-> org'["status"],
              limit |-> org'["limit"], used |-> org'["used"], over |-> org'["over"],
              period |-> org'["period"], overage |-> org'["overage"]]
  BY <1>1 DEF Commit
<1>4. org' \in OrgRow
  <2>1. org'["plan"] \in Plans /\ org'["sub"] \in Subscriptions \cup {NoSubscription}
    BY <1>1, <1>2 DEF BInv, BillingTypes, OrgRow
  <2>2. org'["status"] \in {"none", "active", "past_due", "canceled"} /\ org'["overage"] \in BOOLEAN
    BY <1>1, <1>2 DEF BInv, BillingTypes, OrgRow
  <2>3. org'["limit"] \in Int /\ org'["used"] \in Int
    BY <1>1, <1>2 DEF BInv, BillingTypes, OrgRow
  <2>4. org'["over"] \in Nat /\ org'["period"] \in Nat
    BY <1>1, <1>2 DEF BInv, BillingTypes, OrgRow
  <2> QED
    BY <1>3, <2>1, <2>2, <2>3, <2>4 DEF OrgRow
<1>5. handler' = [handler EXCEPT ![h] = NoRequest]
  BY DEF Commit
<1>6. /\ handler' \in [Handlers -> BillingRequests]
      /\ \A k \in Handlers : handler'[k] # NoRequest /\ k \notin behind' => Covered(handler[k].row)'
  BY <1>5, Freeing
<1>7. BillingTypes'
  BY <1>4, <1>6 DEF BInv, BillingTypes
<1> QED
  BY <1>6, <1>7 DEF BInv

\* The figure, as it is loaded and as it is written.
LEMMA FigureWritten ==
    ASSUME BInv, NEW h \in Handlers, NEW row, Commit(h, row)
    PROVE  org'.used = IF row.used = Loaded(h).used THEN org.used ELSE row.used
BY DEF Commit, BInv, BillingTypes, OrgRow

\* A commit that leaves the figure.
LEMMA Leaving ==
    ASSUME BInv, NEW h \in Handlers, NEW row \in OrgRow, Commit(h, row),
           org'.used = org.used, Keeps(h), UNCHANGED <<stripe, sent>>
    PROVE  BInv'
<1>1. recorded' = recorded /\ carried' = carried /\ behind' = behind \ {h}
  BY DEF Keeps
<1>2. recorded' \in Nat /\ behind' \subseteq Handlers /\ carried' \in BOOLEAN
  BY <1>1 DEF BInv, BillingTypes
<1>3. NeverOvercharged'
  BY <1>1 DEF BInv, NeverOvercharged
<1>4. \A k \in Handlers \ {h} : handler[k] # NoRequest /\ k \notin behind'
                                  => carried' \/ handler[k].row.used <= recorded'
  BY <1>1 DEF BInv, Covered
<1> QED
  BY <1>2, <1>3, <1>4, Committing

\* A commit that starts a period: who held a row before is behind.
LEMMA Resetting ==
    ASSUME BInv, NEW h \in Handlers, NEW row \in OrgRow, row.used = 0, Commit(h, row),
           Resets(h), UNCHANGED <<stripe, sent>>
    PROVE  BInv'
<1>1. CASE org'.used # 0 /\ Keeps(h)
  <2>1. org'.used = org.used
    BY <1>1, FigureWritten
  <2> QED
    BY <1>1, <2>1, Leaving
<1>2. CASE /\ org'.used = 0 /\ recorded' = 0 /\ carried' = FALSE
           /\ behind' = {k \in Handlers \ {h} : handler[k] # NoRequest}
  <2>1. recorded' \in Nat /\ behind' \subseteq Handlers /\ carried' \in BOOLEAN
    BY <1>2
  <2>2. NeverOvercharged'
    BY <1>2 DEF NeverOvercharged
  <2> QED
    BY <1>2, <2>1, <2>2, Committing
<1> QED
  BY <1>1, <1>2 DEF Resets

\* What the handlers may count on.
LEMMA Served ==
    ASSUME BInv, NEW h \in Handlers, handler[h] # NoRequest
    PROVE  /\ Loaded(h) \in OrgRow /\ recorded \in Nat
           /\ h \notin behind => carried \/ Loaded(h).used <= recorded
           /\ handler[h].kind \in EventKinds => handler[h] \in Deliveries
           /\ handler[h].kind = "usage" => handler[h] \in UsageRequests
           /\ handler[h].kind \in {"change", "changed"} => handler[h] \in PlanRequests
<1>1. handler[h] \in Deliveries \cup UsageRequests \cup PlanRequests
  BY DEF BInv, BillingTypes, BillingRequests
<1>2. /\ Loaded(h) \in OrgRow /\ recorded \in Nat
      /\ h \notin behind => carried \/ Loaded(h).used <= recorded
  BY <1>1 DEF BInv, BillingTypes, Covered, Loaded, Deliveries, UsageRequests, PlanRequests
<1>3. CASE handler[h] \in Deliveries
  BY <1>2, <1>3 DEF Deliveries, EventKinds
<1>4. CASE handler[h] \in UsageRequests
  BY <1>2, <1>4 DEF UsageRequests, EventKinds
<1>5. CASE handler[h] \in PlanRequests
  BY <1>2, <1>5 DEF PlanRequests, EventKinds
<1> QED
  BY <1>1, <1>3, <1>4, <1>5

LEMMA NewPeriodType ==
    ASSUME NEW row \in OrgRow
    PROVE  NewPeriod(row) \in OrgRow /\ NewPeriod(row).used = 0
<1>1. PICK used : used = [row EXCEPT !.used = 0]
  OBVIOUS
<1>2. used \in OrgRow /\ used.used = 0
  BY <1>1 DEF OrgRow
<1>3. PICK fresh : fresh = [used EXCEPT !.over = 0]
  OBVIOUS
<1>4. fresh \in OrgRow /\ fresh.used = 0
  BY <1>2, <1>3 DEF OrgRow
<1>5. NewPeriod(row) = fresh
  BY <1>1, <1>3 DEF NewPeriod
<1> QED
  BY <1>4, <1>5

LEMMA PlanTokensType ==
    ASSUME NEW p \in Plans
    PROVE  PlanTokens(p) \in Int
<1>1. FreeTokens \in Int /\ PlusTokens \in Int
  BY BillingAssumption
<1> QED
  BY <1>1 DEF PlanTokens

LEMMA ExcessType ==
    ASSUME NEW row \in OrgRow, NEW c \in Int
    PROVE  Excess(row, c) \in Nat
BY DEF Excess, OrgRow

LEMMA UsedRowType ==
    ASSUME NEW row \in OrgRow, NEW c \in Int, NEW x \in Nat
    PROVE  LET new == [row EXCEPT !.used = @ + c, !.over = @ + x]
           IN new \in OrgRow /\ new.used = row.used + c
<1>1. row.used + c \in Int /\ row.over + x \in Nat
  BY DEF OrgRow
<1> QED
  BY <1>1 DEF OrgRow

-----------------------------------------------------------------------------
(* Stripe and the requests that arrive.                                      *)

LEMMA StripeKeeps ==
    ASSUME BInv, stripe' \in [Subscriptions -> StripeState],
           sent' \subseteq Events, UNCHANGED <<org, handler, HistoryVars>>
    PROVE  BInv'
BY DEF BInv, BillingTypes, NeverOvercharged, Covered, HistoryVars

LEMMA EventType ==
    ASSUME NEW k \in EventKinds, NEW s \in Subscriptions \cup {NoSubscription},
           NEW now \in StripeState
    PROVE  Event(k, s, now) \in Events
BY DEF Event, Events

LEMMA CheckoutKeeps ==
    ASSUME BInv, NEW s \in Subscriptions, NEW p \in PaidPlans, Checkout(s, p)
    PROVE  BInv'
<1> DEFINE now == [status |-> "active", plan |-> p, period |-> 1]
<1>1. now \in StripeState
  BY DEF StripeState, PaidPlans
<1>2. Event("created", s, now) \in Events
  BY <1>1, EventType DEF EventKinds
<1>3. stripe' = [stripe EXCEPT ![s] = now] /\ sent' = sent \cup {Event("created", s, now)}
      /\ UNCHANGED <<org, handler, HistoryVars>>
  BY DEF Checkout, Send
<1> QED
  BY <1>1, <1>2, <1>3, StripeKeeps DEF BInv, BillingTypes

LEMMA RenewKeeps ==
    ASSUME BInv, NEW s \in Subscriptions, NEW paid \in BOOLEAN, Renew(s, paid)
    PROVE  BInv'
<1> DEFINE now == [stripe[s] EXCEPT !.period = @ + 1,
                                    !.status = IF paid THEN "active" ELSE "past_due"]
<1>1. now \in StripeState
  <2>1. stripe[s] \in StripeState
    BY DEF BInv, BillingTypes
  <2>2. stripe[s].period + 1 \in Nat
        /\ (IF paid THEN "active" ELSE "past_due") \in {"active", "past_due"}
    BY <2>1 DEF StripeState
  <2> QED
    BY <2>1, <2>2 DEF StripeState
<1>2. Event("updated", s, now) \in Events
  BY <1>1, EventType DEF EventKinds
<1>3. stripe' = [stripe EXCEPT ![s] = now] /\ sent' = sent \cup {Event("updated", s, now)}
      /\ UNCHANGED <<org, handler, HistoryVars>>
  BY DEF Renew, Send
<1> QED
  BY <1>1, <1>2, <1>3, StripeKeeps DEF BInv, BillingTypes

LEMMA EndKeeps ==
    ASSUME BInv, NEW s \in Subscriptions, EndSubscription(s)
    PROVE  BInv'
<1>1. Cancelled(s) \in StripeState
  BY DEF Cancelled, StripeState, BInv, BillingTypes
<1>2. Event("deleted", s, Cancelled(s)) \in Events
  BY <1>1, EventType DEF EventKinds
<1> QED
  BY <1>1, <1>2, StripeKeeps DEF EndSubscription, Send, BInv, BillingTypes

LEMMA BuyPackKeeps ==
    ASSUME BInv, BuyPack
    PROVE  BInv'
<1>1. NotSubscribed \in StripeState
  BY DEF NotSubscribed, StripeState, Plans
<1>2. Event("purchase", NoSubscription, NotSubscribed) \in Events
  BY <1>1, EventType DEF EventKinds
<1> QED
  BY <1>1, <1>2, StripeKeeps DEF BuyPack, Send, BInv, BillingTypes

LEMMA DeliverKeeps ==
    ASSUME BInv, NEW h \in Handlers, Deliver(h)
    PROVE  BInv'
<1>1. PICK e \in sent : Load(h, [kind |-> e.kind, event |-> e, row |-> org])
  BY DEF Deliver
<1>2. [kind |-> e.kind, event |-> e, row |-> org] \in Deliveries
  BY DEF BInv, BillingTypes, Deliveries, Events
<1>3. [kind |-> e.kind, event |-> e, row |-> org] # NoRequest
  BY <1>2 DEF NoRequest, Deliveries, EventKinds
<1> QED
  BY <1>1, <1>2, <1>3, Loading DEF Deliver, BillingRequests

LEMMA AskUsageKeeps ==
    ASSUME BInv, NEW h \in Handlers, AskUsage(h)
    PROVE  BInv'
<1>1. PICK c \in UsageCosts : Load(h, [kind |-> "usage", cost |-> c, row |-> org])
  BY DEF AskUsage
<1>2. [kind |-> "usage", cost |-> c, row |-> org] \in UsageRequests
  BY DEF BInv, BillingTypes, UsageRequests
<1>3. [kind |-> "usage", cost |-> c, row |-> org] # NoRequest
  BY <1>2 DEF NoRequest, UsageRequests
<1> QED
  BY <1>1, <1>2, <1>3, Loading DEF AskUsage, BillingRequests

LEMMA AskPlanKeeps ==
    ASSUME BInv, NEW h \in Handlers, AskPlan(h)
    PROVE  BInv'
<1>1. PICK p \in Plans : Load(h, [kind |-> "change", plan |-> p, row |-> org])
  BY DEF AskPlan
<1>2. [kind |-> "change", plan |-> p, row |-> org] \in PlanRequests
  BY DEF BInv, BillingTypes, PlanRequests
<1>3. [kind |-> "change", plan |-> p, row |-> org] # NoRequest
  BY <1>2 DEF NoRequest, PlanRequests
<1> QED
  BY <1>1, <1>2, <1>3, Loading DEF AskPlan, BillingRequests

-----------------------------------------------------------------------------
(* The handlers.                                                             *)

LEMMA HandleCreatedKeeps ==
    ASSUME BInv, NEW h \in Handlers, HandleCreated(h)
    PROVE  BInv'
<1>1. handler[h] # NoRequest /\ handler[h].kind = "created"
  BY DEF HandleCreated, Serves, NoRequest
<1> DEFINE e == handler[h].event
           row == [Loaded(h) EXCEPT !.sub = e.sub, !.plan = e.stripe.plan,
                      !.status = "active", !.limit = PlanTokens(e.stripe.plan),
                      !.period = e.stripe.period]
<1>2. e \in Events /\ Loaded(h) \in OrgRow
  BY <1>1, Served DEF EventKinds, Deliveries
<1>3. /\ PlanTokens(e.stripe.plan) \in Int /\ e.stripe.plan \in Plans
      /\ e.sub \in Subscriptions \cup {NoSubscription} /\ e.stripe.period \in Nat
  BY <1>2, PlanTokensType DEF Events, StripeState
<1>4. row \in OrgRow
  BY <1>2, <1>3 DEF OrgRow
<1>5. NewPeriod(row) \in OrgRow /\ NewPeriod(row).used = 0
  <2> HIDE DEF row
  <2> QED BY <1>4, NewPeriodType
<1>6. Commit(h, NewPeriod(row)) /\ Resets(h) /\ UNCHANGED <<stripe, sent>>
  BY DEF HandleCreated
<1> HIDE DEF row
<1> QED
  BY <1>5, <1>6, Resetting

LEMMA HandleUpdatedKeeps ==
    ASSUME BInv, NEW h \in Handlers, HandleUpdated(h)
    PROVE  BInv'
<1>1. handler[h] # NoRequest /\ handler[h].kind = "updated"
  BY DEF HandleUpdated, Serves, NoRequest
<1> DEFINE now == handler[h].event.stripe
           same == [Loaded(h) EXCEPT !.period = now.period, !.status = now.status]
<1>2. handler[h] \in Deliveries /\ Loaded(h) \in OrgRow
  BY <1>1, Served DEF EventKinds
<1>3. now.status \in {"none", "active", "past_due", "canceled"} /\ now.period \in Nat
  BY <1>1, <1>2 DEF Deliveries, Events, StripeState
<1>4. same \in OrgRow /\ same.used = Loaded(h).used
  BY <1>2, <1>3 DEF OrgRow
<1>5. CASE Commit(h, NewPeriod(same)) /\ Resets(h) /\ UNCHANGED <<stripe, sent>>
  <2> HIDE DEF same
  <2>1. NewPeriod(same) \in OrgRow /\ NewPeriod(same).used = 0
    BY <1>4, NewPeriodType
  <2> QED
    BY <1>5, <2>1, Resetting
<1>6. CASE Commit(h, same) /\ Keeps(h) /\ UNCHANGED <<stripe, sent>>
  <2> HIDE DEF same
  <2>1. org'.used = org.used
    BY <1>4, <1>6, FigureWritten
  <2> QED
    BY <1>4, <1>6, <2>1, Leaving
<1> QED
  BY <1>5, <1>6 DEF HandleUpdated

LEMMA HandleCanceledKeeps ==
    ASSUME BInv, NEW h \in Handlers, HandleCanceled(h)
    PROVE  BInv'
<1>1. handler[h] # NoRequest
  BY DEF HandleCanceled, Serves, NoRequest
<1> DEFINE row == [Loaded(h) EXCEPT !.plan = "free", !.status = "canceled",
                      !.limit = FreeTokens, !.sub = NoSubscription]
<1>2. Loaded(h) \in OrgRow
  BY <1>1, Served
<1>3. row \in OrgRow /\ row.used = Loaded(h).used
  <2>1. FreeTokens \in Int /\ "free" \in Plans
    BY BillingAssumption DEF Plans
  <2> QED
    BY <1>2, <2>1 DEF OrgRow
<1>4. Commit(h, row) /\ Keeps(h) /\ UNCHANGED <<stripe, sent>>
  BY DEF HandleCanceled
<1> HIDE DEF row
<1> QED
  BY <1>3, <1>4, FigureWritten, Leaving

LEMMA HandlePurchaseKeeps ==
    ASSUME BInv, NEW h \in Handlers, HandlePurchase(h)
    PROVE  BInv'
<1>1. handler[h] # NoRequest
  BY DEF HandlePurchase, Serves, NoRequest
<1> DEFINE row == [Loaded(h) EXCEPT !.limit = @ + PackTokens]
<1>2. Loaded(h) \in OrgRow
  BY <1>1, Served
<1>3. row \in OrgRow /\ row.used = Loaded(h).used
  BY <1>2, BillingAssumption DEF OrgRow
<1>4. Commit(h, row) /\ Keeps(h) /\ UNCHANGED <<stripe, sent>>
  BY DEF HandlePurchase
<1> HIDE DEF row
<1> QED
  BY <1>3, <1>4, FigureWritten, Leaving

\* Freed, or told of Stripe's answer, a request holds the row it held.
LEMMA HoldingKeeps ==
    ASSUME BInv, NEW h \in Handlers, NEW r \in BillingRequests, r # NoRequest => r.row = Loaded(h),
           handler[h] # NoRequest, handler' = [handler EXCEPT ![h] = r],
           behind' = IF r = NoRequest THEN behind \ {h} ELSE behind, UNCHANGED <<org, recorded, carried>>,
           stripe' \in [Subscriptions -> StripeState], sent' \subseteq Events
    PROVE  BInv'
<1>1. BillingTypes'
  BY DEF BInv, BillingTypes
<1>2. \A k \in Handlers : handler'[k] # NoRequest /\ k \notin behind'
                             => carried \/ handler'[k].row.used <= recorded
  BY DEF BInv, BillingTypes, Covered, Loaded
<1> QED
  BY <1>1, <1>2 DEF BInv, NeverOvercharged, Covered

LEMMA TellStripeKeeps ==
    ASSUME BInv, NEW h \in Handlers, TellStripe(h)
    PROVE  BInv'
<1> DEFINE s == Loaded(h).sub
           p == handler[h].plan
           now == IF p = "free" THEN Cancelled(s) ELSE [stripe[s] EXCEPT !.plan = p]
           told == [handler[h] EXCEPT !.kind = "changed"]
<1>1. handler[h] # NoRequest /\ handler[h].kind = "change"
  BY DEF TellStripe, Serves, NoRequest
<1>2. handler[h] \in PlanRequests /\ Loaded(h) \in OrgRow
  BY <1>1, Served
<1>3. told \in PlanRequests /\ told.row = Loaded(h)
  BY <1>2 DEF PlanRequests, Loaded
<1>4. told \in BillingRequests /\ told # NoRequest /\ NoRequest \in BillingRequests
  BY <1>2, <1>3 DEF BillingRequests, PlanRequests, NoRequest
<1>5. /\ UNCHANGED <<org, recorded, carried>>
      /\ behind' = IF Free(h)' THEN behind \ {h} ELSE behind
      /\ \A r : handler' = [handler EXCEPT ![h] = r] => (Free(h)' <=> r = NoRequest)
  BY DEF TellStripe, Free, BInv, BillingTypes
<1>6. CASE /\ s # NoSubscription /\ stripe[s].status # "canceled"
           /\ stripe' = [stripe EXCEPT ![s] = now]
           /\ Send(Event(IF p = "free" THEN "deleted" ELSE "updated", s, now))
           /\ handler' = [handler EXCEPT ![h].kind = "changed"]
  <2>1. s \in Subscriptions /\ p \in Plans
    BY <1>2, <1>6 DEF OrgRow, PlanRequests
  <2>2. stripe[s] \in StripeState
    BY <2>1 DEF BInv, BillingTypes
  <2>3. now \in StripeState
    BY <2>1, <2>2 DEF Cancelled, StripeState
  <2>4. \A k \in EventKinds : Event(k, s, now) \in Events
    <3> HIDE DEF now
    <3> QED BY <2>1, <2>3, EventType
  <2>5. sent' \subseteq Events
    <3> HIDE DEF now
    <3> QED BY <1>6, <2>4 DEF Send, EventKinds, BInv, BillingTypes
  <2>6. stripe' \in [Subscriptions -> StripeState]
    <3> HIDE DEF now
    <3> QED BY <1>6, <2>3 DEF BInv, BillingTypes
  <2>7. handler' = [handler EXCEPT ![h] = told]
    BY <1>6
  <2> HIDE DEF told
  <2> QED
    BY <1>1, <1>3, <1>4, <1>5, <2>5, <2>6, <2>7, HoldingKeeps
<1>7. CASE /\ UNCHANGED <<stripe, sent>>
           /\ \/ handler' = [handler EXCEPT ![h].kind = "changed"]
              \/ handler' = [handler EXCEPT ![h] = NoRequest]
  <2>1. handler' = [handler EXCEPT ![h] = told] \/ handler' = [handler EXCEPT ![h] = NoRequest]
    BY <1>7
  <2>2. stripe' \in [Subscriptions -> StripeState] /\ sent' \subseteq Events
    BY <1>7 DEF BInv, BillingTypes
  <2> HIDE DEF told
  <2> QED
    BY <1>1, <1>3, <1>4, <1>5, <2>1, <2>2, HoldingKeeps
<1> QED
  BY <1>6, <1>7 DEF TellStripe

LEMMA ChangePlanKeeps ==
    ASSUME BInv, NEW h \in Handlers, ChangePlan(h)
    PROVE  BInv'
<1>1. handler[h] # NoRequest /\ handler[h].kind = "changed"
  BY DEF ChangePlan, Serves, NoRequest
<1> DEFINE row == [Loaded(h) EXCEPT !.plan = handler[h].plan,
                                    !.limit = PlanTokens(handler[h].plan)]
<1>2. handler[h] \in PlanRequests /\ Loaded(h) \in OrgRow
  BY <1>1, Served
<1>3. handler[h].plan \in Plans /\ PlanTokens(handler[h].plan) \in Int
  BY <1>2, PlanTokensType DEF PlanRequests
<1>4. row \in OrgRow /\ row.used = Loaded(h).used
  BY <1>2, <1>3 DEF OrgRow
<1>5. Commit(h, row) /\ Keeps(h) /\ UNCHANGED <<stripe, sent>>
  BY DEF ChangePlan
<1> HIDE DEF row
<1> QED
  BY <1>4, <1>5, FigureWritten, Leaving

LEMMA RequestDiesKeeps ==
    ASSUME BInv, NEW h \in Handlers, RequestDies(h)
    PROVE  BInv'
<1>1. NoRequest \in BillingRequests
  BY DEF BillingRequests
<1>2. /\ UNCHANGED <<org, stripe, sent, recorded, carried>> /\ behind' = behind \ {h}
      /\ handler[h] # NoRequest /\ handler' = [handler EXCEPT ![h] = NoRequest]
  BY DEF RequestDies, Refuse, Keeps, Free
<1> QED
  BY <1>1, <1>2, HoldingKeeps DEF BInv, BillingTypes

\* The one handler that raises the figure records as much in the same commit.
LEMMA RecordUsageKeeps ==
    ASSUME BInv, NEW h \in Handlers, RecordUsage(h)
    PROVE  BInv'
<1>1. handler[h] # NoRequest /\ handler[h].kind = "usage"
  BY DEF RecordUsage, Serves, NoRequest
<1> DEFINE c == handler[h].cost
           row == [Loaded(h) EXCEPT !.used = @ + c, !.over = @ + Excess(Loaded(h), c)]
<1>2. /\ handler[h] \in UsageRequests /\ Loaded(h) \in OrgRow /\ recorded \in Nat
      /\ h \notin behind => carried \/ Loaded(h).used <= recorded
  BY <1>1, Served
<1>3. c \in Int
  BY <1>2, BillingAssumption DEF UsageRequests
<1>4. Excess(Loaded(h), c) \in Nat
  BY <1>2, <1>3, ExcessType
<1>5. row \in OrgRow /\ row.used = Loaded(h).used + c
  <2> HIDE DEF c
  <2> QED BY <1>2, <1>3, <1>4, UsedRowType
<1>6. UNCHANGED <<stripe, sent>>
  BY DEF RecordUsage
<1>7. CASE Commit(h, row) /\ Counts(h, c)
  <2> HIDE DEF row, c
  <2>1. /\ recorded' = IF c > 0 THEN recorded + c ELSE recorded
        /\ carried' = (carried \/ h \in behind) /\ behind' = behind \ {h}
    BY <1>7 DEF Counts
  <2>2. recorded' \in Nat /\ recorded <= recorded' /\ recorded + c <= recorded'
    BY <1>2, <1>3, <2>1
  <2>3. behind' \subseteq Handlers /\ carried' \in BOOLEAN
    BY <2>1 DEF BInv, BillingTypes
  <2>4. NeverOvercharged'
    <3>1. CASE carried'
      BY <3>1 DEF NeverOvercharged
    <3>2. CASE ~carried'
      <4>1. Loaded(h).used <= recorded /\ org.used <= recorded /\ Loaded(h).used \in Int /\ org.used \in Int
        BY <1>2, <2>1, <3>2 DEF BInv, NeverOvercharged, BillingTypes, OrgRow
      <4>2. org'.used = org.used \/ org'.used = Loaded(h).used + c
        BY <1>5, <1>7, FigureWritten
      <4>3. org.used <= recorded' /\ Loaded(h).used + c <= recorded'
        BY <1>2, <1>3, <2>2, <4>1
      <4> QED
        BY <4>2, <4>3 DEF NeverOvercharged
    <3> QED
      BY <3>1, <3>2
  <2>5. ASSUME NEW k \in Handlers \ {h}, handler[k] # NoRequest, k \notin behind', ~carried'
        PROVE  handler[k].row.used <= recorded'
    <3>1. handler[k].row \in OrgRow
      BY <2>5 DEF BInv, BillingTypes, BillingRequests, Deliveries, UsageRequests, PlanRequests
    <3>2. handler[k].row.used \in Int /\ handler[k].row.used <= recorded
      BY <2>1, <2>5, <3>1 DEF BInv, Covered, OrgRow
    <3> QED
      BY <1>2, <2>2, <3>2
  <2> QED
    BY <1>5, <1>6, <1>7, <2>2, <2>3, <2>4, <2>5, Committing
<1>8. CASE Refuse(h) /\ Keeps(h)
  <2>1. NoRequest \in BillingRequests
    BY DEF BillingRequests
  <2> QED
    BY <1>1, <1>6, <1>8, <2>1, HoldingKeeps DEF Refuse, Keeps, BInv, BillingTypes
<1> QED
  BY <1>7, <1>8 DEF RecordUsage

-----------------------------------------------------------------------------
(* The theorem.                                                              *)

LEMMA InitBInv == BillingInit => BInv
<1> SUFFICES ASSUME BillingInit PROVE BInv
  OBVIOUS
<1>1. org \in OrgRow /\ org.used = 0
  BY BillingAssumption DEF BillingInit, OrgRow, Plans
<1>2. NotSubscribed \in StripeState
  BY DEF NotSubscribed, StripeState, Plans
<1>3. BillingTypes
  BY <1>1, <1>2 DEF BillingInit, BillingTypes, BillingRequests
<1> QED
  BY <1>1, <1>3 DEF BInv, BillingInit, NeverOvercharged

LEMMA BillingStep == BInv /\ [BillingNext]_BillingVars => BInv'
<1> SUFFICES ASSUME BInv, [BillingNext]_BillingVars PROVE BInv'
  OBVIOUS
<1>1. CASE UNCHANGED BillingVars
  BY <1>1 DEF BillingVars, HistoryVars, BInv, BillingTypes, NeverOvercharged, Covered
<1>2. CASE BuyPack
  BY <1>2, BuyPackKeeps
<1>3. ASSUME NEW s \in Subscriptions,
             \/ \E p \in PaidPlans : Checkout(s, p)
             \/ \E paid \in BOOLEAN : Renew(s, paid)
             \/ EndSubscription(s)
      PROVE  BInv'
  BY <1>3, CheckoutKeeps, RenewKeeps, EndKeeps
<1>4. ASSUME NEW h \in Handlers,
             \/ Deliver(h) \/ AskUsage(h) \/ AskPlan(h)
             \/ HandleCreated(h) \/ HandleUpdated(h) \/ HandleCanceled(h) \/ HandlePurchase(h)
             \/ TellStripe(h) \/ ChangePlan(h) \/ RecordUsage(h) \/ RequestDies(h)
      PROVE  BInv'
  <2>1. CASE Deliver(h) \/ AskUsage(h) \/ AskPlan(h)
    BY <2>1, DeliverKeeps, AskUsageKeeps, AskPlanKeeps
  <2>2. CASE HandleCreated(h) \/ HandleUpdated(h) \/ HandleCanceled(h) \/ HandlePurchase(h)
    BY <2>2, HandleCreatedKeeps, HandleUpdatedKeeps, HandleCanceledKeeps, HandlePurchaseKeeps
  <2>3. CASE TellStripe(h) \/ ChangePlan(h) \/ RecordUsage(h) \/ RequestDies(h)
    BY <2>3, TellStripeKeeps, ChangePlanKeeps, RecordUsageKeeps, RequestDiesKeeps
  <2> QED
    BY <1>4, <2>1, <2>2, <2>3
<1> QED
  BY <1>1, <1>2, <1>3, <1>4 DEF BillingNext

\* No organization is charged more tokens in a period than were recorded in it,
\* whatever requests and webhooks overlap, get lost or come again, and whatever the
\* sign of what is recorded (usage_service.py:59, 84; billing_service.py:256), unless a
\* request that loaded the row before the period began has written its figure back.
THEOREM NeverOverchargedHolds == BillingSpec => []NeverOvercharged
<1>1. BInv => NeverOvercharged
  BY DEF BInv
<1> QED
  BY InitBInv, BillingStep, <1>1, PTL DEF BillingSpec

-----------------------------------------------------------------------------
(* Contracts.                                                                *)

NegotiationRecord == [initiator : Agents, maximum : Nat, status : {"bidding", "agreed"},
                      winner : Nat, contract : Nat]
BidRecord == [negotiation : Nat, agent : Agents, price : Nat,
              isWinning : BOOLEAN, isRejected : BOOLEAN]
ContractRecord == [negotiation : Nat, bid : Nat, parties : SUBSET Agents, value : Nat,
                   waited : BOOLEAN,
                   status : {"pending_approval", "active", "completed", "cancelled"},
                   done : SUBSET Agents, approved : BOOLEAN]
ApprovalRecord == [contract : Nat, status : {"pending", "approved", "rejected"}]

NegotiationTypes ==
    /\ negotiations \in Seq(NegotiationRecord)
    /\ bids \in Seq(BidRecord)
    /\ contracts \in Seq(ContractRecord)
    /\ approvals \in Seq(ApprovalRecord)

\* An amount is one that the auction n admits.
Within(x, n) ==
    /\ n \in 1 .. Len(negotiations)
    /\ negotiations[n].maximum # 0 => x <= negotiations[n].maximum

Sound(c) ==
    /\ Within(c.value, c.negotiation)
    /\ c.status \in {"active", "completed"} /\ c.waited => c.approved

NInv ==
    /\ NegotiationTypes
    /\ \A b \in 1 .. Len(bids) : Within(bids[b].price, bids[b].negotiation)
    /\ \A c \in 1 .. Len(contracts) : Sound(contracts[c])
    /\ \A i \in 1 .. Len(approvals) : approvals[i].contract \in 1 .. Len(contracts)

\* The auctions stay, with their maxima.
AuctionsStay ==
    /\ Len(negotiations') >= Len(negotiations)
    /\ \A n \in 1 .. Len(negotiations) : negotiations'[n].maximum = negotiations[n].maximum

LEMMA WithinStays ==
    ASSUME NInv, AuctionsStay, NegotiationTypes', NEW x, NEW n, Within(x, n)
    PROVE  Within(x, n)'
<1>1. n \in 1 .. Len(negotiations)
    BY DEF Within
<1>2. Len(negotiations) \in Nat /\ Len(negotiations') \in Nat
    BY DEF NInv, NegotiationTypes
<1>3. n \in 1 .. Len(negotiations')
    BY <1>1, <1>2 DEF AuctionsStay
<1> QED BY <1>1, <1>3 DEF Within, AuctionsStay

\* Contracts that come to be are sound if those that are there stay so.
LEMMA ContractsKeep ==
    ASSUME NInv, AuctionsStay, NegotiationTypes',
           Len(bids') >= Len(bids), Len(contracts') >= Len(contracts),
           \A b \in 1 .. Len(bids) : /\ bids'[b].price = bids[b].price
                                     /\ bids'[b].negotiation = bids[b].negotiation,
           \A b \in 1 .. Len(bids') :
              b > Len(bids) => Within(bids'[b].price, bids'[b].negotiation),
           \A c \in 1 .. Len(contracts') :
              \/ c <= Len(contracts) /\ contracts'[c] = contracts[c]
              \/ Sound(contracts'[c]),
           \A i \in 1 .. Len(approvals') : approvals'[i].contract \in 1 .. Len(contracts)
    PROVE  NInv'
<1>0. /\ Len(bids) \in Nat /\ Len(bids') \in Nat
      /\ Len(contracts) \in Nat /\ Len(contracts') \in Nat
    BY DEF NInv, NegotiationTypes
<1>1. ASSUME NEW x, NEW n, Within(x, n) PROVE Within(x, n)'
    BY <1>1, WithinStays DEF NInv
<1>2. ASSUME NEW b \in 1 .. Len(bids') PROVE Within(bids[b].price, bids[b].negotiation)'
    <2>1. CASE b \in 1 .. Len(bids)
        <3>1. Within(bids[b].price, bids[b].negotiation)
            BY <2>1 DEF NInv
        <3>2. PICK x, n : x = bids[b].price /\ n = bids[b].negotiation
            OBVIOUS
        <3>3. Within(x, n)'
            BY <1>1, <3>1, <3>2
        <3> QED BY <2>1, <3>2, <3>3 DEF Within
    <2>2. CASE b > Len(bids)
        <3>1. PICK x, n : x = bids'[b].price /\ n = bids'[b].negotiation
            OBVIOUS
        <3>2. Within(x, n)
            BY <2>2, <3>1
        <3>3. Within(x, n)'
            BY <1>1, <3>2
        <3> QED BY <3>1, <3>3 DEF Within
    <2> QED BY <1>0, <2>1, <2>2
<1>3. ASSUME NEW c \in 1 .. Len(contracts') PROVE Sound(contracts[c])'
    <2>1. PICK k : k = contracts'[c]
        OBVIOUS
    <2>2. Sound(k)
        BY <1>0, <2>1 DEF NInv
    <2>3. PICK x, n : x = k.value /\ n = k.negotiation
        OBVIOUS
    <2>4. Within(x, n)
        BY <2>2, <2>3 DEF Sound
    <2>5. Within(x, n)'
        BY <1>1, <2>4
    <2> QED BY <2>1, <2>2, <2>3, <2>5 DEF Sound, Within
<1>4. \A i \in 1 .. Len(approvals') : approvals'[i].contract \in 1 .. Len(contracts')
    BY <1>0
<1> QED BY <1>2, <1>3, <1>4 DEF NInv

LEMMA Members ==
    ASSUME NInv
    PROVE  /\ Len(negotiations) \in Nat /\ Len(bids) \in Nat /\ Len(contracts) \in Nat
           /\ DOMAIN negotiations = 1 .. Len(negotiations) /\ DOMAIN bids = 1 .. Len(bids)
           /\ DOMAIN contracts = 1 .. Len(contracts) /\ DOMAIN approvals = 1 .. Len(approvals)
           /\ \A n \in 1 .. Len(negotiations) : negotiations[n] \in NegotiationRecord
           /\ \A b \in 1 .. Len(bids) : bids[b] \in BidRecord
           /\ \A c \in 1 .. Len(contracts) : contracts[c] \in ContractRecord
           /\ \A i \in 1 .. Len(approvals) : approvals[i] \in ApprovalRecord
BY ElementOfSeq DEF NInv, NegotiationTypes

LEMMA PriceType == \A x \in Prices \cup {0} : x \in Nat
<1>1. Prices \subseteq Nat
  BY NegotiationAssumption
<1> QED
  BY <1>1

LEMMA CreateAuctionKeeps ==
    ASSUME NInv, NEW a \in Agents, NEW maximum \in Prices \cup {0}, CreateAuction(a, maximum)
    PROVE  NInv'
<1>0. maximum \in Nat
  BY PriceType
<1> DEFINE new == [initiator |-> a, maximum |-> maximum, status |-> "bidding",
                   winner |-> 0, contract |-> 0]
<1>1. new \in NegotiationRecord
  BY <1>0 DEF NegotiationRecord
<1>2. negotiations' = Append(negotiations, new) /\ UNCHANGED <<bids, contracts, approvals>>
  BY DEF CreateAuction
<1> HIDE DEF new
<1>3. NegotiationTypes' /\ AuctionsStay
  BY <1>1, <1>2, AppendProperties DEF NInv, NegotiationTypes, AuctionsStay
<1> QED
  BY <1>2, <1>3, Members, ContractsKeep DEF NInv

LEMMA SubmitBidKeeps ==
    ASSUME NInv, NEW a \in Agents, NEW n \in DOMAIN negotiations, NEW price \in Prices,
           SubmitBid(a, n, price)
    PROVE  NInv'
<1> DEFINE new == [negotiation |-> n, agent |-> a, price |-> price,
                   isWinning |-> FALSE, isRejected |-> FALSE]
<1>1. n \in 1 .. Len(negotiations) /\ n \in Nat /\ price \in Nat
  BY Members, PriceType
<1>2. new \in BidRecord /\ Within(new.price, new.negotiation)
  BY <1>1 DEF BidRecord, SubmitBid, Within
<1>3. bids' = Append(bids, new) /\ UNCHANGED <<negotiations, contracts, approvals>>
  BY DEF SubmitBid
<1> HIDE DEF new
<1>4. NegotiationTypes' /\ AuctionsStay
  BY <1>2, <1>3, AppendProperties DEF NInv, NegotiationTypes, AuctionsStay
<1>5. /\ Len(bids') = Len(bids) + 1 /\ bids'[Len(bids) + 1] = new
      /\ \A b \in 1 .. Len(bids) : bids'[b] = bids[b]
  BY <1>2, <1>3, AppendProperties DEF NInv, NegotiationTypes
<1>6. \A b \in 1 .. Len(bids') : b > Len(bids) => b = Len(bids) + 1
  BY <1>5, Members
<1> QED
  BY <1>2, <1>3, <1>4, <1>5, <1>6, Members, ContractsKeep DEF NInv

LEMMA AcceptBidKeeps ==
    ASSUME NInv, NEW b \in DOMAIN bids, AcceptBid(b)
    PROVE  NInv'
<1> DEFINE n == bids[b].negotiation
           k == negotiations[n].initiator
           waits == mode[k] = "governed" /\ bids[b].price > ContractLimit
           c == Len(contracts) + 1
           new == [negotiation |-> n, bid |-> b, parties |-> {k, bids[b].agent},
                   value |-> bids[b].price, waited |-> waits,
                   status |-> IF waits THEN "pending_approval" ELSE "active",
                   done |-> {}, approved |-> FALSE]
<1>1. b \in 1 .. Len(bids) /\ b \in Nat /\ c \in Nat
  BY Members
<1>2. bids[b] \in BidRecord /\ Within(bids[b].price, n)
  BY <1>1, Members DEF NInv
<1>3. n \in 1 .. Len(negotiations) /\ negotiations[n] \in NegotiationRecord
  BY <1>2, Members DEF Within
<1>4. new \in ContractRecord
  BY <1>1, <1>2, <1>3 DEF BidRecord, NegotiationRecord, ContractRecord
<1>5. Sound(new)
  BY <1>2 DEF Sound
<1>6. /\ contracts' = Append(contracts, new) /\ UNCHANGED approvals
      /\ negotiations' = [negotiations EXCEPT ![n] =
                              [@ EXCEPT !.status = "agreed", !.winner = b, !.contract = c]]
  BY DEF AcceptBid
<1>7. contracts' \in Seq(ContractRecord) /\ Len(contracts') = Len(contracts) + 1
      /\ contracts'[Len(contracts) + 1] = new
      /\ \A i \in 1 .. Len(contracts) : contracts'[i] = contracts[i]
  <2> HIDE DEF new
  <2> QED BY <1>4, <1>6, AppendProperties DEF NInv, NegotiationTypes
<1>8. /\ negotiations' \in Seq(NegotiationRecord) /\ AuctionsStay
  <2> DEFINE agreed == [negotiations[n] EXCEPT !.status = "agreed", !.winner = b, !.contract = c]
  <2>1. agreed \in NegotiationRecord /\ agreed.maximum = negotiations[n].maximum
    BY <1>1, <1>3 DEF NegotiationRecord
  <2>2. negotiations' = [negotiations EXCEPT ![n] = agreed]
    BY <1>6
  <2> HIDE DEF agreed, n
  <2> QED
    BY <1>3, <2>1, <2>2, ExceptSeq DEF NInv, NegotiationTypes, AuctionsStay
<1>9. /\ bids' \in Seq(BidRecord) /\ Len(bids') = Len(bids)
      /\ \A i \in 1 .. Len(bids) : /\ bids'[i].price = bids[i].price
                                   /\ bids'[i].negotiation = bids[i].negotiation
  <2> DEFINE Marked(i) == CASE i = b -> [bids[i] EXCEPT !.isWinning = TRUE]
                            [] i # b /\ bids[i].negotiation = n -> [bids[i] EXCEPT !.isRejected = TRUE]
                            [] OTHER -> bids[i]
  <2>1. bids' = [i \in 1 .. Len(bids) |-> Marked(i)]
    BY Members DEF AcceptBid
  <2>2. ASSUME NEW i \in 1 .. Len(bids)
        PROVE  /\ Marked(i) \in BidRecord /\ Marked(i).price = bids[i].price
               /\ Marked(i).negotiation = bids[i].negotiation
    <3>1. bids[i] \in BidRecord
      BY Members
    <3> HIDE DEF n
    <3> QED BY <3>1 DEF BidRecord
  <2> HIDE DEF Marked
  <2>3. bids' \in [1 .. Len(bids) -> BidRecord] /\ Len(bids) \in Nat
    BY <2>1, <2>2, Members
  <2>4. bids' \in Seq(BidRecord) /\ Len(bids') = Len(bids)
    BY <2>3, IsASeq, LenProperties
  <2> QED
    BY <2>1, <2>2, <2>4
<1>10. NegotiationTypes'
  BY <1>6, <1>7, <1>8, <1>9 DEF NInv, NegotiationTypes
<1>11. \A i \in 1 .. Len(contracts') : i <= Len(contracts) \/ i = Len(contracts) + 1
  BY <1>7, Members
<1>12. \A i \in 1 .. Len(contracts') :
          \/ i <= Len(contracts) /\ contracts'[i] = contracts[i]
          \/ Sound(contracts'[i])
  <2> HIDE DEF new
  <2> QED BY <1>5, <1>7, <1>11, Members
<1>13. \A i \in 1 .. Len(bids') : ~ i > Len(bids)
  BY <1>9, Members
<1>14. /\ Len(bids') >= Len(bids) /\ Len(contracts') >= Len(contracts)
       /\ \A i \in 1 .. Len(approvals') : approvals'[i].contract \in 1 .. Len(contracts)
  BY <1>6, <1>7, <1>9, Members DEF NInv
<1> HIDE DEF n, k, waits, c, new
<1> QED
  BY <1>8, <1>9, <1>10, <1>12, <1>13, <1>14, ContractsKeep

\* One contract is rewritten to a sound one, and the auctions keep their maxima.
LEMMA RewritingKeeps ==
    ASSUME NInv, NEW c \in 1 .. Len(contracts), NEW r \in ContractRecord, Sound(r),
           contracts' = [contracts EXCEPT ![c] = r], UNCHANGED bids,
           AuctionsStay, negotiations' \in Seq(NegotiationRecord),
           approvals' \in Seq(ApprovalRecord),
           \A i \in 1 .. Len(approvals') : approvals'[i].contract \in 1 .. Len(contracts)
    PROVE  NInv'
<1>1. /\ contracts' \in Seq(ContractRecord) /\ Len(contracts') = Len(contracts)
      /\ \A i \in 1 .. Len(contracts) : contracts'[i] = IF i = c THEN r ELSE contracts[i]
  BY ExceptSeq DEF NInv, NegotiationTypes
<1>2. NegotiationTypes'
  BY <1>1 DEF NInv, NegotiationTypes
<1>3. \A i \in 1 .. Len(contracts') :
          \/ i <= Len(contracts) /\ contracts'[i] = contracts[i]
          \/ Sound(contracts'[i])
  BY <1>1, Members
<1>4. /\ Len(bids') >= Len(bids) /\ Len(contracts') >= Len(contracts)
      /\ \A b \in 1 .. Len(bids') : ~ b > Len(bids)
  BY <1>1, Members
<1>5. \A b \in 1 .. Len(bids) : /\ bids'[b].price = bids[b].price
                                /\ bids'[b].negotiation = bids[b].negotiation
  OBVIOUS
<1>6. \A b \in 1 .. Len(bids') :
         b > Len(bids) => Within(bids'[b].price, bids'[b].negotiation)
  BY <1>4
<1> QED
  BY <1>2, <1>3, <1>4, <1>5, <1>6, ContractsKeep

LEMMA CompleteContractKeeps ==
    ASSUME NInv, NEW c \in DOMAIN contracts, NEW a \in Agents, CompleteContract(c, a)
    PROVE  NInv'
<1> DEFINE done == contracts[c].done \cup {a}
           r == [contracts[c] EXCEPT !.done = done,
                    !.status = IF done = contracts[c].parties THEN "completed" ELSE @]
<1>1. c \in 1 .. Len(contracts) /\ contracts[c] \in ContractRecord /\ Sound(contracts[c])
  BY Members DEF NInv
<1>2. contracts[c].status = "active"
  BY DEF CompleteContract
<1>3. r \in ContractRecord /\ Sound(r)
  BY <1>1, <1>2 DEF ContractRecord, Sound
<1>4. contracts' = [contracts EXCEPT ![c] = r] /\ UNCHANGED <<negotiations, bids, approvals>>
  BY DEF CompleteContract
<1> HIDE DEF r
<1>5. AuctionsStay /\ negotiations' \in Seq(NegotiationRecord) /\ approvals' \in Seq(ApprovalRecord)
  BY <1>4, Members DEF NInv, NegotiationTypes, AuctionsStay
<1>6. \A i \in 1 .. Len(approvals') : approvals'[i].contract \in 1 .. Len(contracts)
  BY <1>4 DEF NInv
<1> QED
  BY <1>1, <1>3, <1>4, <1>5, <1>6, RewritingKeeps

LEMMA ApprovedSound ==
    ASSUME NInv, NEW c \in 1 .. Len(contracts), Approved(c)
    PROVE  \E r \in ContractRecord : Sound(r) /\ contracts' = [contracts EXCEPT ![c] = r]
<1> DEFINE r == [contracts[c] EXCEPT !.status = "active", !.approved = TRUE]
<1>1. contracts[c] \in ContractRecord /\ Sound(contracts[c])
  BY Members DEF NInv
<1>2. r \in ContractRecord /\ Sound(r)
  BY <1>1 DEF ContractRecord, Sound
<1>3. contracts' = [contracts EXCEPT ![c] = r]
  BY DEF Approved
<1> QED
  BY <1>2, <1>3

LEMMA ApproveContractKeeps ==
    ASSUME NInv, NEW c \in DOMAIN contracts, ApproveContract(c)
    PROVE  NInv'
<1>1. c \in 1 .. Len(contracts) /\ Approved(c) /\ UNCHANGED <<negotiations, bids, approvals>>
  BY Members DEF ApproveContract
<1>2. PICK r \in ContractRecord : Sound(r) /\ contracts' = [contracts EXCEPT ![c] = r]
  BY <1>1, ApprovedSound
<1>3. AuctionsStay /\ negotiations' \in Seq(NegotiationRecord) /\ approvals' \in Seq(ApprovalRecord)
  BY <1>1, Members DEF NInv, NegotiationTypes, AuctionsStay
<1>4. \A i \in 1 .. Len(approvals') : approvals'[i].contract \in 1 .. Len(contracts)
  BY <1>1 DEF NInv
<1> QED
  BY <1>1, <1>2, <1>3, <1>4, RewritingKeeps

LEMMA RejectContractKeeps ==
    ASSUME NInv, NEW c \in DOMAIN contracts, RejectContract(c)
    PROVE  NInv'
<1> DEFINE n == contracts[c].negotiation
           r == [contracts[c] EXCEPT !.status = "cancelled"]
           open == [negotiations[n] EXCEPT !.status = "bidding", !.winner = 0, !.contract = 0]
<1>1. c \in 1 .. Len(contracts) /\ contracts[c] \in ContractRecord /\ Sound(contracts[c])
  BY Members DEF NInv
<1>2. r \in ContractRecord /\ Sound(r)
  BY <1>1 DEF ContractRecord, Sound
<1>3. n \in 1 .. Len(negotiations) /\ negotiations[n] \in NegotiationRecord
  BY <1>1, Members DEF Sound, Within
<1>4. open \in NegotiationRecord /\ open.maximum = negotiations[n].maximum
  BY <1>3 DEF NegotiationRecord
<1>5. /\ contracts' = [contracts EXCEPT ![c] = r] /\ UNCHANGED <<bids, approvals>>
      /\ negotiations' = [negotiations EXCEPT ![n] = open]
  BY DEF RejectContract
<1> HIDE DEF r, open, n
<1>6. negotiations' \in Seq(NegotiationRecord) /\ AuctionsStay
  BY <1>3, <1>4, <1>5, ExceptSeq DEF NInv, NegotiationTypes, AuctionsStay
<1> QED
  BY <1>1, <1>2, <1>5, <1>6, RewritingKeeps DEF NInv, NegotiationTypes

LEMMA RequestApprovalKeeps ==
    ASSUME NInv, NEW c \in DOMAIN contracts, RequestApproval(c)
    PROVE  NInv'
<1> DEFINE new == [contract |-> c, status |-> "pending"]
<1>1. c \in 1 .. Len(contracts) /\ contracts[c] \in ContractRecord /\ Sound(contracts[c])
  BY Members DEF NInv
<1>2. new \in ApprovalRecord /\ new.contract = c
  BY <1>1, Members DEF ApprovalRecord
<1>3. approvals' = Append(approvals, new) /\ UNCHANGED <<negotiations, bids, contracts>>
  BY DEF RequestApproval
<1> HIDE DEF new
<1>4. approvals' \in Seq(ApprovalRecord) /\ Len(approvals') = Len(approvals) + 1
      /\ approvals'[Len(approvals) + 1] = new
      /\ \A i \in 1 .. Len(approvals) : approvals'[i] = approvals[i]
  BY <1>2, <1>3, AppendProperties DEF NInv, NegotiationTypes
<1>5. \A i \in 1 .. Len(approvals') : approvals'[i].contract \in 1 .. Len(contracts)
  <2>1. Len(approvals) \in Nat
    BY DEF NInv, NegotiationTypes
  <2>2. \A i \in 1 .. Len(approvals') : i \in 1 .. Len(approvals) \/ i = Len(approvals) + 1
    BY <1>4, <2>1
  <2> QED
    BY <1>1, <1>2, <1>4, <2>2 DEF NInv
<1>6. NegotiationTypes' /\ AuctionsStay
  BY <1>3, <1>4, Members DEF NInv, NegotiationTypes, AuctionsStay
<1> QED
  BY <1>3, <1>5, <1>6, Members, ContractsKeep

LEMMA DecideApprovalKeeps ==
    ASSUME NInv, NEW i \in DOMAIN approvals, NEW decision \in {"approved", "rejected"},
           DecideApproval(i, decision)
    PROVE  NInv'
<1> DEFINE c == approvals[i].contract
           decided == [approvals[i] EXCEPT !.status = decision]
<1>1. i \in 1 .. Len(approvals) /\ approvals[i] \in ApprovalRecord /\ c \in 1 .. Len(contracts)
  BY Members DEF NInv
<1>2. decided \in ApprovalRecord /\ decided.contract = c
  BY <1>1 DEF ApprovalRecord
<1>3. approvals' = [approvals EXCEPT ![i] = decided] /\ UNCHANGED <<negotiations, bids>>
  BY DEF DecideApproval
<1>4. /\ approvals' \in Seq(ApprovalRecord)
      /\ \A j \in 1 .. Len(approvals') : approvals'[j].contract \in 1 .. Len(contracts)
  <2> HIDE DEF decided
  <2>1. /\ approvals' \in Seq(ApprovalRecord) /\ Len(approvals') = Len(approvals)
        /\ \A j \in 1 .. Len(approvals) : approvals'[j] = IF j = i THEN decided ELSE approvals[j]
    BY <1>1, <1>2, <1>3, ExceptSeq DEF NInv, NegotiationTypes
  <2> QED
    BY <1>1, <1>2, <2>1 DEF NInv
<1>5. AuctionsStay /\ negotiations' \in Seq(NegotiationRecord)
  BY <1>3, Members DEF AuctionsStay, NInv, NegotiationTypes
<1> HIDE DEF c, decided
<1>6. CASE Approved(c)
  <2>1. PICK r \in ContractRecord : Sound(r) /\ contracts' = [contracts EXCEPT ![c] = r]
    BY <1>1, <1>6, ApprovedSound
  <2> QED
    BY <1>1, <1>3, <1>4, <1>5, <2>1, RewritingKeeps
<1>7. CASE UNCHANGED contracts
  <2>1. NegotiationTypes'
    BY <1>3, <1>4, <1>7 DEF NInv, NegotiationTypes
  <2> QED
    BY <1>3, <1>4, <1>5, <1>7, <2>1, Members, ContractsKeep DEF NInv
<1> QED
  BY <1>6, <1>7 DEF DecideApproval, c

LEMMA NInvInit == NegotiationInit => NInv
BY DEF NegotiationInit, NInv, NegotiationTypes

LEMMA NegotiationStep == NInv /\ [NegotiationsNext]_<<ModeVars, NegotiationVars>> => NInv'
<1> SUFFICES ASSUME NInv, [NegotiationsNext]_<<ModeVars, NegotiationVars>> PROVE NInv'
  OBVIOUS
<1>1. CASE UNCHANGED NegotiationVars
  <2>1. UNCHANGED <<negotiations, bids, contracts, approvals>>
    BY <1>1 DEF NegotiationVars
  <2>2. NegotiationTypes' /\ AuctionsStay
    BY <2>1, Members DEF NInv, NegotiationTypes, AuctionsStay
  <2> QED
    BY <2>1, <2>2, Members, ContractsKeep DEF NInv
<1>2. CASE NegotiationNext
  <2>1. ASSUME NEW a \in Agents, NEW maximum \in Prices \cup {0}, CreateAuction(a, maximum)
        PROVE  NInv'
    BY <2>1, CreateAuctionKeeps
  <2>2. ASSUME NEW a \in Agents, NEW n \in DOMAIN negotiations, NEW price \in Prices,
               SubmitBid(a, n, price)
        PROVE  NInv'
    BY <2>2, SubmitBidKeeps
  <2>3. ASSUME NEW b \in DOMAIN bids, AcceptBid(b) PROVE NInv'
    BY <2>3, AcceptBidKeeps
  <2>4. ASSUME NEW c \in DOMAIN contracts,
               \/ \E a \in Agents : CompleteContract(c, a)
               \/ ApproveContract(c) \/ RejectContract(c) \/ RequestApproval(c)
        PROVE  NInv'
    BY <2>4, CompleteContractKeeps, ApproveContractKeeps, RejectContractKeeps, RequestApprovalKeeps
  <2>5. ASSUME NEW i \in DOMAIN approvals, NEW decision \in {"approved", "rejected"},
               DecideApproval(i, decision)
        PROVE  NInv'
    BY <2>5, DecideApprovalKeeps
  <2> QED
    BY <1>2, <2>1, <2>2, <2>3, <2>4, <2>5 DEF NegotiationNext
<1> QED
  BY <1>1, <1>2 DEF NegotiationsNext, NegotiationVars

\* No contract binds above its auction's maximum, and none that had to wait
\* binds before somebody has approved it, however bids are accepted again,
\* contracts rejected, auctions reopened and approvals decided late
\* (negotiation.py:347, 526, 546; routers_autonomy.py:1360).
THEOREM BindingContractsApproved == NegotiationSpec => []BindingIsApproved
<1>1. NInv => BindingIsApproved
  <2> SUFFICES ASSUME NInv, NEW c \in DOMAIN contracts,
                      contracts[c].status \in {"active", "completed"}
               PROVE  /\ contracts[c].waited => contracts[c].approved
                      /\ negotiations[contracts[c].negotiation].maximum # 0 =>
                            contracts[c].value <= negotiations[contracts[c].negotiation].maximum
    BY DEF BindingIsApproved
  <2>1. Sound(contracts[c])
    BY Members DEF NInv
  <2> QED
    BY <2>1 DEF Sound, Within
<1> QED
  BY NInvInit, NegotiationStep, <1>1, PTL DEF NegotiationSpec
=============================================================================

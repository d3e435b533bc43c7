---------------------------- MODULE RunLoopProofs ----------------------------
(***************************************************************************)
(* One run, for every value of the constants: the bound on its iterations, *)
(* what the verifier's window can hold, and what a rollback leaves.        *)
(*                                                                         *)
(* The stream of its steps: one runner at a time works on the session, and *)
(* none when it is completed or was read as completed, as long as every    *)
(* approval is written to a session that still waits.                      *)
(***************************************************************************)
EXTENDS RunLoop, SessionStream, FiniteSetTheorems, TLAPS

Reports == [status : {"stable", "warning", "unstable", "critical"}, action : Actions]

(* Every check of the stabilizer gives a report (loop_stabilizer.py:222-381).  *)
LEMMA CheckTypes ==
    ASSUME NEW i, NEW e, NEW p, NEW a, NEW h, NEW t, NEW k \in 1 .. 6
    PROVE  Checks(i, e, p, a, h, t)[k] \in Reports
<1>1. CheckMaxIterations(i) \in Reports
  BY DEF CheckMaxIterations, Report, None, Reports, Actions
<1>2. CheckErrors(e) \in Reports
  BY DEF CheckErrors, Report, None, Reports, Actions
<1>3. CheckStagnation(p) \in Reports
  BY DEF CheckStagnation, Report, None, Reports, Actions
<1>4. CheckOscillation(a) \in Reports
  BY DEF CheckOscillation, Report, None, Reports, Actions
<1>5. CheckLoops(h) \in Reports
  BY DEF CheckLoops, Report, None, Reports, Actions
<1>6. CheckTimeout(t) \in Reports
  BY DEF CheckTimeout, Report, None, Reports, Actions
<1> QED
  BY <1>1, <1>2, <1>3, <1>4, <1>5, <1>6 DEF Checks

LEMMA SeverityBound ==
    ASSUME NEW r \in Reports
    PROVE  Severity(r.status) \in 0 .. 3
BY DEF Reports, Severity

(* At the cap the stabilizer asks for an abort, whatever else it finds: the    *)
(* check of the cap is critical and comes first (loop_stabilizer.py:178-220).  *)
LEMMA CapAborts ==
    ASSUME NEW i \in Nat, i >= MaxIterations, NEW e, NEW p, NEW a, NEW h, NEW t
    PROVE  Worst(Checks(i, e, p, a, h, t)).action = "abort"
<1> DEFINE checks == Checks(i, e, p, a, h, t)
           S(j) == Severity(checks[j].status)
           First(k) == /\ \A j \in DOMAIN checks : S(j) <= S(k)
                       /\ \A j \in 1 .. k - 1 : S(j) < S(k)
<1>1. DOMAIN checks = 1 .. 6
  BY DEF Checks
<1>2. checks[1] = Report("critical", "abort")
  BY DEF Checks, CheckMaxIterations
<1>3. S(1) = 3
  BY <1>2 DEF Report, Severity
<1>4. \A j \in 1 .. 6 : S(j) \in 0 .. 3
  BY CheckTypes, SeverityBound
<1> HIDE DEF checks
<1>5. First(1)
  BY <1>1, <1>3, <1>4
<1>6. \A k \in DOMAIN checks : First(k) => k = 1
  <2>1. SUFFICES ASSUME NEW k \in 1 .. 6, First(k), k # 1 PROVE FALSE
    BY <1>1
  <2>2. S(1) < S(k)
    BY <2>1
  <2> QED
    BY <2>2, <1>3, <1>4
<1>7. (CHOOSE k \in DOMAIN checks : First(k)) = 1
  BY <1>1, <1>5, <1>6
<1>8. Worst(checks) = checks[1]
  BY <1>7 DEF Worst
<1> QED
  BY <1>8, <1>2 DEF checks, Report

(* The bound, with the types it needs.                                         *)
IInv ==
    /\ iter \in Nat
    /\ RunBounded

(* A step from a running session leaves it stopped if it was the last one.     *)
LEMMA IterateBounded ==
    ASSUME IInv, NEW k \in StepKinds, Iterate(k)
    PROVE  IInv'
<1> DEFINE r == Result(k)
<1>1. sessionStatus = "running" /\ iter \in Nat /\ iter < MaxIterations
  BY DEF Iterate, IInv, RunBounded
<1>2. iter' = iter + 1
  BY DEF Iterate, RecordStep
<1>3. PICK a \in Actions : Advised(a) /\ sessionStatus' \in Outcomes(r, a)
  BY DEF Iterate
<1>4. CASE iter' < MaxIterations
  BY <1>1, <1>2, <1>4 DEF IInv, RunBounded
<1>5. CASE iter' >= MaxIterations
  <2>1. iter' = MaxIterations /\ iter' \in Nat
    BY <1>1, <1>2, <1>5, CountsAssumption
  <2>2. a = "abort"
    BY <1>3, <1>5, <2>1, CapAborts DEF Advised
  <2>3. sessionStatus' = Recovered(steps')
    BY <1>3, <2>2 DEF Outcomes
  <2>4. sessionStatus' # "running"
    BY <2>3 DEF Recovered
  <2> QED
    BY <2>1, <2>4 DEF IInv, RunBounded
<1> QED
  BY <1>1, <1>2, <1>4, <1>5, CountsAssumption

(* A run never takes more than MaxIterations steps, however many loops the     *)
(* agent is configured with (loop_stabilizer.py:224, executor.py:2766).        *)
THEOREM RunsAreBounded == LoopSpec => []RunBounded
<1>1. LoopInit => IInv
  BY CountsAssumption DEF LoopInit, IInv, RunBounded
<1>2. IInv /\ [LoopNext]_LoopVars => IInv'
  <2> SUFFICES ASSUME IInv, [LoopNext]_LoopVars PROVE IInv'
    OBVIOUS
  <2>1. CASE LoopLimit
    BY <2>1 DEF LoopLimit, IInv, RunBounded
  <2>2. ASSUME NEW k \in StepKinds, Iterate(k) PROVE IInv'
    BY <2>2, IterateBounded
  <2>3. CASE UNCHANGED LoopVars
    BY <2>3 DEF LoopVars, IInv, RunBounded
  <2> QED
    BY <2>1, <2>2, <2>3 DEF LoopNext
<1>3. IInv => RunBounded
  BY DEF IInv
<1> QED
  BY <1>1, <1>2, <1>3, PTL DEF LoopSpec

-----------------------------------------------------------------------------
(* The window of the verifier.                                                 *)

Places(q, x) == {i \in 1 .. Len(q) : q[i] = x}

LEMMA PlacesFinite ==
    ASSUME NEW S, NEW q \in Seq(S), NEW x
    PROVE  IsFiniteSet(Places(q, x)) /\ Occurs(q, x) \in Nat
<1>1. IsFiniteSet(1 .. Len(q))
  BY FS_Interval
<1>2. IsFiniteSet(Places(q, x))
  BY <1>1, FS_Subset DEF Places
<1> QED
  BY <1>2, FS_CardinalityType DEF Occurs, Places

(* An element appended adds one occurrence of itself and none of another.      *)
LEMMA OccursAppend ==
    ASSUME NEW S, NEW q \in Seq(S), NEW y \in S, NEW x
    PROVE  Occurs(Append(q, y), x) = IF x = y THEN Occurs(q, x) + 1 ELSE Occurs(q, x)
<1>1. CASE x = y
  <2>1. Places(Append(q, y), x) = Places(q, x) \cup {Len(q) + 1}
    BY <1>1 DEF Places
  <2>2. Len(q) + 1 \notin Places(q, x)
    BY DEF Places
  <2>3. IsFiniteSet(Places(q, x))
    BY PlacesFinite
  <2>4. Cardinality(Places(q, x) \cup {Len(q) + 1}) = Cardinality(Places(q, x)) + 1
    BY <2>2, <2>3, FS_AddElement
  <2>5. /\ Occurs(Append(q, y), x) = Cardinality(Places(Append(q, y), x))
        /\ Occurs(q, x) = Cardinality(Places(q, x))
    BY DEF Occurs, Places
  <2> QED
    BY <1>1, <2>1, <2>4, <2>5
<1>2. CASE x # y
  <2>1. Places(Append(q, y), x) = Places(q, x)
    BY <1>2 DEF Places
  <2> QED
    BY <1>2, <2>1 DEF Occurs, Places
<1> QED
  BY <1>1, <1>2

(* The recent elements of a sequence hold no more occurrences than the whole.  *)
LEMMA OccursRecent ==
    ASSUME NEW S, NEW q \in Seq(S), NEW k \in Nat \ {0}, NEW x
    PROVE  /\ Recent(q, k) \in Seq(S)
           /\ Occurs(Recent(q, k), x) <= Occurs(q, x)
<1>1. CASE Len(q) <= k
  BY <1>1, PlacesFinite DEF Recent
<1>2. CASE Len(q) > k
  <2> DEFINE w == SubSeq(q, Len(q) - k + 1, Len(q))
             f == [i \in Places(w, x) |-> Len(q) - k + i]
  <2>1. Recent(q, k) = w
    BY <1>2 DEF Recent
  <2>2. w \in Seq(S) /\ Len(w) = k /\ \A i \in 1 .. k : w[i] = q[Len(q) - k + i]
    BY <1>2
  <2>3. \A i \in Places(w, x) : i \in 1 .. k /\ Len(q) - k + i \in Places(q, x)
    BY <1>2, <2>2 DEF Places
  <2>4. \A i, j \in Places(w, x) : f[i] = f[j] => i = j
    BY <2>3
  <2>5. f \in [Places(w, x) -> Places(q, x)]
    BY <2>3
  <2>6. f \in Injection(Places(w, x), Places(q, x))
    BY <2>4, <2>5 DEF Injection, IsInjective
  <2>7. Cardinality(Places(w, x)) <= Cardinality(Places(q, x))
    BY <2>6, PlacesFinite, FS_Injection
  <2> QED
    BY <2>1, <2>2, <2>7 DEF Occurs, Places
<1> QED
  BY <1>1, <1>2

Texts == {"{}", "null", "thought", "finalize_audio_podcast", "web_search"}

LEMMA HashType ==
    ASSUME NEW k \in StepKinds
    PROVE  Hash(Result(k)) \in Texts \X Texts
<1>1. CASE k = "finalize"
  BY <1>1 DEF Hash, Result, Tool, Blank, Texts
<1>2. CASE k = "search"
  BY <1>2 DEF Hash, Result, Tool, Blank, Texts
<1>3. CASE k = "think"
  BY <1>3 DEF Hash, Result, Tool, Blank, Texts
<1>4. CASE k = "error"
  BY <1>4 DEF Hash, Result, Tool, Blank, Texts
<1>5. CASE k = "respond"
  BY <1>5 DEF Hash, Result, Tool, Blank, Texts
<1>6. CASE k = "gated"
  BY <1>6 DEF Hash, Result, Tool, Blank, Texts
<1>7. CASE k = "answer"
  BY <1>7 DEF Hash, Result, Tool, Blank, Texts
<1> QED
  BY <1>1, <1>2, <1>3, <1>4, <1>5, <1>6, <1>7, CountsAssumption

(* No text occurs more than twice in the window, so a third occurrence, which  *)
(* is rejected, is the worst the verifier ever sees.                           *)
VInv ==
    /\ seen \in Seq(Texts \X Texts)
    /\ \A x \in Texts \X Texts : Occurs(seen, x) <= 2
    /\ NoLoopVerdict

LEMMA RememberKeeps ==
    ASSUME VInv, NEW k \in StepKinds, Remember(Result(k))
    PROVE  /\ seen' \in Seq(Texts \X Texts)
           /\ \A x \in Texts \X Texts : Occurs(seen', x) <= 2
           /\ Verdict(Result(k)) # "loop"
<1> DEFINE h == Hash(Result(k))
           S == Texts \X Texts
<1>1. h \in S /\ seen \in Seq(S) /\ Occurs(seen, h) \in Nat /\ Occurs(seen, h) <= 2
  BY HashType, PlacesFinite DEF VInv
<1>2. Verdict(Result(k)) # "loop"
  BY <1>1 DEF Verdict
<1>3. CASE Verdict(Result(k)) # "approved"
  BY <1>2, <1>3 DEF VInv, Remember
<1>4. CASE Verdict(Result(k)) = "approved"
  <2>1. Occurs(seen, h) < 2
    BY <1>1, <1>4 DEF Verdict
  <2>2. seen' = Recent(Append(seen, h), HashWindow)
    BY <1>4 DEF Remember
  <2>3. Append(seen, h) \in Seq(S) /\ HashWindow \in Nat \ {0}
    BY <1>1, CountsAssumption
  <2>4. \A x \in S : Occurs(Append(seen, h), x) \in Nat /\ Occurs(Append(seen, h), x) <= 2
    <3> TAKE x \in S
    <3>1. Occurs(seen, x) \in Nat /\ Occurs(seen, x) <= 2
      BY <1>1, PlacesFinite DEF VInv
    <3>2. Occurs(Append(seen, h), x) = IF x = h THEN Occurs(seen, x) + 1 ELSE Occurs(seen, x)
      BY <1>1, OccursAppend
    <3> QED
      BY <2>1, <3>1, <3>2
  <2>5. seen' \in Seq(S) /\ \A x \in S : Occurs(seen', x) <= Occurs(Append(seen, h), x)
    BY <2>2, <2>3, OccursRecent
  <2>6. \A x \in S : Occurs(seen', x) \in Nat
    BY <2>5, PlacesFinite
  <2> QED
    BY <1>2, <2>4, <2>5, <2>6
<1> QED
  BY <1>3, <1>4

(* The verifier's own verdict of a loop never ends a run (verifier.py:304-312): *)
(* it needs three occurrences in its window, and the second repetition is not   *)
(* recorded.                                                                    *)
THEOREM NeverALoopVerdict == LoopSpec => []NoLoopVerdict
<1>1. LoopInit => VInv
  <2> SUFFICES ASSUME LoopInit PROVE VInv
    OBVIOUS
  <2>1. seen = <<>> /\ last.verdict = "none"
    BY DEF LoopInit
  <2>2. \A x : Occurs(seen, x) = 0
    <3> TAKE x
    <3>1. {i \in 1 .. Len(seen) : seen[i] = x} = {}
      BY <2>1
    <3> QED
      BY <3>1, FS_EmptySet DEF Occurs
  <2> QED
    BY <2>1, <2>2 DEF VInv, NoLoopVerdict
<1>2. VInv /\ [LoopNext]_LoopVars => VInv'
  <2> SUFFICES ASSUME VInv, [LoopNext]_LoopVars PROVE VInv'
    OBVIOUS
  <2>1. ASSUME NEW k \in StepKinds, Iterate(k) PROVE VInv'
    <3>1. Remember(Result(k)) /\ last'.verdict = Verdict(Result(k))
      BY <2>1 DEF Iterate
    <3> QED
      BY <3>1, RememberKeeps DEF VInv, NoLoopVerdict
  <2>2. CASE LoopLimit
    BY <2>2 DEF LoopLimit, VInv, NoLoopVerdict
  <2>3. CASE UNCHANGED LoopVars
    BY <2>3 DEF LoopVars, VInv, NoLoopVerdict
  <2> QED
    BY <2>1, <2>2, <2>3 DEF LoopNext
<1>3. VInv => NoLoopVerdict
  BY DEF VInv
<1> QED
  BY <1>1, <1>2, <1>3, PTL DEF LoopSpec

-----------------------------------------------------------------------------
(* What the model is shown.                                                    *)

(* The context holds results of iterations up to n, in their order.            *)
Ordered(q, n) ==
    /\ q \in Seq(Nat)
    /\ \A i \in 1 .. Len(q) : q[i] <= n /\ (i > 1 => q[i - 1] < q[i])

LEMMA AppendOrdered ==
    ASSUME NEW n \in Nat, NEW q, Ordered(q, n)
    PROVE  Ordered(Append(q, n + 1), n + 1)
<1> DEFINE w == Append(q, n + 1)
<1>1. q \in Seq(Nat) /\ w \in Seq(Nat) /\ Len(w) = Len(q) + 1
  BY DEF Ordered
<1>2. \A i \in 1 .. Len(q) : w[i] = q[i] /\ q[i] \in Nat /\ q[i] <= n
  BY <1>1 DEF Ordered
<1>3. w[Len(q) + 1] = n + 1
  BY <1>1
<1>4. ASSUME NEW i \in 1 .. Len(w)
      PROVE  w[i] <= n + 1 /\ (i > 1 => w[i - 1] < w[i])
  <2>1. CASE i \in 1 .. Len(q)
    <3>1. i > 1 => i - 1 \in 1 .. Len(q) /\ q[i - 1] < q[i]
      BY <1>1, <2>1 DEF Ordered
    <3> QED
      BY <1>2, <2>1, <3>1
  <2>2. CASE i = Len(q) + 1
    <3>1. i > 1 => i - 1 \in 1 .. Len(q)
      BY <1>1, <2>2
    <3> QED
      BY <1>2, <1>3, <2>2, <3>1
  <2> QED
    BY <1>1, <2>1, <2>2
<1> QED
  BY <1>1, <1>4 DEF Ordered

LEMMA RecentOrdered ==
    ASSUME NEW n \in Nat, NEW m \in Nat, n <= m, NEW k \in Nat \ {0}, NEW q,
           Ordered(q, n)
    PROVE  Ordered(Recent(q, k), m)
<1>1. q \in Seq(Nat) /\ \A i \in 1 .. Len(q) : q[i] \in Nat /\ q[i] <= n
  BY DEF Ordered
<1>2. CASE Len(q) <= k
  BY <1>1, <1>2 DEF Recent, Ordered
<1>3. CASE Len(q) > k
  <2> DEFINE w == SubSeq(q, Len(q) - k + 1, Len(q))
  <2>1. Recent(q, k) = w
    BY <1>3 DEF Recent
  <2>2. w \in Seq(Nat) /\ Len(w) = k /\ \A i \in 1 .. k : w[i] = q[Len(q) - k + i]
    BY <1>1, <1>3
  <2>3. ASSUME NEW i \in 1 .. k
        PROVE  w[i] <= m /\ (i > 1 => w[i - 1] < w[i])
    <3> DEFINE j == Len(q) - k + i
    <3>1. j \in 1 .. Len(q) /\ (i > 1 => j > 1 /\ i - 1 \in 1 .. k)
      BY <1>1, <1>3
    <3>2. w[i] = q[j] /\ q[j] <= n /\ q[j] \in Nat
      BY <1>1, <2>2, <3>1
    <3>3. i > 1 => w[i - 1] = q[j - 1] /\ q[j - 1] < q[j]
      <4>1. i > 1 => Len(q) - k + (i - 1) = j - 1
        BY <1>1
      <4> QED
        BY <2>2, <3>1, <4>1 DEF Ordered
    <3> QED
      BY <3>2, <3>3
  <2> QED
    BY <2>1, <2>2, <2>3 DEF Ordered
<1> QED
  BY <1>1, <1>2, <1>3

(* A checkpoint keeps what the context was at its iteration.                   *)
HInv ==
    /\ iter \in Nat
    /\ Ordered(hist, iter)
    /\ point \in [iter : 0 .. iter, hist : Seq(Nat)]
    /\ Ordered(point.hist, point.iter)

LEMMA IterateOrdered ==
    ASSUME HInv, NEW k \in StepKinds, Iterate(k)
    PROVE  HInv'
<1> DEFINE r == Result(k)
<1>1. iter \in Nat /\ iter' = iter + 1
  BY DEF Iterate, RecordStep, HInv
<1>2. /\ Ordered(hist, iter) /\ Ordered(point.hist, point.iter)
      /\ point.iter \in Nat /\ point.iter <= iter
  BY DEF HInv
<1>3. hist' = Append(hist, iter') \/ hist' = Recent(point.hist, ContextKept)
  BY DEF Iterate, Context
<1>4. Ordered(hist', iter')
  <2>1. CASE hist' = Append(hist, iter')
    BY <1>1, <1>2, <2>1, AppendOrdered
  <2>2. CASE hist' = Recent(point.hist, ContextKept)
    <3>1. ContextKept \in Nat \ {0} /\ iter' \in Nat /\ point.iter <= iter'
      BY <1>1, <1>2 DEF ContextKept
    <3> QED
      BY <1>2, <2>2, <3>1, RecentOrdered
  <2> QED
    BY <1>3, <2>1, <2>2
<1>5. \/ UNCHANGED point
      \/ point' = [iter |-> iter', hist |-> Recent(hist', PointKept)]
  BY DEF Iterate, Checkpoint
<1>6. CASE UNCHANGED point
  <2>1. point \in [iter : 0 .. iter', hist : Seq(Nat)]
    BY <1>1 DEF HInv
  <2> QED
    BY <1>1, <1>2, <1>4, <1>6, <2>1 DEF HInv
<1>7. CASE point' = [iter |-> iter', hist |-> Recent(hist', PointKept)]
  <2>1. Ordered(Recent(hist', PointKept), iter')
    <3>1. PointKept \in Nat \ {0} /\ iter' \in Nat /\ iter' <= iter'
      BY <1>1 DEF PointKept
    <3> QED
      BY <1>4, <3>1, RecentOrdered
  <2>2. Recent(hist', PointKept) \in Seq(Nat)
    BY <2>1 DEF Ordered
  <2>3. iter' \in Nat /\ iter' \in 0 .. iter'
    BY <1>1
  <2> QED
    BY <1>4, <1>7, <2>1, <2>2, <2>3 DEF HInv
<1> QED
  BY <1>5, <1>6, <1>7

(* After a rollback to a checkpoint the context holds only results from before  *)
(* it, in order, however many steps, checkpoints and rollbacks there were       *)
(* (executor.py:2783-2788).                                                     *)
THEOREM RollbacksForget == LoopSpec => RollbackForgets
<1>1. LoopInit => HInv
  BY DEF LoopInit, HInv, Ordered
<1>2. HInv /\ [LoopNext]_LoopVars => HInv'
  <2> SUFFICES ASSUME HInv, [LoopNext]_LoopVars PROVE HInv'
    OBVIOUS
  <2>1. CASE LoopLimit
    BY <2>1 DEF LoopLimit, HInv, Ordered
  <2>2. ASSUME NEW k \in StepKinds, Iterate(k) PROVE HInv'
    BY <2>2, IterateOrdered
  <2>3. CASE UNCHANGED LoopVars
    BY <2>3 DEF LoopVars, HInv, Ordered
  <2> QED
    BY <2>1, <2>2, <2>3 DEF LoopNext
<1>3. HInv /\ [LoopNext]_LoopVars =>
        [(last' # last /\ last'.action = "rollback" /\ point.iter > 0)
          => \A i \in 1 .. Len(hist') :
                hist'[i] <= point.iter /\ (i > 1 => hist'[i - 1] < hist'[i])]_LoopVars
  <2> SUFFICES ASSUME HInv, LoopNext, last' # last, last'.action = "rollback",
                      point.iter > 0
               PROVE  \A i \in 1 .. Len(hist') :
                        hist'[i] <= point.iter /\ (i > 1 => hist'[i - 1] < hist'[i])
    OBVIOUS
  <2>1. PICK k \in StepKinds : Iterate(k)
    BY DEF LoopNext, LoopLimit
  <2>2. hist' = Recent(point.hist, ContextKept)
    BY <2>1 DEF Iterate, Context
  <2>3. /\ point.iter \in Nat /\ point.iter <= point.iter
        /\ ContextKept \in Nat \ {0} /\ Ordered(point.hist, point.iter)
    BY DEF HInv, ContextKept
  <2>4. Ordered(hist', point.iter)
    BY <2>2, <2>3, RecentOrdered
  <2> QED
    BY <2>4 DEF Ordered
<1> QED
  BY <1>1, <1>2, <1>3, PTL DEF LoopSpec, RollbackForgets
-----------------------------------------------------------------------------
(* The event stream of a session, as long as no approval was overtaken.  At    *)
(* most one runner is at work, none on a session that waits or is completed;   *)
(* what is committed has numbers below the runner's next one, and what is not  *)
(* sent has numbers above the last one sent.                                   *)

Numbers == unsent \cup {lastSent}

Alone ==
    /\ \A r, s \in Runners : Active(r) /\ Active(s) => r = s
    /\ row \in {"waiting_approval", "completed"} => \A r \in Runners : ~Active(r)
    /\ polled = "completed" => row # "waiting_approval" /\ \A r \in Runners : ~Active(r)

Numbered ==
    /\ \A n \in unsent : n > lastSent
    /\ row = "waiting_approval" => \A n \in Numbers : n < loops
    /\ \A r \in Runners :
          /\ Active(r) /\ runner[r] # "resume" => count[r] = loops
          /\ Active(r) /\ runner[r] # "thinking" => \A n \in Numbers : n < loops
          /\ runner[r] = "thinking" => \A n \in Numbers : n <= loops

Ended == reader = "done" /\ polled = "completed" => unsent = {}

StreamTypes ==
    /\ loops \in Nat /\ count \in [Runners -> Nat]
    /\ lastSent \in Int /\ unsent \subseteq Nat
    /\ runner \in [Runners -> {"none", "done", "plan", "planning", "top", "thinking",
                              "decide", "limit", "resume"}]

StreamInv == StreamTypes /\ (~overtaken => Alone /\ Numbered /\ Ended)

(* A runner's step is of a runner at work, so of the only one.                 *)
LEMMA RunnerTypes ==
    ASSUME StreamTypes, NEW r \in Runners, RunnerStep(r), UNCHANGED <<asked, overtaken>>,
           UNCHANGED ReaderVars
    PROVE  /\ StreamTypes'
           /\ Active(r)
           /\ \A s \in Runners \ {r} : runner'[s] = runner[s] /\ count'[s] = count[s]
<1> USE DEF StreamTypes, RunnerStep, GoTo, EndRun, SetStatus, Active, ReaderVars
<1>1. CASE Intercept(r) \/ BeginPlan(r) \/ EndPlan(r)
  <2>1. CASE Intercept(r)
    <3>1. unsent' \subseteq Nat
      <4>1. unsent \subseteq Nat /\ 1 \in Nat
        OBVIOUS
      <4>2. unsent' = unsent \cup {1} \/ unsent' = unsent
        BY <2>1 DEF Intercept
      <4> HIDE DEF StreamTypes
      <4> QED
        BY <4>1, <4>2
    <3> QED
      BY <2>1, <3>1 DEF Intercept
  <2>2. CASE BeginPlan(r) \/ EndPlan(r)
    BY <2>2 DEF BeginPlan, EndPlan
  <2> QED
    BY <1>1, <2>1, <2>2
<1>2. CASE BeginStep(r)
  BY <1>2 DEF BeginStep
<1>3. CASE EndStep(r)
  BY <1>3 DEF EndStep
<1>4. CASE Decide(r) \/ Limit(r) \/ Cut(r)
  BY <1>4 DEF Decide, Limit, Cut
<1>5. CASE Resume(r)
  BY <1>5 DEF Resume
<1> QED
  BY <1>1, <1>2, <1>3, <1>4, <1>5

(* Only a run that ends completes its session or lets it wait.                 *)
LEMMA RunnerEnds ==
    ASSUME StreamTypes, NEW r \in Runners, RunnerStep(r), Active(r),
           row \notin {"waiting_approval", "completed"},
           row' \in {"waiting_approval", "completed"}
    PROVE  runner'[r] = "done"
<1> USE DEF StreamTypes, RunnerStep, GoTo, EndRun, SetStatus, Active
<1>1. CASE Intercept(r) \/ BeginPlan(r) \/ EndPlan(r)
  BY <1>1 DEF Intercept, BeginPlan, EndPlan
<1>2. CASE BeginStep(r) \/ EndStep(r) \/ Resume(r)
  BY <1>2 DEF BeginStep, EndStep, Resume
<1>3. CASE Decide(r) \/ Limit(r) \/ Cut(r)
  BY <1>3 DEF Decide, Limit, Cut
<1> QED
  BY <1>1, <1>2, <1>3

LEMMA RunnerNumbers ==
    ASSUME StreamTypes, Numbered, NEW r \in Runners, RunnerStep(r), Active(r),
           UNCHANGED ReaderVars
    PROVE  /\ \A n \in unsent' : n > lastSent'
           /\ Active(r)' /\ runner'[r] # "resume" => count'[r] = loops'
           /\ Active(r)' /\ runner'[r] # "thinking" => \A n \in Numbers' : n < loops'
           /\ runner'[r] = "thinking" => \A n \in Numbers' : n <= loops'
           /\ row' = "waiting_approval" /\ row # "waiting_approval" =>
                 \A n \in Numbers' : n < loops'
<1> USE DEF StreamTypes, GoTo, EndRun, SetStatus, Active, ReaderVars, Numbers
<1>1. /\ \A n \in unsent : n > lastSent
      /\ runner[r] # "resume" => count[r] = loops
      /\ runner[r] # "thinking" => \A n \in Numbers : n < loops
      /\ runner[r] = "thinking" => \A n \in Numbers : n <= loops
  BY DEF Numbered
<1>2. CASE Intercept(r)
  <2>1. /\ runner'[r] = "done" /\ UNCHANGED lastSent
        /\ row' = "waiting_approval" => row = "waiting_approval"
    BY <1>2 DEF Intercept
  <2>2. \A n \in unsent' : n > lastSent'
    <3>1. CASE count[r] = 0 /\ unsent' = unsent \cup {1}
      <4>1. lastSent < 0 /\ runner[r] = "plan"
        BY <1>1, <1>2, <3>1 DEF Intercept
      <4> QED
        BY <1>1, <2>1, <3>1, <4>1
    <3>2. CASE unsent' = unsent
      BY <1>1, <2>1, <3>2
    <3> QED
      BY <1>2, <3>1, <3>2 DEF Intercept
  <2> QED
    BY <2>1, <2>2
<1>3. CASE BeginPlan(r) \/ EndPlan(r)
  <2>1. /\ UNCHANGED <<loops, count, unsent, lastSent>> /\ runner[r] \in {"plan", "planning"}
        /\ runner'[r] \in {"planning", "top", "done"}
        /\ row' = "waiting_approval" => row = "waiting_approval"
    BY <1>3 DEF BeginPlan, EndPlan
  <2> QED
    BY <1>1, <2>1
<1>4. CASE BeginStep(r)
  <2>1. /\ runner[r] = "top" /\ UNCHANGED <<row, loops, lastSent>>
        /\ count[r] = loops /\ \A n \in Numbers : n < loops
    BY <1>1, <1>4 DEF BeginStep
  <2>2. CASE runner'[r] = "limit" /\ UNCHANGED unsent
    BY <1>1, <1>4, <2>1, <2>2 DEF BeginStep
  <2>3. CASE runner'[r] = "thinking" /\ unsent' = unsent \cup {loops}
    <3>1. count'[r] = loops
      BY <1>4, <2>1 DEF BeginStep
    <3>2. lastSent < loops /\ loops <= loops /\ \A n \in unsent : n <= loops /\ n > lastSent
      BY <1>1, <2>1
    <3> QED
      BY <2>1, <2>3, <3>1, <3>2
  <2> QED
    BY <1>4, <2>2, <2>3 DEF BeginStep
<1>5. CASE EndStep(r)
  BY <1>1, <1>5 DEF EndStep
<1>6. CASE Decide(r)
  BY <1>1, <1>6 DEF Decide
<1>7. CASE Limit(r) \/ Cut(r)
  BY <1>1, <1>7 DEF Limit, Cut
<1>8. CASE Resume(r)
  BY <1>1, <1>8 DEF Resume
<1> QED
  BY <1>2, <1>3, <1>4, <1>5, <1>6, <1>7, <1>8 DEF RunnerStep

LEMMA RunnerKeeps ==
    ASSUME StreamInv, NEW r \in Runners, RunnerStep(r), UNCHANGED <<asked, overtaken>>,
           UNCHANGED ReaderVars
    PROVE  StreamInv'
<1>1. /\ StreamTypes' /\ Active(r)
      /\ \A s \in Runners \ {r} : runner'[s] = runner[s] /\ count'[s] = count[s]
  BY RunnerTypes DEF StreamInv, StreamTypes
<1>2. ASSUME ~overtaken PROVE Alone' /\ Numbered' /\ Ended'
  <2>1. Alone /\ Numbered /\ StreamTypes
    BY <1>2 DEF StreamInv, StreamTypes
  <2>2. \A s \in Runners \ {r} : ~Active(s) /\ ~Active(s)'
    BY <1>1, <2>1 DEF Alone, Active
  <2>3. row \notin {"waiting_approval", "completed"} /\ polled # "completed"
    BY <1>1, <2>1 DEF Alone
  <2>4. row' \in {"waiting_approval", "completed"} => \A s \in Runners : ~Active(s)'
    <3>1. row' \in {"waiting_approval", "completed"} => runner'[r] = "done"
      BY <1>1, <2>1, <2>3, RunnerEnds
    <3> QED
      BY <2>2, <3>1 DEF Active
  <2>5. Alone' /\ Ended'
    BY <2>2, <2>3, <2>4 DEF Alone, Ended, ReaderVars
  <2>6. /\ \A n \in unsent' : n > lastSent'
        /\ Active(r)' /\ runner'[r] # "resume" => count'[r] = loops'
        /\ Active(r)' /\ runner'[r] # "thinking" => \A n \in Numbers' : n < loops'
        /\ runner'[r] = "thinking" => \A n \in Numbers' : n <= loops'
        /\ row' = "waiting_approval" => \A n \in Numbers' : n < loops'
    BY <1>1, <2>1, <2>3, RunnerNumbers
  <2>7. \A s \in Runners \ {r} : ~Active(s)' /\ runner'[s] # "thinking"
    BY <2>2 DEF Active
  <2>8. Numbered'
    BY <2>6, <2>7 DEF Numbered
  <2> QED
    BY <2>5, <2>8
<1> QED
  BY <1>1, <1>2 DEF StreamInv, StreamTypes

(* A request writes the row; an approval that was not overtaken finds nobody   *)
(* at work.                                                                    *)
LEMMA RequestKeeps ==
    ASSUME StreamInv, UNCHANGED ReaderVars,
           Cancel \/ FailOrphans \/ DecideRead \/ ApproveWrite \/ RejectWrite
    PROVE  StreamInv'
<1> USE DEF ReaderVars, RunnerVars, RowVars
<1>1. CASE Cancel \/ FailOrphans \/ RejectWrite
  <2>1. /\ UNCHANGED <<loops, runner, believed, count, overtaken, unsent, lastSent, polled, reader>>
        /\ row' \notin {"waiting_approval", "completed"}
    BY <1>1 DEF Cancel, FailOrphans, RejectWrite
  <2> QED
    BY <2>1 DEF StreamInv, StreamTypes, Alone, Numbered, Numbers, Ended, Active
<1>2. CASE DecideRead
  BY <1>2 DEF DecideRead, StreamInv, StreamTypes, Alone, Numbered, Numbers, Ended, Active
<1>3. CASE ApproveWrite
  <2>1. PICK r \in Runners : ~Active(r) /\ GoTo(r, "resume")
    BY <1>3 DEF ApproveWrite
  <2>2. /\ UNCHANGED <<loops, believed, count, unsent, lastSent, polled, reader>>
        /\ row' = "running" /\ overtaken' = (overtaken \/ row # "waiting_approval")
    BY <1>3 DEF ApproveWrite
  <2>3. /\ runner'[r] = "resume" /\ \A s \in Runners \ {r} : runner'[s] = runner[s]
        /\ runner' \in [Runners -> {"none", "done", "plan", "planning", "top", "thinking",
                                    "decide", "limit", "resume"}]
    BY <2>1 DEF GoTo, StreamInv, StreamTypes
  <2>5. ASSUME ~overtaken' PROVE Alone' /\ Numbered' /\ Ended'
    <3>1. ~overtaken /\ row = "waiting_approval"
      BY <2>2, <2>5 DEF StreamInv, StreamTypes
    <3>2. Alone /\ Numbered /\ Ended
      BY <3>1 DEF StreamInv, StreamTypes
    <3>3. \A s \in Runners : ~Active(s)
      BY <3>1, <3>2 DEF Alone
    <3>4. polled # "completed" /\ \A n \in Numbers : n < loops
      BY <3>1, <3>2 DEF Alone, Numbered
    <3>5. \A s \in Runners \ {r} : ~Active(s)' /\ runner'[s] # "thinking"
      BY <2>3, <3>3 DEF Active
    <3>6. Alone' /\ Ended'
      BY <2>2, <3>4, <3>5 DEF Alone, Ended
    <3>7. Numbered'
      BY <2>2, <2>3, <3>2, <3>4, <3>5 DEF Numbered, Numbers
    <3> QED
      BY <3>6, <3>7
  <2> QED
    BY <2>2, <2>3, <2>5 DEF StreamInv, StreamTypes
<1> QED
  BY <1>1, <1>2, <1>3

LEMMA ReaderKeeps ==
    ASSUME StreamInv, ReadStatus \/ ReadSteps \/ Break
    PROVE  StreamInv'
<1>1. UNCHANGED <<row, loops, runner, believed, count, overtaken>>
  BY DEF ReadStatus, ReadSteps, Break, WriterVars, RowVars, RunnerVars
<1>2. CASE Break
  <2>1. UNCHANGED <<polled, lastSent, unsent>> /\ reader' # "done"
    BY <1>2 DEF Break
  <2> QED
    BY <1>1, <2>1 DEF StreamInv, StreamTypes, Alone, Numbered, Numbers, Ended, Active
<1>3. CASE ReadStatus
  <2>1. polled' = row /\ reader' = "steps" /\ UNCHANGED <<lastSent, unsent>>
    BY <1>3 DEF ReadStatus
  <2> QED
    BY <1>1, <2>1 DEF StreamInv, StreamTypes, Alone, Numbered, Numbers, Ended, Active
<1>4. CASE ReadSteps
  <2>1. polled' = polled /\ unsent' = {n \in unsent : ~(n > lastSent)}
    BY <1>4 DEF ReadSteps, Fresh
  <2>2. lastSent' = lastSent \/ lastSent' \in unsent
    BY <1>4 DEF ReadSteps, Fresh
  <2>3. lastSent' \in Int /\ unsent' \subseteq Nat
    <3>1. unsent \subseteq Nat /\ lastSent \in Int
      BY DEF StreamInv, StreamTypes
    <3>2. unsent' \subseteq unsent
      BY <2>1
    <3>3. unsent \subseteq Int
      BY <3>1
    <3> QED
      BY <2>2, <3>1, <3>2, <3>3
  <2>4. ASSUME ~overtaken PROVE Alone' /\ Numbered' /\ Ended'
    <3>1. Alone /\ Numbered
      BY <2>4 DEF StreamInv, StreamTypes
    <3>2. unsent' = {} /\ Numbers' \subseteq Numbers
      BY <2>1, <2>2, <3>1 DEF Numbered, Numbers
    <3>3. Alone' /\ Ended'
      BY <1>1, <2>1, <3>1, <3>2 DEF Alone, Active, Ended
    <3>4. Numbered'
      BY <1>1, <3>1, <3>2 DEF Numbered, Active
    <3> QED
      BY <3>3, <3>4
  <2> QED
    BY <1>1, <2>3, <2>4 DEF StreamInv, StreamTypes
<1> QED
  BY <1>2, <1>3, <1>4

(* A stream that reported completion has sent every step of the session, and    *)
(* nobody adds one, through cancellations, time-outs, rejections, approvals and *)
(* resumptions, unless an approval was written when the session waited no more  *)
(* (routers.py:6622-6731 with 4727-4807 and executor.py:2698-2925).             *)
THEOREM CompletedStreamIsWhole == StreamSpec => []CompletedIsWhole
<1>1. StreamInit => StreamInv
  <2> SUFFICES ASSUME StreamInit PROVE StreamInv
    OBVIOUS
  <2> USE DEF StreamInit
  <2>1. Alone /\ Numbered /\ Ended
    BY DEF Alone, Numbered, Numbers, Ended, Active
  <2> QED
    BY <2>1 DEF StreamInv, StreamTypes
<1>2. StreamInv /\ [StreamNext]_StreamVars => StreamInv'
  <2> SUFFICES ASSUME StreamInv, [StreamNext]_StreamVars PROVE StreamInv'
    OBVIOUS
  <2>1. CASE UNCHANGED StreamVars
    BY <2>1 DEF StreamVars, RowVars, RunnerVars, ReaderVars, StreamInv, StreamTypes, Alone, Numbered,
                Numbers, Ended, Active
  <2>2. CASE RowNext /\ UNCHANGED ReaderVars
    BY <2>2, RunnerKeeps, RequestKeeps DEF RowNext
  <2> QED
    BY <2>1, <2>2, ReaderKeeps DEF StreamNext
<1>3. StreamInv => CompletedIsWhole
  BY DEF StreamInv, StreamTypes, Ended, CompletedIsWhole
<1> QED
  BY <1>1, <1>2, <1>3, PTL DEF StreamSpec
=============================================================================

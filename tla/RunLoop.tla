------------------------------- MODULE RunLoop -------------------------------
(***************************************************************************)
(* One run of AgentExecutor._run_loop_inner, with its VerifierAgent        *)
(* (app/verifier.py) and its LoopStabilizer (app/loop_stabilizer.py), both *)
(* created fresh for the run.  Module AgentSessions has the interleavings  *)
(* of the run with other actors; this module has the decisions of the loop *)
(* after each step: verify, record, stabilize, roll back, replan, stop.    *)
(* Cancellation, credits and the token budget are in AgentSessions.        *)
(***************************************************************************)
EXTENDS Integers, Sequences, FiniteSets

CONSTANTS
    MaxLoops,          \* max_loops of the agent (default: the global setting)
    MaxIterations,     \* settings.MAX_LOOP_ITERATIONS, given to the stabilizer
    MaxErrors,         \* max_consecutive_errors
    MaxSimilar,        \* max_similar_steps
    StagnationWindow,  \* stagnation_window
    OscillationWindow, \* oscillation_detection_window
    CheckpointEvery,   \* iterations between two checkpoints (5 in the code)
    HashWindow,        \* recent hashes looked at (10 in the code)
    ErrorRetries,      \* an error is fatal from this loop_count on (3)
    StepKinds,         \* which results the steps of the instance may have
    StartCounts        \* loop_count of the row when the run begins

ASSUME CountsAssumption ==
    /\ {MaxLoops, MaxIterations, MaxErrors, MaxSimilar, StagnationWindow,
        CheckpointEvery, HashWindow, ErrorRetries} \subseteq Nat \ {0}
    /\ OscillationWindow \in Nat /\ OscillationWindow >= 4
    /\ StartCounts \subseteq Nat
    /\ StepKinds \subseteq {"finalize", "search", "think", "answer", "error",
                            "respond", "gated"}

VARIABLES
    sessionStatus, \* session.status as this run sees it
    loopCount,     \* session.loop_count
    iter,          \* stabilizer: iteration
    errs,          \* stabilizer: consecutive_errors
    progress,      \* stabilizer: recent progress_history, in hundredths
    actions,       \* stabilizer: recent action_sequence
    hashes,        \* stabilizer: recent step_hashes (type and input)
    seen,          \* verifier: recent step_hashes (input and output)
    hist,          \* the LLM's context: the iterations whose results it holds
    steps,         \* _step_history, as the set of its entries
    point,         \* the latest checkpoint: its iteration and its history
    elapsed,       \* the stabilizer's clock: "early", "near" or "over" one hour
    last           \* of the last step: its kind, the verdict, the action

LoopVars == <<sessionStatus, loopCount, iter, errs, progress, actions, hashes, seen,
              hist, steps, point, elapsed, last>>

-----------------------------------------------------------------------------
(* What _execute_step returns.  in and out stand for the texts that are      *)
(* hashed: an error, a response and a gate carry neither tool_input nor      *)
(* result nor action, so they all hash as {} and {}.                         *)

Blank == [action |-> "unknown", tool |-> "none", in |-> "{}", out |-> "{}",
          error |-> FALSE, goal |-> FALSE, waits |-> FALSE]

Tool(name) == [Blank EXCEPT !.action = "tool_call", !.tool = name,
                            !.in = name, !.out = name]

Result(k) ==
    CASE k = "finalize" -> Tool("finalize_audio_podcast")
      [] k = "search"   -> Tool("web_search")
      [] k = "think"    -> [Blank EXCEPT !.action = "think", !.in = "null", !.out = "thought"]
      [] k = "error"    -> [Blank EXCEPT !.error = TRUE]
      [] k = "respond"  -> [Blank EXCEPT !.goal = TRUE]
      [] k = "gated"    -> [Blank EXCEPT !.waits = TRUE]
      [] k = "answer"   -> Blank

\* _step_history.append: the action is looked up under "step_type", a key that
\* no result has.
Entry(r) == [action |-> "unknown", tool |-> r.tool,
             success |-> r.tool # "none"]

\* _synthesize_recovery_output(_step_history)["has_deliverable"]
HasDeliverable(h) ==
    \E e \in h : /\ e.action = "tool_call"
                 /\ e.tool = "finalize_audio_podcast" /\ e.success

Recovered(h) == IF HasDeliverable(h) THEN "completed" ELSE "failed"

-----------------------------------------------------------------------------
(* Sequences. *)

Recent(q, k) == IF Len(q) <= k THEN q ELSE SubSeq(q, Len(q) - k + 1, Len(q))
Occurs(q, x) == Cardinality({i \in 1 .. Len(q) : q[i] = x})
Total(q) == LET sum[i \in 0 .. Len(q)] == IF i = 0 THEN 0 ELSE sum[i - 1] + q[i]
            IN sum[Len(q)]

-----------------------------------------------------------------------------
(* VerifierAgent._check_for_loops. *)

Hash(r) == <<r.in, r.out>>

Verdict(r) == LET c == Occurs(seen, Hash(r))
              IN IF c >= 3 THEN "loop" ELSE IF c >= 2 THEN "rejected" ELSE "approved"

\* Every step is appended.
Remember_Always(r) == seen' = Recent(Append(seen, Hash(r)), HashWindow)

\* Only an approved step is appended to the verifier's list.
Remember(r) ==
    seen' = IF Verdict(r) = "approved" THEN Recent(Append(seen, Hash(r)), HashWindow)
                                       ELSE seen

-----------------------------------------------------------------------------
(* LoopStabilizer.record_step and its checks.  The confidence it is given is *)
(* 0.7 or more, and nobody calls record_plan_revision: the checks of         *)
(* confidence and of plan revisions never report.                            *)

Severity(s) == CASE s = "stable" -> 0 [] s = "warning" -> 1
                 [] s = "unstable" -> 2 [] s = "critical" -> 3

None == [status |-> "stable", action |-> "continue"]
Report(s, a) == [status |-> s, action |-> a]

CheckMaxIterations(i) ==
    IF i >= MaxIterations THEN Report("critical", "abort")
    ELSE IF 10 * i >= 8 * MaxIterations THEN Report("warning", "slow_down")
    ELSE None

CheckErrors(e) ==
    IF e >= MaxErrors THEN Report("critical", "rollback")
    ELSE IF e >= 2 THEN Report("warning", "replan")
    ELSE None

CheckStagnation(p) ==
    IF Len(p) >= StagnationWindow /\ Total(Recent(p, StagnationWindow)) < 10
    THEN Report("unstable", "replan") ELSE None

\* Compares the two halves of the window.
CheckOscillation(a) ==
    LET half == OscillationWindow \div 2
        w == Recent(a, OscillationWindow)
    IN IF Len(a) >= OscillationWindow /\ SubSeq(w, 1, half) = SubSeq(w, half + 1, 2 * half)
       THEN Report("unstable", "replan") ELSE None

CheckLoops(h) ==
    IF /\ Len(h) >= MaxSimilar
       /\ \E i \in 1 .. Len(h) : Occurs(Recent(h, HashWindow), h[i]) >= MaxSimilar
    THEN Report("critical", "rollback") ELSE None

CheckTimeout(t) == CASE t = "over" -> Report("critical", "abort")
                     [] t = "near" -> Report("warning", "slow_down")
                     [] OTHER -> None

\* The last of the most severe reports.
Worst_Last(checks) ==
    checks[CHOOSE i \in DOMAIN checks :
              /\ \A j \in DOMAIN checks : Severity(checks[j].status) <= Severity(checks[i].status)
              /\ \A j \in i + 1 .. Len(checks) :
                    Severity(checks[j].status) < Severity(checks[i].status)]

\* The first of the most severe reports.
Worst(checks) ==
    checks[CHOOSE i \in DOMAIN checks :
              /\ \A j \in DOMAIN checks : Severity(checks[j].status) <= Severity(checks[i].status)
              /\ \A j \in 1 .. i - 1 : Severity(checks[j].status) < Severity(checks[i].status)]

Checks(i, e, p, a, h, t) ==
    <<CheckMaxIterations(i), CheckErrors(e), CheckStagnation(p),
      CheckOscillation(a), CheckLoops(h), CheckTimeout(t)>>

Progress(r) == IF r.goal THEN 100 ELSE IF r.error THEN 0 ELSE 5

\* record_step: the state,
RecordStep(r) ==
    /\ iter' = iter + 1
    /\ errs' = IF r.error THEN errs + 1 ELSE 0
    /\ progress' = Recent(Append(progress, Progress(r)), StagnationWindow)
    /\ actions' = Recent(Append(actions, r.action), OscillationWindow)
    /\ hashes' = Recent(Append(hashes, <<r.action, r.in>>), HashWindow)

\* and the action it asks for.
Advised(a) ==
    \E checks \in {Checks(iter', errs', progress', actions', hashes', elapsed')} :
        a = Worst(checks).action

Actions == {"continue", "slow_down", "replan", "rollback", "abort"}

\* should_create_checkpoint; point.iter is 0 at first.
DueCheckpoint(r) == iter' - point.iter >= CheckpointEvery \/ Progress(r) > 20

-----------------------------------------------------------------------------
(* The loop.  ContextKept and PointKept are the code's history[-5:] and      *)
(* history[-10:].                                                            *)

ContextKept == 5
PointKept == 10

LoopInit ==
    /\ sessionStatus = "running" /\ loopCount \in StartCounts
    /\ iter = 0 /\ errs = 0
    /\ progress = <<>> /\ actions = <<>> /\ hashes = <<>> /\ seen = <<>>
    /\ hist = <<>> /\ steps = {}
    /\ point = [iter |-> 0, hist |-> <<>>]
    /\ elapsed = "early"
    /\ last = [kind |-> "none", verdict |-> "none", action |-> "continue"]

Later(t) == CASE t = "early" -> {"early", "near", "over"}
              [] t = "near"  -> {"near", "over"}
              [] t = "over"  -> {"over"}

\* A rollback that restores nothing.
Context_NotRestored(a) ==
    hist' = IF a = "rollback" /\ point.iter > 0 THEN Recent(Append(hist, iter'), ContextKept)
                                                ELSE Append(hist, iter')

\* The LLM's context after the step, rolled back when there is a checkpoint.
Context(a) ==
    hist' = IF a = "rollback" /\ point.iter > 0 THEN Recent(point.hist, ContextKept)
                                                ELSE Append(hist, iter')

Checkpoint(r) ==
    point' = IF DueCheckpoint(r) THEN [iter |-> iter', hist |-> Recent(hist', PointKept)]
                                 ELSE point

\* An error is guidance when the verifier rejected the step, and fatal from the
\* ErrorRetries-th loop on.
Fatal(r) == r.error /\ Verdict(r) # "rejected" /\ loopCount' >= ErrorRetries

\* revise_plan is called, and may raise.
Replans(r, a) == a = "replan" \/ (r.error /\ Verdict(r) # "rejected" /\ ~Fatal(r))

\* The statuses the run may leave the step with.
Outcomes(r, a) ==
    IF a = "abort" \/ Verdict(r) = "loop" THEN {Recovered(steps')}
    ELSE (IF r.goal THEN {"completed"}
          ELSE IF r.waits THEN {"waiting_approval"}
          ELSE IF Fatal(r) THEN {Recovered(steps')}
          ELSE {"running"})
         \cup (IF Replans(r, a) THEN {Recovered(steps')} ELSE {})

\* One iteration of the while loop.
Iterate(k) ==
    LET r == Result(k)
    IN /\ sessionStatus = "running" /\ loopCount < MaxLoops
       /\ loopCount' = loopCount + 1
       /\ elapsed' \in Later(elapsed)
       /\ steps' = steps \cup {Entry(r)}
       /\ Remember(r)
       /\ RecordStep(r)
       /\ \E a \in Actions :
             /\ Advised(a)
             /\ last' = [kind |-> k, verdict |-> Verdict(r), action |-> a]
             /\ IF a = "abort" THEN hist' = Append(hist, iter') ELSE Context(a)
             /\ sessionStatus' \in Outcomes(r, a)
             /\ IF a = "abort" \/ Verdict(r) = "loop" THEN UNCHANGED point
                                                      ELSE Checkpoint(r)

\* The while loop ends by its condition.
LoopLimit ==
    /\ sessionStatus = "running" /\ loopCount >= MaxLoops
    /\ sessionStatus' = "completed"
    /\ UNCHANGED <<loopCount, iter, errs, progress, actions, hashes, seen, hist, steps,
                   point, elapsed, last>>

LoopNext == LoopLimit \/ \E k \in StepKinds : Iterate(k)

LoopSpec == LoopInit /\ [][LoopNext]_LoopVars

-----------------------------------------------------------------------------
(* Properties. *)

\* Types of the state.
LoopTypeOK ==
    /\ sessionStatus \in {"running", "completed", "failed", "waiting_approval"}
    /\ loopCount \in Nat /\ iter \in Nat /\ errs \in Nat /\ errs <= iter
    /\ point.iter \in 0 .. iter
    /\ elapsed \in {"early", "near", "over"}
    /\ last.action \in Actions

\* The global cap on iterations holds whatever max_loops the agent configures and
\* whatever else the stabilizer finds at the same time: a run never takes more
\* than MaxIterations steps (loop_stabilizer.py:224, executor.py:2766).
RunBounded == iter < MaxIterations \/ (iter = MaxIterations /\ sessionStatus # "running")

\* A step repeated with the same output is rejected and never more: the window
\* cannot hold the three occurrences that end a run (verifier.py:304).
NoLoopVerdict == last.verdict # "loop"

\* A rollback to a checkpoint forgets every later step, the last one included,
\* and what the LLM is shown stays in the order of the steps
\* (executor.py:2783-2788).
RollbackForgets ==
    [][(last' # last /\ last'.action = "rollback" /\ point.iter > 0)
         => \A i \in 1 .. Len(hist') :
               hist'[i] <= point.iter /\ (i > 1 => hist'[i - 1] < hist'[i])]_LoopVars
=============================================================================

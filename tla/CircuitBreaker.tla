--------------------------- MODULE CircuitBreaker ---------------------------
(***************************************************************************)
(* The circuit breaker (shared/resilience/circuit_breaker.py).  A call is  *)
(* admitted or refused under the lock, runs outside it, and records how it *)
(* ended under the lock again; nothing suspends while the lock is held, so *)
(* the two halves are the steps.  failure_count is read only when closed   *)
(* and success_count only when half-open, and both are reset on the way in *)
(* there, so each is counted up to its threshold and no further.           *)
(***************************************************************************)
EXTENDS Integers, FiniteSets

CONSTANTS
    Callers,            \* tasks that call through the breaker, one call at a time
    FailureThreshold,
    SuccessThreshold,
    HalfOpenMaxCalls

ASSUME CallersAssumption == IsFiniteSet(Callers)
ASSUME ThresholdsAssumption ==
    /\ FailureThreshold \in Nat \ {0}
    /\ SuccessThreshold \in Nat \ {0}
    /\ HalfOpenMaxCalls \in Nat

VARIABLES
    circuit,        \* _state
    failures,       \* _failure_count
    successes,      \* _success_count
    halfOpenCalls,  \* _half_open_calls
    timedOut,       \* timeout_seconds have passed since _last_state_change
    calling,        \* the callers whose function runs
    trials,         \* those admitted since the circuit became half-open
    unrecorded      \* trials of this half-open period that ended without a record

BreakerVars == <<circuit, failures, successes, halfOpenCalls, timedOut,
                 calling, trials, unrecorded>>

BreakerInit ==
    /\ circuit = "closed" /\ failures = 0 /\ successes = 0
    /\ halfOpenCalls = 0 /\ timedOut = FALSE
    /\ calling = {} /\ trials = {} /\ unrecorded = 0

UpTo(n, limit) == IF n < limit THEN n ELSE limit

-----------------------------------------------------------------------------
\* The time-out of an open circuit is looked at only when a call arrives.
TestsRecovery == circuit = "open" /\ timedOut

\* As the code must not be: trials are admitted without being counted.
Admit_Uncounted(c) ==
    /\ calling' = calling \cup {c}
    /\ \/ /\ circuit = "closed"
          /\ UNCHANGED <<circuit, successes, halfOpenCalls, timedOut, trials, unrecorded>>
       \/ /\ circuit = "half_open" /\ halfOpenCalls < HalfOpenMaxCalls
          /\ trials' = trials \cup {c}
          /\ UNCHANGED <<circuit, successes, halfOpenCalls, timedOut, unrecorded>>
       \/ /\ TestsRecovery
          /\ circuit' = "half_open" /\ timedOut' = FALSE
          /\ halfOpenCalls' = 1 /\ successes' = 0
          /\ trials' = {c} /\ unrecorded' = 0
    /\ UNCHANGED failures

Admit(c) ==
    /\ calling' = calling \cup {c}
    /\ \/ /\ circuit = "closed"
          /\ UNCHANGED <<circuit, successes, halfOpenCalls, timedOut, trials, unrecorded>>
       \/ /\ circuit = "half_open" /\ halfOpenCalls < HalfOpenMaxCalls
          /\ halfOpenCalls' = halfOpenCalls + 1
          /\ trials' = trials \cup {c}
          /\ UNCHANGED <<circuit, successes, timedOut, unrecorded>>
       \/ /\ TestsRecovery /\ HalfOpenMaxCalls > 0
          /\ circuit' = "half_open" /\ timedOut' = FALSE
          /\ halfOpenCalls' = 1 /\ successes' = 0
          /\ trials' = {c} /\ unrecorded' = 0
    /\ UNCHANGED failures

\* CircuitOpenError: the circuit is open, or its trial calls are used up.
Refuse(c) ==
    /\ \/ /\ circuit = "open" /\ ~timedOut
          /\ UNCHANGED <<circuit, successes, halfOpenCalls, timedOut, trials, unrecorded>>
       \/ /\ circuit = "half_open" /\ halfOpenCalls >= HalfOpenMaxCalls
          /\ UNCHANGED <<circuit, successes, halfOpenCalls, timedOut, trials, unrecorded>>
       \/ /\ TestsRecovery /\ HalfOpenMaxCalls = 0
          /\ circuit' = "half_open" /\ timedOut' = FALSE
          /\ halfOpenCalls' = 0 /\ successes' = 0
          /\ trials' = {} /\ unrecorded' = 0
    /\ UNCHANGED <<failures, calling>>

Call(c) == c \notin calling /\ (Admit(c) \/ Refuse(c))

-----------------------------------------------------------------------------
\* The end of a call counts for whatever state the circuit is in by then.
Ends(c) ==
    /\ c \in calling
    /\ calling' = calling \ {c} /\ trials' = trials \ {c}

Close ==
    /\ circuit' = "closed" /\ timedOut' = FALSE
    /\ failures' = 0 /\ successes' = 0

\* The end of a trial is recorded, and the circuit is left as it is.
Succeed_NoClose(c) ==
    /\ Ends(c)
    /\ successes' = UpTo(successes + 1, SuccessThreshold)
    /\ UNCHANGED <<circuit, failures, timedOut, halfOpenCalls, unrecorded>>

Succeed(c) ==
    /\ Ends(c)
    /\ IF circuit = "half_open" /\ successes + 1 >= SuccessThreshold
       THEN Close
       ELSE /\ successes' = UpTo(successes + 1, SuccessThreshold)
            /\ UNCHANGED <<circuit, failures, timedOut>>
    /\ UNCHANGED <<halfOpenCalls, unrecorded>>

Opens == \/ circuit = "closed" /\ failures + 1 >= FailureThreshold
         \/ circuit = "half_open"

Fail(c) ==
    /\ Ends(c)
    /\ failures' = UpTo(failures + 1, FailureThreshold)
    /\ circuit' = IF Opens THEN "open" ELSE circuit
    /\ timedOut' = (timedOut /\ ~Opens)
    /\ UNCHANGED <<successes, halfOpenCalls, unrecorded>>

\* An excluded exception is not recorded, and a cancellation is no Exception;
\* neither gives the trial back.
EndUnrecorded(c) ==
    /\ Ends(c)
    /\ unrecorded' = IF circuit = "half_open" /\ c \in trials
                     THEN UpTo(unrecorded + 1, HalfOpenMaxCalls) ELSE unrecorded
    /\ UNCHANGED <<circuit, failures, successes, halfOpenCalls, timedOut>>

Reset ==
    /\ Close
    /\ UNCHANGED <<halfOpenCalls, calling, trials, unrecorded>>

TimeOut ==
    /\ ~timedOut
    /\ timedOut' = TRUE
    /\ UNCHANGED <<circuit, failures, successes, halfOpenCalls, calling, trials, unrecorded>>

BreakerNext ==
    \/ \E c \in Callers : Call(c) \/ Succeed(c) \/ Fail(c) \/ EndUnrecorded(c)
    \/ Reset
    \/ TimeOut

\* Callers keep calling, every call ends somehow, and time passes.
BreakerFairness ==
    /\ \A c \in Callers :
          /\ WF_BreakerVars(Call(c))
          /\ WF_BreakerVars(Succeed(c) \/ Fail(c) \/ EndUnrecorded(c))
    /\ WF_BreakerVars(TimeOut)

BreakerSpec == BreakerInit /\ [][BreakerNext]_BreakerVars /\ BreakerFairness

-----------------------------------------------------------------------------
\* Per half-open period at most HalfOpenMaxCalls calls reach the failing
\* service, those that have already ended without a record included: calls
\* admitted before, whose end is counted in this period, take no trial.
TrialsBounded ==
    circuit = "half_open" =>
        /\ Cardinality(trials) + unrecorded <= halfOpenCalls
        /\ halfOpenCalls <= HalfOpenMaxCalls

\* When the service has recovered for good, the circuit closes, unless a trial
\* ends without a record.
Recovers ==
    <>[][\A c \in Callers : ~Fail(c) /\ ~EndUnrecorded(c)]_BreakerVars
        => []<>(circuit = "closed" \/ unrecorded > 0)
=============================================================================

---------------------------- MODULE ResilientBackend ----------------------------
(***************************************************************************)
(* submit() of a resilient evaluation backend: class ResilientBackend of   *)
(* src/src/fi/evals/framework/resilience/wrapper.py.  Each submission is   *)
(* retried, and each try takes a token of the rate limiter, then passes    *)
(* the circuit breaker; an open circuit, an empty bucket or exhausted      *)
(* retries go to the fallback backend.                                     *)
(*                                                                         *)
(* The bucket counts whole tokens; refilling is an action of its own, as   *)
(* it depends on time alone, and the limiter does not block                *)
(* (wait_for_token is False, its default).                                 *)
(***************************************************************************)
EXTENDS CircuitBreaker

CONSTANTS MaxRetries,   \* max_retries
          Burst         \* burst_size

ASSUME SubmitAssumption == MaxRetries \in Nat /\ Burst \in Nat \ {0}

VARIABLES pc,       \* where each caller is in submit()
          attempt,  \* the attempt of its retry loop
          outcome,  \* how its last submit() ended
          tokens,   \* _tokens
          calm      \* the backend answers and nobody touches the breaker

callerVars == <<pc, attempt, outcome>>
vars == <<breakerVars, callerVars, tokens, calm>>

Init ==
  /\ BreakerInit
  /\ pc = [c \in Callers |-> "idle"]
  /\ attempt = [c \in Callers |-> 0]
  /\ outcome = [c \in Callers |-> "none"]
  /\ tokens = Burst /\ calm = FALSE

--------------------------------------------------------------------------------
Submit(c) ==
  /\ pc[c] = "idle"
  /\ pc' = [pc EXCEPT ![c] = "trying"]
  /\ attempt' = [attempt EXCEPT ![c] = 0]
  /\ outcome' = [outcome EXCEPT ![c] = "none"]
  /\ UNCHANGED <<breakerVars, tokens, calm>>

Ends(c, how) ==
  /\ pc' = [pc EXCEPT ![c] = "idle"]
  /\ outcome' = [outcome EXCEPT ![c] = how]
  /\ UNCHANGED attempt

\* Neither RateLimitExceededError nor CircuitOpenError is retried.
Limited(c) ==
  /\ pc[c] = "trying" /\ tokens = 0
  /\ Ends(c, "fallback")
  /\ UNCHANGED <<breakerVars, tokens, calm>>

Acquire(c) ==
  /\ pc[c] = "trying" /\ tokens > 0
  /\ tokens' = tokens - 1
  /\ pc' = [pc EXCEPT ![c] = "acquired"]
  /\ UNCHANGED <<breakerVars, attempt, outcome, calm>>

Admitted(c) ==
  /\ pc[c] = "acquired"
  /\ AdmitsClosed \/ AdmitsProbe(c)
  /\ pc' = [pc EXCEPT ![c] = "calling"]
  /\ UNCHANGED <<attempt, outcome, tokens, calm>>

Refused(c) ==
  /\ pc[c] = "acquired"
  /\ Refuses
  /\ Ends(c, "fallback")
  /\ UNCHANGED <<tokens, calm>>

Succeeds(c) ==
  /\ pc[c] = "calling"
  /\ RecordSuccess(c)
  /\ Ends(c, "handle")
  /\ UNCHANGED <<tokens, calm>>

\* The retry loop, told of an exception it does or does not retry.
Raised(c) ==
  \/ /\ attempt[c] < MaxRetries
     /\ pc' = [pc EXCEPT ![c] = "sleeping"] /\ UNCHANGED <<attempt, outcome>>
  \/ attempt[c] >= MaxRetries /\ Ends(c, "fallback")
  \/ Ends(c, "raised")

Fails(c) ==
  /\ pc[c] = "calling" /\ ~calm
  /\ RecordFailure(c)
  /\ Raised(c)
  /\ UNCHANGED <<tokens, calm>>

FailsUnrecorded(c) ==
  /\ pc[c] = "calling"
  /\ RecordNothing(c)
  /\ Raised(c)
  /\ UNCHANGED <<tokens, calm>>

\* Mutant: the retry loop never counts.
NextAttemptSame(c) == attempt[c]
NextAttempt(c) == attempt[c] + 1

Wakes(c) ==
  /\ pc[c] = "sleeping"
  /\ pc' = [pc EXCEPT ![c] = "trying"]
  /\ attempt' = [attempt EXCEPT ![c] = NextAttempt(c)]
  /\ UNCHANGED <<breakerVars, outcome, tokens, calm>>

--------------------------------------------------------------------------------
\* _refill, by the time that has passed; the limiter's reset() is several at once.
Refill ==
  /\ tokens < Burst /\ tokens' = tokens + 1
  /\ UNCHANGED <<breakerVars, callerVars, calm>>

\* The health check reads is_closed; monitoring reads state.
HealthCheck == Observe /\ UNCHANGED <<callerVars, tokens, calm>>

Timeout == TimePasses /\ UNCHANGED <<callerVars, tokens, calm>>

\* reset() and force_open() of the breaker.
Operator ==
  /\ ~calm
  /\ Reset \/ ForceOpen
  /\ UNCHANGED <<callerVars, tokens, calm>>

CalmBegins ==
  /\ ~calm /\ calm' = TRUE
  /\ UNCHANGED <<breakerVars, callerVars, tokens>>

--------------------------------------------------------------------------------
Submitting(c) ==
  \/ Limited(c) \/ Acquire(c) \/ Admitted(c) \/ Refused(c)
  \/ Succeeds(c) \/ Fails(c) \/ FailsUnrecorded(c) \/ Wakes(c)

Next ==
  \/ \E c \in Callers : Submit(c) \/ Submitting(c)
  \/ Refill \/ HealthCheck \/ Timeout \/ Operator \/ CalmBegins

Spec == Init /\ [][Next]_vars

\* Callers keep submitting, every call of the backend ends, and time passes.
Fairness ==
  /\ \A c \in Callers : WF_vars(Submit(c)) /\ WF_vars(Submitting(c))
  /\ WF_vars(Refill) /\ WF_vars(Timeout)

FairSpec == Spec /\ Fairness

--------------------------------------------------------------------------------
(* Properties. *)

TypeOK ==
  /\ circuit \in {"closed", "open", "halfOpen"}
  /\ failures \in 0 .. FailureThreshold /\ successes \in 0 .. SuccessThreshold
  /\ halfOpenRequests \in 0 .. HalfOpenMax
  /\ results \in Seq(BOOLEAN) /\ Len(results) <= WindowSize
  /\ waited \in BOOLEAN /\ wasted \in Nat
  /\ probing \subseteq {c \in Callers : pc[c] = "calling"}
  /\ pc \in [Callers -> {"idle", "trying", "acquired", "calling", "sleeping"}]
  /\ attempt \in [Callers -> 0 .. MaxRetries]
  /\ outcome \in [Callers -> {"none", "handle", "fallback", "raised"}]
  /\ tokens \in 0 .. Burst /\ calm \in BOOLEAN

\* Fewer requests may still record something than success_threshold asks for:
\* the configuration admits too few, or too many of them recorded nothing.
Starved == HalfOpenMax < SuccessThreshold + wasted

\* A half-open breaker that is not starved can still decide: it can admit another
\* request, or one it admitted is in flight and will close or open it.  Late
\* results of earlier episodes, retries and failures never take this away.
HalfOpenDecides ==
  circuit = "halfOpen" /\ ~Starved =>
    halfOpenRequests < HalfOpenMax \/ probing # {}

\* A closed breaker has not counted the failures that would have tripped it.
ClosedBelowThreshold == circuit = "closed" => failures < FailureThreshold

\* Once the backend answers, the breaker closes, unless it is starved first.
Recovers == calm ~> circuit = "closed" \/ Starved

\* Once the backend answers, the breaker closes ("allowing them to recover",
\* the docstring of circuit_breaker.py).
BackendRecovers == calm ~> circuit = "closed"

\* Every submit() ends, however long the backend fails.
SubmitReturns == \A c \in Callers : pc[c] = "trying" ~> pc[c] = "idle"
================================================================================

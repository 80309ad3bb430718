----------------------------- MODULE CircuitBreaker -----------------------------
(***************************************************************************)
(* The circuit breaker in front of an evaluation backend: class            *)
(* CircuitBreaker of                                                       *)
(* src/src/fi/evals/framework/resilience/circuit_breaker.py.  execute()    *)
(* has three parts: the admission and the recording hold the lock, and the *)
(* call between them does not, so it may end in another state than the one *)
(* that admitted it.                                                       *)
(*                                                                         *)
(* Time is one flag, waited: timeout_seconds have passed since             *)
(* _last_failure_time.  A counter stops at the threshold it is compared    *)
(* with.  ResilientBackend composes these operators with the callers.      *)
(***************************************************************************)
EXTENDS Naturals, FiniteSets, Sequences

CONSTANTS Callers,
          FailureThreshold,  \* failure_threshold
          SuccessThreshold,  \* success_threshold
          HalfOpenMax,       \* half_open_max_requests
          WindowSize,        \* window_size
          WindowFailures     \* failures of a full window that reach
                             \* failure_rate_threshold

ASSUME ThresholdsAssumption ==
  /\ FailureThreshold \in Nat \ {0} /\ SuccessThreshold \in Nat \ {0}
  /\ HalfOpenMax \in Nat \ {0}
  /\ WindowSize \in Nat \ {0} /\ WindowFailures \in Nat

VARIABLES circuit,           \* _state
          failures,          \* _failure_count
          successes,         \* _success_count
          halfOpenRequests,  \* _half_open_requests
          results,           \* _results
          waited,
          probing,           \* history: calls in flight that this half-open
                             \* episode admitted
          wasted             \* history: how many of them ended and recorded nothing

breakerVars == <<circuit, failures, successes, halfOpenRequests, results, waited,
                 probing, wasted>>

BreakerInit ==
  /\ circuit = "closed" /\ failures = 0 /\ successes = 0
  /\ halfOpenRequests = 0 /\ results = <<>> /\ waited = FALSE
  /\ probing = {} /\ wasted = 0

UpTo(n, bound) == IF n > bound THEN bound ELSE n

\* The deque of the last WindowSize results.
Windowed(b) ==
  LET all == Append(results, b)
  IN  IF Len(all) > WindowSize THEN Tail(all) ELSE all

\* _should_trip, once a failure has been counted.
ShouldTrip ==
  \/ failures + 1 >= FailureThreshold
  \/ LET window == Windowed(FALSE)
     IN  /\ Len(window) >= WindowSize
         /\ Cardinality({n \in DOMAIN window : ~window[n]}) >= WindowFailures

\* _check_state_transition: due the next time anyone looks.
HalfOpenDue == circuit = "open" /\ waited

HalfOpens ==
  /\ circuit' = "halfOpen" /\ successes' = 0
  /\ wasted' = 0
  /\ UNCHANGED <<failures, results, waited>>

\* Mutant: a second half-open episode starts with the requests of the first.
RequestsKept == halfOpenRequests
Requests == IF HalfOpenDue THEN 0 ELSE halfOpenRequests

\* Reading state, is_closed, is_open or is_half_open.
Observe ==
  /\ HalfOpenDue
  /\ HalfOpens /\ halfOpenRequests' = Requests /\ probing' = {}

SlotFree == Requests < HalfOpenMax

AdmitsClosed == circuit = "closed" /\ UNCHANGED breakerVars

AdmitsProbe(c) ==
  /\ SlotFree /\ halfOpenRequests' = Requests + 1
  /\ \/ HalfOpenDue /\ HalfOpens /\ probing' = {c}
     \/ circuit = "halfOpen" /\ probing' = probing \cup {c}
        /\ UNCHANGED <<circuit, failures, successes, results, waited, wasted>>

\* CircuitOpenError.
Refuses ==
  /\ \/ circuit = "open" /\ ~waited
     \/ circuit = "halfOpen" /\ ~SlotFree
  /\ UNCHANGED breakerVars

\* _transition_to(OPEN).
Opens ==
  /\ circuit' = "open" /\ waited' = FALSE
  /\ probing' = {} /\ wasted' = 0

\* Mutant: the failures of the last closed episode are not forgotten.
ForgivenNothing == failures
Forgiven == 0

\* _transition_to(CLOSED).
Closes ==
  /\ circuit' = "closed" /\ failures' = Forgiven /\ successes' = 0
  /\ results' = <<>>
  /\ probing' = {} /\ wasted' = 0

RecordSuccess(c) ==
  IF circuit = "halfOpen" /\ successes + 1 >= SuccessThreshold
  THEN Closes /\ UNCHANGED <<halfOpenRequests, waited>>
  ELSE /\ successes' = UpTo(successes + 1, SuccessThreshold)
       /\ results' = Windowed(TRUE) /\ probing' = probing \ {c}
       /\ UNCHANGED <<circuit, failures, halfOpenRequests, waited, wasted>>

\* A failure that arrives in OPEN puts the half-open state off again.
RecordFailure(c) ==
  /\ failures' = UpTo(failures + 1, FailureThreshold)
  /\ results' = Windowed(FALSE)
  /\ IF circuit = "halfOpen" \/ (circuit = "closed" /\ ShouldTrip) THEN Opens
     ELSE /\ waited' = FALSE /\ probing' = probing \ {c}
          /\ UNCHANGED <<circuit, wasted>>
  /\ UNCHANGED <<successes, halfOpenRequests>>

\* An excluded exception, or one that is no Exception, records nothing.
RecordNothing(c) ==
  /\ probing' = probing \ {c}
  /\ wasted' = IF c \in probing THEN wasted + 1 ELSE wasted
  /\ UNCHANGED <<circuit, failures, successes, halfOpenRequests, results, waited>>

Reset ==
  /\ Closes
  /\ halfOpenRequests' = 0 /\ waited' = FALSE

ForceOpen ==
  /\ circuit # "open" /\ Opens
  /\ UNCHANGED <<failures, successes, halfOpenRequests, results>>

TimePasses ==
  /\ circuit = "open" /\ ~waited /\ waited' = TRUE
  /\ UNCHANGED <<circuit, failures, successes, halfOpenRequests, results, probing,
                 wasted>>
================================================================================

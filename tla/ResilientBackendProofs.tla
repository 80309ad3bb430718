------------------------- MODULE ResilientBackendProofs -------------------------
(***************************************************************************)
(* Theorems of ResilientBackend, for every number of callers, retries,     *)
(* thresholds and window.                                                  *)
(*                                                                         *)
(* A half-open breaker counts: every request it has admitted is a success  *)
(* it has recorded, a probe still in flight, or one that recorded nothing  *)
(* (Counted).  So an episode that can admit no more and has none in flight  *)
(* either has its successes or lost more requests than it could spare,     *)
(* whatever the configuration.                                             *)
(***************************************************************************)
EXTENDS ResilientBackend, FiniteSetTheorems, TLAPS

Pcs == {"idle", "trying", "acquired", "calling", "sleeping"}

BreakerType ==
  /\ circuit \in {"closed", "open", "halfOpen"}
  /\ failures \in 0 .. FailureThreshold /\ successes \in 0 .. SuccessThreshold
  /\ halfOpenRequests \in 0 .. HalfOpenMax
  /\ results \in Seq(BOOLEAN) /\ Len(results) <= WindowSize

Flags == waited \in BOOLEAN /\ calm \in BOOLEAN

WastedType == wasted \in Nat

CallerType ==
  /\ pc \in [Callers -> Pcs]
  /\ attempt \in [Callers -> 0 .. MaxRetries]
  /\ outcome \in [Callers -> {"none", "handle", "fallback", "raised"}]
  /\ tokens \in 0 .. Burst

ProbesCall == probing \subseteq {c \in Callers : pc[c] = "calling"}

\* A caller sleeps only before an attempt it still has.
AttemptsLeft == \A c \in Callers : pc[c] = "sleeping" => attempt[c] < MaxRetries

LEMMA TypeParts == TypeOK <=> BreakerType /\ Flags /\ WastedType /\ CallerType /\ ProbesCall
BY DEF TypeOK, BreakerType, Flags, WastedType, CallerType, ProbesCall, Pcs

--------------------------------------------------------------------------------
(* The window. *)

LEMMA WindowedType ==
  ASSUME BreakerType, NEW b \in BOOLEAN
  PROVE  Windowed(b) \in Seq(BOOLEAN) /\ Len(Windowed(b)) <= WindowSize
<1> DEFINE all == Append(results, b)
<1>1. results \in Seq(BOOLEAN) /\ Len(results) <= WindowSize /\ WindowSize \in Nat
  BY ThresholdsAssumption DEF BreakerType
<1>2. all \in Seq(BOOLEAN) /\ Len(all) = Len(results) + 1
  BY <1>1
<1>3. CASE Len(all) > WindowSize
  <2>1. all # <<>> /\ Len(results) = WindowSize
    BY <1>1, <1>2, <1>3
  <2>2. Tail(all) \in Seq(BOOLEAN) /\ Len(Tail(all)) = Len(results)
    BY <1>1, <1>2, <2>1
  <2> QED
    BY <1>3, <2>1, <2>2 DEF Windowed
<1>4. CASE ~(Len(all) > WindowSize)
  BY <1>1, <1>2, <1>4 DEF Windowed
<1> QED
  BY <1>3, <1>4

LEMMA UpToType ==
  ASSUME NEW bound \in Nat, NEW n \in 0 .. bound
  PROVE  UpTo(n + 1, bound) \in 0 .. bound
BY DEF UpTo

--------------------------------------------------------------------------------
(* Types. *)

LEMMA BreakerTypeStep ==
  ASSUME BreakerType, [Next]_vars
  PROVE  BreakerType'
<1> USE ThresholdsAssumption
<1>1. UNCHANGED breakerVars => BreakerType'
  BY DEF breakerVars, BreakerType
<1>2. (\E c \in Callers : AdmitsProbe(c)) => BreakerType'
  BY DEF AdmitsProbe, HalfOpens, SlotFree, Requests, BreakerType
<1>3. Closes /\ halfOpenRequests' \in {0, halfOpenRequests} => BreakerType'
  BY DEF Closes, Forgiven, BreakerType
<1>4. ASSUME NEW c \in Callers, RecordSuccess(c)
      PROVE  BreakerType'
  <2>1. CASE circuit = "halfOpen" /\ successes + 1 >= SuccessThreshold
    BY <1>3, <1>4, <2>1 DEF RecordSuccess
  <2>2. CASE ~(circuit = "halfOpen" /\ successes + 1 >= SuccessThreshold)
    BY <1>4, <2>2, WindowedType, UpToType DEF RecordSuccess, BreakerType
  <2> QED
    BY <2>1, <2>2
<1>5. ASSUME NEW c \in Callers, RecordFailure(c)
      PROVE  BreakerType'
  <2>1. circuit' \in {"closed", "open", "halfOpen"}
    BY <1>5 DEF RecordFailure, Opens, BreakerType
  <2>2. failures' \in 0 .. FailureThreshold
    BY <1>5, UpToType DEF RecordFailure, BreakerType
  <2>3. results' \in Seq(BOOLEAN) /\ Len(results') <= WindowSize
    BY <1>5, WindowedType DEF RecordFailure
  <2> QED
    BY <1>5, <2>1, <2>2, <2>3 DEF RecordFailure, BreakerType
<1>6. (\E c \in Callers : RecordNothing(c)) => BreakerType'
  BY DEF RecordNothing, BreakerType
<1>7. Observe => BreakerType'
  BY DEF Observe, HalfOpens, Requests, BreakerType
<1>8. Reset => BreakerType'
  BY <1>3 DEF Reset
<1>9. ForceOpen \/ TimePasses => BreakerType'
  BY DEF ForceOpen, Opens, TimePasses, BreakerType
<1> QED
  BY <1>1, <1>2, <1>4, <1>5, <1>6, <1>7, <1>8, <1>9
     DEF Next, Submitting, Submit, Limited, Acquire, Admitted, AdmitsClosed,
         Refused, Refuses, Succeeds, Fails, FailsUnrecorded, Wakes, Refill,
         HealthCheck, Timeout, Operator, CalmBegins, vars

LEMMA CallerTypeStep ==
  ASSUME CallerType, AttemptsLeft, [Next]_vars
  PROVE  CallerType' /\ AttemptsLeft'
<1> USE DEF CallerType, AttemptsLeft
<1>1. ASSUME NEW c \in Callers, NEW how \in {"handle", "fallback", "raised"},
             Ends(c, how), tokens' = tokens
      PROVE  CallerType' /\ AttemptsLeft'
  BY <1>1 DEF Ends, Pcs
<1>2. ASSUME NEW c \in Callers, Submit(c) \/ Acquire(c)
      PROVE  CallerType' /\ AttemptsLeft'
  BY <1>2, SubmitAssumption DEF Submit, Acquire, Pcs
<1>3. ASSUME NEW c \in Callers, Limited(c) \/ Refused(c) \/ Succeeds(c)
      PROVE  CallerType' /\ AttemptsLeft'
  BY <1>3, <1>1 DEF Limited, Refused, Succeeds
<1>4. ASSUME NEW c \in Callers, Admitted(c)
      PROVE  CallerType' /\ AttemptsLeft'
  BY <1>4 DEF Admitted, Pcs
<1>5. ASSUME NEW c \in Callers, Raised(c), tokens' = tokens
      PROVE  CallerType' /\ AttemptsLeft'
  <2>1. CASE /\ attempt[c] < MaxRetries
             /\ pc' = [pc EXCEPT ![c] = "sleeping"] /\ UNCHANGED <<attempt, outcome>>
    BY <1>5, <2>1 DEF Pcs
  <2> QED
    BY <1>1, <1>5, <2>1 DEF Raised
<1>6. ASSUME NEW c \in Callers, Fails(c) \/ FailsUnrecorded(c)
      PROVE  CallerType' /\ AttemptsLeft'
  BY <1>5, <1>6 DEF Fails, FailsUnrecorded
<1>w. ASSUME NEW c \in Callers, Wakes(c)
      PROVE  CallerType' /\ AttemptsLeft'
  BY <1>w, SubmitAssumption DEF Wakes, NextAttempt, Pcs
<1>7. UNCHANGED <<callerVars, tokens>> => CallerType' /\ AttemptsLeft'
  BY DEF callerVars
<1>8. Refill => CallerType' /\ AttemptsLeft'
  BY SubmitAssumption DEF Refill, callerVars
<1>9. Operator => CallerType' /\ AttemptsLeft'
  BY SubmitAssumption DEF Operator, callerVars
<1> QED
  BY <1>2, <1>3, <1>4, <1>6, <1>7, <1>8, <1>9, <1>w
     DEF Next, Submitting, HealthCheck, Timeout, CalmBegins, vars

--------------------------------------------------------------------------------
(* What the breaker counts. *)

\* Every request of the half-open episode is a success, a probe in flight, or
\* one that recorded nothing.
Counted ==
  circuit = "halfOpen" =>
    /\ successes < SuccessThreshold
    /\ halfOpenRequests <= successes + Cardinality(probing) + wasted

Inv ==
  /\ BreakerType /\ Flags /\ WastedType /\ CallerType /\ AttemptsLeft /\ ProbesCall
  /\ Counted /\ ClosedBelowThreshold

LEMMA FlagsStep ==
  ASSUME Flags, [Next]_vars
  PROVE  Flags'
<1> USE DEF Flags
<1>1. UNCHANGED breakerVars => waited' \in BOOLEAN
  BY Zenon DEF breakerVars
<1>2. Opens \/ Reset => waited' \in BOOLEAN
  BY Zenon DEF Opens, Reset, Closes
<1>3. HalfOpens => waited' \in BOOLEAN
  BY Zenon DEF HalfOpens
<1>4. ASSUME NEW c \in Callers,
             AdmitsProbe(c) \/ RecordSuccess(c) \/ RecordFailure(c) \/ RecordNothing(c)
      PROVE  waited' \in BOOLEAN
  <2>1. CASE AdmitsProbe(c)
    BY <1>3, <2>1, Zenon DEF AdmitsProbe
  <2>2. CASE RecordSuccess(c)
    BY <2>2, Zenon DEF RecordSuccess, Closes
  <2>3. CASE RecordFailure(c)
    BY <1>2, <2>3, Zenon DEF RecordFailure
  <2>4. CASE RecordNothing(c)
    BY <2>4, Zenon DEF RecordNothing
  <2> QED
    BY <1>4, <2>1, <2>2, <2>3, <2>4
<1>5. Observe \/ ForceOpen \/ TimePasses => waited' \in BOOLEAN
  BY <1>2, <1>3, Zenon DEF Observe, ForceOpen, TimePasses
<1>6. ASSUME NEW c \in Callers, Submit(c) \/ Submitting(c)
      PROVE  Flags'
  <2>1. calm' \in BOOLEAN
    BY <1>6, Zenon DEF Submit, Submitting, Limited, Acquire, Admitted, Refused,
                       Succeeds, Fails, FailsUnrecorded, Wakes
  <2>2. waited' \in BOOLEAN
    BY <1>1, <1>4, <1>6, Zenon
       DEF Submit, Submitting, Limited, Acquire, Admitted, AdmitsClosed, Refused,
           Refuses, Succeeds, Fails, FailsUnrecorded, Wakes
  <2> QED
    BY <2>1, <2>2, Zenon
<1>7. ASSUME Refill \/ HealthCheck \/ Timeout \/ Operator \/ CalmBegins
      PROVE  Flags'
  <2>1. calm' \in BOOLEAN
    BY <1>7, Zenon DEF Refill, HealthCheck, Timeout, Operator, CalmBegins
  <2>2. waited' \in BOOLEAN
    BY <1>1, <1>2, <1>5, <1>7, Zenon
       DEF Refill, HealthCheck, Timeout, Operator, CalmBegins
  <2> QED
    BY <2>1, <2>2, Zenon
<1>8. UNCHANGED vars => Flags'
  BY <1>1, Zenon DEF vars, breakerVars
<1> QED
  BY <1>6, <1>7, <1>8, Zenon DEF Next

LEMMA WastedStep ==
  ASSUME WastedType, [Next]_vars
  PROVE  WastedType'
<1>1. wasted' \in {0, wasted, wasted + 1}
  BY DEF Next, Submit, Submitting, Limited, Acquire, Admitted, AdmitsClosed,
         AdmitsProbe, HalfOpens, Refused, Refuses, Succeeds, RecordSuccess, Closes,
         Fails, RecordFailure, Opens, FailsUnrecorded, RecordNothing, Wakes, Refill,
         HealthCheck, Observe, Timeout, TimePasses, Operator, Reset, ForceOpen,
         CalmBegins, breakerVars, vars
<1> QED
  BY <1>1 DEF WastedType

LEMMA ProbesStep ==
  ASSUME ProbesCall, CallerType, [Next]_vars
  PROVE  ProbesCall'
<1>1. probing' = {} => ProbesCall'
  BY DEF ProbesCall
<1>2. ASSUME NEW c \in Callers, probing' \subseteq probing \ {c},
             \E p \in Pcs : pc' = [pc EXCEPT ![c] = p]
      PROVE  ProbesCall'
  BY <1>2 DEF ProbesCall, CallerType
<1>3. ASSUME NEW c \in Callers, probing' = probing, pc[c] # "calling",
             \E p \in Pcs : pc' = [pc EXCEPT ![c] = p]
      PROVE  ProbesCall'
  BY <1>3 DEF ProbesCall, CallerType
<1>4. UNCHANGED <<probing, pc>> => ProbesCall'
  BY DEF ProbesCall
<1>5. ASSUME NEW c \in Callers, Succeeds(c) \/ Fails(c) \/ FailsUnrecorded(c)
      PROVE  ProbesCall'
  <2>1. \E p \in Pcs : pc' = [pc EXCEPT ![c] = p]
    BY <1>5 DEF Succeeds, Fails, FailsUnrecorded, Raised, Ends, Pcs
  <2>2. probing' = {} \/ probing' = probing \ {c}
    BY <1>5 DEF Succeeds, Fails, FailsUnrecorded, RecordSuccess, RecordFailure,
                RecordNothing, Closes, Opens
  <2> QED
    BY <1>1, <1>2, <2>1, <2>2
<1>6. ASSUME NEW c \in Callers, Admitted(c)
      PROVE  ProbesCall'
  <2>1. probing' \subseteq probing \cup {c} /\ pc' = [pc EXCEPT ![c] = "calling"]
    BY <1>6 DEF Admitted, AdmitsClosed, AdmitsProbe, breakerVars
  <2> QED
    BY <2>1 DEF ProbesCall, CallerType
<1>7. ASSUME NEW c \in Callers,
             Submit(c) \/ Limited(c) \/ Acquire(c) \/ Refused(c) \/ Wakes(c)
      PROVE  ProbesCall'
  <2>1. /\ probing' = probing /\ pc[c] # "calling"
        /\ \E p \in Pcs : pc' = [pc EXCEPT ![c] = p]
    BY <1>7 DEF Submit, Limited, Acquire, Refused, Refuses, Wakes, Ends,
                breakerVars, Pcs
  <2> QED
    BY <1>3, <2>1
<1>8. HealthCheck \/ Operator => probing' = {}
  BY DEF HealthCheck, Observe, Operator, Reset, Closes, ForceOpen, Opens
<1>9. Refill \/ Timeout \/ CalmBegins \/ UNCHANGED vars =>
        probing' = {} \/ UNCHANGED <<probing, pc>>
  BY DEF Refill, Timeout, TimePasses, CalmBegins, vars, breakerVars, callerVars
<1> QED
  BY <1>1, <1>4, <1>5, <1>6, <1>7, <1>8, <1>9 DEF Next, Submitting

LEMMA ClosedStep ==
  ASSUME BreakerType, ClosedBelowThreshold, [Next]_vars
  PROVE  ClosedBelowThreshold'
<1> USE ThresholdsAssumption DEF ClosedBelowThreshold, BreakerType
<1>1. UNCHANGED <<circuit, failures>> => ClosedBelowThreshold'
  OBVIOUS
<1>2. circuit' # "closed" => ClosedBelowThreshold'
  OBVIOUS
<1>3. Closes => ClosedBelowThreshold'
  BY DEF Closes, Forgiven
<1>4. ASSUME NEW c \in Callers, RecordFailure(c)
      PROVE  ClosedBelowThreshold'
  <2>1. CASE circuit = "halfOpen" \/ (circuit = "closed" /\ ShouldTrip)
    BY <1>4, <2>1 DEF RecordFailure, Opens
  <2>2. CASE circuit = "closed" /\ ~ShouldTrip
    <3>1. failures + 1 >= FailureThreshold => ShouldTrip
      BY Zenon DEF ShouldTrip
    <3> QED
      BY <1>4, <2>2, <3>1 DEF RecordFailure, UpTo
  <2>3. CASE circuit = "open"
    BY <1>4, <2>3 DEF RecordFailure
  <2> QED
    BY <2>1, <2>2, <2>3
<1>5. \A c \in Callers : Fails(c) => RecordFailure(c)
  BY DEF Fails
<1>6. ASSUME NEW c \in Callers, Submit(c) \/ Submitting(c), ~Fails(c)
      PROVE  Closes \/ UNCHANGED <<circuit, failures>> \/ circuit' # "closed"
  BY <1>6 DEF Submit, Submitting, Limited, Acquire, Admitted, AdmitsClosed,
              AdmitsProbe, HalfOpens, Refused, Refuses, Succeeds, RecordSuccess,
              FailsUnrecorded, RecordNothing, Wakes, breakerVars
<1>7. ASSUME Refill \/ HealthCheck \/ Timeout \/ Operator \/ CalmBegins
      PROVE  Closes \/ UNCHANGED <<circuit, failures>> \/ circuit' # "closed"
  BY <1>7 DEF Refill, HealthCheck, Observe, HalfOpens, Timeout, TimePasses,
              Operator, Reset, ForceOpen, Opens, CalmBegins, breakerVars
<1> QED
  BY <1>1, <1>2, <1>3, <1>4, <1>5, <1>6, <1>7 DEF Next, vars, breakerVars

LEMMA CountedStep ==
  ASSUME IsFiniteSet(Callers), BreakerType, WastedType, ProbesCall, Counted, [Next]_vars
  PROVE  Counted'
<1> USE ThresholdsAssumption DEF BreakerType, WastedType
<1>f. IsFiniteSet(probing) /\ Cardinality(probing) \in Nat
  <2>1. probing \subseteq Callers
    BY DEF ProbesCall
  <2> QED
    BY <2>1, FS_Subset, FS_CardinalityType
<1>1. circuit' # "halfOpen" => Counted'
  BY DEF Counted
<1>2. UNCHANGED breakerVars => Counted'
  BY DEF breakerVars, Counted
<1>3. ASSUME NEW c \in Callers, Admitted(c)
      PROVE  Counted'
  <2>1. c \notin probing
    BY <1>3 DEF Admitted, ProbesCall
  <2>2. CASE AdmitsProbe(c) /\ HalfOpenDue
    <3>1. successes' = 0 /\ halfOpenRequests' = 1 /\ probing' = {c} /\ wasted' = 0
      BY <2>2 DEF AdmitsProbe, HalfOpens, HalfOpenDue, Requests
    <3>2. Cardinality({c}) = 1
      BY FS_Singleton
    <3> QED
      BY <3>1, <3>2 DEF Counted
  <2>3. CASE AdmitsProbe(c) /\ ~HalfOpenDue
    <3>1. /\ circuit = "halfOpen" /\ probing' = probing \cup {c}
          /\ halfOpenRequests' = halfOpenRequests + 1
          /\ UNCHANGED <<successes, wasted>>
      BY <2>3 DEF AdmitsProbe, Requests
    <3>2. Cardinality(probing \cup {c}) = Cardinality(probing) + 1
      BY <1>f, <2>1, FS_AddElement
    <3> QED
      BY <1>f, <3>1, <3>2 DEF Counted
  <2> QED
    BY <1>2, <1>3, <2>2, <2>3 DEF Admitted, AdmitsClosed
<1>4. ASSUME NEW c \in Callers
      PROVE  Cardinality(probing \ {c}) >= Cardinality(probing) - 1
               /\ Cardinality(probing \ {c}) \in Nat
               /\ (c \notin probing => probing \ {c} = probing)
  <2>1. PICK rest : rest = probing \ {c}
    OBVIOUS
  <2>2. IsFiniteSet(rest) /\ Cardinality(rest) \in Nat
    BY <1>f, <2>1, FS_RemoveElement, FS_CardinalityType
  <2>3. Cardinality(rest) = IF c \in probing THEN Cardinality(probing) - 1
                            ELSE Cardinality(probing)
    BY <1>f, <2>1, FS_RemoveElement
  <2>4. c \notin probing => probing \ {c} = probing
    OBVIOUS
  <2> QED
    BY <1>f, <2>1, <2>2, <2>3, <2>4
<1>5. ASSUME NEW c \in Callers, RecordSuccess(c)
      PROVE  Counted'
  <2>1. CASE circuit = "halfOpen" /\ successes + 1 >= SuccessThreshold
    BY <1>1, <1>5, <2>1 DEF RecordSuccess, Closes
  <2>2. CASE circuit = "halfOpen" /\ ~(successes + 1 >= SuccessThreshold)
    <3>1. /\ successes' = successes + 1 /\ probing' = probing \ {c}
          /\ UNCHANGED <<halfOpenRequests, wasted>>
      BY <1>5, <2>2 DEF RecordSuccess, UpTo
    <3> QED
      BY <1>f, <1>4, <2>2, <3>1 DEF Counted
  <2>3. CASE circuit # "halfOpen"
    BY <1>1, <1>5, <2>3 DEF RecordSuccess
  <2> QED
    BY <2>1, <2>2, <2>3
<1>6. ASSUME NEW c \in Callers, RecordFailure(c)
      PROVE  Counted'
  BY <1>1, <1>6 DEF RecordFailure, Opens
<1>7. ASSUME NEW c \in Callers, RecordNothing(c)
      PROVE  Counted'
  <2>1. /\ probing' = probing \ {c}
        /\ UNCHANGED <<circuit, successes, halfOpenRequests>>
    BY <1>7 DEF RecordNothing
  <2>2. CASE c \in probing
    <3>1. wasted' = wasted + 1
      BY <1>7, <2>2 DEF RecordNothing
    <3> QED
      BY <1>f, <1>4, <2>1, <3>1 DEF Counted
  <2>3. CASE c \notin probing
    <3>1. wasted' = wasted /\ probing' = probing
      BY <1>4, <1>7, <2>1, <2>3 DEF RecordNothing
    <3> QED
      BY <2>1, <3>1 DEF Counted
  <2> QED
    BY <2>2, <2>3
<1>8. Observe => Counted'
  <2>1. Observe => successes' = 0 /\ halfOpenRequests' = 0 /\ probing' = {} /\ wasted' = 0
    BY DEF Observe, HalfOpens, Requests
  <2>2. Cardinality({}) = 0
    BY FS_EmptySet
  <2>3. Observe => Cardinality(probing') = 0
    BY <2>1, <2>2
  <2> QED
    BY <2>1, <2>3 DEF Counted
<1>9. Operator => Counted'
  BY <1>1 DEF Operator, Reset, Closes, ForceOpen, Opens
<1>10. TimePasses => Counted'
  BY <1>1 DEF TimePasses
<1>11. ASSUME NEW c \in Callers, Submit(c) \/ Submitting(c)
       PROVE  Counted'
  BY <1>2, <1>3, <1>5, <1>6, <1>7, <1>11
     DEF Submit, Submitting, Limited, Acquire, Refused, Refuses, Succeeds, Fails,
         FailsUnrecorded, Wakes
<1> QED
  BY <1>2, <1>8, <1>9, <1>10, <1>11
     DEF Next, Refill, HealthCheck, Timeout, CalmBegins, vars

--------------------------------------------------------------------------------
(* The invariant, and the properties it carries. *)

LEMMA InvStart == Init => Inv
<1> SUFFICES ASSUME Init PROVE Inv
  OBVIOUS
<1> USE ThresholdsAssumption, SubmitAssumption DEF Init, BreakerInit
<1>1. BreakerType
  BY DEF BreakerType
<1>2. Flags
  BY Zenon DEF Flags
<1>3. CallerType /\ AttemptsLeft
  BY DEF CallerType, AttemptsLeft, Pcs
<1>4. WastedType /\ ProbesCall /\ Counted /\ ClosedBelowThreshold
  BY DEF WastedType, ProbesCall, Counted, ClosedBelowThreshold
<1> QED
  BY <1>1, <1>2, <1>3, <1>4 DEF Inv

LEMMA InvStep ==
  ASSUME IsFiniteSet(Callers)
  PROVE  Inv /\ [Next]_vars => Inv'
<1> SUFFICES ASSUME Inv, [Next]_vars PROVE Inv'
  OBVIOUS
<1> QED
  BY BreakerTypeStep, FlagsStep, WastedStep, CallerTypeStep, ProbesStep, CountedStep, ClosedStep
     DEF Inv

\* The inductive invariant of the breaker and its callers.
THEOREM Invariant ==
  ASSUME IsFiniteSet(Callers)
  PROVE  Spec => []Inv
<1>1. Init => Inv
  BY InvStart
<1>2. Inv /\ [Next]_vars => Inv'
  BY InvStep
<1> QED
  BY <1>1, <1>2, PTL DEF Spec

\* The counters of the breaker, the bucket and the retry loops stay within their
\* limits: never more half-open requests than half_open_max_requests, never more
\* attempts than max_retries (circuit_breaker.py, retry.py, rate_limiter.py).
THEOREM TypeCorrect ==
  ASSUME IsFiniteSet(Callers)
  PROVE  Spec => []TypeOK
<1>1. Inv => TypeOK
  BY TypeParts DEF Inv
<1> QED
  BY <1>1, Invariant, PTL

\* _transition_to(CLOSED) forgets the failures, and _should_trip looks at every
\* later one: a closed breaker never holds failure_threshold of them.
THEOREM ClosedHoldsFew ==
  ASSUME IsFiniteSet(Callers)
  PROVE  Spec => []ClosedBelowThreshold
<1>1. Inv => ClosedBelowThreshold
  BY DEF Inv
<1> QED
  BY <1>1, Invariant, PTL

\* Whatever its thresholds, a half-open breaker admits another request or has one
\* in flight that decides, as long as the requests that may still record something
\* are as many as success_threshold: the only ways to be stuck in HALF_OPEN are a
\* configuration that admits fewer, and requests that recorded nothing.
THEOREM EpisodeDecides ==
  ASSUME IsFiniteSet(Callers)
  PROVE  Spec => []HalfOpenDecides
<1>1. Inv => HalfOpenDecides
  <2> SUFFICES ASSUME Inv, circuit = "halfOpen", ~Starved, probing = {}
               PROVE  halfOpenRequests < HalfOpenMax
    BY DEF HalfOpenDecides
  <2>1. Cardinality(probing) = 0
    BY FS_EmptySet
  <2>2. /\ halfOpenRequests <= successes + wasted /\ successes < SuccessThreshold
        /\ wasted \in Nat /\ successes \in Nat /\ halfOpenRequests \in Nat
    BY <2>1, ThresholdsAssumption DEF Inv, Counted, BreakerType, WastedType
  <2>3. SuccessThreshold + wasted <= HalfOpenMax
    BY <2>2, ThresholdsAssumption DEF Starved
  <2> QED
    BY <2>2, <2>3, ThresholdsAssumption
<1> QED
  BY <1>1, Invariant, PTL
================================================================================

---------------------------- MODULE WorldPoolProofs ----------------------------
(***************************************************************************)
(* Proofs about WorldPool for every number of worlds and clients, every    *)
(* provider and every bound.                                               *)
(***************************************************************************)
EXTENDS WorldPool, TLAPS

\* A pass that sleeps before another attempt has an attempt left.
AttemptLeft == rpc = "backoff" => attempt < MaxAttempts

TypeInv == TypeOK /\ AttemptLeft

\* The initial state has the types.
LEMMA TypeInit == Init => TypeInv
<1> SUFFICES ASSUME Init PROVE TypeInv
  OBVIOUS
<1>1. 0 \in Worlds /\ 1 \in 1 .. MaxAttempts
  BY InstancesAssumption, BoundsAssumption DEF Worlds
<1>2. /\ state \in [Worlds -> States] /\ result \in [Worlds -> States]
      /\ server \in [Worlds -> States]
  BY DEF Init, States
<1>3. dirty \in [Worlds -> BOOLEAN] /\ verdict \in [Clients -> BOOLEAN]
  BY DEF Init
<1>4. /\ pc \in [Clients -> ClientPc] /\ world \in [Clients -> Worlds]
      /\ exclude \in [Clients -> SUBSET Worlds] /\ leases \in [Clients -> Nat]
      /\ probe \in [Clients -> {"none", "current", "stale"}]
  BY <1>1 DEF Init, ClientPc
<1>5. /\ port \in Clients \cup Tasks /\ rpc \in ReconcilePc
      /\ attempt \in 1 .. MaxAttempts /\ tpc \in TeardownPc /\ faults \in Nat
  BY <1>1 DEF Init, Tasks, ReconcilePc, TeardownPc
<1> QED BY <1>2, <1>3, <1>4, <1>5 DEF Init, TypeInv, TypeOK, AttemptLeft

\* Waking the waiters leaves every program counter in its set.
LEMMA WokenType ==
  ASSUME NEW f \in [Clients -> ClientPc]
  PROVE  Woken(f) \in [Clients -> ClientPc]
  BY DEF Woken, ClientPc

\* mark_unhealthy() preserves the types.
LEMMA TypeMark ==
  ASSUME TypeInv, NEW c \in Clients, NEW next \in ClientPc,
         MarkUnhealthy(c, next)
  PROVE  TypeInv'
<1>1. [pc EXCEPT ![c] = next] \in [Clients -> ClientPc]
  BY DEF TypeInv, TypeOK
<1>2. pc' \in [Clients -> ClientPc]
  BY <1>1, WokenType DEF MarkUnhealthy
<1>3. state' \in [Worlds -> States]
  BY DEF MarkUnhealthy, TypeInv, TypeOK, States
<1>4. /\ leased' \subseteq Worlds /\ available' \subseteq Worlds
      /\ fresh' \subseteq Worlds /\ down' \subseteq Worlds /\ pending' \in BOOLEAN
  BY DEF MarkUnhealthy, TypeInv, TypeOK
<1> QED BY <1>2, <1>3, <1>4
        DEF MarkUnhealthy, TypeInv, TypeOK, AttemptLeft, taskVars, envVars

\* A step of a client preserves the types.
LEMMA TypeClient ==
  ASSUME TypeInv, NEW c \in Clients, ClientStep(c)
  PROVE  TypeInv'
<1> USE DEF TypeInv, TypeOK, AttemptLeft, vars, poolVars, clientVars, taskVars,
            envVars, Goto, Forget, EndTrip
<1>1. CASE Request(c)
  BY <1>1 DEF Request, ClientPc
<1>2. CASE LeaseRefused(c)
  BY <1>2 DEF LeaseRefused, ClientPc
<1>3. CASE LeasePick(c)
  BY <1>3 DEF LeasePick, ClientPc, FirstCall, IsFirst
<1>4. CASE LeaseWait(c) \/ LeaseExhausted(c) \/ LeasePoll(c)
  BY <1>4 DEF LeaseWait, LeaseExhausted, LeasePoll, ClientPc
<1>5. CASE LeaseShutOut(c)
  BY <1>5 DEF LeaseShutOut, ClientPc
<1>6. CASE ResetBegin(c) \/ ProbeBegin(c)
  BY <1>6 DEF ResetBegin, ProbeBegin, PortCall, PortOpen, ClientPc
<1>7. CASE ResetDone(c)
  BY <1>7 DEF ResetDone, ProviderAnswers, Rebuilt, ClientPc, States, Tasks
<1>8. CASE ResetUnready(c)
  BY <1>8 DEF ResetUnready, ProviderAnswers, Fault, ClientPc, States, Tasks
<1>9. CASE ResetRaises(c)
  BY <1>9 DEF ResetRaises, ProviderWrites, Fault, ClientPc, States, Tasks
<1>10. CASE ProbePasses(c)
  BY <1>10 DEF ProbePasses, ProviderAnswers, ClientPc, States, Tasks
<1>11. CASE ProbeFails(c)
  BY <1>11 DEF ProbeFails, ProviderAnswers, Fault, ClientPc, States, Tasks
<1>12. CASE ProbeRaises(c)
  BY <1>12 DEF ProbeRaises, ClientPc, Tasks
<1>13. CASE LeaseStale(c)
  BY <1>13, WokenType DEF LeaseStale, PutBack, ClientPc
<1>14. CASE LeaseGranted(c)
  BY <1>14, WokenType DEF LeaseGranted, ClientPc
<1>15. CASE LeaseRejected(c)
  BY <1>15 DEF LeaseRejected, ClientPc
<1>16. CASE Demote(c) \/ Discard(c)
  <2>1. "schedule" \in ClientPc /\ "reschedule" \in ClientPc
    BY DEF ClientPc
  <2> QED BY <1>16, <2>1, TypeMark DEF Demote, Discard
<1>17. CASE ScheduleReconcile(c)
  BY <1>17 DEF ScheduleReconcile, ClientPc, ReconcilePc
<1>18. CASE Release(c)
  BY <1>18, WokenType DEF Release, PutBack, ClientPc
<1>19. CASE Use(c)
  BY <1>19 DEF Use
<1> QED BY <1>1, <1>2, <1>3, <1>4, <1>5, <1>6, <1>7, <1>8, <1>9, <1>10, <1>11,
           <1>12, <1>13, <1>14, <1>15, <1>16, <1>17, <1>18, <1>19 DEF ClientStep

\* A step of the reconcile task preserves the types.
LEMMA TypeReconcile ==
  ASSUME TypeInv, ReconcileStep
  PROVE  TypeInv'
<1> USE DEF TypeInv, TypeOK, AttemptLeft, poolVars, clientVars, taskVars, envVars
<1>1. CASE LoopStart
  <2>1. attempt' \in 1 .. MaxAttempts
    BY <1>1, BoundsAssumption DEF LoopStart
  <2>2. rpc' \in ReconcilePc /\ rpc' # "backoff"
    BY <1>1 DEF LoopStart, ReconcilePc
  <2>3. pending' \in BOOLEAN
    BY <1>1 DEF LoopStart
  <2> QED BY <1>1, <2>1, <2>2, <2>3 DEF LoopStart
<1>2. CASE ProvisionBegin
  BY <1>2 DEF ProvisionBegin, ReconcilePc, Present, Tasks
<1>3. CASE EnsureSkips
  BY <1>3 DEF EnsureSkips
<1>4. CASE EnsureRebuilds
  BY <1>4 DEF EnsureRebuilds, ProviderWrites, Rebuilt, States
<1>5. CASE PollBegin
  BY <1>5 DEF PollBegin, ReconcilePc
<1>6. CASE PollEnd
  BY <1>6 DEF PollEnd, ProviderWrites, Fault, ReconcilePc, States
<1>7. CASE ProvisionRaises
  <2>1. rpc' = AfterFailure /\ attempt' = attempt
    BY <1>7 DEF ProvisionRaises
  <2>2. rpc' \in ReconcilePc /\ (rpc' = "backoff" => attempt < MaxAttempts)
    BY <2>1, BoundsAssumption DEF AfterFailure, ReconcilePc
  <2>3. state' \in [Worlds -> States] /\ server' \in [Worlds -> States]
    BY <1>7 DEF ProvisionRaises, ProviderWrites, States
  <2>4. session' \in BOOLEAN
    BY <1>7, Zenon DEF ProvisionRaises
  <2>5. faults' \in Nat
    BY <1>7 DEF ProvisionRaises, Fault
  <2> QED BY <1>7, <2>1, <2>2, <2>3, <2>4, <2>5 DEF ProvisionRaises, Tasks
<1>8. CASE SharedEngineRespawned
  BY <1>8 DEF SharedEngineRespawned, Fault, States
<1>9. CASE ProvisionReturns
  <2>1. result' \in [Worlds -> States]
    BY <1>9 DEF ProvisionReturns, Provisioned, States
  <2> QED BY <1>9, <2>1 DEF ProvisionReturns, ReconcilePc, Tasks
<1>10. CASE Backoff
  BY <1>10, BoundsAssumption DEF Backoff, ReconcilePc
<1>11. CASE GiveUp
  BY <1>11, WokenType DEF GiveUp, ReconcilePc
<1>12. CASE ReconcileProbes
  BY <1>12 DEF ReconcileProbes, Achieved, Present, ReconcilePc, Tasks
<1>13. CASE WorldProbedWell
  BY <1>13 DEF WorldProbedWell, WorldProbed, ProbeWrites, ReconcilePc, States, Tasks
<1>14. CASE WorldProbedBadly
  BY <1>14 DEF WorldProbedBadly, WorldProbed, ProbeWrites, Fault, ReconcilePc,
                States, Tasks
<1>15. CASE Install
  <2>1. state' \in [Worlds -> States] /\ result' \in [Worlds -> States]
    BY <1>15 DEF Install, States
  <2>2. probe' \in [Clients -> {"none", "current", "stale"}]
    BY <1>15 DEF Install
  <2>3. pc' \in [Clients -> ClientPc]
    BY <1>15, WokenType DEF Install
  <2>4. down' \subseteq Worlds /\ available' \subseteq Worlds /\ fresh' \subseteq Worlds
    BY <1>15 DEF Install, StillDown, BackInPool
  <2> QED BY <1>15, <2>1, <2>2, <2>3, <2>4 DEF Install, ReconcilePc
<1>16. CASE LoopCheck
  BY <1>16, BoundsAssumption DEF LoopCheck, AfterPass, ReconcilePc
<1> QED BY <1>1, <1>2, <1>3, <1>4, <1>5, <1>6, <1>7, <1>8, <1>9, <1>10, <1>11,
           <1>12, <1>13, <1>14, <1>15, <1>16 DEF ReconcileStep

\* start(), close(), the teardown task and the cancel signal preserve the types.
LEMMA TypeJob ==
  ASSUME TypeInv, Start \/ Cancel \/ TeardownStep
  PROVE  TypeInv'
<1> USE DEF TypeInv, TypeOK, AttemptLeft, poolVars, clientVars, taskVars, envVars
<1>1. CASE Start
  <2>6. PICK n \in FirstSizes : \E s \in [0 .. n - 1 -> FirstStates] :
          /\ state' = [w \in Worlds |-> IF w < n THEN s[w] ELSE "absent"]
          /\ available' = {w \in 0 .. n - 1 : s[w] \in {"ready", "preparing"}}
          /\ fresh' = {w \in 0 .. n - 1 : s[w] = "ready"}
          /\ down' = {w \in 0 .. n - 1 : s[w] = "unhealthy"}
    BY <1>1 DEF Start
  <2>1. PICK s \in [0 .. n - 1 -> FirstStates] :
          /\ state' = [w \in Worlds |-> IF w < n THEN s[w] ELSE "absent"]
          /\ available' = {w \in 0 .. n - 1 : s[w] \in {"ready", "preparing"}}
          /\ fresh' = {w \in 0 .. n - 1 : s[w] = "ready"}
          /\ down' = {w \in 0 .. n - 1 : s[w] = "unhealthy"}
    BY <2>6
  <2>2. n \in 1 .. Instances /\ FirstStates \subseteq States
    BY InstancesAssumption DEF FirstSizes, FirstStates, States
  <2>3. 0 .. n - 1 \subseteq Worlds
    BY <2>2, InstancesAssumption DEF Worlds
  <2>4. state' \in [Worlds -> States]
    <3>1. ASSUME NEW w \in Worlds
          PROVE  (IF w < n THEN s[w] ELSE "absent") \in States
      <4>1. CASE w < n
        <5>1. w \in 0 .. n - 1
          BY <4>1, <2>2 DEF Worlds
        <5>2. s[w] \in FirstStates
          BY <5>1
        <5> QED BY <4>1, <5>2, <2>2
      <4>2. CASE ~(w < n)
        BY <4>2 DEF States
      <4> QED BY <4>1, <4>2
    <3> QED BY <2>1, <3>1
  <2>5. server' \in [Worlds -> States]
    BY <1>1, <2>4 DEF Start
  <2> QED BY <1>1, <2>1, <2>3, <2>4, <2>5 DEF Start
<1>2. CASE Cancel
  BY <1>2 DEF Cancel
<1>3. CASE TeardownStep
  <2>1. CASE Close
    BY <2>1, WokenType DEF Close, TeardownPc
  <2>2. CASE TeardownAwaits \/ TeardownCloses
    BY <2>2 DEF TeardownAwaits, TeardownCloses, TeardownPc, Tasks
  <2>3. CASE TeardownDone
    BY <2>3 DEF TeardownDone, TeardownPc, Tasks, States
  <2> QED BY <1>3, <2>1, <2>2, <2>3 DEF TeardownStep
<1> QED BY <1>1, <1>2, <1>3

\* Every step preserves the types.
LEMMA TypeStep == TypeInv /\ [Next]_vars => TypeInv'
<1> SUFFICES ASSUME TypeInv, [Next]_vars PROVE TypeInv'
  OBVIOUS
<1>1. CASE Next
  BY <1>1, TypeClient, TypeReconcile, TypeJob DEF Next
<1>2. CASE UNCHANGED vars
  BY <1>2 DEF TypeInv, TypeOK, AttemptLeft, vars, poolVars, clientVars,
              taskVars, envVars
<1> QED BY <1>1, <1>2

\* Every variable of the pool keeps its type, and no reconcile pass makes more
\* attempts than _RECONCILE_MAX_ATTEMPTS.
THEOREM TypeCorrect == Spec => []TypeOK
<1>1. TypeInv => TypeOK
  BY DEF TypeInv
<1> QED BY <1>1, TypeInit, TypeStep, PTL DEF Spec
--------------------------------------------------------------------------------
(* Exclusive leases.  LeaseExclusive is not inductive: a step that gives an   *)
(* index back or takes one must know that _leased names the worlds at work and *)
(* that an index is in one set only.                                           *)

\* The world a client works on is in _leased.
EngagedLeased == \A c \in Clients : Engaged(c) => world[c] \in leased

Owners == EngagedLeased /\ LeaseExclusive

\* Before start() nobody asks for a world and none is out.
Unstarted == ~started => leased = {} /\ \A c \in Clients : pc[c] = "idle"

LeaseInv == TypeInv /\ IndexSets /\ Owners /\ Unstarted

\* A step that takes no index and gives none back keeps the owners.
LEMMA OwnersKept ==
  ASSUME Owners, world' = world, leased' = leased,
         \A d \in Clients : Engaged(d)' => Engaged(d)
  PROVE  Owners'
  BY DEF Owners, EngagedLeased, LeaseExclusive

\* A client that gives its index back leaves the other owners theirs.
LEMMA OwnerLeaves ==
  ASSUME Owners, NEW c \in Clients, Engaged(c), world' = world,
         leased' = leased \ {world[c]}, ~Engaged(c)',
         \A d \in Clients \ {c} : Engaged(d)' => Engaged(d)
  PROVE  Owners'
  BY DEF Owners, EngagedLeased, LeaseExclusive

\* Waking the waiters engages nobody.
LEMMA WokenEngages ==
  ASSUME NEW f \in [Clients -> ClientPc], pc' = Woken(f), NEW d \in Clients
  PROVE  pc'[d] = f[d] \/ (f[d] = "wait" /\ pc'[d] = "top")
  BY DEF Woken

\* The sets stay apart in a step that leaves them alone.
LEMMA SetsKept ==
  ASSUME IndexSets, UNCHANGED <<available, leased, down, fresh>>
  PROVE  IndexSets'
  BY DEF IndexSets

\* mark_unhealthy() moves an engaged client's world to _down.
LEMMA LeaseMark ==
  ASSUME LeaseInv, NEW c \in Clients, Engaged(c),
         NEW next \in {"schedule", "reschedule"}, MarkUnhealthy(c, next)
  PROVE  IndexSets' /\ Owners'
<1>1. IndexSets'
  BY DEF LeaseInv, IndexSets, MarkUnhealthy
<1>2. [pc EXCEPT ![c] = next] \in [Clients -> ClientPc]
  BY DEF LeaseInv, TypeInv, TypeOK, ClientPc
<1>3. ASSUME NEW d \in Clients, Engaged(d)' PROVE d # c /\ Engaged(d)
  BY <1>2, <1>3, WokenEngages
  DEF MarkUnhealthy, Engaged, LeaseInv, TypeInv, TypeOK
<1>4. Owners'
  BY <1>3, OwnerLeaves DEF LeaseInv, MarkUnhealthy
<1> QED BY <1>1, <1>4

\* A step of a client keeps the sets apart and the leases exclusive.
LEMMA LeaseClient ==
  ASSUME LeaseInv, NEW c \in Clients, ClientStep(c)
  PROVE  IndexSets' /\ Owners'
<1> USE DEF LeaseInv, TypeInv, TypeOK, poolVars
<1>1. CASE LeasePick(c)
  <2>1. PICK w \in Worlds :
          /\ w \in available /\ available' = available \ {w}
          /\ leased' = leased \cup {w} /\ fresh' = fresh \ {w}
          /\ world' = [world EXCEPT ![c] = w]
          /\ pc' = [pc EXCEPT ![c] = FirstCall(w)]
    BY <1>1 DEF LeasePick, IsFirst, Goto
  <2>2. IndexSets'
    BY <1>1, <2>1 DEF LeasePick, IndexSets
  <2>3. w \notin leased
    BY <2>1 DEF IndexSets
  <2>4. ASSUME NEW d \in Clients, Engaged(d)', d # c
        PROVE  Engaged(d) /\ world'[d] = world[d]
    BY <2>1, <2>4 DEF Engaged
  <2>5. world'[c] = w
    BY <2>1
  <2>6. EngagedLeased'
    BY <2>1, <2>4, <2>5 DEF Owners, EngagedLeased
  <2>7. LeaseExclusive'
    BY <2>3, <2>4, <2>5 DEF Owners, EngagedLeased, LeaseExclusive
  <2> QED BY <2>2, <2>6, <2>7 DEF Owners
<1>2. CASE \/ Request(c) \/ LeaseRefused(c) \/ LeaseWait(c) \/ LeaseExhausted(c)
          \/ LeasePoll(c) \/ LeaseShutOut(c)
  <2>1. /\ world' = world /\ UNCHANGED <<available, leased, down, fresh>>
        /\ \E p \in {"top", "wait", "refused"} : pc' = [pc EXCEPT ![c] = p]
    BY <1>2 DEF Request, LeaseRefused, LeaseWait, LeaseExhausted, LeasePoll,
                LeaseShutOut, Goto, Forget
  <2>2. \A d \in Clients : Engaged(d)' => Engaged(d)
    BY <2>1 DEF Engaged
  <2> QED BY <2>1, <2>2, OwnersKept, SetsKept
<1>3. CASE \/ ResetBegin(c) \/ ProbeBegin(c) \/ ResetDone(c) \/ ResetUnready(c)
          \/ ResetRaises(c) \/ ProbePasses(c) \/ ProbeFails(c) \/ ProbeRaises(c)
          \/ LeaseRejected(c) \/ ScheduleReconcile(c) \/ Use(c)
  <2>1. /\ world' = world /\ UNCHANGED <<available, leased, down, fresh>>
        /\ \A d \in Clients \ {c} : pc'[d] = pc[d]
    BY <1>3 DEF ResetBegin, ProbeBegin, PortCall, ResetDone, ResetUnready,
                ResetRaises, ProbePasses, ProbeFails, ProbeRaises, LeaseRejected,
                ScheduleReconcile, Use, Goto, clientVars
  <2>2. Engaged(c)' => Engaged(c)
    BY <1>3 DEF ResetBegin, ProbeBegin, PortCall, ResetDone, ResetUnready,
                ResetRaises, ProbePasses, ProbeFails, ProbeRaises, LeaseRejected,
                ScheduleReconcile, Use, Goto, clientVars, Engaged
  <2>3. \A d \in Clients : Engaged(d)' => Engaged(d)
    BY <2>1, <2>2 DEF Engaged
  <2> QED BY <2>1, <2>3, OwnersKept, SetsKept
<1>4. CASE LeaseStale(c)
  <2>1. IndexSets'
    BY <1>4 DEF LeaseStale, PutBack, IndexSets, Owners, EngagedLeased, Engaged
  <2>2. [pc EXCEPT ![c] = "top"] \in [Clients -> ClientPc]
    BY DEF ClientPc
  <2>3. ASSUME NEW d \in Clients, Engaged(d)' PROVE d # c /\ Engaged(d)
    BY <1>4, <2>2, <2>3, WokenEngages DEF LeaseStale, Engaged
  <2>4. Owners'
    BY <1>4, <2>3, OwnerLeaves DEF LeaseStale, Engaged
  <2> QED BY <2>1, <2>4
<1>5. CASE LeaseGranted(c)
  <2>1. [pc EXCEPT ![c] = "hold"] \in [Clients -> ClientPc]
    BY DEF ClientPc
  <2>2. ASSUME NEW d \in Clients, Engaged(d)' PROVE Engaged(d)
    BY <1>5, <2>1, <2>2, WokenEngages DEF LeaseGranted, Engaged
  <2>3. world' = world /\ UNCHANGED <<available, leased, down, fresh>>
    BY <1>5 DEF LeaseGranted
  <2> QED BY <2>2, <2>3, OwnersKept, SetsKept
<1>6. CASE Demote(c) \/ Discard(c)
  BY <1>6, LeaseMark DEF Demote, Discard, Engaged
<1>7. CASE Release(c)
  <2>1. IndexSets'
    BY <1>7 DEF Release, PutBack, IndexSets, Owners, EngagedLeased, Engaged
  <2>2. [pc EXCEPT ![c] = "idle"] \in [Clients -> ClientPc]
    BY DEF ClientPc
  <2>3. ASSUME NEW d \in Clients, Engaged(d)' PROVE d # c /\ Engaged(d)
    BY <1>7, <2>2, <2>3, WokenEngages DEF Release, Engaged
  <2>4. Owners'
    BY <1>7, <2>3, OwnerLeaves DEF Release, Engaged
  <2> QED BY <2>1, <2>4
<1> QED BY <1>1, <1>2, <1>3, <1>4, <1>5, <1>6, <1>7 DEF ClientStep

\* A step of the reconcile task, of close() or of the job keeps them too.
LEMMA LeaseTasks ==
  ASSUME LeaseInv, Start \/ Cancel \/ ReconcileStep \/ TeardownStep
  PROVE  IndexSets' /\ Owners'
<1> USE DEF LeaseInv, TypeInv, TypeOK, poolVars, clientVars
<1>1. CASE Install
  <2>1. IndexSets'
    BY <1>1 DEF Install, StillDown, BackInPool, IndexSets
  <2>2. \A d \in Clients : Engaged(d)' => Engaged(d)
    BY <1>1, WokenEngages DEF Install, Engaged
  <2> QED BY <1>1, <2>1, <2>2, OwnersKept DEF Install
<1>2. CASE GiveUp \/ Close
  <2>1. \A d \in Clients : Engaged(d)' => Engaged(d)
    BY <1>2, WokenEngages DEF GiveUp, Close, Engaged
  <2>2. world' = world /\ UNCHANGED <<available, leased, down, fresh>>
    BY <1>2 DEF GiveUp, Close
  <2> QED BY <2>1, <2>2, OwnersKept, SetsKept
<1>3. CASE Start
  <2>1. IndexSets'
    <3>1. leased' = {}
      BY <1>3 DEF Start, Unstarted
    <3>2. PICK n \in FirstSizes : \E s \in [0 .. n - 1 -> FirstStates] :
            /\ available' = {w \in 0 .. n - 1 : s[w] \in {"ready", "preparing"}}
            /\ fresh' = {w \in 0 .. n - 1 : s[w] = "ready"}
            /\ down' = {w \in 0 .. n - 1 : s[w] = "unhealthy"}
      BY <1>3 DEF Start
    <3> QED BY <3>1, <3>2 DEF IndexSets
  <2>2. pc' = pc /\ world' = world /\ leased' = leased
    BY <1>3 DEF Start
  <2> QED BY <2>1, <2>2, OwnersKept DEF Engaged
<1>4. CASE \/ LoopStart \/ ProvisionBegin \/ EnsureSkips \/ EnsureRebuilds
          \/ PollBegin \/ PollEnd \/ ProvisionRaises \/ SharedEngineRespawned
          \/ ProvisionReturns \/ Backoff \/ ReconcileProbes \/ WorldProbedWell
          \/ WorldProbedBadly \/ LoopCheck
          \/ Cancel \/ TeardownAwaits \/ TeardownCloses \/ TeardownDone
  <2>1. /\ pc' = pc /\ world' = world /\ UNCHANGED <<available, leased, down, fresh>>
    BY <1>4 DEF LoopStart, ProvisionBegin, EnsureSkips, EnsureRebuilds,
                PollBegin, PollEnd, ProvisionRaises, SharedEngineRespawned,
                ProvisionReturns, Backoff, ReconcileProbes, WorldProbedWell,
                WorldProbedBadly, LoopCheck,
                Cancel, TeardownAwaits, TeardownCloses, TeardownDone
  <2> QED BY <2>1, OwnersKept, SetsKept DEF Engaged
<1> QED BY <1>1, <1>2, <1>3, <1>4 DEF ReconcileStep, TeardownStep

\* Only start() ends the time before it, and no step acts earlier.
LEMMA UnstartedStep ==
  ASSUME LeaseInv, Next
  PROVE  Unstarted'
<1> SUFFICES ASSUME ~started'
             PROVE  leased' = {} /\ \A c \in Clients : pc'[c] = "idle"
  BY DEF Unstarted
<1> USE DEF LeaseInv, TypeInv, TypeOK, poolVars, clientVars
<1>1. CASE \E c \in Clients : ClientStep(c)
  <2>1. PICK c \in Clients : ClientStep(c)
    BY <1>1
  <2>2. started
    BY <2>1 DEF Unstarted, ClientStep, Request, LeaseRefused, LeasePick, LeaseWait,
       LeaseExhausted, LeasePoll, LeaseShutOut, ResetBegin, ProbeBegin, PortCall,
       ResetDone, ResetUnready, ResetRaises, ProbePasses, ProbeFails, ProbeRaises,
       LeaseStale, LeaseGranted, LeaseRejected, Demote, Discard, MarkUnhealthy,
       ScheduleReconcile, Release, Use
  <2>3. started' = started
    BY <2>1 DEF ClientStep, Request, LeaseRefused, LeasePick, LeaseWait,
       LeaseExhausted, LeasePoll, LeaseShutOut, ResetBegin, ProbeBegin, PortCall,
       ResetDone, ResetUnready, ResetRaises, ProbePasses, ProbeFails, ProbeRaises,
       LeaseStale, LeaseGranted, LeaseRejected, Demote, Discard, MarkUnhealthy,
       ScheduleReconcile, Release, Use
  <2> QED BY <2>2, <2>3
<1>2. CASE Start \/ Close
  BY <1>2 DEF Start, Close
<1>3. CASE Install \/ GiveUp
  BY <1>3 DEF Install, GiveUp, Woken, Unstarted
<1>4. CASE \/ LoopStart \/ ProvisionBegin \/ EnsureSkips \/ EnsureRebuilds
          \/ PollBegin \/ PollEnd \/ ProvisionRaises \/ SharedEngineRespawned
          \/ ProvisionReturns \/ Backoff \/ ReconcileProbes \/ WorldProbedWell
          \/ WorldProbedBadly \/ LoopCheck
          \/ Cancel \/ TeardownAwaits \/ TeardownCloses \/ TeardownDone
  BY <1>4 DEF LoopStart, ProvisionBegin, EnsureSkips, EnsureRebuilds,
              PollBegin, PollEnd, ProvisionRaises, SharedEngineRespawned,
              ProvisionReturns, Backoff, ReconcileProbes, WorldProbedWell,
              WorldProbedBadly, LoopCheck, Unstarted,
              Cancel, TeardownAwaits, TeardownCloses, TeardownDone
<1> QED BY <1>1, <1>2, <1>3, <1>4 DEF Next, ReconcileStep, TeardownStep

\* Every step preserves the lease invariant.
LEMMA LeaseStep == LeaseInv /\ [Next]_vars => LeaseInv'
<1> SUFFICES ASSUME LeaseInv, [Next]_vars PROVE LeaseInv'
  OBVIOUS
<1>1. TypeInv'
  BY TypeStep DEF LeaseInv
<1>2. CASE Next
  BY <1>1, <1>2, LeaseClient, LeaseTasks, UnstartedStep DEF Next, LeaseInv
<1>3. CASE UNCHANGED vars
  BY <1>1, <1>3, OwnersKept, SetsKept
  DEF LeaseInv, Engaged, Unstarted, vars, poolVars, clientVars
<1> QED BY <1>2, <1>3

\* Nobody works on a world in the initial state.
LEMMA LeaseInit == Init => LeaseInv
  BY TypeInit
  DEF Init, LeaseInv, IndexSets, Owners, EngagedLeased, LeaseExclusive, Engaged,
      Unstarted

\* Two clients never work on the same world: whatever the provider returns, and
\* however a reconcile, a stale verdict or a close overlaps with their leases.
THEOREM LeaseIsExclusive == Spec => []LeaseExclusive
<1>1. LeaseInv => LeaseExclusive
  BY DEF LeaseInv, Owners
<1> QED BY <1>1, LeaseInit, LeaseStep, PTL DEF Spec

\* No index is in two of _available, _leased and _down, and _fresh names only
\* available worlds.
THEOREM IndexSetsApart == Spec => []IndexSets
<1>1. LeaseInv => IndexSets
  BY DEF LeaseInv
<1> QED BY <1>1, LeaseInit, LeaseStep, PTL DEF Spec
--------------------------------------------------------------------------------
(* Recovery: a demotion is answered by a reconcile pass. *)

\* A step of a client keeps the demotion owed a pass.
LEMMA OwedClient ==
  ASSUME TypeInv, RecoveryOwed, NEW c \in Clients, ClientStep(c)
  PROVE  RecoveryOwed'
<1> USE DEF TypeInv, TypeOK, poolVars, clientVars, taskVars, InFlight
<1> DEFINE Owing(d) == pc[d] \in {"schedule", "reschedule"}
<1>1. CASE Demote(c) \/ Discard(c)
  <2>1. \E n \in {"schedule", "reschedule"} : MarkUnhealthy(c, n)
    BY <1>1 DEF Demote, Discard
  <2>2. pc'[c] \in {"schedule", "reschedule"}
    BY <2>1 DEF MarkUnhealthy, Woken
  <2> QED BY <2>2 DEF RecoveryOwed
<1>2. CASE ScheduleReconcile(c)
  BY <1>2 DEF ScheduleReconcile, RecoveryOwed
<1>3. CASE LeaseStale(c) \/ LeaseGranted(c) \/ Release(c)
  <2>1. \A d \in Clients : Owing(d) => Owing(d)'
    BY <1>3 DEF LeaseStale, LeaseGranted, Release, Woken
  <2>2. pending' = pending /\ closed' = closed /\ rpc' = rpc
    BY <1>3 DEF LeaseStale, LeaseGranted, Release
  <2> QED BY <2>1, <2>2 DEF RecoveryOwed
<1>4. CASE \/ Request(c) \/ LeaseRefused(c) \/ LeasePick(c) \/ LeaseWait(c)
          \/ LeaseExhausted(c) \/ LeasePoll(c) \/ LeaseShutOut(c)
          \/ ResetBegin(c) \/ ProbeBegin(c) \/ ResetDone(c) \/ ResetUnready(c)
          \/ ResetRaises(c) \/ ProbePasses(c) \/ ProbeFails(c) \/ ProbeRaises(c)
          \/ LeaseRejected(c) \/ Use(c)
  <2>1. \A d \in Clients : Owing(d) => Owing(d)'
    BY <1>4 DEF Request, LeaseRefused, LeasePick, LeaseWait, LeaseExhausted,
       LeasePoll, LeaseShutOut, ResetBegin, ProbeBegin, PortCall, ResetDone,
       ResetUnready, ResetRaises, ProbePasses, ProbeFails, ProbeRaises,
       LeaseRejected, Use, Goto
  <2>2. pending' = pending /\ closed' = closed /\ rpc' = rpc
    BY <1>4 DEF Request, LeaseRefused, LeasePick, LeaseWait, LeaseExhausted,
       LeasePoll, LeaseShutOut, ResetBegin, ProbeBegin, PortCall, ResetDone,
       ResetUnready, ResetRaises, ProbePasses, ProbeFails, ProbeRaises,
       LeaseRejected, Use
  <2> QED BY <2>1, <2>2 DEF RecoveryOwed
<1> QED BY <1>1, <1>2, <1>3, <1>4 DEF ClientStep

\* A step of the reconcile task, of close() or of the job keeps it too.
LEMMA OwedTasks ==
  ASSUME TypeInv, RecoveryOwed, Start \/ Cancel \/ ReconcileStep \/ TeardownStep
  PROVE  RecoveryOwed'
<1> USE DEF TypeInv, TypeOK, poolVars, clientVars, taskVars, InFlight
<1>1. CASE LoopStart
  BY <1>1 DEF LoopStart, RecoveryOwed
<1>2. CASE LoopCheck
  BY <1>2 DEF LoopCheck, AfterPass, RecoveryOwed
<1>3. CASE Install \/ GiveUp
  BY <1>3 DEF Install, GiveUp, RecoveryOwed
<1>4. CASE Close
  BY <1>4 DEF Close, RecoveryOwed
<1>5. CASE \/ ProvisionBegin \/ EnsureSkips \/ EnsureRebuilds \/ PollBegin \/ PollEnd
          \/ ProvisionRaises \/ ProvisionReturns
          \/ Backoff \/ ReconcileProbes \/ WorldProbedWell \/ WorldProbedBadly
  <2>1. pending' = pending /\ closed' = closed /\ rpc' # "off"
    BY <1>5 DEF ProvisionBegin, EnsureSkips, EnsureRebuilds, PollBegin, PollEnd,
       ProvisionRaises, AfterFailure, ProvisionReturns, Backoff, ReconcileProbes,
       WorldProbedWell, WorldProbedBadly, WorldProbed
  <2> QED BY <2>1 DEF RecoveryOwed
<1>6. CASE Start \/ Cancel \/ TeardownAwaits \/ TeardownCloses \/ TeardownDone
          \/ SharedEngineRespawned
  BY <1>6 DEF SharedEngineRespawned, Start, Cancel, TeardownAwaits, TeardownCloses, TeardownDone,
              RecoveryOwed
<1> QED BY <1>1, <1>2, <1>3, <1>4, <1>5, <1>6 DEF ReconcileStep, TeardownStep

\* While a demotion is pending and the pool is open, a reconcile task is running
\* or a client is about to create one.
THEOREM RecoveryIsOwed == Spec => []RecoveryOwed
<1>1. Init => TypeInv /\ RecoveryOwed
  BY TypeInit DEF Init, RecoveryOwed
<1>2. TypeInv /\ RecoveryOwed /\ [Next]_vars => TypeInv' /\ RecoveryOwed'
  <2> SUFFICES ASSUME TypeInv, RecoveryOwed, [Next]_vars
               PROVE  TypeInv' /\ RecoveryOwed'
    OBVIOUS
  <2>1. TypeInv'
    BY TypeStep
  <2>2. CASE Next
    BY <2>1, <2>2, OwedClient, OwedTasks DEF Next
  <2>3. CASE UNCHANGED vars
    BY <2>1, <2>3 DEF RecoveryOwed, InFlight, vars, poolVars, clientVars, taskVars
  <2> QED BY <2>2, <2>3
<1> QED BY <1>1, <1>2, PTL DEF Spec
--------------------------------------------------------------------------------
(* The provider lock and close().  The lock names exactly the caller that is   *)
(* inside the provider, and once the teardown task stops waiting no reconcile  *)
(* exists or can be created.                                                   *)

Calling(c) == pc[c] \in {"resetting", "probing"}

PortHeld ==
  /\ \A c \in Clients : Calling(c) => port = c
  /\ rpc \in {"ensuring", "polling", "probing"} => port = "reconcile"
  /\ tpc = "closing" => port = "teardown"

CloseOrder ==
  /\ tpc # "none" => closed
  /\ tpc \in {"toClose", "closing", "done"} => rpc = "off"
  /\ tpc = "done" => port = "none"
  /\ port = "reconcile" => rpc \in {"ensuring", "polling", "probing"}

PortInv == TypeInv /\ PortHeld /\ CloseOrder

\* No client is the reconcile task, the teardown task or nobody.
LEMMA ClientsAreNotTasks ==
  ASSUME NEW c \in Clients
  PROVE  c # "none" /\ c # "reconcile" /\ c # "teardown"
  BY ClientsAssumption DEF Tasks

\* A step of a client respects the provider lock.
LEMMA PortClient ==
  ASSUME PortInv, NEW c \in Clients, ClientStep(c)
  PROVE  PortHeld' /\ CloseOrder'
<1> USE ClientsAreNotTasks
    DEF PortInv, TypeInv, TypeOK, PortHeld, CloseOrder, Calling, poolVars,
        clientVars, taskVars
<1>1. CASE ResetBegin(c) \/ ProbeBegin(c)
  BY <1>1 DEF ResetBegin, ProbeBegin, PortCall, PortOpen, Goto
<1>2. CASE ResetDone(c) \/ ResetUnready(c) \/ ResetRaises(c) \/ ProbePasses(c)
          \/ ProbeFails(c) \/ ProbeRaises(c)
  <2>1. /\ port = c /\ port' = "none"
        /\ pc'[c] \in {"toProbe", "verdict"}
        /\ \A d \in Clients \ {c} : pc'[d] = pc[d]
        /\ UNCHANGED <<rpc, tpc, closed>>
    BY <1>2 DEF ResetDone, ResetUnready, ResetRaises, ProbePasses, ProbeFails,
                ProbeRaises, Goto
  <2> QED BY <2>1
<1>3. CASE LeaseStale(c) \/ LeaseGranted(c) \/ Release(c) \/ Demote(c) \/ Discard(c)
  <2>1. \A d \in Clients : Calling(d)' => Calling(d)
    BY <1>3 DEF LeaseStale, LeaseGranted, Release, Demote, Discard, MarkUnhealthy,
                Woken
  <2>2. UNCHANGED <<port, rpc, tpc, closed>>
    BY <1>3 DEF LeaseStale, LeaseGranted, Release, Demote, Discard, MarkUnhealthy
  <2> QED BY <2>1, <2>2
<1>4. CASE ScheduleReconcile(c)
  <2>1. \A d \in Clients : Calling(d)' => Calling(d)
    BY <1>4 DEF ScheduleReconcile, Goto
  <2>2. /\ UNCHANGED <<port, tpc, closed>>
        /\ rpc' = rpc \/ (rpc' = "start" /\ rpc = "off" /\ ~closed)
    BY <1>4 DEF ScheduleReconcile, InFlight
  <2> QED BY <2>1, <2>2
<1>5. CASE \/ Request(c) \/ LeaseRefused(c) \/ LeasePick(c) \/ LeaseWait(c)
          \/ LeaseExhausted(c) \/ LeasePoll(c) \/ LeaseShutOut(c)
          \/ LeaseRejected(c) \/ Use(c)
  <2>1. \A d \in Clients : Calling(d)' => Calling(d)
    BY <1>5 DEF Request, LeaseRefused, LeasePick, FirstCall, LeaseWait,
       LeaseExhausted, LeasePoll, LeaseShutOut, LeaseRejected, Use, Goto
  <2>2. UNCHANGED <<port, rpc, tpc, closed>>
    BY <1>5 DEF Request, LeaseRefused, LeasePick, LeaseWait,
       LeaseExhausted, LeasePoll, LeaseShutOut, LeaseRejected, Use
  <2> QED BY <2>1, <2>2
<1> QED BY <1>1, <1>2, <1>3, <1>4, <1>5 DEF ClientStep

\* So does a step of the reconcile task, of close() or of the job.
LEMMA PortTasks ==
  ASSUME PortInv, Start \/ Cancel \/ ReconcileStep \/ TeardownStep
  PROVE  PortHeld' /\ CloseOrder'
<1> USE ClientsAreNotTasks
    DEF PortInv, TypeInv, TypeOK, PortHeld, CloseOrder, Calling, poolVars,
        clientVars, taskVars
<1>1. CASE LoopStart \/ Backoff \/ LoopCheck
  BY <1>1 DEF LoopStart, Backoff, LoopCheck, AfterPass
<1>2. CASE ProvisionBegin \/ ReconcileProbes
  BY <1>2 DEF ProvisionBegin, ReconcileProbes
<1>3. CASE EnsureSkips \/ EnsureRebuilds \/ PollBegin \/ PollEnd
  BY <1>3 DEF EnsureSkips, EnsureRebuilds, PollBegin, PollEnd
<1>4. CASE ProvisionRaises \/ ProvisionReturns
  <2>1. /\ rpc = "ensuring" /\ port' = "none"
        /\ rpc' \in {"giveUp", "backoff", "check", "toProbe"}
        /\ UNCHANGED <<pc, tpc, closed>>
    BY <1>4 DEF ProvisionRaises, ProvisionReturns, AfterFailure
  <2> QED BY <2>1
<1>5. CASE WorldProbedWell \/ WorldProbedBadly
  <2>1. /\ rpc = "probing" /\ UNCHANGED <<pc, tpc, closed>>
        /\ \/ port' = port /\ rpc' = rpc
           \/ port' = "none" /\ rpc' = "install"
    BY <1>5 DEF WorldProbedWell, WorldProbedBadly, WorldProbed
  <2> QED BY <2>1
<1>6. CASE Install \/ GiveUp
  <2>1. /\ rpc \in {"install", "giveUp"} /\ rpc' = "check"
        /\ UNCHANGED <<port, tpc, closed>>
        /\ \A d \in Clients : Calling(d)' => Calling(d)
    BY <1>6 DEF Install, GiveUp, Woken
  <2> QED BY <2>1
<1>7. CASE Close
  <2>1. \A d \in Clients : Calling(d)' => Calling(d)
    BY <1>7 DEF Close, Woken
  <2> QED BY <1>7, <2>1 DEF Close
<1>8. CASE TeardownAwaits \/ TeardownCloses \/ TeardownDone
  BY <1>8 DEF TeardownAwaits, TeardownCloses, TeardownDone, InFlight
<1>9. CASE Start \/ Cancel \/ SharedEngineRespawned
  BY <1>9 DEF Start, Cancel, SharedEngineRespawned
<1> QED BY <1>1, <1>2, <1>3, <1>4, <1>5, <1>6, <1>7, <1>8, <1>9
        DEF ReconcileStep, TeardownStep

\* Every step respects it.
LEMMA PortStep == PortInv /\ [Next]_vars => PortInv'
<1> SUFFICES ASSUME PortInv, [Next]_vars PROVE PortInv'
  OBVIOUS
<1>1. TypeInv'
  BY TypeStep DEF PortInv
<1>2. CASE Next
  BY <1>1, <1>2, PortClient, PortTasks DEF Next, PortInv
<1>3. CASE UNCHANGED vars
  BY <1>1, <1>3 DEF PortInv, PortHeld, CloseOrder, Calling, vars, poolVars,
                    clientVars, taskVars
<1> QED BY <1>2, <1>3

\* In the initial state nobody is in the provider.
LEMMA PortInit == Init => PortInv
  BY TypeInit, ClientsAreNotTasks
  DEF Init, PortInv, PortHeld, CloseOrder, Calling

\* Nothing calls the provider once its close() has started.
THEOREM NothingCallsAClosedProvider == Spec => []ClosedProviderUntouched
<1>1. PortInv => ClosedProviderUntouched
  BY ClientsAreNotTasks
  DEF PortInv, PortHeld, CloseOrder, Calling, ClosedProviderUntouched, InFlight
<1> QED BY <1>1, PortInit, PortStep, PTL DEF Spec
--------------------------------------------------------------------------------
(* Every world accounted for.  The three sets cover the pool only as long as no *)
(* call brings a world into being outside of start() and the reconcile's state  *)
(* section, and the broker, whose provision() returns new objects, returns all  *)
(* of them.                                                                     *)

Exists(w) == state[w] # "absent"

Accounted == \A w \in Worlds : Exists(w) => w \in available \cup leased \cup down

AtWork == ~closed => \A w \in leased : \E c \in Clients : Engaged(c) /\ world[c] = w

\* A call in flight is about worlds that have a runtime.
CallsPresent ==
  /\ \A c \in Clients : Calling(c) => Exists(world[c])
  /\ rpc \in {"ensuring", "polling", "probing"} => \A w \in todo : Exists(w)

\* The broker's provision() returns every world.
WholePool ==
  /\ rpc # "off" => started
  /\ Provider = "broker" =>
       /\ started => \A w \in Worlds : Exists(w) /\ server[w] # "absent"
       /\ rpc \in {"toProbe", "probing", "install"} =>
            \A w \in Worlds : result[w] # "absent"

AccountInv == LeaseInv /\ Accounted /\ AtWork /\ CallsPresent /\ WholePool

\* No step of a client brings a world into being or ends one.
LEMMA ExistsClient ==
  ASSUME AccountInv, NEW c \in Clients, ClientStep(c), NEW w \in Worlds
  PROVE  /\ Exists(w)' <=> Exists(w)
         /\ server[w] # "absent" => server'[w] # "absent"
<1> USE DEF AccountInv, LeaseInv, TypeInv, TypeOK, poolVars, envVars, Exists
<1>1. CASE ResetDone(c) \/ ResetUnready(c) \/ ResetRaises(c)
           \/ ProbePasses(c) \/ ProbeFails(c)
  <2>1. Exists(world[c])
    BY <1>1 DEF ResetDone, ResetUnready, ResetRaises, ProbePasses, ProbeFails,
                CallsPresent, Calling
  <2>2. \/ UNCHANGED <<state, server>>
        \/ \E s \in States \ {"absent"} :
             \/ ProviderAnswers(world[c], s) \/ ProviderWrites(world[c], s)
    BY <1>1 DEF ResetDone, ResetUnready, ResetRaises, ProbePasses, ProbeFails, States
  <2> QED BY <2>1, <2>2 DEF ProviderAnswers, ProviderWrites
<1>2. CASE Demote(c) \/ Discard(c)
  BY <1>2 DEF Demote, Discard, MarkUnhealthy, Present
<1>3. CASE \/ Request(c) \/ LeaseRefused(c) \/ LeasePick(c) \/ LeaseWait(c)
          \/ LeaseExhausted(c) \/ LeasePoll(c) \/ LeaseShutOut(c)
          \/ ResetBegin(c) \/ ProbeBegin(c) \/ ProbeRaises(c) \/ LeaseStale(c)
          \/ LeaseGranted(c) \/ LeaseRejected(c) \/ ScheduleReconcile(c)
          \/ Release(c) \/ Use(c)
  BY <1>3 DEF Request, LeaseRefused, LeasePick, LeaseWait, LeaseExhausted,
     LeasePoll, LeaseShutOut, ResetBegin, ProbeBegin, PortCall, ProbeRaises,
     LeaseStale, LeaseGranted, LeaseRejected, ScheduleReconcile, Release, Use
<1> QED BY <1>1, <1>2, <1>3 DEF ClientStep

Untouching ==
  \/ LoopStart \/ ProvisionBegin \/ EnsureSkips \/ PollBegin \/ ProvisionReturns
  \/ Backoff \/ GiveUp \/ ReconcileProbes \/ LoopCheck \/ Cancel \/ Close
  \/ TeardownAwaits \/ TeardownCloses

\* Nor does a step of a task, but for start() and the state section.
LEMMA ExistsTasks ==
  ASSUME AccountInv, Cancel \/ ReconcileStep \/ TeardownStep, ~ Install,
         NEW w \in Worlds
  PROVE  /\ Exists(w)' <=> Exists(w)
         /\ server[w] # "absent" => server'[w] # "absent"
<1> USE DEF AccountInv, LeaseInv, TypeInv, TypeOK, poolVars, envVars, Exists
<1>1. CASE EnsureRebuilds \/ PollEnd \/ ProvisionRaises
  <2>1. \/ UNCHANGED <<state, server>>
        \/ \E v \in todo, s \in States \ {"absent"} : Exists(v) /\ ProviderWrites(v, s)
    BY <1>1 DEF EnsureRebuilds, PollEnd, ProvisionRaises, CallsPresent, States
  <2> QED BY <2>1 DEF ProviderWrites
<1>2. CASE WorldProbedWell \/ WorldProbedBadly
  <2>1. \/ UNCHANGED <<state, server>>
        \/ \E v \in todo, s \in States \ {"absent"} : Exists(v) /\ ProbeWrites(v, s)
    BY <1>2 DEF WorldProbedWell, WorldProbedBadly, WorldProbed, CallsPresent, States
  <2> QED BY <2>1 DEF ProbeWrites
<1>3. CASE SharedEngineRespawned \/ TeardownDone
  BY <1>3 DEF SharedEngineRespawned, TeardownDone, Present
<1>4. CASE Untouching
  BY <1>4 DEF Untouching, LoopStart, ProvisionBegin, EnsureSkips, PollBegin,
     ProvisionReturns, Backoff, GiveUp, ReconcileProbes, LoopCheck, Cancel, Close,
     TeardownAwaits, TeardownCloses
<1> QED BY <1>1, <1>2, <1>3, <1>4 DEF ReconcileStep, TeardownStep, Untouching

\* A step of a client keeps the worlds accounted for.
LEMMA AccountClient ==
  ASSUME AccountInv, NEW c \in Clients, ClientStep(c)
  PROVE  Accounted'
<1>1. \A w \in Worlds : Exists(w)' => Exists(w)
  BY ExistsClient
<1>2. available \cup leased \cup down \subseteq available' \cup leased' \cup down'
          \/ \E w \in Worlds : /\ ~ Exists(w)
               /\ (available \cup leased \cup down) \ {w}
                    \subseteq available' \cup leased' \cup down'
  <2> USE DEF AccountInv, LeaseInv, TypeInv, TypeOK, poolVars
  <2>1. CASE LeasePick(c)
    BY <2>1 DEF LeasePick
  <2>2. CASE LeaseStale(c)
    BY <2>2 DEF LeaseStale, PutBack, Present, Exists
  <2>3. CASE Release(c)
    BY <2>3 DEF Release, PutBack, Present, Exists
  <2>4. CASE Demote(c) \/ Discard(c)
    BY <2>4 DEF Demote, Discard, MarkUnhealthy
  <2>5. CASE \/ Request(c) \/ LeaseRefused(c) \/ LeaseWait(c)
          \/ LeaseExhausted(c) \/ LeasePoll(c) \/ LeaseShutOut(c)
          \/ ResetBegin(c) \/ ProbeBegin(c) \/ ResetDone(c) \/ ResetUnready(c)
          \/ ResetRaises(c) \/ ProbePasses(c) \/ ProbeFails(c) \/ ProbeRaises(c)
          \/ LeaseGranted(c) \/ LeaseRejected(c) \/ ScheduleReconcile(c) \/ Use(c)
    BY <2>5 DEF Request, LeaseRefused, LeaseWait, LeaseExhausted, LeasePoll,
       LeaseShutOut, ResetBegin, ProbeBegin, PortCall, ResetDone, ResetUnready,
       ResetRaises, ProbePasses, ProbeFails, ProbeRaises, LeaseGranted,
       LeaseRejected, ScheduleReconcile, Use
  <2> QED BY <2>1, <2>2, <2>3, <2>4, <2>5 DEF ClientStep
<1> QED BY <1>1, <1>2 DEF AccountInv, Accounted

\* A client that gives up its world, or never had one, leaves the others at work.
LEMMA AtWorkLeaves ==
  ASSUME AtWork, NEW c \in Clients, world' = world, closed' = closed,
         leased' = leased \/ leased' = leased \ {world[c]},
         leased' = leased => (Engaged(c) => Engaged(c)'),
         \A d \in Clients \ {c} : Engaged(d) => Engaged(d)'
  PROVE  AtWork'
  BY DEF AtWork

\* A step of a client keeps each leased world in somebody's hands.
LEMMA AtWorkClient ==
  ASSUME AccountInv, NEW c \in Clients, ClientStep(c)
  PROVE  AtWork'
<1> USE DEF AccountInv, LeaseInv, TypeInv, TypeOK, poolVars, Goto
<1>1. CASE LeasePick(c)
  <2>1. PICK w \in Worlds : /\ leased' = leased \cup {w}
                            /\ world' = [world EXCEPT ![c] = w]
                            /\ pc' = [pc EXCEPT ![c] = FirstCall(w)]
    BY <1>1 DEF LeasePick
  <2>2. Engaged(c)' /\ world'[c] = w /\ ~ Engaged(c)
    BY <1>1, <2>1 DEF LeasePick, FirstCall, Engaged
  <2>3. \A d \in Clients \ {c} : Engaged(d) => Engaged(d)' /\ world'[d] = world[d]
    BY <2>1 DEF Engaged
  <2>4. closed' = closed
    BY <1>1 DEF LeasePick
  <2> QED BY <2>1, <2>2, <2>3, <2>4 DEF AtWork
<1>2. CASE LeaseStale(c) \/ Release(c) \/ Demote(c) \/ Discard(c)
  <2>1. \A d \in Clients \ {c} : Engaged(d) => Engaged(d)'
    BY <1>2 DEF LeaseStale, Release, Demote, Discard, MarkUnhealthy, Engaged, Woken
  <2>2. world' = world /\ closed' = closed /\ leased' = leased \ {world[c]}
    BY <1>2 DEF LeaseStale, Release, Demote, Discard, MarkUnhealthy
  <2>3. ~ Engaged(c)'
    BY <1>2 DEF LeaseStale, Release, Demote, Discard, MarkUnhealthy, Engaged, Woken
  <2>4. world[c] \in leased
    BY <1>2 DEF LeaseStale, Release, Demote, Discard, Owners, EngagedLeased, Engaged
  <2>5. leased' # leased
    BY <2>2, <2>4
  <2> QED BY <2>1, <2>2, <2>5, AtWorkLeaves
<1>3. CASE LeaseShutOut(c)
  BY <1>3 DEF LeaseShutOut, AtWork
<1>4. CASE LeaseGranted(c)
  <2>1. \A d \in Clients : Engaged(d) => Engaged(d)'
    BY <1>4 DEF LeaseGranted, Engaged, Woken
  <2>2. UNCHANGED <<world, closed, leased>>
    BY <1>4 DEF LeaseGranted
  <2> QED BY <2>1, <2>2, AtWorkLeaves
<1>5. CASE \/ Request(c) \/ LeaseRefused(c) \/ LeaseWait(c)
          \/ LeaseExhausted(c) \/ LeasePoll(c)
          \/ ResetBegin(c) \/ ProbeBegin(c) \/ ResetDone(c) \/ ResetUnready(c)
          \/ ResetRaises(c) \/ ProbePasses(c) \/ ProbeFails(c) \/ ProbeRaises(c)
          \/ LeaseRejected(c) \/ ScheduleReconcile(c) \/ Use(c)
  <2>1. \A d \in Clients : Engaged(d) => Engaged(d)'
    BY <1>5 DEF Request, LeaseRefused, LeaseWait, LeaseExhausted, LeasePoll,
       ResetBegin, ProbeBegin, PortCall, ResetDone, ResetUnready,
       ResetRaises, ProbePasses, ProbeFails, ProbeRaises,
       LeaseRejected, ScheduleReconcile, Use, Engaged, clientVars
  <2>2. UNCHANGED <<world, closed, leased>>
    BY <1>5 DEF Request, LeaseRefused, LeaseWait, LeaseExhausted, LeasePoll,
       ResetBegin, ProbeBegin, PortCall, ResetDone, ResetUnready,
       ResetRaises, ProbePasses, ProbeFails, ProbeRaises,
       LeaseRejected, ScheduleReconcile, Use, clientVars
  <2> QED BY <2>1, <2>2, AtWorkLeaves
<1> QED BY <1>1, <1>2, <1>3, <1>4, <1>5 DEF ClientStep

\* So does a step of a task.
LEMMA AtWorkTasks ==
  ASSUME AccountInv, Start \/ Cancel \/ ReconcileStep \/ TeardownStep
  PROVE  AtWork'
<1> USE DEF AccountInv, LeaseInv, TypeInv, TypeOK, poolVars, clientVars
<1>1. CASE Start
  BY <1>1 DEF Start, Unstarted, AtWork
<1>2. CASE Close
  BY <1>2 DEF Close, AtWork
<1>3. CASE Install \/ GiveUp
  <2>1. \A d \in Clients : Engaged(d) => Engaged(d)'
    BY <1>3 DEF Install, GiveUp, Woken, Engaged
  <2>2. UNCHANGED <<world, closed, leased>>
    BY <1>3 DEF Install, GiveUp
  <2> QED BY <2>1, <2>2 DEF AtWork
<1>4. CASE \/ LoopStart \/ ProvisionBegin \/ EnsureSkips \/ EnsureRebuilds
          \/ PollBegin \/ PollEnd \/ ProvisionRaises \/ SharedEngineRespawned
          \/ ProvisionReturns \/ Backoff \/ ReconcileProbes \/ WorldProbedWell
          \/ WorldProbedBadly \/ LoopCheck
          \/ Cancel \/ TeardownAwaits \/ TeardownCloses \/ TeardownDone
  <2>1. UNCHANGED <<pc, world, closed, leased>>
    BY <1>4 DEF LoopStart, ProvisionBegin, EnsureSkips, EnsureRebuilds,
              PollBegin, PollEnd, ProvisionRaises, SharedEngineRespawned,
              ProvisionReturns, Backoff, ReconcileProbes, WorldProbedWell,
              WorldProbedBadly, LoopCheck,
              Cancel, TeardownAwaits, TeardownCloses, TeardownDone
  <2> QED BY <2>1 DEF AtWork, Engaged
<1> QED BY <1>1, <1>2, <1>3, <1>4 DEF ReconcileStep, TeardownStep

\* A step of a client leaves calls in flight about worlds that exist.
LEMMA CallsClient ==
  ASSUME AccountInv, NEW c \in Clients, ClientStep(c)
  PROVE  CallsPresent' /\ WholePool'
<1> USE DEF AccountInv, LeaseInv, TypeInv, TypeOK
<1>1. \A w \in Worlds : /\ Exists(w)' <=> Exists(w)
                        /\ server[w] # "absent" => server'[w] # "absent"
  BY ExistsClient
<1>2. \A d \in Clients : Calling(d)' => Exists(world'[d])
  <2>1. CASE ResetBegin(c) \/ ProbeBegin(c)
    BY <2>1 DEF ResetBegin, ProbeBegin, PortCall, Present, Exists, CallsPresent,
                Calling, Goto, poolVars
  <2>2. CASE LeasePick(c)
    <3>1. \A d \in Clients : Calling(d)' => Calling(d) /\ world'[d] = world[d]
      BY <2>2 DEF LeasePick, FirstCall, Calling, Goto
    <3> QED BY <3>1 DEF CallsPresent
  <2>3. CASE LeaseStale(c) \/ LeaseGranted(c) \/ Release(c) \/ Demote(c) \/ Discard(c)
    <3>1. \A d \in Clients : Calling(d)' => Calling(d) /\ world'[d] = world[d]
      BY <2>3 DEF LeaseStale, LeaseGranted, Release, Demote, Discard, MarkUnhealthy,
                  Calling, Woken
    <3> QED BY <3>1 DEF CallsPresent
  <2>4. CASE \/ Request(c) \/ LeaseRefused(c) \/ LeaseWait(c)
          \/ LeaseExhausted(c) \/ LeasePoll(c) \/ LeaseShutOut(c)
          \/ ResetDone(c) \/ ResetUnready(c)
          \/ ResetRaises(c) \/ ProbePasses(c) \/ ProbeFails(c) \/ ProbeRaises(c)
          \/ LeaseRejected(c) \/ ScheduleReconcile(c) \/ Use(c)
    <3>1. \A d \in Clients : Calling(d)' => Calling(d) /\ world'[d] = world[d]
      BY <2>4 DEF Request, LeaseRefused, LeaseWait, LeaseExhausted, LeasePoll,
         LeaseShutOut, ResetDone, ResetUnready, ResetRaises, ProbePasses,
         ProbeFails, ProbeRaises, LeaseRejected, ScheduleReconcile, Use, Calling,
         Goto, clientVars
    <3> QED BY <3>1 DEF CallsPresent
  <2> QED BY <2>1, <2>2, <2>3, <2>4 DEF ClientStep
<1>3. /\ UNCHANGED <<todo, result, started>>
      /\ rpc' = rpc \/ rpc' = "start"
  BY DEF ClientStep, Request, LeaseRefused, LeasePick, LeaseWait,
     LeaseExhausted, LeasePoll, LeaseShutOut, ResetBegin, ProbeBegin, PortCall,
     ResetDone, ResetUnready, ResetRaises, ProbePasses, ProbeFails, ProbeRaises,
     LeaseStale, LeaseGranted, LeaseRejected, Demote, Discard, MarkUnhealthy,
     ScheduleReconcile, Release, Use, taskVars, poolVars
<1>4. started
  BY DEF Unstarted, ClientStep, Request, LeaseRefused, LeasePick, LeaseWait,
     LeaseExhausted, LeasePoll, LeaseShutOut, ResetBegin, ProbeBegin, PortCall,
     ResetDone, ResetUnready, ResetRaises, ProbePasses, ProbeFails, ProbeRaises,
     LeaseStale, LeaseGranted, LeaseRejected, Demote, Discard, MarkUnhealthy,
     ScheduleReconcile, Release, Use
<1>5. CallsPresent'
  <2>1. world' \in [Clients -> Worlds] /\ todo' \subseteq Worlds
    BY TypeStep DEF Next
  <2> QED BY <1>1, <1>2, <1>3, <2>1 DEF CallsPresent, Exists
<1>6. WholePool'
  BY <1>1, <1>3, <1>4 DEF WholePool
<1> QED BY <1>5, <1>6

\* The state section leaves a world that exists one.
LEMMA ExistsInstall ==
  ASSUME AccountInv, Provider # "protocol", Install, NEW w \in Worlds, Exists(w)
  PROVE  Exists(w)'
<1>1. CASE Provider = "broker"
  <2>1. result[w] # "absent"
    BY <1>1 DEF Install, AccountInv, WholePool
  <2> QED BY <1>1, <2>1 DEF Install, NewObjects, Exists
<1>2. CASE Provider # "broker"
  BY <1>2 DEF Install, NewObjects, Exists
<1> QED BY <1>1, <1>2

\* A step of a task leaves the calls in flight, and the broker's worlds, there.
LEMMA CallsTasks ==
  ASSUME AccountInv, Provider # "protocol",
         Start \/ Cancel \/ ReconcileStep \/ TeardownStep
  PROVE  CallsPresent' /\ WholePool'
<1> USE DEF AccountInv, LeaseInv, TypeInv, TypeOK
<1>1. CASE Start
  <2>1. /\ rpc' = "off" /\ \A c \in Clients : ~ Calling(c)'
    BY <1>1 DEF Start, WholePool, Unstarted, Calling, taskVars, clientVars
  <2>2. ASSUME Provider = "broker", NEW w \in Worlds
        PROVE  state'[w] = "ready" /\ server'[w] = "ready"
    <3>1. /\ FirstSizes = {Instances} /\ FirstStates = {"ready"}
      BY <2>2 DEF FirstSizes, FirstStates
    <3>2. PICK n \in FirstSizes : \E s \in [0 .. n - 1 -> FirstStates] :
            state' = [v \in Worlds |-> IF v < n THEN s[v] ELSE "absent"]
      BY <1>1 DEF Start
    <3>3. w < Instances /\ w \in 0 .. Instances - 1
      BY InstancesAssumption DEF Worlds
    <3>4. state'[w] = "ready"
      <4>1. PICK s \in [0 .. n - 1 -> FirstStates] :
              state' = [v \in Worlds |-> IF v < n THEN s[v] ELSE "absent"]
        BY <3>2
      <4>2. n = Instances
        BY <3>1
      <4>3. s[w] \in FirstStates
        BY <3>3, <4>2
      <4>4. s[w] = "ready"
        BY <3>1, <4>3
      <4> QED BY <3>3, <4>1, <4>2, <4>4
    <3> QED BY <1>1, <2>2, <3>4 DEF Start
  <2> QED BY <2>1, <2>2 DEF CallsPresent, WholePool, Exists
<1>2. CASE Install
  <2>1. \A c \in Clients : Calling(c)' => Calling(c)
    BY <1>2 DEF Install, Calling, Woken
  <2>2. UNCHANGED <<world, started, server>> /\ rpc = "install" /\ rpc' = "check"
    BY <1>2 DEF Install, envVars
  <2>3. \A w \in Worlds : Exists(w) => Exists(w)'
    BY <1>2, ExistsInstall
  <2> QED BY <2>1, <2>2, <2>3 DEF CallsPresent, WholePool, Exists
<1>3. CASE ~ Start /\ ~ Install
  <2> USE <1>3
  <2>1. \A w \in Worlds : /\ Exists(w)' <=> Exists(w)
                          /\ server[w] # "absent" => server'[w] # "absent"
    BY ExistsTasks
  <2>2. \A c \in Clients : Calling(c)' => Calling(c)
    BY DEF ReconcileStep, TeardownStep, LoopStart, ProvisionBegin, EnsureSkips,
       EnsureRebuilds, PollBegin, PollEnd, ProvisionRaises, SharedEngineRespawned,
       ProvisionReturns, Backoff, GiveUp, ReconcileProbes, WorldProbedWell,
       WorldProbedBadly, LoopCheck, Cancel, Close, TeardownAwaits, TeardownCloses,
       TeardownDone, Calling, Woken, clientVars
  <2>3. UNCHANGED <<world, started>>
    BY DEF ReconcileStep, TeardownStep, LoopStart, ProvisionBegin, EnsureSkips,
       EnsureRebuilds, PollBegin, PollEnd, ProvisionRaises, SharedEngineRespawned,
       ProvisionReturns, Backoff, GiveUp, ReconcileProbes, WorldProbedWell,
       WorldProbedBadly, LoopCheck, Cancel, Close, TeardownAwaits, TeardownCloses,
       TeardownDone, clientVars, poolVars
  <2>4. rpc' # "off" => rpc # "off"
    BY DEF ReconcileStep, TeardownStep, LoopStart, ProvisionBegin, EnsureSkips,
       EnsureRebuilds, PollBegin, PollEnd, ProvisionRaises, SharedEngineRespawned,
       ProvisionReturns, Backoff, GiveUp, ReconcileProbes, WorldProbedWell,
       WorldProbedBadly, LoopCheck, Cancel, Close, TeardownAwaits, TeardownCloses,
       TeardownDone, taskVars, WorldProbed, AfterFailure
  <2>5. rpc' \in {"ensuring", "polling", "probing"} => \A w \in todo' : Exists(w)
    <3>1. CASE ReconcileProbes
      <4>1. \A w \in Achieved : Exists(w)
        BY <3>1 DEF ReconcileProbes, Achieved, NewObjects, Present, Exists, WholePool
      <4> QED BY <3>1, <4>1 DEF ReconcileProbes
    <3>2. CASE ProvisionBegin \/ PollBegin
      BY <3>2 DEF ProvisionBegin, PollBegin, Present, Preparing, IsFirst, Exists
    <3>3. CASE EnsureSkips \/ EnsureRebuilds \/ PollEnd
      BY <3>3 DEF EnsureSkips, EnsureRebuilds, PollEnd, CallsPresent
    <3>4. CASE WorldProbedWell \/ WorldProbedBadly
      BY <3>4 DEF WorldProbedWell, WorldProbedBadly, WorldProbed, CallsPresent
    <3>5. CASE LoopStart \/ ProvisionRaises \/ ProvisionReturns \/ Backoff \/ GiveUp
               \/ LoopCheck
      BY <3>5 DEF LoopStart, ProvisionRaises, AfterFailure, ProvisionReturns, Backoff,
                  GiveUp, LoopCheck, AfterPass
    <3>6. CASE SharedEngineRespawned \/ Cancel \/ TeardownStep
      BY <3>6 DEF SharedEngineRespawned, Cancel, TeardownStep, Close, TeardownAwaits,
                  TeardownCloses, TeardownDone, CallsPresent, taskVars
    <3> QED BY <3>1, <3>2, <3>3, <3>4, <3>5, <3>6 DEF ReconcileStep
  <2>6. Provider = "broker" /\ rpc' \in {"toProbe", "probing", "install"} =>
          \A w \in Worlds : result'[w] # "absent"
    <3> SUFFICES ASSUME Provider = "broker", rpc' \in {"toProbe", "probing", "install"}
                 PROVE  \A w \in Worlds : result'[w] # "absent"
      OBVIOUS
    <3>1. CASE ProvisionReturns
      <4>1. result' = server /\ started
        BY <3>1 DEF ProvisionReturns, NewObjects, Provisioned, WholePool
      <4> QED BY <4>1 DEF WholePool
    <3>2. CASE WorldProbedWell \/ WorldProbedBadly
      <4>1. /\ rpc = "probing"
            /\ \/ result' = result
               \/ \E v \in todo, s \in {"ready", "unhealthy"} :
                    result' = [result EXCEPT ![v] = s]
        BY <3>2 DEF WorldProbedWell, WorldProbedBadly, WorldProbed, ProbeWrites
      <4> QED BY <4>1 DEF WholePool
    <3>3. CASE \/ LoopStart \/ ProvisionBegin \/ EnsureSkips \/ EnsureRebuilds
              \/ PollBegin \/ PollEnd \/ ProvisionRaises \/ SharedEngineRespawned
              \/ Backoff \/ GiveUp \/ ReconcileProbes \/ LoopCheck \/ Cancel
              \/ TeardownStep
      <4>1. result' = result /\ rpc \in {"toProbe", "probing", "install"}
        BY <3>3 DEF TeardownStep, LoopStart, ProvisionBegin, EnsureSkips,
           EnsureRebuilds, PollBegin, PollEnd, ProvisionRaises, AfterFailure,
           SharedEngineRespawned, Backoff, GiveUp, ReconcileProbes, LoopCheck,
           AfterPass, Cancel, Close, TeardownAwaits, TeardownCloses, TeardownDone,
           taskVars
      <4> QED BY <4>1 DEF WholePool
    <3> QED BY <3>1, <3>2, <3>3 DEF ReconcileStep
  <2>7. todo' \subseteq Worlds
    BY TypeStep DEF Next
  <2>8. CallsPresent'
    BY <2>1, <2>2, <2>3, <2>5, <2>7 DEF CallsPresent, Exists
  <2>9. WholePool'
    BY <2>1, <2>3, <2>4, <2>6 DEF WholePool
  <2> QED BY <2>8, <2>9
<1> QED BY <1>1, <1>2, <1>3

\* A step of a task keeps the worlds accounted for.
LEMMA AccountTasks ==
  ASSUME AccountInv, Provider # "protocol",
         Start \/ Cancel \/ ReconcileStep \/ TeardownStep
  PROVE  Accounted'
<1> USE DEF AccountInv, LeaseInv, TypeInv, TypeOK, poolVars
<1>1. CASE Start
  <2>0. PICK n \in FirstSizes : \E s \in [0 .. n - 1 -> FirstStates] :
          /\ state' = [w \in Worlds |-> IF w < n THEN s[w] ELSE "absent"]
          /\ available' = {w \in 0 .. n - 1 : s[w] \in {"ready", "preparing"}}
          /\ down' = {w \in 0 .. n - 1 : s[w] = "unhealthy"}
    BY <1>1 DEF Start
  <2>1. PICK s \in [0 .. n - 1 -> FirstStates] :
          /\ state' = [w \in Worlds |-> IF w < n THEN s[w] ELSE "absent"]
          /\ available' = {w \in 0 .. n - 1 : s[w] \in {"ready", "preparing"}}
          /\ down' = {w \in 0 .. n - 1 : s[w] = "unhealthy"}
    BY <2>0
  <2>2. n \in Nat /\ \A w \in Worlds : w \in Nat
    BY InstancesAssumption DEF FirstSizes, Worlds
  <2>3. FirstStates \subseteq {"ready", "preparing", "unhealthy"}
    BY DEF FirstStates
  <2>4. ASSUME NEW w \in Worlds, state'[w] # "absent"
        PROVE  w \in available' \cup down'
    <3>1. w \in 0 .. n - 1
      BY <2>1, <2>2, <2>4
    <3>2. s[w] \in {"ready", "preparing", "unhealthy"}
      BY <2>3, <3>1
    <3> QED BY <2>1, <3>1, <3>2
  <2> QED BY <2>4 DEF Accounted, Exists
<1>2. CASE Install
  <2>1. Gone = {}
    <3>1. CASE Provider = "broker"
      BY <1>2, <3>1 DEF Install, Gone, Achieved, NewObjects, Present, WholePool
    <3>2. CASE Provider # "broker"
      BY <3>2 DEF Gone, Achieved, NewObjects
    <3> QED BY <3>1, <3>2
  <2>2. /\ available' = available \cup (good \ leased)
        /\ down' = down \ good /\ leased' = leased
    BY <1>2, <2>1 DEF Install, BackInPool, StillDown
  <2>3. \A w \in Worlds : Exists(w)' => Exists(w)
    <3>1. CASE Provider = "broker"
      BY <1>2, <3>1 DEF Install, WholePool
    <3>2. CASE Provider # "broker"
      BY <1>2, <3>2 DEF Install, NewObjects, Exists
    <3> QED BY <3>1, <3>2
  <2> QED BY <2>2, <2>3 DEF Accounted
<1>3. CASE ~ Start /\ ~ Install
  <2>1. \A w \in Worlds : Exists(w)' <=> Exists(w)
    BY <1>3, ExistsTasks
  <2>2. UNCHANGED <<available, leased, down>>
    BY <1>3 DEF ReconcileStep, TeardownStep, LoopStart, ProvisionBegin, EnsureSkips,
       EnsureRebuilds, PollBegin, PollEnd, ProvisionRaises, SharedEngineRespawned,
       ProvisionReturns, Backoff, GiveUp, ReconcileProbes, WorldProbedWell,
       WorldProbedBadly, LoopCheck, Cancel, Close, TeardownAwaits, TeardownCloses,
       TeardownDone
  <2> QED BY <2>1, <2>2 DEF Accounted
<1> QED BY <1>1, <1>2, <1>3

\* Every step preserves the invariant.
LEMMA AccountStep ==
  ASSUME Provider # "protocol", AccountInv, [Next]_vars
  PROVE  AccountInv'
<1>1. LeaseInv'
  BY LeaseStep DEF AccountInv
<1>2. CASE \E c \in Clients : ClientStep(c)
  BY <1>1, <1>2, AccountClient, AtWorkClient, CallsClient DEF AccountInv
<1>3. CASE Start \/ Cancel \/ ReconcileStep \/ TeardownStep
  BY <1>1, <1>3, AccountTasks, AtWorkTasks, CallsTasks DEF AccountInv
<1>4. CASE UNCHANGED vars
  BY <1>1, <1>4
  DEF AccountInv, Accounted, AtWork, CallsPresent, WholePool, Exists, Engaged, Calling,
      vars, poolVars, clientVars, taskVars, envVars
<1> QED BY <1>2, <1>3, <1>4 DEF Next

\* Before start() there is no world to account for.
LEMMA AccountInit == Init => AccountInv
  BY LeaseInit
  DEF Init, AccountInv, Accounted, AtWork, CallsPresent, WholePool, Exists, Calling

\* With each of the three providers, every world is available, leased or down, and
\* a leased one is in the hands of a client at work: a world that is in none of the
\* sets, for which lease() would poll for ever, cannot come about.
THEOREM WorldsAreAccounted ==
  ASSUME Provider # "protocol"
  PROVE  Spec => []EveryWorldAccounted
<1>1. AccountInv => EveryWorldAccounted
  BY DEF AccountInv, LeaseInv, Accounted, AtWork, EveryWorldAccounted, Present, Exists
<1>2. AccountInv /\ [Next]_vars => AccountInv'
  BY AccountStep
<1> QED BY <1>1, <1>2, AccountInit, PTL DEF Spec
================================================================================

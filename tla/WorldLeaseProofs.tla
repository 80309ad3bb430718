---------------------------- MODULE WorldLeaseProofs ----------------------------
(***************************************************************************)
(* The pool implements the lease it promises (module WorldLease) with the  *)
(* process provider, for every number of worlds and clients, as long as a  *)
(* world in use does not fail its probe.  With the compose provider it     *)
(* does not: its healthy() revives a world that was demoted.  With each of *)
(* the three providers it implements the pool that the scenario loop is    *)
(* written against (module PoolView).                                      *)
(***************************************************************************)
EXTENDS WorldPoolProofs

ProcessProvider == Provider = "process" /\ ~ HeldWorldsMayFail

\* The indices that are handed out, or may be, have a runtime.
HandedOutExist ==
  /\ \A w \in available \cup leased \cup good : Exists(w)
  /\ \A c \in Clients : Engaged(c) => Exists(world[c])
  /\ ~ started => good = {}

\* A world in use stays as it was granted until the provider is closed.
HeldReady == \A c \in Clients :
  pc[c] = "hold" => state[world[c]] = "ready" \/ tpc = "done"

\* What becomes READY under the reconcile was rebuilt and not used since.
RebuiltClean ==
  /\ \A w \in Worlds : state[w] = "preparing" => ~ dirty[w]
  /\ rpc = "polling" => \A w \in todo : ~ dirty[w] /\ state[w] \in {"preparing", "unhealthy"}
  /\ \A w \in down : state[w] = "ready" => ~ dirty[w]
  /\ ~ started => \A w \in Worlds : ~ dirty[w]
  /\ tpc = "done" => \A w \in Worlds : state[w] \notin {"preparing", "ready"}

\* A world on its way to a grant is clean once it is past its reset, unless the
\* reset has failed.
Restored(c) == \/ pc[c] \in {"toProbe", "probing"}
               \/ pc[c] = "verdict" /\ verdict[c]

GrantClean ==
  /\ \A w \in fresh : ~ dirty[w]
  /\ \A c \in Clients :
       Restored(c) => ~ dirty[world[c]] \/ state[world[c]] # "ready"

CleanInv ==
  /\ AccountInv /\ PortInv
  /\ HandedOutExist /\ HeldReady /\ RebuiltClean /\ GrantClean

\* The initial state has it.
LEMMA CleanInit == Init => CleanInv
  BY AccountInit, PortInit
  DEF Init, CleanInv, HandedOutExist, HeldReady, RebuiltClean, GrantClean,
      Restored, Engaged, Exists

\* A step of a client leaves its world, and only it, changed.
LEMMA HandedOutClient ==
  ASSUME AccountInv, HandedOutExist, NEW c \in Clients, ClientStep(c)
  PROVE  HandedOutExist'
<1> USE DEF AccountInv, LeaseInv, TypeInv, TypeOK, poolVars, taskVars, Goto
<1>1. \A w \in Worlds : Exists(w) => Exists(w)'
  BY ExistsClient
<1>2. good' = good
  BY DEF ClientStep, Request, LeaseRefused, LeasePick, LeaseWait,
     LeaseExhausted, LeasePoll, LeaseShutOut, ResetBegin, ProbeBegin, PortCall,
     ResetDone, ResetUnready, ResetRaises, ProbePasses, ProbeFails, ProbeRaises,
     LeaseStale, LeaseGranted, LeaseRejected, Demote, Discard, MarkUnhealthy,
     ScheduleReconcile, Release, Use
<1>3. \A w \in available' \cup leased' : Exists(w)
  <2>1. CASE LeasePick(c)
    BY <2>1 DEF LeasePick, IsFirst, HandedOutExist
  <2>2. CASE LeaseStale(c) \/ Release(c)
    BY <2>2 DEF LeaseStale, Release, PutBack, Present, HandedOutExist, Exists
  <2>3. CASE Demote(c) \/ Discard(c)
    BY <2>3 DEF Demote, Discard, MarkUnhealthy, HandedOutExist
  <2>4. CASE \/ Request(c) \/ LeaseRefused(c) \/ LeaseWait(c)
          \/ LeaseExhausted(c) \/ LeasePoll(c) \/ LeaseShutOut(c)
          \/ ResetBegin(c) \/ ProbeBegin(c) \/ ResetDone(c) \/ ResetUnready(c)
          \/ ResetRaises(c) \/ ProbePasses(c) \/ ProbeFails(c) \/ ProbeRaises(c)
          \/ LeaseGranted(c) \/ LeaseRejected(c) \/ ScheduleReconcile(c) \/ Use(c)
    <3>1. UNCHANGED <<available, leased>>
      BY <2>4 DEF Request, LeaseRefused, LeaseWait, LeaseExhausted, LeasePoll,
       LeaseShutOut, ResetBegin, ProbeBegin, PortCall, ResetDone, ResetUnready,
       ResetRaises, ProbePasses, ProbeFails, ProbeRaises, LeaseGranted,
       LeaseRejected, ScheduleReconcile, Use
    <3> QED BY <3>1 DEF HandedOutExist
  <2> QED BY <2>1, <2>2, <2>3, <2>4 DEF ClientStep
<1>4. TypeOK' /\ EngagedLeased'
  BY TypeStep, LeaseClient DEF Next, Owners
<1>5. started' = started
  BY DEF ClientStep, Request, LeaseRefused, LeasePick, LeaseWait,
     LeaseExhausted, LeasePoll, LeaseShutOut, ResetBegin, ProbeBegin, PortCall,
     ResetDone, ResetUnready, ResetRaises, ProbePasses, ProbeFails, ProbeRaises,
     LeaseStale, LeaseGranted, LeaseRejected, Demote, Discard, MarkUnhealthy,
     ScheduleReconcile, Release, Use
<1> QED BY <1>1, <1>2, <1>3, <1>4, <1>5 DEF HandedOutExist, EngagedLeased, Exists

\* A step of a task hands out only worlds that exist.
LEMMA HandedOutTasks ==
  ASSUME AccountInv, HandedOutExist, Provider # "protocol",
         Start \/ Cancel \/ ReconcileStep \/ TeardownStep
  PROVE  HandedOutExist'
<1> USE DEF AccountInv, LeaseInv, TypeInv, TypeOK, poolVars, taskVars
<1>1. TypeOK' /\ EngagedLeased'
  BY TypeStep, LeaseTasks DEF Next, Owners
<1>2. CASE Start
  <2>1. PICK n \in FirstSizes : \E s \in [0 .. n - 1 -> FirstStates] :
          /\ state' = [w \in Worlds |-> IF w < n THEN s[w] ELSE "absent"]
          /\ available' = {w \in 0 .. n - 1 : s[w] \in {"ready", "preparing"}}
    BY <1>2 DEF Start
  <2>2. \A w \in available' : Exists(w)'
    <3>1. n \in Nat
      BY InstancesAssumption DEF FirstSizes
    <3>2. PICK s \in [0 .. n - 1 -> FirstStates] :
            /\ state' = [w \in Worlds |-> IF w < n THEN s[w] ELSE "absent"]
            /\ available' = {w \in 0 .. n - 1 : s[w] \in {"ready", "preparing"}}
      BY <2>1
    <3>3. \A w \in available' : w < n /\ s[w] # "absent"
      BY <3>1, <3>2
    <3> QED BY <1>1, <3>2, <3>3 DEF Exists
  <2>3. leased' = {} /\ good' = {}
    BY <1>2 DEF Start, Unstarted, HandedOutExist
  <2> QED BY <1>1, <2>2, <2>3 DEF HandedOutExist, EngagedLeased
<1>3. CASE ~ Start
  <2>1. \A w \in Worlds : Exists(w) => Exists(w)'
    BY <1>3, ExistsTasks, ExistsInstall
  <2>2. \A w \in available' \cup leased' \cup good' : Exists(w)
    <3>1. CASE Install
      BY <3>1 DEF Install, BackInPool, HandedOutExist
    <3>2. CASE WorldProbedWell \/ WorldProbedBadly
      <4>1. good' \subseteq good \cup todo /\ rpc = "probing"
        BY <3>2 DEF WorldProbedWell, WorldProbedBadly, WorldProbed
      <4>2. UNCHANGED <<available, leased>>
        BY <3>2 DEF WorldProbedWell, WorldProbedBadly
      <4> QED BY <4>1, <4>2 DEF CallsPresent, HandedOutExist
    <3>3. CASE ~ Install /\ ~ WorldProbedWell /\ ~ WorldProbedBadly
      <4>1. UNCHANGED <<available, leased>> /\ good' \subseteq good
        BY <1>3, <3>3 DEF ReconcileStep, TeardownStep, LoopStart, ProvisionBegin,
           EnsureSkips, EnsureRebuilds, PollBegin, PollEnd, ProvisionRaises,
           SharedEngineRespawned, ProvisionReturns, Backoff, GiveUp, ReconcileProbes,
           LoopCheck, Cancel, Close, TeardownAwaits, TeardownCloses, TeardownDone
      <4> QED BY <4>1 DEF HandedOutExist
    <3> QED BY <3>1, <3>2, <3>3
  <2>3. ~ started' => good' = {}
    <3>1. CASE ReconcileStep
      BY <3>1 DEF WholePool, ReconcileStep, LoopStart, ProvisionBegin, EnsureSkips,
         EnsureRebuilds, PollBegin, PollEnd, ProvisionRaises, SharedEngineRespawned,
         ProvisionReturns, Backoff, GiveUp, ReconcileProbes, WorldProbedWell,
         WorldProbedBadly, WorldProbed, Install, LoopCheck, HandedOutExist
    <3>2. CASE Cancel \/ TeardownStep
      BY <3>2 DEF Cancel, TeardownStep, Close, TeardownAwaits, TeardownCloses,
         TeardownDone, HandedOutExist
    <3> QED BY <1>3, <3>1, <3>2
  <2> QED BY <1>1, <2>1, <2>2, <2>3 DEF HandedOutExist, EngagedLeased
<1> QED BY <1>2, <1>3

\* What a client does to the state and the data of the worlds.
LEMMA ClientWrites ==
  ASSUME CleanInv, Provider = "process", NEW c \in Clients, ClientStep(c)
  PROVE  \/ UNCHANGED <<state, dirty>>
         \/ /\ ResetDone(c) /\ pc[c] = "resetting"
            /\ state' = [state EXCEPT ![world[c]] = "ready"]
            /\ dirty' = [dirty EXCEPT ![world[c]] = FALSE]
         \/ /\ pc[c] \in {"resetting", "probing", "demote", "hold"} /\ pc'[c] # "hold"
            /\ state' = [state EXCEPT ![world[c]] = "unhealthy"]
            /\ dirty' = dirty
         \/ /\ pc[c] = "hold" /\ pc' = pc
            /\ dirty' = [dirty EXCEPT ![world[c]] = TRUE]
            /\ state' = state
<1> USE DEF CleanInv, AccountInv, LeaseInv, TypeInv, TypeOK, poolVars, envVars, Goto
<1>1. CASE ResetDone(c)
  BY <1>1 DEF ResetDone, ProviderAnswers, Rebuilt
<1>2. CASE ResetUnready(c) \/ ProbeFails(c)
  BY <1>2 DEF ResetUnready, ProbeFails, ProviderAnswers
<1>3. CASE Demote(c) \/ Discard(c)
  <2>1. world[c] \in Present
    BY <1>3 DEF Demote, Discard, HandedOutExist, Engaged, Present, Exists
  <2> QED BY <1>3, <2>1 DEF Demote, Discard, MarkUnhealthy, Woken
<1>4. CASE Use(c)
  BY <1>4 DEF Use, clientVars
<1>5. CASE \/ Request(c) \/ LeaseRefused(c) \/ LeasePick(c) \/ LeaseWait(c)
          \/ LeaseExhausted(c) \/ LeasePoll(c) \/ LeaseShutOut(c)
          \/ ResetBegin(c) \/ ResetRaises(c) \/ ProbeBegin(c) \/ ProbePasses(c)
          \/ ProbeRaises(c) \/ LeaseStale(c)
          \/ LeaseGranted(c) \/ LeaseRejected(c) \/ ScheduleReconcile(c) \/ Release(c)
  BY <1>5 DEF Request, LeaseRefused, LeasePick, LeaseWait, LeaseExhausted,
     LeasePoll, LeaseShutOut, ResetBegin, ResetRaises, ProbeBegin, PortCall,
     ProbePasses, ProbeRaises,
     LeaseStale, LeaseGranted, LeaseRejected, ScheduleReconcile, Release
<1> QED BY <1>1, <1>2, <1>3, <1>4, <1>5 DEF ClientStep

\* The client that holds a world, after a step of a client.
LEMMA HoldersAfter ==
  ASSUME CleanInv, NEW c \in Clients, ClientStep(c), NEW d \in Clients,
         pc'[d] = "hold"
  PROVE  /\ world'[d] = world[d]
         /\ \/ pc[d] = "hold"
            \/ d = c /\ LeaseGranted(c) /\ pc[c] = "verdict"
<1> USE DEF CleanInv, AccountInv, LeaseInv, TypeInv, TypeOK, clientVars
<1>1. CASE LeaseStale(c) \/ LeaseGranted(c) \/ Demote(c) \/ Discard(c) \/ Release(c)
  BY <1>1 DEF LeaseStale, LeaseGranted, Demote, Discard, MarkUnhealthy, Release, Woken
<1>2. CASE \/ Request(c) \/ LeaseRefused(c) \/ LeasePick(c) \/ LeaseWait(c)
          \/ LeaseExhausted(c) \/ LeasePoll(c) \/ LeaseShutOut(c)
          \/ ResetBegin(c) \/ ResetDone(c) \/ ResetUnready(c) \/ ResetRaises(c)
          \/ ProbeBegin(c) \/ ProbePasses(c) \/ ProbeFails(c) \/ ProbeRaises(c)
          \/ LeaseRejected(c) \/ ScheduleReconcile(c) \/ Use(c)
  BY <1>2 DEF Request, LeaseRefused, LeasePick, FirstCall, LeaseWait, LeaseExhausted,
     LeasePoll, LeaseShutOut, ResetBegin, ProbeBegin, PortCall, ResetDone,
     ResetUnready, ResetRaises, ProbePasses, ProbeFails, ProbeRaises,
     LeaseRejected, ScheduleReconcile, Use, Goto
<1> QED BY <1>1, <1>2 DEF ClientStep

\* Two clients at work are at different worlds.
LEMMA Alone ==
  ASSUME CleanInv, NEW c \in Clients, NEW d \in Clients, c # d, Engaged(c), Engaged(d)
  PROVE  world[c] # world[d]
  BY DEF CleanInv, AccountInv, LeaseInv, Owners, LeaseExclusive

\* A step of a client leaves the worlds in use as they were granted.
LEMMA HeldClient ==
  ASSUME CleanInv, Provider = "process", NEW c \in Clients, ClientStep(c)
  PROVE  HeldReady'
<1> USE DEF CleanInv, AccountInv, LeaseInv, TypeInv, TypeOK
<1> SUFFICES ASSUME NEW d \in Clients, pc'[d] = "hold"
             PROVE  state'[world'[d]] = "ready" \/ tpc' = "done"
  BY DEF HeldReady
<1>1. tpc' = tpc
  BY DEF ClientStep, Request, LeaseRefused, LeasePick, LeaseWait,
     LeaseExhausted, LeasePoll, LeaseShutOut, ResetBegin, ProbeBegin, PortCall,
     ResetDone, ResetUnready, ResetRaises, ProbePasses, ProbeFails, ProbeRaises,
     LeaseStale, LeaseGranted, LeaseRejected, Demote, Discard, MarkUnhealthy,
     ScheduleReconcile, Release, Use, taskVars
<1>2. world'[d] = world[d]
  BY HoldersAfter
<1>3. CASE d = c /\ LeaseGranted(c)
  BY <1>3, <1>2 DEF LeaseGranted, poolVars
<1>4. CASE pc[d] = "hold"
  <2>1. state[world[d]] = "ready" \/ tpc = "done"
    BY <1>4 DEF HeldReady
  <2>2. state'[world[d]] = state[world[d]] \/ state'[world[d]] = "ready"
    <3>1. CASE c = d
      BY <1>4, <3>1, ClientWrites
    <3>2. CASE c # d
      <4>1. Engaged(c) => world[c] # world[d]
        BY <1>4, <3>2, Alone DEF Engaged
      <4> QED BY <4>1, ClientWrites DEF Engaged
    <3> QED BY <3>1, <3>2
  <2> QED BY <1>1, <1>2, <2>1, <2>2
<1> QED BY <1>3, <1>4, HoldersAfter

\* What a task does to the state and the data of the worlds.
LEMMA TaskWrites ==
  ASSUME CleanInv, ProcessProvider, Cancel \/ ReconcileStep \/ TeardownStep
  PROVE  \/ UNCHANGED <<state, dirty>>
         \/ /\ rpc = "ensuring" /\ rpc' = "ensuring" /\ down' = down
            /\ \E w \in todo : /\ state[w] # "ready"
                               /\ state' = [state EXCEPT ![w] = "preparing"]
                               /\ dirty' = [dirty EXCEPT ![w] = FALSE]
         \/ /\ rpc = "polling" /\ rpc' = "ensuring" /\ down' = down
            /\ \E w \in todo, s \in {"ready", "unhealthy"} :
                 state' = [state EXCEPT ![w] = s]
            /\ dirty' = dirty
         \/ /\ rpc = "probing" /\ rpc' \in {"probing", "install"} /\ down' = down
            /\ \E w \in todo \ leased : state' = [state EXCEPT ![w] = "unhealthy"]
            /\ dirty' = dirty
         \/ /\ tpc = "closing" /\ tpc' = "done" /\ rpc' = rpc /\ down' = down
            /\ state' = [w \in Worlds |-> IF w \in Present THEN "stopped" ELSE state[w]]
            /\ dirty' = dirty
<1> USE DEF CleanInv, AccountInv, LeaseInv, TypeInv, TypeOK, ProcessProvider
<1>1. CASE EnsureRebuilds
  BY <1>1 DEF EnsureRebuilds, ProviderWrites, Rebuilt, Sound, Record
<1>2. CASE PollEnd
  BY <1>2 DEF PollEnd, ProviderWrites
<1>3. CASE WorldProbedBadly
  BY <1>3 DEF WorldProbedBadly, WorldProbed, ProbeWrites, NewObjects
<1>4. CASE TeardownDone
  BY <1>4 DEF TeardownDone, NewObjects, envVars
<1>5. CASE WorldProbedWell \/ Install
  BY <1>5 DEF WorldProbedWell, Install, NewObjects, envVars
<1>6. CASE SharedEngineRespawned
  BY <1>6 DEF SharedEngineRespawned
<1>7. CASE ProvisionRaises
  BY <1>7 DEF ProvisionRaises, envVars
<1>8. CASE Untouching
  BY <1>8 DEF Untouching, LoopStart, ProvisionBegin, EnsureSkips, PollBegin,
     ProvisionReturns, Backoff, GiveUp, ReconcileProbes, LoopCheck, Cancel, Close,
     TeardownAwaits, TeardownCloses, poolVars, envVars
<1> QED BY <1>1, <1>2, <1>3, <1>4, <1>5, <1>6, <1>7, <1>8
        DEF ReconcileStep, TeardownStep, Untouching

\* What a task leaves alone.
LEMMA TaskKeeps ==
  ASSUME CleanInv, Cancel \/ ReconcileStep \/ TeardownStep
  PROVE  /\ UNCHANGED <<world, started, leased, verdict>>
         /\ \A d \in Clients : pc'[d] = pc[d] \/ (pc[d] = "wait" /\ pc'[d] = "top")
         /\ tpc = "done" => tpc' = "done"
         /\ rpc' = "polling" => PollBegin \/ (rpc = "polling" /\ todo' = todo)
<1> USE DEF poolVars, clientVars, taskVars, CleanInv, AccountInv, LeaseInv, TypeInv, TypeOK
<1>1. CASE Cancel
  BY <1>1 DEF Cancel
<1>2. CASE TeardownStep
  BY <1>2 DEF TeardownStep, Close, TeardownAwaits, TeardownCloses, TeardownDone, Woken
<1>3. CASE \/ LoopStart \/ ProvisionBegin \/ EnsureSkips \/ EnsureRebuilds
          \/ PollBegin \/ PollEnd \/ ProvisionRaises \/ SharedEngineRespawned
          \/ ProvisionReturns \/ Backoff
  BY <1>3 DEF LoopStart, ProvisionBegin, EnsureSkips, EnsureRebuilds, PollBegin,
     PollEnd, ProvisionRaises, AfterFailure, SharedEngineRespawned, ProvisionReturns,
     Backoff
<1>4. CASE GiveUp \/ ReconcileProbes \/ WorldProbedWell \/ WorldProbedBadly
          \/ Install \/ LoopCheck
  BY <1>4 DEF GiveUp, ReconcileProbes, WorldProbedWell, WorldProbedBadly, WorldProbed,
     Install, LoopCheck, AfterPass, Woken
<1> QED BY <1>1, <1>2, <1>3, <1>4 DEF ReconcileStep

\* A step of a task leaves the worlds in use as they were granted.
LEMMA HeldTasks ==
  ASSUME CleanInv, ProcessProvider, Cancel \/ ReconcileStep \/ TeardownStep
  PROVE  HeldReady'
<1> USE DEF CleanInv, AccountInv, LeaseInv, TypeInv, TypeOK
<1> SUFFICES ASSUME NEW d \in Clients, pc'[d] = "hold"
             PROVE  state'[world'[d]] = "ready" \/ tpc' = "done"
  BY DEF HeldReady
<1>1. pc[d] = "hold" /\ world'[d] = world[d]
  BY TaskKeeps
<1>2. world[d] \in leased
  BY <1>1 DEF Owners, EngagedLeased, Engaged
<1>3. CASE tpc = "done"
  BY <1>3, TaskKeeps
<1>4. CASE tpc # "done"
  <2>1. state[world[d]] = "ready"
    BY <1>1, <1>4 DEF HeldReady
  <2>2. rpc = "polling" => world[d] \notin todo
    BY <2>1 DEF RebuiltClean
  <2>3. state'[world[d]] = "ready" \/ tpc' = "done"
    BY <1>2, <2>1, <2>2, TaskWrites
  <2> QED BY <1>1, <2>3
<1> QED BY <1>3, <1>4

\* A step of a client keeps what the reconcile rebuilt clean.
LEMMA RebuiltClient ==
  ASSUME CleanInv, ProcessProvider, NEW c \in Clients, ClientStep(c)
  PROVE  RebuiltClean'
<1> USE ClientsAreNotTasks
    DEF CleanInv, AccountInv, LeaseInv, TypeInv, TypeOK, ProcessProvider
<1>1. /\ UNCHANGED <<todo, started, tpc>>
      /\ rpc' = rpc \/ rpc' = "start"
  BY DEF ClientStep, Request, LeaseRefused, LeasePick, LeaseWait,
     LeaseExhausted, LeasePoll, LeaseShutOut, ResetBegin, ProbeBegin, PortCall,
     ResetDone, ResetUnready, ResetRaises, ProbePasses, ProbeFails, ProbeRaises,
     LeaseStale, LeaseGranted, LeaseRejected, Demote, Discard, MarkUnhealthy,
     ScheduleReconcile, Release, Use, taskVars, poolVars
<1>2. started
  BY DEF Unstarted, ClientStep, Request, LeaseRefused, LeasePick, LeaseWait,
     LeaseExhausted, LeasePoll, LeaseShutOut, ResetBegin, ProbeBegin, PortCall,
     ResetDone, ResetUnready, ResetRaises, ProbePasses, ProbeFails, ProbeRaises,
     LeaseStale, LeaseGranted, LeaseRejected, Demote, Discard, MarkUnhealthy,
     ScheduleReconcile, Release, Use
<1>3. \A w \in down' : w \in down \/ (w = world[c] /\ state'[w] = "unhealthy")
  <2>1. CASE Demote(c) \/ Discard(c)
    <3>1. world[c] \in Present
      BY <2>1 DEF Demote, Discard, HandedOutExist, Engaged, Present, Exists
    <3> QED BY <2>1, <3>1 DEF Demote, Discard, MarkUnhealthy
  <2>2. CASE ~ Demote(c) /\ ~ Discard(c)
    BY <2>2 DEF ClientStep, Request, LeaseRefused, LeasePick, LeaseWait,
     LeaseExhausted, LeasePoll, LeaseShutOut, ResetBegin, ProbeBegin, PortCall,
     ResetDone, ResetUnready, ResetRaises, ProbePasses, ProbeFails, ProbeRaises,
     LeaseStale, LeaseGranted, LeaseRejected, ScheduleReconcile, Release, Use, poolVars
  <2> QED BY <2>1, <2>2
<1>4. CASE UNCHANGED <<state, dirty>>
  BY <1>1, <1>2, <1>3, <1>4 DEF RebuiltClean
<1>5. CASE /\ ResetDone(c) /\ pc[c] = "resetting"
           /\ state' = [state EXCEPT ![world[c]] = "ready"]
           /\ dirty' = [dirty EXCEPT ![world[c]] = FALSE]
  <2>1. port = c /\ rpc # "polling" /\ tpc # "done"
    BY <1>5 DEF PortInv, PortHeld, CloseOrder, Calling
  <2> QED BY <1>1, <1>2, <1>3, <1>5, <2>1 DEF RebuiltClean
<1>6. CASE /\ pc[c] \in {"resetting", "probing", "demote", "hold"}
           /\ state' = [state EXCEPT ![world[c]] = "unhealthy"] /\ dirty' = dirty
  BY <1>1, <1>2, <1>3, <1>6 DEF RebuiltClean
<1>7. CASE /\ pc[c] = "hold" /\ pc' = pc
           /\ dirty' = [dirty EXCEPT ![world[c]] = TRUE] /\ state' = state
  <2>1. state[world[c]] # "preparing"
    BY <1>7 DEF HeldReady, RebuiltClean
  <2>2. world[c] \notin down
    BY <1>7 DEF Owners, EngagedLeased, Engaged, IndexSets
  <2>3. rpc = "polling" => world[c] \notin todo
    <3>1. rpc = "polling" => tpc # "done"
      BY DEF PortInv, CloseOrder
    <3> QED BY <1>7, <3>1 DEF HeldReady, RebuiltClean
  <2> QED BY <1>1, <1>2, <1>3, <1>7, <2>1, <2>2, <2>3 DEF RebuiltClean
<1> QED BY <1>4, <1>5, <1>6, <1>7, ClientWrites

\* So does a step of a task.
LEMMA RebuiltTasks ==
  ASSUME CleanInv, ProcessProvider, Cancel \/ ReconcileStep \/ TeardownStep
  PROVE  RebuiltClean'
<1> USE DEF CleanInv, AccountInv, LeaseInv, TypeInv, TypeOK
<1>1. down' \subseteq down
  BY DEF ReconcileStep, TeardownStep, LoopStart, ProvisionBegin,
     EnsureSkips, EnsureRebuilds, PollBegin, PollEnd, ProvisionRaises,
     SharedEngineRespawned, ProvisionReturns, Backoff, GiveUp, ReconcileProbes,
     WorldProbedWell, WorldProbedBadly, Install, StillDown,
     LoopCheck, Cancel, Close, TeardownAwaits, TeardownCloses, TeardownDone, poolVars
<1>2. tpc' = "done" => tpc = "done" \/ TeardownDone
  BY DEF ReconcileStep, TeardownStep, LoopStart, ProvisionBegin,
     EnsureSkips, EnsureRebuilds, PollBegin, PollEnd, ProvisionRaises,
     SharedEngineRespawned, ProvisionReturns, Backoff, GiveUp, ReconcileProbes,
     WorldProbedWell, WorldProbedBadly, WorldProbed, Install,
     LoopCheck, Cancel, Close, TeardownAwaits, TeardownCloses, TeardownDone, taskVars
<1>3. PollBegin => \A w \in todo' : state[w] = "preparing" /\ state' = state /\ dirty' = dirty
  BY DEF PollBegin, Preparing, IsFirst, poolVars, envVars
<1>4. tpc \in {"closing", "done"} => rpc = "off"
  BY DEF PortInv, CloseOrder
<1>5. TypeOK'
  BY TypeStep DEF Next
<1>6. CASE UNCHANGED <<state, dirty>>
  <2>1. ~ TeardownDone \/ \A w \in Worlds : state[w] \notin {"preparing", "ready"}
    BY <1>6 DEF TeardownDone, NewObjects, ProcessProvider, Present
  <2>2. rpc' = "polling" => \A w \in todo' :
          ~ dirty[w] /\ state[w] \in {"preparing", "unhealthy"}
    <3>1. CASE PollBegin
      BY <1>3, <1>5, <3>1 DEF RebuiltClean
    <3>2. CASE rpc = "polling" /\ todo' = todo
      BY <3>2 DEF RebuiltClean
    <3> QED BY <3>1, <3>2, TaskKeeps
  <2>3. tpc' = "done" => \A w \in Worlds : state[w] \notin {"preparing", "ready"}
    BY <1>2, <2>1 DEF RebuiltClean
  <2>4. ~ started' => ~ started
    BY TaskKeeps
  <2> QED BY <1>1, <1>6, <2>2, <2>3, <2>4 DEF RebuiltClean
<1>7. CASE /\ rpc = "ensuring" /\ rpc' = "ensuring" /\ down' = down
           /\ \E w \in todo : /\ state[w] # "ready"
                              /\ state' = [state EXCEPT ![w] = "preparing"]
                              /\ dirty' = [dirty EXCEPT ![w] = FALSE]
  <2>1. tpc' # "done"
    BY <1>2, <1>4, <1>7 DEF TeardownDone
  <2> QED BY <1>7, <2>1, TaskKeeps DEF RebuiltClean
<1>8. CASE /\ rpc = "polling" /\ rpc' = "ensuring" /\ down' = down
           /\ \E w \in todo, s \in {"ready", "unhealthy"} :
                 state' = [state EXCEPT ![w] = s]
           /\ dirty' = dirty
  <2>1. tpc' # "done"
    BY <1>2, <1>4, <1>8 DEF TeardownDone
  <2> QED BY <1>8, <2>1, TaskKeeps DEF RebuiltClean
<1>9. CASE /\ rpc = "probing" /\ rpc' \in {"probing", "install"} /\ down' = down
           /\ \E w \in todo \ leased : state' = [state EXCEPT ![w] = "unhealthy"]
           /\ dirty' = dirty
  <2>1. tpc' # "done"
    BY <1>2, <1>4, <1>9 DEF TeardownDone
  <2> QED BY <1>9, <2>1, TaskKeeps DEF RebuiltClean
<1>10. CASE /\ tpc = "closing" /\ tpc' = "done" /\ rpc' = rpc /\ down' = down
            /\ state' = [w \in Worlds |-> IF w \in Present THEN "stopped" ELSE state[w]]
            /\ dirty' = dirty
  BY <1>4, <1>10, TaskKeeps DEF RebuiltClean, Present
<1> QED BY <1>6, <1>7, <1>8, <1>9, <1>10, TaskWrites

\* A step of a client grants nothing but clean worlds.
LEMMA GrantClient ==
  ASSUME CleanInv, ProcessProvider, NEW c \in Clients, ClientStep(c)
  PROVE  GrantClean'
<1> USE DEF CleanInv, AccountInv, LeaseInv, TypeInv, TypeOK, ProcessProvider
<1>1. ASSUME NEW w \in fresh' PROVE ~ dirty'[w]
  <2>1. w \in fresh /\ w \in Worlds
    BY <1>1 DEF ClientStep, Request, LeaseRefused, LeasePick, LeaseWait,
     LeaseExhausted, LeasePoll, LeaseShutOut, ResetBegin, ProbeBegin, PortCall,
     ResetDone, ResetUnready, ResetRaises, ProbePasses, ProbeFails, ProbeRaises,
     LeaseStale, LeaseGranted, LeaseRejected, Demote, Discard, MarkUnhealthy,
     ScheduleReconcile, Release, Use, poolVars
  <2>2. pc[c] = "hold" => w # world[c]
    BY <2>1 DEF Owners, EngagedLeased, Engaged, IndexSets
  <2> QED BY <2>1, <2>2, ClientWrites DEF GrantClean
<1>2. ASSUME NEW d \in Clients, d # c, Restored(d)'
      PROVE  ~ dirty'[world'[d]] \/ state'[world'[d]] # "ready"
  <2>1. Restored(d) /\ world'[d] = world[d]
    <3>1. CASE \/ LeaseStale(c) \/ LeaseGranted(c) \/ Demote(c) \/ Discard(c)
              \/ Release(c)
      BY <1>2, <3>1 DEF LeaseStale, LeaseGranted, Demote, Discard, MarkUnhealthy,
         Release, Woken, Restored, EndTrip, Forget
    <3>2. CASE \/ Request(c) \/ LeaseRefused(c) \/ LeasePick(c) \/ LeaseWait(c)
          \/ LeaseExhausted(c) \/ LeasePoll(c) \/ LeaseShutOut(c)
          \/ ResetBegin(c) \/ ProbeBegin(c) \/ ResetDone(c) \/ ResetUnready(c)
          \/ ResetRaises(c) \/ ProbePasses(c) \/ ProbeFails(c) \/ ProbeRaises(c)
          \/ LeaseRejected(c) \/ ScheduleReconcile(c) \/ Use(c)
      BY <1>2, <3>2 DEF Request, LeaseRefused, LeasePick, LeaseWait, LeaseExhausted,
         LeasePoll, LeaseShutOut, ResetBegin, ProbeBegin, PortCall, ResetDone,
         ResetUnready, ResetRaises, ProbePasses, ProbeFails, ProbeRaises,
         LeaseRejected, ScheduleReconcile, Use, Goto, Restored, clientVars, EndTrip, Forget
    <3> QED BY <3>1, <3>2 DEF ClientStep
  <2>2. ~ dirty[world[d]] \/ state[world[d]] # "ready"
    BY <2>1 DEF GrantClean
  <2>3. Engaged(d)
    BY <2>1 DEF Restored, Engaged
  <2>4. Engaged(c) => world[c] # world[d]
    BY <1>2, <2>3, Alone
  <2>5. state'[world[d]] = state[world[d]] /\ dirty'[world[d]] = dirty[world[d]]
    BY <2>4, ClientWrites DEF Engaged
  <2> QED BY <2>1, <2>2, <2>5
<1>3. ASSUME Restored(c)'
      PROVE  ~ dirty'[world'[c]] \/ state'[world'[c]] # "ready"
  <2>1. CASE LeasePick(c)
    <3>1. PICK w \in Worlds : /\ world' = [world EXCEPT ![c] = w]
                              /\ pc' = [pc EXCEPT ![c] = FirstCall(w)]
      BY <2>1 DEF LeasePick, Goto
    <3>2. w \in fresh
      BY <1>3, <3>1 DEF FirstCall, Restored
    <3> QED BY <2>1, <3>1, <3>2 DEF LeasePick, GrantClean, poolVars, envVars
  <2>2. CASE ResetDone(c)
    BY <2>2 DEF ResetDone, Rebuilt
  <2>3. CASE ResetUnready(c) \/ ProbeFails(c)
    BY <2>3 DEF ResetUnready, ProbeFails, ProviderAnswers
  <2>4. CASE ResetBegin(c)
    <3>1. world[c] \in Present
      BY <2>4 DEF ResetBegin, PortCall, HandedOutExist, Engaged, Present, Exists
    <3> QED BY <1>3, <2>4, <3>1 DEF ResetBegin, PortCall, Goto, Restored
  <2>5. CASE ProbeBegin(c) \/ ProbePasses(c) \/ ProbeRaises(c)
    <3>1. Restored(c) /\ UNCHANGED <<world, state, dirty>>
      BY <2>5 DEF ProbeBegin, PortCall, ProbePasses, ProbeRaises, Restored,
                  poolVars, envVars
    <3> QED BY <3>1 DEF GrantClean
  <2>6. CASE \/ Request(c) \/ LeaseRefused(c) \/ LeaseWait(c)
          \/ LeaseExhausted(c) \/ LeasePoll(c) \/ LeaseShutOut(c)
          \/ ResetRaises(c)
          \/ LeaseRejected(c) \/ ScheduleReconcile(c)
    <3>1. ~ Restored(c)'
      BY <2>6 DEF Request, LeaseRefused, LeaseWait, LeaseExhausted, LeasePoll,
         LeaseShutOut, ResetRaises, LeaseRejected, ScheduleReconcile, Goto, Restored
    <3> QED BY <1>3, <3>1
  <2>7. CASE LeaseStale(c) \/ LeaseGranted(c) \/ Demote(c) \/ Discard(c) \/ Release(c)
    <3>1. ~ Restored(c)'
      BY <2>7 DEF LeaseStale, LeaseGranted, Demote, Discard, MarkUnhealthy, Release,
                  Woken, Restored
    <3> QED BY <1>3, <3>1
  <2>8. CASE Use(c)
    BY <1>3, <2>8 DEF Use, Restored, clientVars
  <2> QED BY <2>1, <2>2, <2>3, <2>4, <2>5, <2>6, <2>7, <2>8 DEF ClientStep
<1> QED BY <1>1, <1>2, <1>3 DEF GrantClean

\* A step of a task puts only clean worlds in _fresh and revives only clean ones.
LEMMA GrantTasks ==
  ASSUME CleanInv, ProcessProvider, Cancel \/ ReconcileStep \/ TeardownStep
  PROVE  GrantClean'
<1> USE DEF CleanInv, AccountInv, LeaseInv, TypeInv, TypeOK
<1>1. ASSUME NEW w \in Worlds, ~ dirty[w]
      PROVE  ~ dirty'[w]
  BY <1>1, TaskWrites
<1>2. ASSUME NEW w \in Worlds, state[w] # "ready", dirty[w]
      PROVE  ~ dirty'[w] \/ state'[w] # "ready"
  BY <1>2, TaskWrites DEF RebuiltClean
<1>3. ASSUME NEW w \in fresh' PROVE ~ dirty'[w]
  <2>1. w \in fresh \/ (Install /\ w \in down /\ state[w] = "ready")
    BY <1>3 DEF ProcessProvider, ReconcileStep, TeardownStep, LoopStart, ProvisionBegin,
     EnsureSkips, EnsureRebuilds, PollBegin, PollEnd, ProvisionRaises,
     SharedEngineRespawned, ProvisionReturns, Backoff, GiveUp, ReconcileProbes,
     WorldProbedWell, WorldProbedBadly, Install, NewObjects,
     LoopCheck, Cancel, Close, TeardownAwaits, TeardownCloses, TeardownDone, poolVars
  <2>2. ~ dirty[w]
    BY <2>1 DEF GrantClean, RebuiltClean
  <2> QED BY <1>1, <2>1, <2>2
<1>4. ASSUME NEW d \in Clients, Restored(d)'
      PROVE  ~ dirty'[world'[d]] \/ state'[world'[d]] # "ready"
  <2>1. Restored(d) /\ world'[d] = world[d]
    BY <1>4, TaskKeeps DEF Restored
  <2>2. ~ dirty[world[d]] \/ state[world[d]] # "ready"
    BY <2>1 DEF GrantClean
  <2> QED BY <1>1, <1>2, <2>1, <2>2
<1> QED BY <1>3, <1>4 DEF GrantClean

\* start() hands out worlds that nobody has used.
LEMMA StartClean ==
  ASSUME CleanInv, Provider = "process", Start
  PROVE  HeldReady' /\ RebuiltClean' /\ GrantClean'
<1> USE DEF CleanInv, AccountInv, LeaseInv, TypeInv, TypeOK
<1>1. /\ \A w \in Worlds : ~ dirty'[w]
      /\ \A c \in Clients : pc'[c] = "idle"
      /\ rpc' = "off" /\ tpc' # "done" /\ started'
  BY DEF Start, RebuiltClean, Unstarted, WholePool, PortInv, CloseOrder, clientVars,
         taskVars
<1>2. \A w \in Worlds : state'[w] # "preparing"
  <2>1. FirstStates = {"ready", "unhealthy"}
    BY DEF FirstStates
  <2>2. PICK n \in FirstSizes : \E s \in [0 .. n - 1 -> FirstStates] :
          state' = [w \in Worlds |-> IF w < n THEN s[w] ELSE "absent"]
    BY DEF Start
  <2>3. n \in Nat /\ \A w \in Worlds : w \in Nat
    BY InstancesAssumption DEF FirstSizes, Worlds
  <2>4. PICK s \in [0 .. n - 1 -> FirstStates] :
          state' = [w \in Worlds |-> IF w < n THEN s[w] ELSE "absent"]
    BY <2>2
  <2>5. \A w \in Worlds : w < n => s[w] \in {"ready", "unhealthy"}
    BY <2>1, <2>3, <2>4
  <2> QED BY <2>4, <2>5
<1>3. TypeOK'
  BY TypeStep DEF Next
<1> QED BY <1>1, <1>2, <1>3
        DEF HeldReady, RebuiltClean, GrantClean, Restored

\* Every step keeps the invariant.
LEMMA CleanStep ==
  ASSUME CleanInv, ProcessProvider, [Next]_vars
  PROVE  CleanInv'
<1>1. AccountInv'
  BY AccountStep DEF CleanInv, ProcessProvider
<1>2. PortInv'
  BY PortStep DEF CleanInv
<1>3. CASE \E c \in Clients : ClientStep(c)
  BY <1>1, <1>2, <1>3, HandedOutClient, HeldClient, RebuiltClient, GrantClient
  DEF CleanInv, ProcessProvider
<1>4. CASE Start
  BY <1>1, <1>2, <1>4, HandedOutTasks, StartClean DEF CleanInv, ProcessProvider
<1>5. CASE Cancel \/ ReconcileStep \/ TeardownStep
  BY <1>1, <1>2, <1>5, HandedOutTasks, HeldTasks, RebuiltTasks, GrantTasks
  DEF CleanInv, ProcessProvider
<1>6. CASE UNCHANGED vars
  BY <1>1, <1>2, <1>6
  DEF CleanInv, HandedOutExist, HeldReady, RebuiltClean, GrantClean, Restored, Exists,
      Engaged, vars, poolVars, clientVars, taskVars, envVars
<1> QED BY <1>3, <1>4, <1>5, <1>6 DEF Next
--------------------------------------------------------------------------------
(* The steps of the pool are steps of the lease.                               *)

\* A client that holds a world holds one of the pool's, and none is NoWorld.
LEMMA HeldIsWorld ==
  ASSUME TypeOK
  PROVE  /\ NoWorld \notin Worlds
         /\ \A c \in Clients : pc[c] = "hold" => world[c] \in Worlds /\ world[c] # NoWorld
  BY InstancesAssumption DEF TypeOK, NoWorld, Worlds

\* The pool starts as the lease does.
LEMMA LeaseInitially == Init => Lease!Init
  BY DEF Init, Lease!Init, NoWorld

\* A step of a client takes a clean world that is free, uses the world it holds, gives
\* it back, restores one that is free, or is none of these.
LEMMA LeaseOfClient ==
  ASSUME CleanInv, CleanInv', ProcessProvider, NEW c \in Clients, ClientStep(c)
  PROVE  [Lease!Next]_(Lease!vars)
<1> USE DEF CleanInv, AccountInv, LeaseInv, TypeInv, TypeOK
<1>1. CASE LeaseGranted(c)
  <2>1. /\ pc[c] = "verdict" /\ verdict[c] /\ state[world[c]] = "ready"
        /\ UNCHANGED <<world, dirty>>
    BY <1>1 DEF LeaseGranted, envVars
  <2>2. \A d \in Clients : pc'[d] = "hold" <=> pc[d] = "hold" \/ d = c
    BY <1>1 DEF LeaseGranted, Woken
  <2>3. ~ dirty[world[c]]
    BY <2>1 DEF GrantClean, Restored
  <2>4. \A d \in Clients : pc[d] = "hold" => world[d] # world[c]
    BY <2>1, Alone DEF Engaged
  <2>5. PICK w \in Worlds : w = world[c]
    OBVIOUS
  <2>6. Lease!Acquire(c, w)
    BY <2>1, <2>2, <2>3, <2>4, <2>5, HeldIsWorld DEF Lease!Acquire, Lease!Free
  <2> QED BY <2>6 DEF Lease!Next
<1>2. CASE Use(c)
  <2>1. Lease!Use(c)
    BY <1>2, HeldIsWorld DEF Use, Lease!Use, clientVars
  <2> QED BY <2>1 DEF Lease!Next
<1>3. CASE Release(c) \/ Discard(c)
  <2>1. /\ UNCHANGED <<world, dirty>> /\ pc[c] = "hold"
        /\ \A d \in Clients : pc'[d] = "hold" <=> pc[d] = "hold" /\ d # c
    BY <1>3 DEF Release, Discard, MarkUnhealthy, Woken, envVars
  <2>2. Lease!GiveBack(c)
    BY <2>1, HeldIsWorld DEF Lease!GiveBack
  <2> QED BY <2>2 DEF Lease!Next
<1>4. CASE ResetDone(c)
  <2>1. /\ pc[c] = "resetting" /\ world' = world
        /\ dirty' = [dirty EXCEPT ![world[c]] = FALSE]
        /\ \A d \in Clients : pc'[d] = "hold" <=> pc[d] = "hold"
    BY <1>4 DEF ResetDone, Rebuilt, Goto
  <2>2. \A d \in Clients : pc[d] = "hold" => world[d] # world[c]
    BY <2>1, Alone DEF Engaged
  <2>3. PICK w \in Worlds : w = world[c]
    OBVIOUS
  <2>4. Lease!Restore(w)
    BY <2>1, <2>2, <2>3, HeldIsWorld DEF Lease!Restore, Lease!Free
  <2> QED BY <2>4 DEF Lease!Next
<1>5. CASE \/ Request(c) \/ LeaseRefused(c) \/ LeasePick(c) \/ LeaseWait(c)
          \/ LeaseExhausted(c) \/ LeasePoll(c) \/ LeaseShutOut(c)
          \/ ResetBegin(c) \/ ResetUnready(c) \/ ResetRaises(c) \/ ProbeBegin(c)
          \/ ProbePasses(c) \/ ProbeFails(c) \/ ProbeRaises(c) \/ LeaseStale(c)
          \/ LeaseRejected(c) \/ Demote(c) \/ ScheduleReconcile(c)
  <2>1. \A d \in Clients : (pc'[d] = "hold" <=> pc[d] = "hold")
                           /\ (pc[d] = "hold" => world'[d] = world[d])
    BY <1>5 DEF Request, LeaseRefused, LeasePick, FirstCall, LeaseWait, LeaseExhausted,
       LeasePoll, LeaseShutOut, ResetBegin, ResetUnready, ResetRaises, ProbeBegin,
       PortCall, ProbePasses, ProbeFails, ProbeRaises, LeaseStale, LeaseRejected,
       Demote, MarkUnhealthy, ScheduleReconcile, Goto, Woken
  <2>2. dirty' = dirty
    BY <1>5 DEF Request, LeaseRefused, LeasePick, LeaseWait, LeaseExhausted,
       LeasePoll, LeaseShutOut, ResetBegin, ResetUnready, ResetRaises, ProbeBegin,
       PortCall, ProbePasses, ProbeFails, ProbeRaises, LeaseStale, LeaseRejected,
       Demote, MarkUnhealthy, ScheduleReconcile, envVars
  <2> QED BY <2>1, <2>2 DEF Lease!vars
<1> QED BY <1>1, <1>2, <1>3, <1>4, <1>5 DEF ClientStep

\* A step of a task restores a world nobody holds, or changes nothing a client sees.
LEMMA LeaseOfTask ==
  ASSUME CleanInv, CleanInv', ProcessProvider, Cancel \/ ReconcileStep \/ TeardownStep
  PROVE  [Lease!Next]_(Lease!vars)
<1> USE DEF CleanInv, AccountInv, LeaseInv, TypeInv, TypeOK
<1>1. \A d \in Clients : (pc'[d] = "hold" <=> pc[d] = "hold") /\ world'[d] = world[d]
  BY TaskKeeps
<1>2. CASE dirty' = dirty
  BY <1>1, <1>2 DEF Lease!vars
<1>3. CASE /\ rpc = "ensuring"
           /\ \E w \in todo : state[w] # "ready" /\ dirty' = [dirty EXCEPT ![w] = FALSE]
  <2>1. PICK w \in todo : state[w] # "ready" /\ dirty' = [dirty EXCEPT ![w] = FALSE]
    BY <1>3
  <2>2. tpc # "done"
    BY <1>3 DEF PortInv, CloseOrder
  <2>3. \A d \in Clients : pc[d] = "hold" => world[d] # w
    BY <2>1, <2>2 DEF HeldReady
  <2>4. Lease!Restore(w) /\ w \in Worlds
    BY <1>1, <2>1, <2>3, HeldIsWorld DEF Lease!Restore, Lease!Free
  <2> QED BY <2>4 DEF Lease!Next
<1> QED BY <1>2, <1>3, TaskWrites

\* Every step of the pool is a step of the lease or changes nothing of it.
LEMMA StepOfLease ==
  ASSUME CleanInv, CleanInv', ProcessProvider, [Next]_vars
  PROVE  [Lease!Next]_(Lease!vars)
<1>1. CASE \E c \in Clients : ClientStep(c)
  BY <1>1, LeaseOfClient
<1>2. CASE Start
  BY <1>2 DEF Start, Lease!vars, clientVars
<1>3. CASE Cancel \/ ReconcileStep \/ TeardownStep
  BY <1>3, LeaseOfTask
<1>4. CASE UNCHANGED vars
  BY <1>4 DEF vars, clientVars, envVars, Lease!vars
<1> QED BY <1>1, <1>2, <1>3, <1>4 DEF Next

\* With the process provider, and worlds that do not fail in use, a client is only
\* ever given a world that nobody else holds and nobody has used since it was
\* restored, and a world is restored only while nobody holds it.
THEOREM PoolImplementsLease ==
  ASSUME ProcessProvider
  PROVE  Spec => ImplementsLease
<1>1. CleanInv /\ [Next]_vars => CleanInv'
  BY CleanStep
<1>2. CleanInv /\ CleanInv' /\ [Next]_vars => [Lease!Next]_(Lease!vars)
  BY StepOfLease
<1> QED BY <1>1, <1>2, CleanInit, LeaseInitially, PTL DEF Spec, Lease!Spec, ImplementsLease

\* A client that is granted a world keeps the one it has prepared.
LEMMA GrantedAsPrepared ==
  ASSUME CleanInv, [Next]_vars, NEW c \in Clients, pc[c] # "hold", pc'[c] = "hold"
  PROVE  world' = world
<1> USE DEF CleanInv, AccountInv, LeaseInv, TypeInv, TypeOK
<1>1. CASE Cancel \/ ReconcileStep \/ TeardownStep
  BY <1>1, TaskKeeps
<1>2. CASE Start \/ UNCHANGED vars
  BY <1>2 DEF Start, vars, clientVars
<1>3. ASSUME NEW d \in Clients, ClientStep(d) PROVE world' = world
  <2>1. CASE \/ Request(d) \/ LeasePick(d) \/ LeaseStale(d) \/ Demote(d) \/ Discard(d)
            \/ ScheduleReconcile(d) \/ Release(d)
    BY <2>1 DEF Request, LeasePick, FirstCall, LeaseStale, Demote, Discard, MarkUnhealthy,
       ScheduleReconcile, Release, Goto, Woken
  <2>2. CASE ~ (\/ Request(d) \/ LeasePick(d) \/ LeaseStale(d) \/ Demote(d)
                \/ Discard(d) \/ ScheduleReconcile(d) \/ Release(d))
    BY <1>3, <2>2 DEF ClientStep, LeaseRefused, LeaseWait, LeaseExhausted, LeasePoll,
       LeaseShutOut, ResetBegin, ResetDone, ResetUnready, ResetRaises, ProbeBegin,
       PortCall, ProbePasses, ProbeFails, ProbeRaises, LeaseGranted, LeaseRejected, Use,
       Forget, EndTrip, clientVars
  <2> QED BY <2>1, <2>2
<1> QED BY <1>1, <1>2, <1>3 DEF Next

\* With the process provider a scenario starts on a pristine world: at the step that
\* grants it nobody has used the world since it was last rebuilt or reset.
THEOREM GrantsArePristine ==
  ASSUME ProcessProvider
  PROVE  Spec => GrantPristine
<1>1. CleanInv /\ [Next]_vars => CleanInv'
  BY CleanStep
<1>2. CleanInv /\ CleanInv' /\ [Next]_vars =>
        \A c \in Clients : pc[c] # "hold" /\ pc'[c] = "hold" => ~ dirty[world[c]]
  <2> SUFFICES ASSUME CleanInv, CleanInv', [Next]_vars,
                      NEW c \in Clients, pc[c] # "hold", pc'[c] = "hold"
               PROVE  ~ dirty[world[c]]
    OBVIOUS
  <2>1. world' = world
    BY GrantedAsPrepared
  <2>2. TypeOK /\ TypeOK'
    BY DEF CleanInv, AccountInv, LeaseInv, TypeInv
  <2>3. world[c] \in Worlds /\ world[c] # NoWorld
    BY <2>1, <2>2, HeldIsWorld DEF TypeOK
  <2>4. PICK d \in Clients, w \in Worlds : Lease!Acquire(d, w)
    BY <2>1, <2>3, StepOfLease
    DEF Lease!Next, Lease!vars, Lease!Use, Lease!GiveBack, Lease!Restore
  <2> QED BY <2>1, <2>3, <2>4 DEF Lease!Acquire
<1> QED BY <1>1, <1>2, CleanInit, PTL DEF Spec, GrantPristine

\* With the process provider no world is rebuilt, reset or dropped under the scenario
\* that holds it.
THEOREM HoldersUndisturbed ==
  ASSUME ProcessProvider
  PROVE  Spec => HolderUndisturbed
<1>1. CleanInv /\ [Next]_vars => CleanInv'
  BY CleanStep
<1>2. CleanInv /\ CleanInv' /\ [Next]_vars =>
        \A c \in Clients :
          pc[c] = "hold" /\ pc'[c] = "hold" /\ dirty[world[c]] => dirty'[world[c]]
  <2> SUFFICES ASSUME CleanInv, CleanInv', [Next]_vars,
                      NEW c \in Clients, pc[c] = "hold", pc'[c] = "hold",
                      dirty[world[c]]
               PROVE  dirty'[world[c]]
    OBVIOUS
  <2>1. TypeOK
    BY DEF CleanInv, AccountInv, LeaseInv, TypeInv
  <2>2. world[c] \in Worlds /\ world[c] # NoWorld
    BY <2>1, HeldIsWorld
  <2>3. [Lease!Next]_(Lease!vars)
    BY StepOfLease
  <2> QED BY <2>2, <2>3
          DEF Lease!Next, Lease!vars, Lease!Acquire, Lease!Use, Lease!GiveBack,
              Lease!Restore, Lease!Free
<1> QED BY <1>1, <1>2, CleanInit, PTL DEF Spec, HolderUndisturbed
--------------------------------------------------------------------------------
(* The pool the scenario loop is written against.  Who has a world follows     *)
(* from the clients and the pool's sets; every step changes it at one world    *)
(* at most, but for the state section of a reconcile pass.                     *)

ViewInv == AccountInv /\ HandedOutExist

\* What the view of each world says.
ViewOfWorlds == \A w \in Worlds :
  /\ \A c \in Clients : Holds(c, w) => Holder[w] = c
  /\ (\A c \in Clients : ~ Holds(c, w)) =>
       Holder[w] = IF w \in available \cup leased THEN "free" ELSE "down"

\* One client at most holds it.
LEMMA HolderIs == LeaseInv => ViewOfWorlds
<1> SUFFICES ASSUME LeaseInv, NEW w \in Worlds
             PROVE  /\ \A c \in Clients : Holds(c, w) => Holder[w] = c
                    /\ (\A c \in Clients : ~ Holds(c, w)) =>
                         Holder[w] = IF w \in available \cup leased THEN "free" ELSE "down"
  BY DEF ViewOfWorlds
<1>1. ASSUME NEW c \in Clients, Holds(c, w) PROVE Holder[w] = c
  <2>1. \A d \in Clients : Holds(d, w) => d = c
    BY <1>1 DEF Holds, LeaseInv, Owners, LeaseExclusive, Engaged
  <2>2. Holder[w] = CHOOSE d \in Clients : Holds(d, w)
    BY <1>1 DEF Holder
  <2> QED BY <1>1, <2>1, <2>2
<1>2. ASSUME \A c \in Clients : ~ Holds(c, w)
      PROVE  Holder[w] = IF w \in available \cup leased THEN "free" ELSE "down"
  BY <1>2 DEF Holder
<1> QED BY <1>1, <1>2

\* The same after a step.
LEMMA HolderIsNext == LeaseInv' => ViewOfWorlds'
  BY HolderIs, PTL

\* A step leaves the view of world w as it is.
SameAt(w) == /\ \A c \in Clients : Holds(c, w)' <=> Holds(c, w)
             /\ w \in available' \cup leased' <=> w \in available \cup leased

\* So it does when neither the holders nor the pool's sets change for it.
LEMMA HolderSame ==
  ASSUME LeaseInv, LeaseInv', NEW w \in Worlds, SameAt(w)
  PROVE  Holder'[w] = Holder[w]
<1>1. CASE \E c \in Clients : Holds(c, w)
  BY <1>1, HolderIs, HolderIsNext DEF SameAt, ViewOfWorlds
<1>2. CASE \A c \in Clients : ~ Holds(c, w)
  BY <1>2, HolderIs, HolderIsNext DEF SameAt, ViewOfWorlds
<1> QED BY <1>1, <1>2

\* A step that changes nothing for any world leaves the view as it is.
LEMMA HolderUnchanged ==
  ASSUME LeaseInv, LeaseInv', \A w \in Worlds : SameAt(w)
  PROVE  Holder' = Holder
  BY HolderSame DEF Holder

\* A step about one world changes the view at that world.
LEMMA HolderBecomes ==
  ASSUME LeaseInv, LeaseInv', NEW w \in Worlds, NEW h, Holder'[w] = h,
         \A v \in Worlds \ {w} : SameAt(v)
  PROVE  Holder' = [Holder EXCEPT ![w] = h]
<1>1. \A v \in Worlds : Holder'[v] = [Holder EXCEPT ![w] = h][v]
  BY HolderSame DEF Holder
<1> QED BY <1>1 DEF Holder

\* A world in use, or on its way to be, is its client's alone.
LEMMA NobodyElseHolds ==
  ASSUME LeaseInv, NEW c \in Clients, Engaged(c), NEW d \in Clients, d # c
  PROVE  ~ Holds(d, world[c])
  BY DEF Holds, LeaseInv, Owners, LeaseExclusive, Engaged

\* A step of a client is one of the pool's operations on the world it is about.
LEMMA ViewOfClient ==
  ASSUME ViewInv, ViewInv', NEW c \in Clients, ClientStep(c)
  PROVE  [View!Next]_(View!vars)
<1> USE DEF ViewInv, AccountInv, LeaseInv, TypeInv, TypeOK, Holds
<1> DEFINE w == world[c]
<1>0. w \in Worlds /\ LeaseInv /\ LeaseInv'
  OBVIOUS
<1>1. CASE LeaseGranted(c)
  <2>1. /\ pc[c] = "verdict" /\ pc'[c] = "hold" /\ w \in leased
        /\ UNCHANGED <<started, world, available, leased, pending, rpc>>
        /\ \A d \in Clients : pc'[d] = "hold" <=> pc[d] = "hold" \/ d = c
    BY <1>1 DEF LeaseGranted, Woken, poolVars, taskVars, Owners, EngagedLeased, Engaged
  <2>2. \A d \in Clients : ~ Holds(d, w)
    BY <1>0, <2>1, NobodyElseHolds DEF Engaged
  <2>3. Holder[w] = "free" /\ Holder'[w] = c
    BY <1>0, <2>1, <2>2, HolderIs, HolderIsNext DEF ViewOfWorlds
  <2>4. \A v \in Worlds : Holder[v] # c
    <3>1. ASSUME NEW v \in Worlds PROVE Holder[v] # c
      <4>1. CASE \E d \in Clients : Holds(d, v)
        BY <1>0, <2>1, <4>1, HolderIs DEF ViewOfWorlds
      <4>2. CASE \A d \in Clients : ~ Holds(d, v)
        BY <1>0, <4>2, HolderIs, ClientsAssumption DEF ViewOfWorlds
      <4> QED BY <4>1, <4>2
    <3> QED BY <3>1
  <2>5. \A v \in Worlds \ {w} : SameAt(v)
    BY <2>1 DEF SameAt
  <2>6. Holder' = [Holder EXCEPT ![w] = c]
    BY <1>0, <2>3, <2>5, HolderBecomes
  <2>7. View!Grant(c, w)
    BY <2>1, <2>3, <2>4, <2>6 DEF View!Grant, View!Becomes, Recovering, InFlight
  <2> QED BY <1>0, <2>7 DEF View!Next
<1>2. CASE Demote(c)
  <2>1. /\ pc[c] = "demote" /\ w \in leased /\ Recovering'
        /\ w \notin available' \cup leased'
        /\ \A v \in Worlds \ {w} : v \in available' \cup leased' <=> v \in available \cup leased
        /\ UNCHANGED <<started, world>>
        /\ \A d \in Clients : pc'[d] = "hold" <=> pc[d] = "hold"
    BY <1>2 DEF Demote, MarkUnhealthy, Woken, Recovering, Owners, EngagedLeased, Engaged
  <2>2. \A d \in Clients : ~ Holds(d, w) /\ ~ Holds(d, w)'
    BY <1>0, <2>1, NobodyElseHolds DEF Engaged
  <2>3. Holder[w] = "free" /\ Holder'[w] = "down"
    BY <1>0, <2>1, <2>2, HolderIs, HolderIsNext DEF ViewOfWorlds
  <2>4. \A v \in Worlds \ {w} : SameAt(v)
    BY <2>1 DEF SameAt
  <2>5. Holder' = [Holder EXCEPT ![w] = "down"]
    BY <1>0, <2>3, <2>4, HolderBecomes
  <2>6. View!Lose(w)
    BY <2>1, <2>3, <2>5 DEF View!Lose, View!Becomes, Recovering
  <2> QED BY <1>0, <2>6 DEF View!Next
<1>3. CASE Discard(c)
  <2>1. /\ pc[c] = "hold" /\ Recovering'
        /\ w \notin available' \cup leased'
        /\ \A v \in Worlds \ {w} : v \in available' \cup leased' <=> v \in available \cup leased
        /\ UNCHANGED <<started, world>>
        /\ \A d \in Clients : pc'[d] = "hold" <=> pc[d] = "hold" /\ d # c
    BY <1>3 DEF Discard, MarkUnhealthy, Woken, Recovering
  <2>2. \A d \in Clients : ~ Holds(d, w)'
    BY <1>0, <2>1, NobodyElseHolds DEF Engaged
  <2>3. Holder[w] = c /\ Holder'[w] = "down"
    BY <1>0, <2>1, <2>2, HolderIs, HolderIsNext DEF ViewOfWorlds
  <2>4. \A v \in Worlds \ {w} : SameAt(v)
    BY <2>1 DEF SameAt
  <2>5. Holder' = [Holder EXCEPT ![w] = "down"]
    BY <1>0, <2>3, <2>4, HolderBecomes
  <2>6. View!Discard(c, w)
    BY <2>1, <2>3, <2>5 DEF View!Discard, View!Becomes, Recovering
  <2> QED BY <1>0, <2>6 DEF View!Next
<1>4. CASE Release(c)
  <2>1. pc[c] = "hold" /\ w \in leased /\ w \notin down /\ w \in Present
    BY <1>4 DEF Release, Owners, EngagedLeased, Engaged, IndexSets, HandedOutExist,
                Exists, Present
  <2>2. /\ available' = available \cup {w} /\ leased' = leased \ {w}
        /\ UNCHANGED <<started, world, pending, rpc>>
        /\ \A d \in Clients : pc'[d] = "hold" <=> pc[d] = "hold" /\ d # c
    BY <1>4, <2>1 DEF Release, PutBack, Woken, taskVars
  <2>3. \A d \in Clients : ~ Holds(d, w)'
    BY <1>0, <2>1, <2>2, NobodyElseHolds DEF Engaged
  <2>4. Holder[w] = c /\ Holder'[w] = "free"
    BY <1>0, <2>1, <2>2, <2>3, HolderIs, HolderIsNext DEF ViewOfWorlds
  <2>5. \A v \in Worlds \ {w} : SameAt(v)
    BY <2>1, <2>2 DEF SameAt
  <2>6. Holder' = [Holder EXCEPT ![w] = "free"]
    BY <1>0, <2>4, <2>5, HolderBecomes
  <2>7. View!Return(c, w)
    BY <2>2, <2>4, <2>6 DEF View!Return, View!Becomes, Recovering, InFlight
  <2> QED BY <1>0, <2>7 DEF View!Next
<1>5. CASE LeaseStale(c)
  <2>1. w \in Present /\ w \in leased
    BY <1>5 DEF LeaseStale, Owners, EngagedLeased, Engaged, HandedOutExist, Exists, Present
  <2>2. /\ available' = available \cup {w} /\ leased' = leased \ {w}
        /\ UNCHANGED <<started, world, pending, rpc>>
        /\ \A d \in Clients : pc'[d] = "hold" <=> pc[d] = "hold"
    BY <1>5, <2>1 DEF LeaseStale, PutBack, Woken, taskVars
  <2>3. \A v \in Worlds : SameAt(v)
    BY <2>1, <2>2 DEF SameAt
  <2>4. Holder' = Holder
    BY <1>0, <2>3, HolderUnchanged
  <2> QED BY <2>2, <2>4 DEF View!vars, Recovering, InFlight
<1>6. CASE LeasePick(c) \/ ScheduleReconcile(c)
  <2>1. /\ available' \cup leased' = available \cup leased
        /\ started' = started
        /\ \A d \in Clients : /\ pc'[d] = "hold" <=> pc[d] = "hold"
                              /\ pc[d] = "hold" => world'[d] = world[d]
    BY <1>6 DEF LeasePick, IsFirst, FirstCall, ScheduleReconcile, Goto
  <2>2. \A v \in Worlds : SameAt(v)
    BY <2>1 DEF SameAt
  <2>3. Holder' = Holder
    BY <1>0, <2>2, HolderUnchanged
  <2>4. Recovering' = Recovering \/ Recovering' = TRUE
    BY <1>6 DEF LeasePick, ScheduleReconcile, Recovering, InFlight, taskVars
  <2> QED BY <2>1, <2>3, <2>4 DEF View!vars, View!Next, View!Reschedule
<1>7. CASE \/ Request(c) \/ LeaseRefused(c) \/ LeaseWait(c)
          \/ LeaseExhausted(c) \/ LeasePoll(c) \/ LeaseShutOut(c)
          \/ ResetBegin(c) \/ ResetDone(c) \/ ResetUnready(c) \/ ResetRaises(c)
          \/ ProbeBegin(c) \/ ProbePasses(c) \/ ProbeFails(c) \/ ProbeRaises(c)
          \/ LeaseRejected(c) \/ Use(c)
  <2>1. UNCHANGED <<started, available, leased, pending, rpc>>
    BY <1>7 DEF Request, LeaseRefused, LeaseWait, LeaseExhausted,
       LeasePoll, LeaseShutOut, ResetBegin, ProbeBegin, PortCall, ResetDone,
       ResetUnready, ResetRaises, ProbePasses, ProbeFails, ProbeRaises,
       LeaseRejected, Use, poolVars, taskVars
  <2>2. \A d \in Clients : (pc'[d] = "hold" <=> pc[d] = "hold") /\ world'[d] = world[d]
    BY <1>7 DEF Request, LeaseRefused, LeaseWait, LeaseExhausted,
       LeasePoll, LeaseShutOut, ResetBegin, ProbeBegin, PortCall, ResetDone,
       ResetUnready, ResetRaises, ProbePasses, ProbeFails, ProbeRaises,
       LeaseRejected, Use, Goto, clientVars
  <2>3. \A v \in Worlds : SameAt(v)
    BY <2>1, <2>2 DEF SameAt
  <2>4. Holder' = Holder
    BY <1>0, <2>3, HolderUnchanged
  <2> QED BY <2>1, <2>4 DEF View!vars, Recovering, InFlight
<1> QED BY <1>1, <1>2, <1>3, <1>4, <1>5, <1>6, <1>7 DEF ClientStep

\* No provider but one of the Protocol's drops worlds between two passes.
LEMMA NothingGone ==
  ASSUME AccountInv, Provider # "protocol", Install
  PROVE  Gone = {}
<1>1. CASE Provider = "broker"
  BY <1>1 DEF Install, Gone, Achieved, NewObjects, Present, AccountInv, WholePool
<1>2. CASE Provider # "broker"
  BY <1>2 DEF Gone, Achieved, NewObjects
<1> QED BY <1>1, <1>2

\* The state section of a pass brings back worlds nobody has, and takes none away.
LEMMA ViewOfInstall ==
  ASSUME ViewInv, ViewInv', Provider # "protocol", Install
  PROVE  View!Restore
<1> USE DEF ViewInv, AccountInv, LeaseInv, TypeInv, TypeOK, Holds
<1>1. /\ available' = available \cup (good \ leased)
      /\ UNCHANGED <<started, leased, pending, world>> /\ rpc = "install" /\ rpc' = "check"
      /\ \A d \in Clients : pc'[d] = "hold" <=> pc[d] = "hold"
  BY NothingGone DEF Install, BackInPool, Woken
<1> DEFINE back == {w \in Worlds : Holder[w] = "down" /\ Holder'[w] = "free"}
<1>2. ASSUME NEW w \in Worlds
      PROVE  Holder'[w] = IF w \in back THEN "free" ELSE Holder[w]
  <2>1. CASE SameAt(w)
    BY <2>1, HolderSame
  <2>2. CASE ~ SameAt(w)
    <3>1. /\ \A d \in Clients : ~ Holds(d, w) /\ ~ Holds(d, w)'
          /\ w \notin available \cup leased /\ w \in available'
      BY <1>1, <2>2 DEF SameAt, Owners, EngagedLeased, Engaged
    <3>2. Holder[w] = "down" /\ Holder'[w] = "free"
      BY <3>1, HolderIs, HolderIsNext DEF ViewOfWorlds
    <3> QED BY <3>2
  <2> QED BY <2>1, <2>2
<1>3. Holder' = [w \in Worlds |-> IF w \in back THEN "free" ELSE Holder[w]]
  BY <1>2 DEF Holder
<1>4. back \in SUBSET {w \in Worlds : Holder[w] = "down"}
  OBVIOUS
<1> QED BY <1>1, <1>3, <1>4 DEF View!Restore, Recovering, InFlight

\* start() hands the pool over, and any other step of a task is part of a recovery.
LEMMA ViewOfTask ==
  ASSUME ViewInv, ViewInv', Provider # "protocol",
         Start \/ Cancel \/ ReconcileStep \/ TeardownStep
  PROVE  [View!Next]_(View!vars)
<1> USE DEF ViewInv, AccountInv, LeaseInv, TypeInv, TypeOK, Holds
<1>1. CASE Start
  <2>1. /\ ~ started /\ started' = TRUE /\ UNCHANGED <<pc, world, pending, rpc>>
        /\ \A d \in Clients : pc[d] = "idle"
    BY <1>1 DEF Start, clientVars, taskVars, Unstarted
  <2>2. \A w \in Worlds : Holder'[w] \in {"free", "down"}
    BY <2>1, HolderIsNext DEF ViewOfWorlds
  <2>3. Holder' \in [Worlds -> {"free", "down"}]
    BY <2>2 DEF Holder
  <2>4. View!Start
    BY <2>1, <2>3 DEF View!Start, Recovering, InFlight
  <2> QED BY <2>4 DEF View!Next
<1>2. CASE Install
  BY <1>2, ViewOfInstall DEF View!Next
<1>3. CASE ~ Start /\ ~ Install
  <2>1. /\ UNCHANGED <<started, available, leased, world>>
        /\ \A d \in Clients : pc'[d] = "hold" <=> pc[d] = "hold"
    <3>1. UNCHANGED <<available, leased>>
      BY <1>3 DEF ReconcileStep, TeardownStep, LoopStart, ProvisionBegin, EnsureSkips,
         EnsureRebuilds, PollBegin, PollEnd, ProvisionRaises, SharedEngineRespawned,
         ProvisionReturns, Backoff, GiveUp, ReconcileProbes, WorldProbedWell,
         WorldProbedBadly, LoopCheck, Cancel, Close, TeardownAwaits, TeardownCloses,
         TeardownDone, poolVars
    <3>2. UNCHANGED started
      BY <1>3 DEF ReconcileStep, TeardownStep, LoopStart, ProvisionBegin, EnsureSkips,
         EnsureRebuilds, PollBegin, PollEnd, ProvisionRaises, SharedEngineRespawned,
         ProvisionReturns, Backoff, GiveUp, ReconcileProbes, WorldProbedWell,
         WorldProbedBadly, LoopCheck, Cancel, Close, TeardownAwaits, TeardownCloses,
         TeardownDone, poolVars
    <3>3. UNCHANGED world /\ \A d \in Clients : pc'[d] = "hold" <=> pc[d] = "hold"
      BY <1>3 DEF ReconcileStep, TeardownStep, LoopStart, ProvisionBegin, EnsureSkips,
         EnsureRebuilds, PollBegin, PollEnd, ProvisionRaises, SharedEngineRespawned,
         ProvisionReturns, Backoff, GiveUp, ReconcileProbes, WorldProbedWell,
         WorldProbedBadly, LoopCheck, Cancel, Close, TeardownAwaits, TeardownCloses,
         TeardownDone, clientVars, Woken
    <3> QED BY <3>1, <3>2, <3>3
  <2>2. \A w \in Worlds : SameAt(w)
    BY <2>1 DEF SameAt
  <2>3. Holder' = Holder
    BY <2>2, HolderUnchanged
  <2>4. \/ Recovering' = Recovering
        \/ Recovering = TRUE /\ Recovering' = FALSE
    <3>1. CASE LoopStart \/ LoopCheck
      BY <3>1 DEF LoopStart, LoopCheck, AfterPass, Recovering, InFlight, poolVars
    <3>2. CASE ~ LoopStart /\ ~ LoopCheck
      <4>1. pending' = pending /\ (rpc' = "off" <=> rpc = "off")
        BY <1>3, <3>2 DEF ReconcileStep, TeardownStep, ProvisionBegin, EnsureSkips,
           EnsureRebuilds, PollBegin, PollEnd, ProvisionRaises, AfterFailure,
           SharedEngineRespawned, ProvisionReturns, Backoff, GiveUp, ReconcileProbes,
           WorldProbedWell, WorldProbedBadly, WorldProbed, Cancel, Close,
           TeardownAwaits, TeardownCloses, TeardownDone, poolVars, taskVars
      <4> QED BY <4>1 DEF Recovering, InFlight
    <3> QED BY <3>1, <3>2
  <2> QED BY <2>1, <2>3, <2>4 DEF View!vars, View!Next, View!Recovered
<1> QED BY <1>1, <1>2, <1>3

\* The invariant behind the view is kept by every step.
LEMMA ViewInvStep ==
  ASSUME ViewInv, Provider # "protocol", [Next]_vars
  PROVE  ViewInv'
<1>1. AccountInv'
  BY AccountStep DEF ViewInv
<1>2. CASE Next
  BY <1>1, <1>2, HandedOutClient, HandedOutTasks DEF ViewInv, Next
<1>3. CASE UNCHANGED vars
  BY <1>1, <1>3 DEF ViewInv, HandedOutExist, Exists, Engaged, vars, poolVars, clientVars,
     taskVars
<1> QED BY <1>2, <1>3

\* With each of the three providers the pool is the one the scenario loop is written
\* against: a world passes from the pool to one client and back only, none goes down
\* without a recovery on its way, and only a running recovery brings one back.
THEOREM PoolImplementsView ==
  ASSUME Provider # "protocol"
  PROVE  Spec => ImplementsView
<1>1. Init => ViewInv /\ View!Init
  <2> SUFFICES ASSUME Init PROVE ViewInv /\ View!Init
    OBVIOUS
  <2>1. ViewInv
    BY AccountInit DEF Init, ViewInv, HandedOutExist, Exists, Engaged
  <2>2. Holder = [w \in Worlds |-> "down"]
    BY DEF Init, Holder, Holds
  <2> QED BY <2>1, <2>2 DEF Init, View!Init, Recovering, InFlight
<1>2. ViewInv /\ [Next]_vars => ViewInv'
  BY ViewInvStep
<1>3. ViewInv /\ ViewInv' /\ [Next]_vars => [View!Next]_(View!vars)
  <2> SUFFICES ASSUME ViewInv, ViewInv', [Next]_vars PROVE [View!Next]_(View!vars)
    OBVIOUS
  <2>1. CASE Next
    BY <2>1, ViewOfClient, ViewOfTask DEF Next
  <2>2. CASE UNCHANGED vars
    <3>1. Holder' = Holder
      BY <2>2 DEF Holder, Holds, vars, poolVars, clientVars
    <3> QED BY <2>2, <3>1 DEF View!vars, Recovering, InFlight, vars, poolVars, taskVars
  <2> QED BY <2>1, <2>2
<1> QED BY <1>1, <1>2, <1>3, PTL DEF Spec, View!Spec, ImplementsView

================================================================================

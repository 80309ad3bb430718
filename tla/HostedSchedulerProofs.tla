------------------------- MODULE HostedSchedulerProofs -------------------------
(***************************************************************************)
(* Proofs about HostedScheduler for every set of scenarios and worlds, and *)
(* either outbound port.                                                   *)
(***************************************************************************)
EXTENDS HostedScheduler, TLAPS

--------------------------------------------------------------------------------
(* Types. *)

\* A step of a scenario's coroutine preserves the types.
LEMMA TypeWorker ==
  ASSUME TypeOK, NEW s \in Scenarios, Worker(s)
  PROVE  TypeOK'
<1> USE DEF TypeOK, workerVars, poolVars, jobVars, portVars, sentVars, Goto, Pcs
<1>1. CASE WorkerTop(s)
  BY <1>1 DEF WorkerTop
<1>2. CASE LeaseAbandons(s)
  BY <1>2 DEF LeaseAbandons, FailureKinds, Kinds
<1>3. CASE LeaseEnters(s)
  BY <1>3 DEF LeaseEnters
<1>4. CASE LeaseWaits(s)
  BY <1>4 DEF LeaseWaits
<1>5. CASE LeaseExhausted(s)
  BY <1>5 DEF LeaseExhausted, FailureKinds, Kinds, AbortAfter
<1>6. CASE LeaseGrants(s)
  BY <1>6 DEF LeaseGrants
<1>7. CASE LeaseLosesWorld(s)
  BY <1>7 DEF LeaseLosesWorld
<1>8. CASE LeaseReportsLoss(s)
  BY <1>8 DEF LeaseReportsLoss, ReconcileScheduled, EventReturns, EventRaises,
                 FoundDead, Dead
<1>9. CASE RecheckStops(s)
  BY <1>9 DEF RecheckStops
<1>10. CASE RecheckPasses(s)
  BY <1>10 DEF RecheckPasses
<1>11. CASE RetriedEmitted(s)
  BY <1>11 DEF RetriedEmitted, EventReturns
<1>12. CASE StartedEmitted(s)
  BY <1>12 DEF StartedEmitted, EventReturns
<1>13. CASE EmissionFatal(s)
  BY <1>13 DEF EmissionFatal, EventRaises, FoundDead, Dead, Outcomes
<1>14. CASE Execute(s)
  BY <1>14 DEF Execute, ChannelUsed, Dead, Outcomes
<1>15. CASE ReleaseWorld(s)
  BY <1>15 DEF ReleaseWorld, AfterWorld
<1>16. CASE DiscardWorld(s)
  BY <1>16 DEF DiscardWorld
<1>17. CASE DiscardReported(s)
  BY <1>17 DEF DiscardReported, ReconcileScheduled, AfterWorld, EventReturns,
                 EventRaises, FoundDead, Dead
<1>18. CASE ReceiptEmitted(s)
  BY <1>18 DEF ReceiptEmitted, ReceiptReturns, ReceiptSent, Reporting, ReceiptAttempt,
                 Name, Dead
<1>19. CASE ReceiptFatal(s)
  BY <1>19 DEF ReceiptFatal, ReceiptRaises, ReceiptSent, Reporting, FoundDead, Dead
<1> QED BY <1>1, <1>2, <1>3, <1>4, <1>5, <1>6, <1>7, <1>8, <1>9, <1>10,
           <1>11, <1>12, <1>13, <1>14, <1>15, <1>16, <1>17, <1>18, <1>19 DEF Worker

\* The end of the job, the reconcile and the cancel signal preserve the types.
LEMMA TypeJob ==
  ASSUME TypeOK,
         \/ \E s \in Scenarios : SkippedEmitted(s) \/ SkippedFatal(s)
         \/ ReconcileRestores \/ ReconcileEnds \/ RunEnds \/ RunEndsUnspooled
         \/ SkippingEnds \/ SkippingCut \/ Cancel \/ Done
  PROVE  TypeOK'
<1> USE DEF TypeOK, workerVars, poolVars, jobVars, portVars, sentVars, vars
<1>1. ASSUME NEW s \in Scenarios, SkippedEmitted(s) PROVE TypeOK'
  BY <1>1 DEF SkippedEmitted, ReceiptReturns, ReceiptSent, Reporting, Dead
<1>2. ASSUME NEW s \in Scenarios, SkippedFatal(s) PROVE TypeOK'
  BY <1>2 DEF SkippedFatal, ReceiptRaises, ReceiptSent, FoundDead, Dead
<1>3. CASE ReconcileRestores \/ ReconcileEnds
  BY <1>3 DEF ReconcileRestores, ReconcileEnds
<1>4. CASE RunEnds \/ RunEndsUnspooled
  BY <1>4 DEF RunEnds, RunEndsUnspooled, ChannelUsed, Dead
<1>5. CASE SkippingEnds \/ SkippingCut \/ Cancel \/ Done
  BY <1>5 DEF SkippingEnds, SkippingCut, Cancel, Done
<1> QED BY <1>1, <1>2, <1>3, <1>4, <1>5

\* The initial state has the types.
LEMMA TypeInit == Init => TypeOK
<1> SUFFICES ASSUME Init PROVE TypeOK
  OBVIOUS
<1>1. (CHOOSE w \in Worlds : TRUE) \in Worlds
  BY WorldsAssumption
<1>2. /\ attempt \in [Scenarios -> 1..2] /\ receipts \in [Scenarios -> Nat]
      /\ pending \in [Scenarios -> BOOLEAN] /\ retried \in [Scenarios -> BOOLEAN]
      /\ ran \in [Scenarios -> SUBSET (1..2)] /\ racing \subseteq Scenarios
  BY DEF Init
<1>3. /\ pc \in [Scenarios -> Pcs] /\ outcome \in [Scenarios -> Outcomes]
      /\ world \in [Scenarios -> Worlds]
      /\ results \in [Scenarios -> {"none", "attempt1", "attempt2", "skipped"}]
      /\ holder \in [Worlds -> Scenarios \cup {"free", "down"}]
  BY <1>1 DEF Init, Pcs, Outcomes
<1> QED BY <1>2, <1>3 DEF Init, TypeOK

\* Every step preserves the types.
LEMMA TypeNext == TypeOK /\ [Next]_vars => TypeOK'
<1> SUFFICES ASSUME TypeOK, [Next]_vars PROVE TypeOK'
  OBVIOUS
<1>1. CASE UNCHANGED vars
  BY <1>1 DEF TypeOK, vars, workerVars, poolVars, jobVars, portVars, sentVars
<1>2. CASE Next
  BY <1>2, TypeWorker, TypeJob DEF Next
<1> QED BY <1>1, <1>2

\* In every reachable state the variables of the scenario loop have their types.
THEOREM SchedulerTypes == Spec => []TypeOK
  BY TypeInit, TypeNext, PTL DEF Spec
--------------------------------------------------------------------------------
(* Worlds. *)

\* A step of a coroutine keeps its own world, and leaves the others theirs.
LEMMA WorldsWorker ==
  ASSUME TypeOK, WorldsReturned, NEW s \in Scenarios, Worker(s)
  PROVE  WorldsReturned'
<1> USE NamesAssumption DEF TypeOK, WorldsReturned, AtWork, Goto, workerVars,
        poolVars, jobVars, portVars, sentVars
<1>1. CASE WorkerTop(s)
  BY <1>1 DEF WorkerTop
<1>2. CASE LeaseAbandons(s)
  BY <1>2 DEF LeaseAbandons, FailureKinds, Kinds
<1>3. CASE LeaseEnters(s)
  BY <1>3 DEF LeaseEnters
<1>4. CASE LeaseWaits(s)
  BY <1>4 DEF LeaseWaits
<1>5. CASE LeaseExhausted(s)
  BY <1>5 DEF LeaseExhausted, FailureKinds, Kinds, AbortAfter
<1>6. CASE LeaseGrants(s)
  BY <1>6 DEF LeaseGrants
<1>7. CASE LeaseLosesWorld(s)
  BY <1>7 DEF LeaseLosesWorld
<1>8. CASE LeaseReportsLoss(s)
  BY <1>8 DEF LeaseReportsLoss, ReconcileScheduled, EventReturns, EventRaises,
                 FoundDead, Dead
<1>9. CASE RecheckStops(s)
  BY <1>9 DEF RecheckStops
<1>10. CASE RecheckPasses(s)
  BY <1>10 DEF RecheckPasses
<1>11. CASE RetriedEmitted(s)
  BY <1>11 DEF RetriedEmitted, EventReturns
<1>12. CASE StartedEmitted(s)
  BY <1>12 DEF StartedEmitted, EventReturns
<1>13. CASE EmissionFatal(s)
  BY <1>13 DEF EmissionFatal, EventRaises, FoundDead, Dead, Outcomes
<1>14. CASE Execute(s)
  BY <1>14 DEF Execute, ChannelUsed, Dead, Outcomes
<1>15. CASE ReleaseWorld(s)
  BY <1>15 DEF ReleaseWorld, AfterWorld
<1>16. CASE DiscardWorld(s)
  BY <1>16 DEF DiscardWorld
<1>17. CASE DiscardReported(s)
  BY <1>17 DEF DiscardReported, ReconcileScheduled, AfterWorld, EventReturns,
                 EventRaises, FoundDead, Dead
<1>18. CASE ReceiptEmitted(s)
  BY <1>18 DEF ReceiptEmitted, ReceiptReturns, ReceiptSent, Reporting, ReceiptAttempt,
                 Name, Dead
<1>19. CASE ReceiptFatal(s)
  BY <1>19 DEF ReceiptFatal, ReceiptRaises, ReceiptSent, Reporting, FoundDead, Dead
<1> QED BY <1>1, <1>2, <1>3, <1>4, <1>5, <1>6, <1>7, <1>8, <1>9, <1>10,
           <1>11, <1>12, <1>13, <1>14, <1>15, <1>16, <1>17, <1>18, <1>19 DEF Worker

\* Every step preserves the agreement.
LEMMA WorldsNext == TypeOK /\ WorldsReturned /\ [Next]_vars => WorldsReturned'
<1> SUFFICES ASSUME TypeOK, WorldsReturned, [Next]_vars PROVE WorldsReturned'
  OBVIOUS
<1> USE DEF workerVars, poolVars
<1>1. CASE UNCHANGED vars
  BY <1>1 DEF WorldsReturned, vars
<1>2. ASSUME NEW s \in Scenarios, Worker(s) PROVE WorldsReturned'
  BY <1>2, WorldsWorker
<1>3. ASSUME NEW s \in Scenarios, SkippedEmitted(s) \/ SkippedFatal(s)
      PROVE  WorldsReturned'
  BY <1>3 DEF SkippedEmitted, SkippedFatal, WorldsReturned
<1>4. CASE ReconcileRestores \/ ReconcileEnds
  BY <1>4, NamesAssumption
  DEF ReconcileRestores, ReconcileEnds, WorldsReturned, AtWork, TypeOK
<1>5. CASE RunEnds \/ RunEndsUnspooled \/ SkippingEnds \/ SkippingCut \/ Cancel \/ Done
  BY <1>5 DEF RunEnds, RunEndsUnspooled, SkippingEnds, SkippingCut, Cancel, Done, WorldsReturned, vars
<1> QED BY <1>1, <1>2, <1>3, <1>4, <1>5 DEF Next

\* Whatever way a scenario ends, the pool and the coroutines agree on which
\* scenario has which world, and no finished scenario has one.
THEOREM WorldsAreReturned == Spec => []WorldsReturned
<1>1. Init => WorldsReturned
  BY NamesAssumption DEF Init, WorldsReturned, AtWork
<1> QED BY <1>1, TypeInit, TypeNext, WorldsNext, PTL DEF Spec

--------------------------------------------------------------------------------
(* The pool's protocol. *)

\* A step of a coroutine is one of the pool's operations, with its own world.
LEMMA ProtocolWorker ==
  ASSUME TypeOK, WorldsReturned, NEW s \in Scenarios, Worker(s)
  PROVE  [Pool!Next]_<<holder, recovering>>
<1> USE DEF TypeOK, Goto, poolVars
<1>1. CASE LeaseGrants(s)
  <2>1. PICK w \in Worlds : holder[w] = "free" /\ holder' = [holder EXCEPT ![w] = s]
    BY <1>1 DEF LeaseGrants
  <2>2. \A v \in Worlds : holder[v] # s
    BY <1>1 DEF LeaseGrants, WorldsReturned, AtWork
  <2>3. Pool!Grant(s, w)
    BY <1>1, <2>1, <2>2 DEF LeaseGrants, Pool!Grant, Pool!Becomes
  <2> QED BY <2>3 DEF Pool!Next
<1>2. CASE LeaseLosesWorld(s)
  <2>1. PICK w \in Worlds : holder[w] = "free" /\ holder' = [holder EXCEPT ![w] = "down"]
    BY <1>2 DEF LeaseLosesWorld
  <2>2. Pool!Lose(w)
    BY <1>2, <2>1 DEF LeaseLosesWorld, Pool!Lose, Pool!Becomes
  <2> QED BY <2>2 DEF Pool!Next
<1>3. CASE LeaseReportsLoss(s) \/ DiscardReported(s)
  BY <1>3 DEF LeaseReportsLoss, DiscardReported, ReconcileScheduled, Pool!Reschedule,
     Pool!Next
<1>4. CASE RecheckStops(s) \/ ReleaseWorld(s) \/ DiscardWorld(s)
  <2>1. PICK w \in Worlds : w = world[s]
    OBVIOUS
  <2>2. holder[w] = s
    BY <1>4, <2>1 DEF RecheckStops, ReleaseWorld, DiscardWorld, WorldsReturned, AtWork
  <2>3. Pool!Return(s, w) \/ Pool!Discard(s, w)
    BY <1>4, <2>1, <2>2 DEF RecheckStops, ReleaseWorld, DiscardWorld, Pool!Return,
       Pool!Discard, Pool!Becomes
  <2> QED BY <2>3 DEF Pool!Next
<1>5. CASE \/ WorkerTop(s) \/ LeaseAbandons(s) \/ LeaseEnters(s) \/ LeaseWaits(s)
          \/ LeaseExhausted(s) \/ RecheckPasses(s) \/ RetriedEmitted(s)
          \/ StartedEmitted(s) \/ EmissionFatal(s) \/ Execute(s)
          \/ ReceiptEmitted(s) \/ ReceiptFatal(s)
  BY <1>5 DEF WorkerTop, LeaseAbandons, LeaseEnters, LeaseWaits, LeaseExhausted,
     RecheckPasses, RetriedEmitted, StartedEmitted, EmissionFatal, Execute,
     ReceiptEmitted, ReceiptFatal
<1> QED BY <1>1, <1>2, <1>3, <1>4, <1>5 DEF Worker

\* The scenario loop uses the pool as the pool promises to work: a scenario takes
\* a world only when it has none, and only ever gives back its own.
THEOREM PoolProtocolKept == Spec => KeepsPoolProtocol
<1>1. Init => WorldsReturned
  BY NamesAssumption DEF Init, WorldsReturned, AtWork
<1>2. TypeOK /\ WorldsReturned /\ [Next]_vars => [Pool!Next]_<<holder, recovering>>
  <2> SUFFICES ASSUME TypeOK, WorldsReturned, [Next]_vars
               PROVE  [Pool!Next]_<<holder, recovering>>
    OBVIOUS
  <2>1. ASSUME NEW s \in Scenarios, Worker(s) PROVE [Pool!Next]_<<holder, recovering>>
    BY <2>1, ProtocolWorker
  <2>2. CASE ReconcileRestores \/ ReconcileEnds
    BY <2>2 DEF ReconcileRestores, ReconcileEnds, Pool!Restore, Pool!Recovered, Pool!Next
  <2>3. ASSUME \/ \E s \in Scenarios : SkippedEmitted(s) \/ SkippedFatal(s)
               \/ RunEnds \/ RunEndsUnspooled \/ SkippingEnds \/ SkippingCut \/ Cancel \/ Done
        PROVE  UNCHANGED <<holder, recovering>>
    BY <2>3 DEF SkippedEmitted, SkippedFatal, RunEnds, RunEndsUnspooled, SkippingEnds, SkippingCut,
       Cancel, Done, vars, poolVars
  <2>4. CASE UNCHANGED vars
    BY <2>4 DEF vars, poolVars
  <2> QED BY <2>1, <2>2, <2>3, <2>4 DEF Next
<1> QED BY <1>1, <1>2, TypeInit, TypeNext, WorldsNext, PTL DEF Spec, KeepsPoolProtocol

--------------------------------------------------------------------------------
(* Receipts. *)

\* What a coroutine that has not ended has sent, and what one that has left.
Sent(s) == /\ pc[s] # "done" => receipts[s] = 0 /\ results[s] = "none"
           /\ results[s] = "none" /\ ~fenced => receipts[s] = 0
           /\ results[s] # "none" => receipts[s] = 1
           /\ receipts[s] \in 0..1

\* A job that was not cut short has sent every receipt.
LedgerInTime ==
  phase = "over" /\ ~fenced /\ ~cut /\ ~(Port = "adapter" /\ channel = "fenced")
    => \A s \in Scenarios : results[s] # "none"

\* The ledger at the end of the job.
Ledger == /\ phase # "running" => \A s \in Scenarios : pc[s] = "done"
          /\ phase = "skipping" => ~fenced
          /\ LedgerInTime

ReceiptInv == Ledger /\ \A s \in Scenarios : Sent(s)

\* A step of a coroutine preserves the receipt invariant.
LEMMA ReceiptWorker ==
  ASSUME TypeOK, ReceiptInv, NEW s \in Scenarios, Worker(s)
  PROVE  ReceiptInv'
<1>1. pc[s] # "done" /\ phase = "running"
  <2>1. pc[s] # "done"
    BY DEF Worker, WorkerTop, LeaseAbandons, LeaseEnters, LeaseWaits,
           LeaseExhausted, LeaseGrants, LeaseLosesWorld, LeaseReportsLoss,
           RecheckStops, RecheckPasses, RetriedEmitted, StartedEmitted,
           EmissionFatal, Execute, ReleaseWorld, DiscardWorld, DiscardReported,
           ReceiptEmitted, ReceiptFatal, Reporting
  <2> QED BY <2>1 DEF ReceiptInv, Ledger, TypeOK
<1>2. phase' = phase /\ (fenced => fenced')
  BY DEF Worker, WorkerTop, LeaseAbandons, LeaseEnters, LeaseWaits,
         LeaseExhausted, LeaseGrants, LeaseLosesWorld, LeaseReportsLoss,
           RecheckStops, RecheckPasses, RetriedEmitted, StartedEmitted,
         EmissionFatal, Execute, ReleaseWorld, DiscardWorld, DiscardReported,
         ReceiptEmitted, ReceiptFatal, jobVars, portVars, EventReturns,
         EventRaises, ReceiptReturns, ReceiptRaises, ChannelUsed
<1>3. Ledger'
  BY <1>1, <1>2 DEF Ledger, LedgerInTime
<1>4. CASE ReceiptEmitted(s) \/ ReceiptFatal(s)
  <2>1. /\ receipts' = [receipts EXCEPT ![s] = 1] /\ pc' = [pc EXCEPT ![s] = "done"]
    BY <1>1, <1>4 DEF ReceiptEmitted, ReceiptFatal, ReceiptSent, Goto, ReceiptInv,
                      Sent, TypeOK
  <2>2. \/ fenced' /\ results' = results
        \/ \E r \in {"attempt1", "attempt2"} : results' = [results EXCEPT ![s] = r]
    BY <1>4 DEF ReceiptEmitted, ReceiptFatal, ReceiptRaises, Name
  <2> QED BY <1>2, <1>3, <2>1, <2>2 DEF ReceiptInv, Sent, TypeOK
<1>5. CASE ~(ReceiptEmitted(s) \/ ReceiptFatal(s))
  <2>1. /\ receipts' = receipts /\ results' = results
        /\ pc' = [pc EXCEPT ![s] = pc'[s]]
    BY <1>5 DEF TypeOK, Goto,
         Worker, WorkerTop, LeaseAbandons, LeaseEnters, LeaseWaits,
         LeaseExhausted, LeaseGrants, LeaseLosesWorld, LeaseReportsLoss,
           RecheckStops, RecheckPasses, RetriedEmitted, StartedEmitted,
         EmissionFatal, Execute, ReleaseWorld, DiscardWorld, DiscardReported,
         sentVars, workerVars
  <2> QED BY <1>1, <1>2, <1>3, <2>1 DEF ReceiptInv, Sent, TypeOK
<1> QED BY <1>4, <1>5

\* Every step preserves the receipt invariant.
LEMMA ReceiptNext == TypeOK /\ ReceiptInv /\ [Next]_vars => ReceiptInv'
<1> SUFFICES ASSUME TypeOK, ReceiptInv, [Next]_vars PROVE ReceiptInv'
  OBVIOUS
<1> USE DEF ReceiptInv, Ledger, LedgerInTime, Sent
<1>1. CASE UNCHANGED vars
  BY <1>1 DEF vars, workerVars, jobVars, portVars, sentVars
<1>2. ASSUME NEW s \in Scenarios, Worker(s) PROVE ReceiptInv'
  BY <1>2, ReceiptWorker
<1>3. ASSUME NEW s \in Scenarios, SkippedEmitted(s) PROVE ReceiptInv'
  <2>3. receipts[s] = 0
    BY <1>3 DEF SkippedEmitted
  <2>1. receipts' = [receipts EXCEPT ![s] = 1] /\ results' = [results EXCEPT ![s] = "skipped"]
    BY <1>3, <2>3 DEF SkippedEmitted, ReceiptSent, TypeOK
  <2>2. UNCHANGED <<pc, phase, fenced>> /\ phase = "skipping"
    BY <1>3 DEF SkippedEmitted, ReceiptReturns, jobVars
  <2> QED BY <2>1, <2>2 DEF TypeOK
<1>4. ASSUME NEW s \in Scenarios, SkippedFatal(s) PROVE ReceiptInv'
  <2>3. receipts[s] = 0
    BY <1>4 DEF SkippedFatal
  <2>1. receipts' = [receipts EXCEPT ![s] = 1] /\ UNCHANGED <<pc, results>>
    BY <1>4, <2>3 DEF SkippedFatal, ReceiptSent, TypeOK, workerVars
  <2>2. phase' = "over" /\ fenced' /\ phase = "skipping" /\ results[s] = "none"
    BY <1>4 DEF SkippedFatal, ReceiptRaises
  <2> QED BY <2>1, <2>2 DEF TypeOK
<1>5. CASE ReconcileRestores \/ ReconcileEnds
  BY <1>5 DEF ReconcileRestores, ReconcileEnds, workerVars, jobVars, portVars, sentVars
<1>u. CASE RunEndsUnspooled
  BY <1>u DEF RunEndsUnspooled, ChannelUsed, workerVars, sentVars
<1>6. CASE RunEnds
  <2>1. UNCHANGED <<pc, results, receipts, fenced, cut>>
    BY <1>6 DEF RunEnds, ChannelUsed, workerVars, sentVars
  <2>2. /\ \A s \in Scenarios : pc[s] = "done"
        /\ phase' = IF fenced \/ (Port = "adapter" /\ channel' = "fenced")
                    THEN "over" ELSE "skipping"
    BY <1>6 DEF RunEnds
  <2> QED BY <2>1, <2>2
<1>7. CASE SkippingEnds \/ SkippingCut
  BY <1>7 DEF SkippingEnds, SkippingCut, workerVars, portVars, sentVars
<1>8. CASE Cancel \/ Done
  BY <1>8 DEF Cancel, Done, vars, workerVars, jobVars, portVars, sentVars
<1> QED BY <1>1, <1>2, <1>3, <1>4, <1>5, <1>u, <1>6, <1>7, <1>8 DEF Next

\* The receipt invariant holds in every reachable state.
LEMMA ReceiptsKept == Spec => [](TypeOK /\ ReceiptInv)
<1>1. Init => ReceiptInv
  BY DEF Init, ReceiptInv, Ledger, LedgerInTime, Sent
<1> QED BY <1>1, TypeInit, TypeNext, ReceiptNext, PTL DEF Spec

\* At most one receipt leaves for a scenario, however it ends.
THEOREM ReceiptAtMostOnce == Spec => []OneReceipt
<1>1. TypeOK /\ ReceiptInv => OneReceipt
  BY DEF ReceiptInv, Sent, OneReceipt
<1> QED BY <1>1, ReceiptsKept, PTL

--------------------------------------------------------------------------------
(* Attempts. *)

Waiting == {"top", "leasing", "queued", "leaseFault"}

\* The scenario is past the announcement of its attempt.
Announced(s) ==
  \/ pc[s] \in {"emitStarted", "running", "receipt", "crashReceipt"}
  \/ pc[s] \in {"returning", "unhealthy"} /\ outcome[s] # "fatal"

AttemptOf(s) ==
  /\ pc[s] \in Waiting => attempt[s] = 1
  /\ pc[s] = "recheck" => (pending[s] <=> attempt[s] = 2)
  /\ pc[s] = "emitRetried" => attempt[s] = 2
  /\ retried[s] \/ 2 \in ran[s] =>
       attempt[s] = 2
       /\ pc[s] \notin Waiting \cup {"recheck", "emitRetried", "pendingReceipt"}
  /\ attempt[s] = 2 /\ Announced(s) => retried[s]
  /\ results[s] = "attempt1" => ~retried[s] /\ 2 \notin ran[s]
  /\ results[s] = "attempt2" => retried[s]

\* A scenario that ended with no result has not run, unless a fence stopped it.
Untouched(s) ==
  /\ pc[s] = "top" => ran[s] = {}
  /\ pc[s] \in {"leasing", "queued", "leaseFault", "recheck"} /\ ~pending[s]
       => ran[s] = {}
  /\ pc[s] \in {"returning", "unhealthy"} /\ outcome[s] = "fatal" => fenced
  /\ pc[s] = "done" /\ results[s] = "none" => ran[s] = {} \/ fenced
  /\ results[s] = "skipped" => ran[s] = {}

AttemptInv == \A s \in Scenarios : AttemptOf(s) /\ Untouched(s)

\* A step of one coroutine changes nothing that is said of another scenario.
LEMMA WorkerFrame ==
  ASSUME TypeOK, NEW s \in Scenarios, Worker(s), NEW t \in Scenarios \ {s}
  PROVE  /\ pc'[t] = pc[t] /\ attempt'[t] = attempt[t] /\ pending'[t] = pending[t]
         /\ outcome'[t] = outcome[t] /\ results'[t] = results[t]
         /\ retried'[t] = retried[t] /\ ran'[t] = ran[t]
         /\ fenced => fenced'
<1> USE DEF TypeOK, Goto, workerVars, poolVars, jobVars, portVars, sentVars
<1>1. CASE WorkerTop(s)
  BY <1>1 DEF WorkerTop
<1>2. CASE LeaseAbandons(s)
  BY <1>2 DEF LeaseAbandons, FailureKinds, Kinds
<1>3. CASE LeaseEnters(s)
  BY <1>3 DEF LeaseEnters
<1>4. CASE LeaseWaits(s)
  BY <1>4 DEF LeaseWaits
<1>5. CASE LeaseExhausted(s)
  BY <1>5 DEF LeaseExhausted, FailureKinds, Kinds, AbortAfter
<1>6. CASE LeaseGrants(s)
  BY <1>6 DEF LeaseGrants
<1>7. CASE LeaseLosesWorld(s)
  BY <1>7 DEF LeaseLosesWorld
<1>8. CASE LeaseReportsLoss(s)
  BY <1>8 DEF LeaseReportsLoss, EventReturns, EventRaises,
                 FoundDead, Dead
<1>9. CASE RecheckStops(s)
  BY <1>9 DEF RecheckStops
<1>10. CASE RecheckPasses(s)
  BY <1>10 DEF RecheckPasses
<1>11. CASE RetriedEmitted(s)
  BY <1>11 DEF RetriedEmitted, EventReturns
<1>12. CASE StartedEmitted(s)
  BY <1>12 DEF StartedEmitted, EventReturns
<1>13. CASE EmissionFatal(s)
  BY <1>13 DEF EmissionFatal, EventRaises, FoundDead, Dead, Outcomes
<1>14. CASE Execute(s)
  BY <1>14 DEF Execute, ChannelUsed, Dead, Outcomes
<1>15. CASE ReleaseWorld(s)
  BY <1>15 DEF ReleaseWorld, AfterWorld
<1>16. CASE DiscardWorld(s)
  BY <1>16 DEF DiscardWorld
<1>17. CASE DiscardReported(s)
  BY <1>17 DEF DiscardReported, AfterWorld, EventReturns,
                 EventRaises, FoundDead, Dead
<1>18. CASE ReceiptEmitted(s)
  BY <1>18 DEF ReceiptEmitted, ReceiptReturns, ReceiptSent, Reporting, ReceiptAttempt,
                 Name, Dead
<1>19. CASE ReceiptFatal(s)
  BY <1>19 DEF ReceiptFatal, ReceiptRaises, ReceiptSent, Reporting, FoundDead, Dead
<1> QED BY <1>1, <1>2, <1>3, <1>4, <1>5, <1>6, <1>7, <1>8, <1>9, <1>10,
           <1>11, <1>12, <1>13, <1>14, <1>15, <1>16, <1>17, <1>18, <1>19 DEF Worker

\* A scenario that leaves its world goes on as its outcome and attempt ask.
LEMMA AfterWorldKeeps ==
  ASSUME TypeOK, ReceiptInv, NEW s \in Scenarios, AttemptOf(s), Untouched(s),
         pc[s] \in {"returning", "unhealthy"}, pc'[s] = AfterWorld(s),
         pending'[s] = (AfterWorld(s) = "leasing"),
         UNCHANGED <<attempt, results, retried, ran>>, fenced => fenced'
  PROVE  AttemptOf(s)' /\ Untouched(s)'
<1> USE DEF TypeOK, AttemptOf, Untouched, Announced, Waiting
<1>1. results[s] = "none"
  BY DEF ReceiptInv, Sent
<1>2. CASE outcome[s] = "fatal"
  <2>1. pc'[s] = "done" /\ fenced'
    BY <1>2 DEF AfterWorld
  <2> QED BY <1>1, <2>1
<1>3. CASE outcome[s] # "fatal" /\ AfterWorld(s) = "leasing"
  <2>1. pc'[s] = "leasing" /\ pending'[s]
    BY <1>3
  <2>2. attempt[s] = 1
    BY <1>3 DEF AfterWorld
  <2> QED BY <1>1, <2>1, <2>2
<1>4. CASE outcome[s] # "fatal" /\ AfterWorld(s) # "leasing"
  <2>1. pc'[s] \in {"receipt", "crashReceipt"}
    BY <1>4 DEF AfterWorld
  <2> QED BY <1>1, <1>4, <2>1
<1> QED BY <1>2, <1>3, <1>4

\* A step of a coroutine preserves what is said of its own attempts.
LEMMA AttemptWorker ==
  ASSUME TypeOK, ReceiptInv, NEW s \in Scenarios, AttemptOf(s), Untouched(s),
         Worker(s)
  PROVE  AttemptOf(s)' /\ Untouched(s)'
<1> USE DEF TypeOK, AttemptOf, Untouched, Announced, Waiting, Goto, workerVars,
        poolVars, jobVars, portVars, sentVars
<1>0. pc[s] # "done" => results[s] = "none"
  BY DEF ReceiptInv, Sent
<1>1. CASE WorkerTop(s)
  BY <1>1, <1>0 DEF WorkerTop
<1>2. CASE LeaseAbandons(s)
  BY <1>2, <1>0 DEF LeaseAbandons, FailureKinds, Kinds
<1>3. CASE LeaseEnters(s)
  BY <1>3, <1>0 DEF LeaseEnters
<1>4. CASE LeaseWaits(s)
  BY <1>4, <1>0 DEF LeaseWaits
<1>5. CASE LeaseExhausted(s)
  BY <1>5, <1>0 DEF LeaseExhausted, FailureKinds, Kinds, AbortAfter
<1>6. CASE LeaseGrants(s)
  BY <1>6, <1>0 DEF LeaseGrants
<1>7. CASE LeaseLosesWorld(s)
  BY <1>7, <1>0 DEF LeaseLosesWorld
<1>8. CASE LeaseReportsLoss(s)
  BY <1>8, <1>0 DEF LeaseReportsLoss, EventReturns, EventRaises,
                 FoundDead, Dead
<1>9. CASE RecheckStops(s)
  BY <1>9, <1>0 DEF RecheckStops
<1>10. CASE RecheckPasses(s)
  BY <1>10, <1>0 DEF RecheckPasses
<1>11. CASE RetriedEmitted(s)
  BY <1>11, <1>0 DEF RetriedEmitted, EventReturns
<1>12. CASE StartedEmitted(s)
  BY <1>12, <1>0 DEF StartedEmitted, EventReturns
<1>13. CASE EmissionFatal(s)
  BY <1>13, <1>0 DEF EmissionFatal, EventRaises, FoundDead, Dead, Outcomes
<1>14. CASE Execute(s)
  BY <1>14, <1>0 DEF Execute, ChannelUsed, Dead, Outcomes
<1>15. CASE ReleaseWorld(s)
  <2>1. /\ pc'[s] = AfterWorld(s) /\ UNCHANGED <<attempt, results, retried, ran, fenced>>
        /\ pc[s] = "returning" /\ pending'[s] = (AfterWorld(s) = "leasing")
    BY <1>15 DEF ReleaseWorld
  <2> QED BY <2>1, AfterWorldKeeps
<1>16. CASE DiscardWorld(s)
  BY <1>16, <1>0 DEF DiscardWorld
<1>17. CASE DiscardReported(s)
  <2>1. /\ pc'[s] = AfterWorld(s) /\ UNCHANGED <<attempt, results, retried, ran>>
        /\ pc[s] = "unhealthy" /\ pending'[s] = (AfterWorld(s) = "leasing")
    BY <1>17 DEF DiscardReported
  <2>2. fenced => fenced'
    BY <1>17 DEF DiscardReported, EventReturns, EventRaises
  <2> QED BY <2>1, <2>2, AfterWorldKeeps
<1>18. CASE ReceiptEmitted(s)
  BY <1>18, <1>0 DEF ReceiptEmitted, ReceiptReturns, ReceiptSent, Reporting, ReceiptAttempt,
                 Name, Dead
<1>19. CASE ReceiptFatal(s)
  BY <1>19, <1>0 DEF ReceiptFatal, ReceiptRaises, ReceiptSent, Reporting, FoundDead, Dead
<1> QED BY <1>1, <1>2, <1>3, <1>4, <1>5, <1>6, <1>7, <1>8, <1>9, <1>10,
           <1>11, <1>12, <1>13, <1>14, <1>15, <1>16, <1>17, <1>18, <1>19 DEF Worker

\* Every step preserves what is said of every scenario's attempts.
LEMMA AttemptNext ==
  TypeOK /\ ReceiptInv /\ AttemptInv /\ [Next]_vars => AttemptInv'
<1> SUFFICES ASSUME TypeOK, ReceiptInv, AttemptInv, [Next]_vars,
                    NEW t \in Scenarios
             PROVE  AttemptOf(t)' /\ Untouched(t)'
  BY DEF AttemptInv
<1>0. AttemptOf(t) /\ Untouched(t)
  BY DEF AttemptInv
<1> USE DEF workerVars, sentVars, portVars
<1>1. CASE UNCHANGED vars
  BY <1>0, <1>1 DEF AttemptOf, Untouched, Announced, vars
<1>2. CASE Worker(t)
  BY <1>0, <1>2, AttemptWorker
<1>3. ASSUME NEW s \in Scenarios \ {t}, Worker(s)
      PROVE  AttemptOf(t)' /\ Untouched(t)'
  BY <1>0, <1>3, WorkerFrame DEF AttemptOf, Untouched, Announced
<1>4. ASSUME NEW s \in Scenarios, SkippedEmitted(s)
      PROVE  AttemptOf(t)' /\ Untouched(t)'
  <2>1. /\ UNCHANGED <<pc, attempt, pending, outcome, retried, ran, fenced>>
        /\ results[s] = "none" /\ results' = [results EXCEPT ![s] = "skipped"]
    BY <1>4 DEF SkippedEmitted, ReceiptReturns
  <2>2. ~fenced /\ pc[s] = "done"
    BY <1>4 DEF SkippedEmitted, ReceiptInv, Ledger
  <2>3. ran[s] = {}
    BY <2>1, <2>2 DEF AttemptInv, Untouched
  <2>4. CASE s = t
    BY <1>0, <2>1, <2>3, <2>4 DEF AttemptOf, Untouched, Announced, TypeOK
  <2>5. CASE s # t
    BY <1>0, <2>1, <2>5 DEF AttemptOf, Untouched, Announced, TypeOK
  <2> QED BY <2>4, <2>5
<1>5. ASSUME NEW s \in Scenarios, SkippedFatal(s)
      PROVE  AttemptOf(t)' /\ Untouched(t)'
  <2>1. UNCHANGED <<workerVars, retried, ran>> /\ fenced'
    BY <1>5 DEF SkippedFatal, ReceiptRaises
  <2> QED BY <1>0, <2>1 DEF AttemptOf, Untouched, Announced
<1>6. CASE \/ ReconcileRestores \/ ReconcileEnds \/ RunEnds \/ RunEndsUnspooled
          \/ SkippingEnds \/ SkippingCut \/ Cancel \/ Done
  <2>1. UNCHANGED <<workerVars, retried, ran, fenced>>
    BY <1>6 DEF ReconcileRestores, ReconcileEnds, RunEnds, RunEndsUnspooled,
       SkippingEnds, SkippingCut, Cancel, Done, ChannelUsed, vars
  <2> QED BY <1>0, <2>1 DEF AttemptOf, Untouched, Announced
<1> QED BY <1>1, <1>2, <1>3, <1>4, <1>5, <1>6 DEF Next

\* What is said of the attempts holds in every reachable state.
LEMMA AttemptsKept == Spec => []AttemptInv
<1>1. Init => AttemptInv
  BY DEF Init, AttemptInv, AttemptOf, Untouched, Announced, Waiting
<1>2. Init => ReceiptInv
  BY DEF Init, ReceiptInv, Ledger, LedgerInTime, Sent
<1> QED BY <1>1, <1>2, TypeInit, TypeNext, ReceiptNext, AttemptNext, PTL DEF Spec

\* A receipt is for the last attempt that started: a retried first try is never
\* reported by a receipt, and a retry that did not start is never announced.
THEOREM ReceiptsNameLastAttempt == Spec => []ReceiptNamesLastAttempt
<1>1. AttemptInv => ReceiptNamesLastAttempt
  BY DEF AttemptInv, AttemptOf, ReceiptNamesLastAttempt
<1> QED BY <1>1, AttemptsKept, PTL

\* A scenario that ran is never reported as skipped.
THEOREM SkippedHaveNotRun == Spec => []SkippedNeverRan
<1>1. AttemptInv => SkippedNeverRan
  BY DEF AttemptInv, Untouched, SkippedNeverRan
<1> QED BY <1>1, AttemptsKept, PTL

\* When the job is over every scenario has had its receipt, unless the attempt was
\* fenced; when it was cut short only scenarios that never ran may be missing.
THEOREM LedgerIsComplete == Spec => []LedgerComplete
<1>1. ReceiptInv /\ AttemptInv => LedgerComplete
  BY DEF ReceiptInv, Ledger, LedgerInTime, Sent, AttemptInv, Untouched, LedgerComplete
<1>2. Spec => [](ReceiptInv /\ AttemptInv)
  BY ReceiptsKept, AttemptsKept, PTL
<1> QED BY <1>1, <1>2, PTL

--------------------------------------------------------------------------------
(* The dead channel, for a port that raises. *)

Latched == channel \in Dead => fenced

\* Every call that finds the channel dead latches it on the pool.
LEMMA LatchedNext ==
  ASSUME Port = "raising"
  PROVE  Latched /\ [Next]_vars => Latched'
<1> SUFFICES ASSUME Latched, [Next]_vars PROVE Latched'
  OBVIOUS
<1> USE DEF Latched, portVars, ChannelUsed
<1>1. CASE UNCHANGED vars
  BY <1>1 DEF vars
<1>2. ASSUME NEW s \in Scenarios, Worker(s) PROVE Latched'
  BY <1>2 DEF Worker, WorkerTop, LeaseAbandons, LeaseEnters, LeaseWaits,
         LeaseExhausted, LeaseGrants, LeaseLosesWorld, LeaseReportsLoss,
           RecheckStops, RecheckPasses, RetriedEmitted, StartedEmitted,
         EmissionFatal, Execute, ReleaseWorld, DiscardWorld, DiscardReported,
         ReceiptEmitted, ReceiptFatal, EventReturns, EventRaises, ReceiptReturns,
         ReceiptRaises
<1>3. ASSUME NEW s \in Scenarios, SkippedEmitted(s) \/ SkippedFatal(s)
      PROVE  Latched'
  BY <1>3 DEF SkippedEmitted, SkippedFatal, ReceiptReturns, ReceiptRaises
<1>4. CASE \/ ReconcileRestores \/ ReconcileEnds \/ RunEnds \/ RunEndsUnspooled
          \/ SkippingEnds \/ SkippingCut \/ Cancel \/ Done
  BY <1>4 DEF ReconcileRestores, ReconcileEnds, RunEnds, RunEndsUnspooled,
       SkippingEnds, SkippingCut, Cancel, Done, vars
<1> QED BY <1>1, <1>2, <1>3, <1>4 DEF Next

\* With a port whose calls raise, no scenario goes for a world once any call has
\* found the channel dead.
THEOREM DeadChannelLaunchesNothing ==
  ASSUME Port = "raising"
  PROVE  Spec => NoLaunchOnceDead
<1> DEFINE Launch == \A s \in Scenarios :
             channel \in Dead /\ pc[s] \in {"top", "leasing"}
               => ~(pc'[s] \in {"leasing", "queued"} /\ pc'[s] # pc[s])
<1>1. Init => Latched
  BY DEF Init, Latched, Dead
<1>2. TypeOK /\ Latched /\ [Next]_vars => Launch
  <2> SUFFICES ASSUME TypeOK, Latched, [Next]_vars, NEW t \in Scenarios,
                      channel \in Dead, pc[t] \in {"top", "leasing"},
                      pc'[t] # pc[t]
               PROVE  pc'[t] \notin {"leasing", "queued"}
    OBVIOUS
  <2>1. fenced /\ Stopped
    BY DEF Latched, Stopped
  <2>3. CASE Worker(t)
    BY <2>1, <2>3 DEF Worker, TypeOK, Goto, WorkerTop, LeaseAbandons, LeaseEnters,
         LeaseWaits, LeaseExhausted, LeaseGrants, LeaseLosesWorld,
         LeaseReportsLoss, RecheckStops, RecheckPasses, RetriedEmitted,
         StartedEmitted, EmissionFatal, Execute, ReleaseWorld, DiscardWorld,
         DiscardReported, ReceiptEmitted, ReceiptFatal, Reporting
  <2>4. ASSUME NEW s \in Scenarios \ {t}, Worker(s) PROVE FALSE
    BY <2>4, WorkerFrame
  <2>5. ASSUME NEW s \in Scenarios, SkippedEmitted(s) \/ SkippedFatal(s)
        PROVE  FALSE
    BY <2>5 DEF SkippedEmitted, SkippedFatal, workerVars
  <2>6. CASE \/ ReconcileRestores \/ ReconcileEnds \/ RunEnds \/ RunEndsUnspooled
             \/ SkippingEnds \/ SkippingCut \/ Cancel \/ Done \/ UNCHANGED vars
    BY <2>6 DEF ReconcileRestores, ReconcileEnds, RunEnds, RunEndsUnspooled,
       SkippingEnds, SkippingCut, Cancel, Done, vars, workerVars
  <2> QED BY <2>3, <2>4, <2>5, <2>6 DEF Next
<1> QED BY <1>1, <1>2, TypeInit, TypeNext, LatchedNext, PTL
        DEF Spec, NoLaunchOnceDead
================================================================================

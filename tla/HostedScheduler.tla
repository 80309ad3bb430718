---------------------------- MODULE HostedScheduler ----------------------------
(***************************************************************************)
(* The scenario loop of the hosted harness: class HostedScheduler of       *)
(* src/src/fi/alk/harness/hosted_scheduler.py, one coroutine per scenario, *)
(* with the end of the job in hosted_entrypoint.py that sends the skipped  *)
(* receipts.  An action is the code between two awaits.                    *)
(*                                                                         *)
(* The world pool is the one of module PoolView, which WorldPool           *)
(* implements: a world is free, held by a scenario, or down until a        *)
(* reconcile pass brings it back.                                          *)
(*                                                                         *)
(* The outbound port (constant Port):                                      *)
(*   "raising"  any OutboundPort: the call that finds the channel dead     *)
(*              raises one of the _FATAL_OUTBOUND errors, and so does every *)
(*              later one                                                  *)
(*   "adapter"  hosted_entrypoint.OutboundAdapter: an event is only        *)
(*              spooled, a receipt is pushed, and the channel's death is   *)
(*              absorbed; only a receipt that was under way when another   *)
(*              one found the attempt superseded raises                    *)
(***************************************************************************)
EXTENDS Naturals, FiniteSets

CONSTANTS Scenarios, Worlds, Port,
          MaxFaults   \* bound: worlds lost while a lease prepares them

ASSUME WorldsAssumption == IsFiniteSet(Worlds) /\ Worlds # {}
ASSUME PortAssumption == Port \in {"raising", "adapter"}
ASSUME FaultsAssumption == MaxFaults \in Nat
ASSUME NamesAssumption == Scenarios \cap {"free", "down"} = {}

Dead == {"fenced", "failed", "superseded"}

\* Failure domains that an abort can have: environment and agent are "typed".
Kinds == {"infrastructure", "typed", "simulator"}

Outcomes == {"none", "verdict", "errored", "spoiled", "retry", "retryUnhealthy",
             "crashed", "fatal"}

Pcs == {"top", "leasing", "queued", "leaseFault", "recheck", "emitRetried",
        "emitStarted", "running", "returning", "unhealthy", "receipt",
        "pendingReceipt", "crashReceipt", "done"}

VARIABLES
  pc, attempt, pending, world, outcome,
  results,    \* results[index]: the attempt a receipt was built for
  abort,      \* abort_holder[0], by what kind of failure it holds
  holder,     \* pool: the scenario holding each world, "free" or "down"
  recovering, \* pool: a reconcile is in flight or pending
  fenced,     \* pool.fenced is set
  channel,    \* the latch of the outbound channel (ChannelState)
  racing,     \* adapter: scenarios whose receipt was under way at that latch
  phase,      \* run(), then emit_skipped_receipts(), then over
  cancelled,
  cut,        \* the skipped receipts were cut short
  faults,
  receipts,   \* receipts of each scenario handed to the port
  retried,    \* scenarios whose retry was announced
  ran         \* the attempts of each scenario that started

workerVars == <<pc, attempt, pending, world, outcome, results>>
poolVars == <<holder, recovering, faults>>
jobVars == <<abort, phase, cancelled, cut>>
portVars == <<fenced, channel, racing>>
sentVars == <<receipts, retried, ran>>
vars == <<workerVars, poolVars, jobVars, portVars, sentVars>>

--------------------------------------------------------------------------------
Init ==
  /\ pc = [s \in Scenarios |-> "top"]
  /\ attempt = [s \in Scenarios |-> 1]
  /\ pending = [s \in Scenarios |-> FALSE]
  /\ world = [s \in Scenarios |-> CHOOSE w \in Worlds : TRUE]
  /\ outcome = [s \in Scenarios |-> "none"]
  /\ results = [s \in Scenarios |-> "none"]
  /\ abort = "none"
  /\ holder \in [Worlds -> {"free", "down"}]    \* start() may leave worlds down
  /\ recovering = FALSE /\ fenced = FALSE /\ channel = "open" /\ racing = {}
  /\ phase = "running" /\ cancelled = FALSE /\ cut = FALSE /\ faults = 0
  /\ receipts = [s \in Scenarios |-> 0]
  /\ retried = [s \in Scenarios |-> FALSE]
  /\ ran = [s \in Scenarios |-> {}]

Goto(s, p) == pc' = [pc EXCEPT ![s] = p]

\* cancel_requested(): the adapter's fence counts as a cancel.
CancelRequested == cancelled \/ (Port = "adapter" /\ channel = "fenced")

\* _abandon(), and the test at the top of worker().
Stopped == abort # "none" \/ fenced \/ CancelRequested

--------------------------------------------------------------------------------
(* The outbound port.  A call returns, or raises a fatal error that _emit      *)
(* latches on the pool; any other exception _emit swallows.                    *)

\* The channel dies at this call, or was found dead by an earlier one.
FoundDead == channel' \in (IF channel = "open" THEN Dead ELSE {channel})

EventReturns == /\ Port = "raising" => channel = "open"
                /\ UNCHANGED portVars

\* Mutant: the call site swallows the fatal error like any other.
EventRaisesSwallowed == Port = "raising" /\ FoundDead /\ UNCHANGED <<fenced, racing>>

EventRaises == /\ Port = "raising" /\ FoundDead
               /\ fenced' = TRUE /\ UNCHANGED racing

Reporting == {"receipt", "pendingReceipt", "crashReceipt"}

\* The adapter's receipt() absorbs what its push and its flush find.
ReceiptReturns(s) ==
  /\ UNCHANGED fenced
  /\ \/ (Port = "raising" => channel = "open") /\ UNCHANGED <<channel, racing>>
     \/ Port = "adapter" /\ channel = "open"
        /\ \/ channel' \in {"fenced", "failed"} /\ UNCHANGED racing
           \/ /\ channel' = "superseded"
              /\ racing' = {t \in Scenarios \ {s} : pc[t] \in Reporting}

\* A receipt past the adapter's own check meets the latch in ResultsClient.push().
ReceiptRaises(s) ==
  /\ fenced' = TRUE /\ UNCHANGED racing
  /\ IF Port = "raising" THEN FoundDead ELSE s \in racing /\ UNCHANGED channel

ReceiptSent(s) == receipts' = [receipts EXCEPT ![s] = @ + 1]

\* An upload or a flush of the adapter's finds the channel dead, and absorbs it.
ChannelUsed ==
  /\ channel' \in IF Port = "adapter" /\ channel = "open"
                  THEN {"open", "fenced", "failed"} ELSE {channel}
  /\ UNCHANGED <<fenced, racing>>

---------------------------------------------------------------------------
(* worker() and the pool's lease(). *)

WorkerTop(s) ==
  /\ pc[s] = "top"
  /\ Goto(s, IF Stopped THEN "done" ELSE "leasing")
  /\ UNCHANGED <<attempt, pending, world, outcome, results, poolVars, jobVars,
                 portVars, sentVars>>

\* A retry leaves out the world it failed on, unless the pool has only that one.
Tried(s) == IF pending[s] /\ Cardinality(Worlds) # 1 THEN {world[s]} ELSE {}

\* What abort_holder[0] becomes when a first lease finds the pool exhausted:
\* a typed cause may replace a generic one, never the other way round.
AbortAfter(kind) ==
  IF abort = "none" \/ (abort = "infrastructure" /\ kind = "typed") THEN kind
  ELSE abort

\* Mutant: an abandoned retry ends like a scenario that never started.
LeaseAbandonsForgets(s) ==
  /\ pc[s] = "leasing" /\ Stopped
  /\ Goto(s, "done")
  /\ UNCHANGED <<attempt, pending, world, outcome, results, poolVars, jobVars,
                 portVars, sentVars>>

\* The failure a retry carries: its world was lost, or its call failed.
FailureKinds(s) == IF outcome[s] = "retryUnhealthy" THEN {"typed"} ELSE Kinds

\* lease() returns None: the retry's first attempt is still reported, and its
\* failure becomes the abort.
LeaseAbandons(s) ==
  /\ pc[s] = "leasing" /\ Stopped
  /\ Goto(s, IF pending[s] THEN "pendingReceipt" ELSE "done")
  /\ abort' \in IF pending[s] THEN FailureKinds(s) ELSE {abort}
  /\ UNCHANGED <<attempt, pending, world, outcome, results, poolVars, phase,
                 cancelled, cut, portVars, sentVars>>

LeaseEnters(s) ==
  /\ pc[s] = "leasing" /\ ~Stopped
  /\ Goto(s, "queued")
  /\ UNCHANGED <<attempt, pending, world, outcome, results, poolVars, jobVars,
                 portVars, sentVars>>

LeaseWaits(s) ==
  /\ pc[s] = "queued"
  /\ \A w \in Worlds \ Tried(s) : holder[w] # "free"
  /\ recovering \/ \E w \in Worlds \ Tried(s) : holder[w] # "down"
  /\ Goto(s, "leasing")
  /\ UNCHANGED <<attempt, pending, world, outcome, results, poolVars, jobVars,
                 portVars, sentVars>>

\* NoWorldsAvailable: with the generic code, or one every down world agrees on.
LeaseExhausted(s) ==
  /\ pc[s] = "queued"
  /\ \A w \in Worlds \ Tried(s) : holder[w] = "down"
  /\ ~recovering
  /\ Goto(s, IF pending[s] THEN "pendingReceipt" ELSE "done")
  /\ \/ pending[s] /\ abort' \in FailureKinds(s)
     \/ ~pending[s] /\ \E kind \in {"infrastructure", "typed"} : abort' = AbortAfter(kind)
  /\ UNCHANGED <<attempt, pending, world, outcome, results, poolVars, phase,
                 cancelled, cut, portVars, sentVars>>

\* The world is reset and probed; the retry's attempt number starts here.
LeaseGrants(s) ==
  /\ pc[s] = "queued"
  /\ \E w \in Worlds \ Tried(s) :
       /\ holder[w] = "free"
       /\ holder' = [holder EXCEPT ![w] = s]
       /\ world' = [world EXCEPT ![s] = w]
  /\ attempt' = [attempt EXCEPT ![s] = IF pending[s] THEN 2 ELSE 1]
  /\ Goto(s, "recheck")
  /\ UNCHANGED <<pending, outcome, results, recovering, faults, jobVars,
                 portVars, sentVars>>

\* The reset or the probe fails: mark_unhealthy() from inside lease().
LeaseLosesWorld(s) ==
  /\ pc[s] = "queued" /\ faults < MaxFaults
  /\ \E w \in Worlds \ Tried(s) :
       holder[w] = "free" /\ holder' = [holder EXCEPT ![w] = "down"]
  /\ recovering' = TRUE /\ faults' = faults + 1
  /\ Goto(s, "leaseFault")
  /\ UNCHANGED <<attempt, pending, world, outcome, results, jobVars, portVars,
                 sentVars>>

\* _schedule_reconcile() starts the task anew when a pass has ended meanwhile.
ReconcileScheduled == recovering' \in {recovering, TRUE} /\ UNCHANGED <<holder, faults>>

\* world_unhealthy: a fatal error is latched here, and never raised.
LeaseReportsLoss(s) ==
  /\ pc[s] = "leaseFault" /\ ReconcileScheduled
  /\ EventReturns \/ EventRaises
  /\ Goto(s, "leasing")
  /\ UNCHANGED <<attempt, pending, world, outcome, results, jobVars, sentVars>>

\* A reconcile pass has brought some of the down worlds back.
ReconcileRestores ==
  /\ recovering
  /\ \E back \in SUBSET {w \in Worlds : holder[w] = "down"} \ {{}} :
       holder' = [w \in Worlds |-> IF w \in back THEN "free" ELSE holder[w]]
  /\ UNCHANGED <<recovering, faults, workerVars, jobVars, portVars, sentVars>>

ReconcileEnds ==
  /\ recovering /\ recovering' = FALSE
  /\ UNCHANGED <<holder, faults, workerVars, jobVars, portVars, sentVars>>

--------------------------------------------------------------------------------
(* _run_scenario() with a world in hand. *)

\* Mutant: the recheck after lease() keeps a world it will not use.
RecheckKeepsWorld(s) ==
  /\ pc[s] = "recheck" /\ (abort # "none" \/ CancelRequested)
  /\ Goto(s, IF pending[s] THEN "pendingReceipt" ELSE "done")
  /\ UNCHANGED <<attempt, pending, world, outcome, results, poolVars, jobVars,
                 portVars, sentVars>>

\* The re-check after lease(): a world granted to a stopped job goes back.  It
\* does not look at pool.fenced.
RecheckStops(s) ==
  /\ pc[s] = "recheck" /\ (abort # "none" \/ CancelRequested)
  /\ holder' = [holder EXCEPT ![world[s]] = "free"]
  /\ Goto(s, IF pending[s] THEN "pendingReceipt" ELSE "done")
  /\ UNCHANGED <<attempt, pending, world, outcome, results, recovering, faults,
                 jobVars, portVars, sentVars>>

RecheckPasses(s) ==
  /\ pc[s] = "recheck" /\ abort = "none" /\ ~CancelRequested
  /\ Goto(s, IF pending[s] THEN "emitRetried" ELSE "emitStarted")
  /\ UNCHANGED <<attempt, pending, world, outcome, results, poolVars, jobVars,
                 portVars, sentVars>>

RetriedEmitted(s) ==
  /\ pc[s] = "emitRetried" /\ EventReturns
  /\ retried' = [retried EXCEPT ![s] = TRUE]
  /\ Goto(s, "emitStarted")
  /\ UNCHANGED <<attempt, pending, world, outcome, results, poolVars, jobVars,
                 receipts, ran>>

StartedEmitted(s) ==
  /\ pc[s] = "emitStarted" /\ EventReturns
  /\ Goto(s, "running")
  /\ ran' = [ran EXCEPT ![s] = @ \cup {attempt[s]}]
  /\ UNCHANGED <<attempt, pending, world, outcome, results, poolVars, jobVars,
                 receipts, retried>>

\* A fatal error leaves through the finally clause that resolves the world.
EmissionFatal(s) ==
  /\ pc[s] \in {"emitRetried", "emitStarted", "running"} /\ EventRaises
  /\ outcome' = [outcome EXCEPT ![s] = "fatal"]
  /\ Goto(s, "returning")
  /\ UNCHANGED <<attempt, pending, world, results, poolVars, jobVars, sentVars>>

\* world_factory.create() and _execute(): a receipt, a _Retry or an exception.
Execute(s) ==
  /\ pc[s] = "running"
  /\ \E o \in Outcomes \ {"none", "fatal"} : outcome' = [outcome EXCEPT ![s] = o]
  /\ ChannelUsed
  /\ Goto(s, "returning")
  /\ UNCHANGED <<attempt, pending, world, results, poolVars, jobVars, sentVars>>

\* The world is discarded: mark_unhealthy() rather than release().
Discards(s) == \/ outcome[s] \in {"spoiled", "retryUnhealthy"}
               \/ outcome[s] \in {"crashed", "fatal"} /\ ~fenced

\* Mutant: a second attempt that fails retryably is tried once more.
AfterWorldRetriesAgain(s) ==
  CASE outcome[s] = "fatal" -> "done"
    [] outcome[s] = "crashed" -> "crashReceipt"
    [] outcome[s] \in {"retry", "retryUnhealthy"} -> "leasing"
    [] OTHER -> "receipt"

\* Where the coroutine goes once its world is resolved.
AfterWorld(s) ==
  CASE outcome[s] = "fatal" -> "done"
    [] outcome[s] = "crashed" -> "crashReceipt"
    [] outcome[s] \in {"retry", "retryUnhealthy"} /\ attempt[s] = 1 -> "leasing"
    [] OTHER -> "receipt"

\* Mutant: a retry keeps its world until the whole scenario is over.
ReleaseWorldLate(s) ==
  /\ pc[s] = "returning" /\ ~Discards(s)
  /\ holder' = IF AfterWorld(s) = "leasing" THEN holder
               ELSE [holder EXCEPT ![world[s]] = "free"]
  /\ pending' = [pending EXCEPT ![s] = AfterWorld(s) = "leasing"]
  /\ Goto(s, AfterWorld(s))
  /\ UNCHANGED <<attempt, world, outcome, results, recovering, faults, jobVars,
                 portVars, sentVars>>

ReleaseWorld(s) ==
  /\ pc[s] = "returning" /\ ~Discards(s)
  /\ holder' = [holder EXCEPT ![world[s]] = "free"]
  /\ pending' = [pending EXCEPT ![s] = AfterWorld(s) = "leasing"]
  /\ Goto(s, AfterWorld(s))
  /\ UNCHANGED <<attempt, world, outcome, results, recovering, faults, jobVars,
                 portVars, sentVars>>

DiscardWorld(s) ==
  /\ pc[s] = "returning" /\ Discards(s)
  /\ holder' = [holder EXCEPT ![world[s]] = "down"]
  /\ recovering' = TRUE
  /\ Goto(s, "unhealthy")
  /\ UNCHANGED <<attempt, pending, world, outcome, results, faults, jobVars,
                 portVars, sentVars>>

DiscardReported(s) ==
  /\ pc[s] = "unhealthy" /\ ReconcileScheduled
  /\ EventReturns \/ EventRaises
  /\ pending' = [pending EXCEPT ![s] = AfterWorld(s) = "leasing"]
  /\ Goto(s, AfterWorld(s))
  /\ UNCHANGED <<attempt, world, outcome, results, jobVars, sentVars>>

--------------------------------------------------------------------------------
(* Receipts. *)

\* A retry that never ran is reported as the attempt that did.
ReceiptAttempt(s) == IF pc[s] = "pendingReceipt" THEN 1 ELSE attempt[s]

Name(n) == IF n = 1 THEN "attempt1" ELSE "attempt2"

\* Mutant: a crash of the driver sends its receipt and leaves no result.
ReceiptEmittedUnrecorded(s) ==
  /\ pc[s] \in Reporting /\ ReceiptReturns(s)
  /\ ReceiptSent(s)
  /\ results' = IF pc[s] = "crashReceipt" THEN results
                ELSE [results EXCEPT ![s] = Name(ReceiptAttempt(s))]
  /\ Goto(s, "done")
  /\ UNCHANGED <<attempt, pending, world, outcome, poolVars, jobVars, retried,
                 ran>>

ReceiptEmitted(s) ==
  /\ pc[s] \in Reporting /\ ReceiptReturns(s)
  /\ ReceiptSent(s)
  /\ results' = [results EXCEPT ![s] = Name(ReceiptAttempt(s))]
  /\ Goto(s, "done")
  /\ UNCHANGED <<attempt, pending, world, outcome, poolVars, jobVars, retried,
                 ran>>

ReceiptFatal(s) ==
  /\ pc[s] \in Reporting /\ ReceiptRaises(s)
  /\ ReceiptSent(s)
  /\ Goto(s, "done")
  /\ UNCHANGED <<attempt, pending, world, outcome, results, poolVars, jobVars,
                 retried, ran>>

--------------------------------------------------------------------------------
(* The end of run(), the terminal event, and emit_skipped_receipts(). *)

\* Mutant: an aborted job ends with its terminal event.
RunEndsAborted ==
  /\ phase = "running" /\ \A s \in Scenarios : pc[s] = "done"
  /\ ChannelUsed
  /\ phase' = IF fenced \/ abort # "none" \/ (Port = "adapter" /\ channel' = "fenced")
              THEN "over" ELSE "skipping"
  /\ UNCHANGED <<abort, cancelled, cut, workerVars, poolVars, sentVars>>

RunEnds ==
  /\ phase = "running" /\ \A s \in Scenarios : pc[s] = "done"
  /\ ChannelUsed
  /\ phase' = IF fenced \/ (Port = "adapter" /\ channel' = "fenced")
              THEN "over" ELSE "skipping"
  /\ UNCHANGED <<abort, cancelled, cut, workerVars, poolVars, sentVars>>

\* The spool fails: emit_terminal()'s append raises out of run_job(), or
\* flush_terminal() raises and _finish() absorbs it.  No skipped receipt goes out.
RunEndsUnspooled ==
  /\ Port = "adapter"
  /\ phase = "running" /\ \A s \in Scenarios : pc[s] = "done"
  /\ ChannelUsed
  /\ phase' = "over" /\ cut' = TRUE
  /\ UNCHANGED <<abort, cancelled, workerVars, poolVars, sentVars>>

SkippedEmitted(s) ==
  /\ phase = "skipping" /\ results[s] = "none" /\ ReceiptReturns(s)
  /\ ReceiptSent(s)
  /\ results' = [results EXCEPT ![s] = "skipped"]
  /\ UNCHANGED <<pc, attempt, pending, world, outcome, poolVars, jobVars, retried,
                 ran>>

\* A fatal error leaves emit_skipped_receipts().
SkippedFatal(s) ==
  /\ phase = "skipping" /\ results[s] = "none" /\ ReceiptRaises(s)
  /\ ReceiptSent(s)
  /\ phase' = "over"
  /\ UNCHANGED <<abort, cancelled, cut, workerVars, poolVars, retried, ran>>

SkippingEnds ==
  /\ phase = "skipping" /\ \A s \in Scenarios : results[s] # "none"
  /\ phase' = "over"
  /\ UNCHANGED <<abort, cancelled, cut, workerVars, poolVars, portVars, sentVars>>

\* The flush window runs out first.
SkippingCut ==
  /\ phase = "skipping" /\ \E s \in Scenarios : results[s] = "none"
  /\ phase' = "over" /\ cut' = TRUE
  /\ UNCHANGED <<abort, cancelled, workerVars, poolVars, portVars, sentVars>>

Cancel ==
  /\ ~cancelled /\ phase = "running" /\ cancelled' = TRUE
  /\ UNCHANGED <<abort, phase, cut, workerVars, poolVars, portVars, sentVars>>

--------------------------------------------------------------------------------
Worker(s) ==
  \/ WorkerTop(s) \/ LeaseAbandons(s) \/ LeaseEnters(s) \/ LeaseWaits(s)
  \/ LeaseExhausted(s) \/ LeaseGrants(s) \/ LeaseLosesWorld(s)
  \/ LeaseReportsLoss(s) \/ RecheckStops(s) \/ RecheckPasses(s)
  \/ RetriedEmitted(s) \/ StartedEmitted(s) \/ EmissionFatal(s) \/ Execute(s)
  \/ ReleaseWorld(s) \/ DiscardWorld(s) \/ DiscardReported(s)
  \/ ReceiptEmitted(s) \/ ReceiptFatal(s)

Done == phase = "over" /\ UNCHANGED vars

Next == \/ \E s \in Scenarios : Worker(s) \/ SkippedEmitted(s) \/ SkippedFatal(s)
        \/ ReconcileRestores \/ ReconcileEnds
        \/ RunEnds \/ RunEndsUnspooled \/ SkippingEnds \/ SkippingCut
        \/ Cancel \/ Done

Spec == Init /\ [][Next]_vars

\* The event loop runs every ready coroutine; a scenario's phases are bounded by
\* their timeouts; a reconcile makes a bounded number of attempts.
Fairness ==
  /\ \A s \in Scenarios : WF_vars(Worker(s)) /\ WF_vars(SkippedEmitted(s) \/ SkippedFatal(s))
  /\ WF_vars(ReconcileEnds) /\ WF_vars(RunEnds) /\ WF_vars(SkippingEnds)

FairSpec == Spec /\ Fairness

--------------------------------------------------------------------------------
TypeOK ==
  /\ pc \in [Scenarios -> Pcs]
  /\ attempt \in [Scenarios -> 1..2]
  /\ pending \in [Scenarios -> BOOLEAN]
  /\ world \in [Scenarios -> Worlds]
  /\ outcome \in [Scenarios -> Outcomes]
  /\ results \in [Scenarios -> {"none", "attempt1", "attempt2", "skipped"}]
  /\ abort \in {"none"} \cup Kinds
  /\ holder \in [Worlds -> Scenarios \cup {"free", "down"}]
  /\ recovering \in BOOLEAN /\ fenced \in BOOLEAN
  /\ channel \in {"open"} \cup Dead /\ racing \subseteq Scenarios
  /\ phase \in {"running", "skipping", "over"}
  /\ cancelled \in BOOLEAN /\ cut \in BOOLEAN /\ faults \in Nat
  /\ receipts \in [Scenarios -> Nat]
  /\ retried \in [Scenarios -> BOOLEAN]
  /\ ran \in [Scenarios -> SUBSET (1..2)]

\* However a scenario ends (a verdict, an exhausted retry, a crash of the driver,
\* an abort in mid-retry, never started), at most one receipt leaves for it.
OneReceipt == \A s \in Scenarios : receipts[s] <= 1

\* The ledger is complete: unless the attempt was fenced, every scenario has had
\* its receipt when the job is over, whatever failed.  Only a scenario that never
\* ran may be missing, and only when the flush window ran out or the spool failed
\* under the terminal event.
LedgerComplete ==
  phase = "over" /\ ~fenced /\ ~(Port = "adapter" /\ channel = "fenced")
    => \A s \in Scenarios :
         \/ receipts[s] = 1 /\ results[s] # "none"
         \/ cut /\ receipts[s] = 0 /\ ran[s] = {}

\* A receipt is for the last attempt that started: a failed first try that was
\* retried is recorded by scenario_retried and never by a receipt, and a retry
\* that never started is not announced either.
ReceiptNamesLastAttempt ==
  \A s \in Scenarios :
    /\ results[s] = "attempt1" => ~retried[s] /\ 2 \notin ran[s]
    /\ results[s] = "attempt2" => retried[s]

\* A scenario that started is never reported as skipped.
SkippedNeverRan == \A s \in Scenarios : results[s] = "skipped" => ran[s] = {}

\* The coroutines and the pool agree on who has which world: it is given back on
\* every way out of _run_scenario(), and only once.
AtWork == {"recheck", "emitRetried", "emitStarted", "running", "returning"}
WorldsReturned ==
  /\ \A s \in Scenarios : pc[s] \in AtWork => holder[world[s]] = s
  /\ \A w \in Worlds : \A s \in Scenarios :
       holder[w] = s => pc[s] \in AtWork /\ world[s] = w

\* The coroutines keep to the pool's protocol, one world each and only their own
\* given back, and see of the pool no more than it promises.
Pool == INSTANCE PoolView WITH Users <- Scenarios, started <- TRUE
KeepsPoolProtocol == [][Pool!Next]_<<holder, recovering>>

\* Once an outbound call has found the channel dead no further scenario goes
\* for a world: every call site passes the news on to the pool.
NoLaunchOnceDead ==
  [][\A s \in Scenarios :
       channel \in Dead /\ pc[s] \in {"top", "leasing"}
         => ~(pc'[s] \in {"leasing", "queued"} /\ pc'[s] # pc[s])]_vars

\* The job comes to its end: no scenario waits for a world for ever.
RunCompletes == <>(phase = "over")
================================================================================

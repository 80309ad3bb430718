# Verification of the agent learning kit

TLA+ specifications of the concurrent core of the agent learning kit, the TLC
configurations that model-check them on small instances, and TLAPS proofs of the
properties that matter most for instances of any size.  `src/` below is the
repository.  Its files are named by two or three letters:

| | | | |
|---|---|---|---|
| HS | `src/src/fi/alk/harness/hosted_scheduler.py` | QU | `src/src/fi/alk/telemetry/_queue.py` |
| PR | `.../harness/process_runtime.py` | LE | `.../telemetry/_ledger.py` |
| CC | `.../harness/certified_compose_runtime.py` | TI | `.../telemetry/__init__.py` |
| CB | `.../harness/compose_broker.py` | TR | `.../telemetry/_run.py` |
| HE | `.../harness/hosted_entrypoint.py` | BR | `src/src/fi/evals/framework/resilience/circuit_breaker.py` |
| OB | `.../harness/outbound.py` | WR | `.../resilience/wrapper.py` |
| RC | `.../harness/repair_controller.py` | CBI | `src/src/fi/simulate/simulation/engines/caller_barge_in.py` |
| ARV | `.../harness/authoring_runtime_validation.py` | LK | `.../engines/livekit.py` |

    tlc -workers 2 -config pool_process.cfg MCWorldPool
    tlapm WorldPoolProofs.tla

Contents: [1 the system](#1-the-system-and-its-parts),
[2 the modules](#2-modules), [3 properties and runs](#3-properties-and-runs),
[4 what the checks found](#4-what-the-checks-found),
[5 what is proved](#5-what-is-proved), [6 not modelled](#6-not-modelled-and-why),
[7 plan](#7-plan).

## 1. The system and its parts

The kit builds an environment around an agent ("a bundle"), runs scenarios
(calls or chats with simulated users) against it, judges them, and reports the
results.  Most of the source is sequential: authoring with a language model,
metrics, formatting, command lines.  State shared between concurrent actors is
found in the **hosted harness**, which runs one job inside a sandbox and reports
to the platform over channels that may die at any moment, and in three smaller
places: the telemetry of every run, the resilient backend of the evaluations, and
the simulated caller that speaks over an agent.  The loop that repairs an
authored bundle is sequential, but bounded by an argument that no test makes.

| Component | State it keeps | Operations | Who it talks to | What is hard | What makes it correct |
|---|---|---|---|---|---|
| World pool (`WorldPool`, HS 914–1487) | runtimes by index; `_available`, `_leased`, `_down`, `_fresh`; `_reconcile_pending`; reconcile and teardown tasks; state lock and provider lock | `start`, `lease`, `release`, `mark_unhealthy`, the reconcile loop, `close` | scheduler above, provider below | every await lets another coroutine in; verdicts are applied to worlds that may have been replaced; demotions during a reconcile; close against everything | exclusive leases, no index lost, no demotion forgotten, a closed provider left alone, pristine worlds, every lease returns |
| World providers (PR, CC, CB, `compose_integration.py`) | one `EnvironmentRuntime` per world with a `state` field; the broker's own copy and its session | `provision`, `reset`, `healthy`, `close` | the pool; the broker's server process | calls run on worker threads; three rules on who may write `state`, and two on whether objects are live or copies | a demoted world is rebuilt, a world in use is not touched |
| Hosted scheduler (`HostedScheduler`, HS 1640–2500) | a coroutine per scenario; `results`, `abort_holder`, `pool.fenced` | `run`, `worker`, `_run_scenario`, `_execute`, receipts, `emit_skipped_receipts` | pool, outbound port, call runner | one bounded retry on another world; abort, cancel, fence and exhaustion at any await | one receipt per scenario, of the right attempt; complete ledger; worlds returned; the job ends |
| Outbound adapter and end of job (HE) | fence and failure latches, terminal latch, flush window | `_emit_event`, `receipt`, `emit_terminal`, `drain`, `_finish` | scheduler, spool, channel clients | appends and flushes on worker threads while the event loop ends the job; the window may run out | exit code 0 means the terminal and all before it were processed; the job always ends with a verdict |
| Outbound spool and channel clients (OB) | JSONL log, next sequence, watermark, `ChannelState` latch, artifact budget | `append`, `advance_watermark`, `compact_through`, `drop_many`, `_recover`, `flush`, `push`, `upload` | adapter, platform over HTTP | a crash between two file operations; lost, repeated or partial acknowledgements; untrusted watermark; several flushes at once | one stream numbered from 1, no number used for two events, none skipped before it is processed |
| Process runtime internals (PR) | processes, ports, databases, build ledger | spawn, seal, clone, conformance gate | operating system | partial builds | seen through the provider port only |
| Call runner, chat and voice sessions (`call_runner.py`, `hosted_chat_entrypoint.py`) | session, transcript, timers | start, turn, end | target agent, simulator | turn timeouts, hang-up against speech | an outcome for every call |
| Authoring, validation, repair (RC, ARV, `bundle_author_v2.py`, ...) | the candidate bundle; repair budgets, signatures, decisions and their results | validate, `decide`, retry, recompile, patch, `record_result` | language model, files | a loop over failing rounds whose bound must cover a retry allowance per candidate | the rounds never run out, no repair is asked for twice, the history lacks no result but the last |
| World handles, stores, tools (`world/`, `scenario_tools.py`, ...) | external databases | read, write, snapshot, diff | databases | none beyond the pool's | a scenario sees its own writes |
| Telemetry queue and ledger (QU, LE, TI, TR) | bounded queue, pending and dropped counts, worker thread; hash-chained ledger with a sidecar for its head | `enqueue`, `_drain`, `flush`, `append`, appends around the queue | every run of the kit | the worker parks while a producer enqueues; a crash between a row and its sidecar, or within a line; a second appender | rows keep their order, each accepted row is written or given up, drops are counted, `flush()` is truthful and returns |
| Telemetry rows, sync and emission | a cursor file | build, sync, emit | platform | sequential | |
| Live, practice, studio, bench, episode | mostly files | product surfaces | | sequential | |
| Simulation runtime (CBI, LK, `environment.py`, ...) | rooms, sessions, results; the caller's pending interjection, prepared line and playout | run, join, record; open and end a target's turn, prepare, interject, play, cut, close | external voice services | every await of the caller lets a transcription stream end, another open, a line arrive, a check-in begin or the call close | the caller never speaks over itself, and is silent once closed |
| Resilient evaluation backend (BR, WR, `retry.py`, `rate_limiter.py`) | breaker state, counters, window; token bucket; each submission's attempt | `submit`, admit, record, `reset`, `force_open` | an evaluation backend | results of one episode recorded in another; probes that never record | a half-open breaker can decide while enough probes may still record, a closed one is below its threshold, it recovers |
| Evaluation framework | results, caches | evaluate | models | pure, or model calls | |
| Optimizers, CLI, API and TypeScript clients | parameters | search, parse, request | | sequential | |

How the core interacts: `HostedScheduler.run` creates one coroutine per
scenario.  Each leases a world from the pool, which resets and probes it through
the provider; runs the call; releases or demotes the world; retries once; and
hands one receipt to the outbound adapter.  A demotion creates the reconcile
task, which calls `provision()` and probes every world.  The job's end emits the
terminal event, then a receipt for every scenario that never ran, and closes the
pool, whose teardown task waits for the reconcile and closes the provider.  Every
event goes through the adapter to the spool on a worker thread; every receipt
flushes the spool to the platform; the job's end drains it within a window and
turns what is left into the exit code.  The repair loop runs before the job, the
caller inside a voice call, telemetry and the resilient backend in the process
that runs the kit.

## 2. Modules

| Module | What it is |
|---|---|
| `WorldPool` | the pool with the provider behind it: 45 actions, four providers |
| `WorldLease` | abstract specification of what a pool of worlds promises |
| `PoolView` | abstract specification of the pool the scenario loop is written against: who has each world, and whether a recovery is on its way |
| `MCWorldPool` | `WorldPool` for TLC, with symmetry of the clients |
| `WorldPoolProofs`, `WorldLeaseProofs` | theorems on the pool; that it implements `WorldLease` and `PoolView` |
| `HostedScheduler` | the scenario loop, its receipts, the end of the job, over the pool of `PoolView` |
| `MCHostedScheduler`, `HostedSchedulerProofs` | `HostedScheduler` for TLC, with symmetry of scenarios and worlds; its theorems |
| `OutboundSpool` | the durable queue of events: operators over its files and counters |
| `Outbound` | the events channel: adapter, flushes, latch and end of job composed with `OutboundSpool` and a platform |
| `EventStream` | abstract specification of the channel: one numbered stream, a prefix of it closed |
| `MCOutbound`, `OutboundProofs` | `Outbound` for TLC, with symmetry of events and threads; its theorems |
| `RunLedger` | the telemetry ledger on disk: `append()` cut where it touches the disk |
| `TelemetryQueue` | the queue, its worker threads, `flush()`, direct appends and a crash, composed with `RunLedger` |
| `MCTelemetry`, `TelemetryProofs` | `TelemetryQueue` for TLC; its theorems |
| `CircuitBreaker` | the circuit breaker: admission, recording, resets |
| `ResilientBackend` | callers of `submit()`, with retries and the rate limiter, composed with `CircuitBreaker` |
| `MCResilientBackend`, `ResilientBackendProofs` | `ResilientBackend` for TLC; its theorems |
| `RepairLoop`, `RepairLoopProofs` | `validate_and_repair` with its policy engine; its theorems |
| `CallerBargeIn`, `CallerBargeInProofs` | the caller that speaks over the agent, with the handlers of the transcription streams; its theorems |

`OutboundSpool`, `RunLedger` and `CircuitBreaker` have no specification of their
own: their operators are the steps of the module that composes them with the
threads that call them.  A definition whose comment starts with "Mutant:" is a
plausible bug in a definition that comes after it; no specification uses it.
`PROJECT.json` pairs it with the property that must catch it.

### 2.1 WorldPool

One action is the code between two awaits.  The provider's calls run on threads,
so a call in flight is an interval (`pc = "resetting"`, `rpc = "ensuring"`)
during which others step; it is cut where it reads and where it writes a
world's `state`.

| State | Code |
|---|---|
| `available`, `leased`, `down`, `fresh`, `pending`, `closed` | the fields of that name |
| `state[w]` | `_runtimes[w].state`, `"absent"` where there is no runtime |
| `port` | holder of `_provider_lock` (the state lock is never held across an await, so its sections are single actions) |
| `pc`, `world`, `exclude`, `probe`, `verdict` | a client's place in `lease()` and its locals; `probe` is whether the runtime it read is still the one in `_runtimes` |
| `rpc`, `attempt`, `todo`, `good`, `result` | the reconcile task and its locals |
| `tpc` | the teardown task |
| `server`, `session` | the broker process's own state field of each world, and whether it still knows the client's session |
| `dirty` | history: a scenario used the world since it was last rebuilt or reset |

`lease()` is `Request`, `LeaseRefused`, `LeasePick`, `LeaseWait`, `LeasePoll`,
`LeaseExhausted`, `LeaseShutOut`, `ResetBegin`/`ResetDone`/`ResetUnready`/
`ResetRaises`, `ProbeBegin`/`ProbePasses`/`ProbeFails`/`ProbeRaises`,
`LeaseStale`, `LeaseGranted`, `LeaseRejected`, `Demote`.  The reconcile is
`LoopStart` to `LoopCheck`; `close()` is `Close` to `TeardownDone`.

The providers differ in what the pool's code depends on:

* `process` returns live objects, skips READY and PREPARING worlds in
  `_ensure_world`, polls PREPARING ones, and `healthy()` may only demote;
* `compose` returns live objects and rebuilds all that is not READY, and
  `healthy()` writes READY as well as UNHEALTHY;
* `broker` is a client of a compose provider in another process: provision
  returns copies, reset and healthy copy the answer's state back, and a failed
  provision drops the session;
* `protocol` is any provider the `WorldProvisioner` Protocol admits, as the
  repository's tests write them: new objects for any non-empty set of indices.

`HeldWorldsMayFail` admits two environment events: a world in use fails a
reconcile's probe, and a dead job-shared engine is respawned under the other
worlds (PR 7463–7575).

The abstract `WorldLease` has two variables, the world each client holds and the
set of clean worlds.  `WorldPool!Lease` maps a client in `lease()`, resetting or
probing to one that holds nothing, and a dirty world to one that is not clean;
resets, rebuilds and demotions become `Restore` or stuttering.

The abstract `PoolView` has the user of each world (or "free", or "down") and
whether the pool is `recovering`.  `WorldPool!View` maps a world to the client
that holds it, else to "free" while it is in `available` or `leased` (a client
that is still preparing it may lose it, and nobody else can take it), else to
"down"; `recovering` is "a reconcile is in flight or pending", the condition
`lease()` reads before it declares exhaustion (HS 1127).

| Step of the pool | Step of the view |
|---|---|
| `Start` | `Start` |
| `LeaseGranted`, `Release` | `Grant`, `Return` |
| `Demote`, `Discard` | `Lose`, `Discard` |
| `ScheduleReconcile`, when the pass under way has already cleared the flag and ended | `Reschedule` |
| `Install` of a pass | `Restore` |
| `LoopCheck` when nothing is pending | `Recovered` |
| all others, the provider's and `close()`'s included | stuttering |

`protocol` is left out: a provider that may drop a world takes it from the pool
without a demotion, as `_reconcile` then pops the index (HS 1419).

### 2.2 HostedScheduler

| State | Code |
|---|---|
| `pc`, `attempt`, `pending`, `world`, `outcome` | a coroutine's place in `worker()` and `_run_scenario()`, and its locals; `pending` is a retry that has not got its world yet |
| `results` | `results[index]`: none, a receipt for attempt 1 or 2, or skipped |
| `abort` | `abort_holder[0]`, reduced to the kind of failure domain it holds |
| `holder`, `recovering` | the pool, as in `PoolView`: who has each world, and whether a reconcile is in flight or pending |
| `fenced` | `pool.fenced` |
| `channel`, `racing` | the latched `ChannelState`; the scenarios whose receipt was already past the adapter's own check when it latched |
| `phase`, `cut`, `cancelled` | `run()`, then `emit_skipped_receipts()`, then over; the skipped receipts were cut short; the cancel signal |
| `receipts`, `retried`, `ran` | history: what was handed to the port, announced and started |

`Port` chooses between any `OutboundPort` whose calls raise one of
`_FATAL_OUTBOUND` from the moment the channel is dead, and the repository's
adapter: an event is only spooled, a receipt is pushed, 401/403 and an exhausted
channel are absorbed by `_guarded`, a superseded attempt is returned as an error,
and only a receipt already under way when another one latched `superseded`
raises.  The adapter's fence counts as a cancel.  With the adapter the job may also
end by `RunEndsUnspooled`: the spool raises under the terminal event (HE:2328) or its
flush (HE:2345), and no skipped receipt is tried.

The scheduler and the pool are composed by rely and guarantee.  `PoolView` gives
each step of either side: what the pool does (`Start`, `Grant`, `Lose`,
`Reschedule`, `Restore`, `Recovered`) and what its users do (`Return`, `Discard`).
`ImplementsView` says that `WorldPool`, with clients that hold one world at a time
and give back their own, takes no other steps; `KeepsPoolProtocol` says that the
scheduler's coroutines are such clients and are shown no pool that could not be
one: `LeaseGrants` is a `Grant`, `LeaseLosesWorld` a `Lose`, `ReleaseWorld` a
`Return`, `DiscardWorld` a `Discard`, `ReconcileRestores` a `Restore`.  Writing the two
together corrected the scheduler's pool: `start()` may leave worlds down, a pass
may bring some of the worlds back and go on, and a demotion whose pass has ended
before its task is created starts another (`ReconcileScheduled`).

Abstractions: the phases inside `_execute` are one choice of outcome (verdict,
errored, a spoiled world, retryable, retryable because the world failed, an
exception of the driver); ordinary exceptions of the audit log and of emission
are swallowed by the code and appear as returns; the pool keeps its size.

### 2.3 Outbound

| State | Code |
|---|---|
| `log` | the records of `events.spool.jsonl`, a set ordered by sequence number |
| `watermark` | the watermark file, written and fsynced with a rename |
| `nextSequence`, `poisoned` | the spool's fields; a crash loses the first and `_recover` finds it again from the log, else from the watermark |
| `emission[e]` | how far `_emit_event` is with an event: checked and handed to a thread, spooled, failed, dropped, or lost with its process |
| `terminalEmitted`, `terminalSequence`, `terminalRejected` | the adapter's fields |
| `channel` | the shared `ChannelState` latch with `_fence` ("fenced"), or closed for another reason ("failed") |
| `flush[f]` | the flush a thread is in: the mark and offset looked up, the batch, its attempts, the answer |
| `main`, `before`, `verdict` | the end of the job on the event loop: terminal, skipped receipts, drain rounds; how `run_job()` ended |
| `processed`, `refused` | the platform: the records it has processed and the events it refuses |
| `misread`, `gapped` | history: a flush has read something else than the records above its mark; a crash has fallen between a `drop_many` and its watermark |

An append writes and fsyncs the record, for a new file fsyncs the directory, and
only then moves the allocator (OB 1327); a failing write is rolled back, and a
failing rollback poisons the spool (`Appended`, `AppendRefused`, `AppendPoisons`,
`AppendUnsynced`).  A flush is cut into the lookup under the lock (`FlushBegin`),
the read of the file without it (`FlushRead`), the request with its retries
(`FlushAnswered`, `FlushAckMissing`, `FlushAnswerLost`, `FlushFailed`,
`FlushHalved`, `FlushLatches`) and the answer: `drop_many` (`FlushDropped`),
`advance_watermark` with its clamp (`FlushAdvanced`, `FlushUntrusted`), the
refusals reported to the coroutine that awaits them (`FlushReported`).  Receipts
flush on several threads at once, and the drain loop on one more.  The platform
is external code, modelled after the `FakePlatform` of the repository's tests: it
acknowledges the highest number it has processed, and names the events it refuses
each time it is sent them.
An acknowledgement outside the trusted range stands as −1.  `OtherClientLatches`
is what the clients of receipts and artifacts do to the shared latch.

Three steps of the code break what it promises, and all are in every run.  A flush
may read at an offset that another flush's `drop_many` has moved since it was looked
up (`Moved`: OB:1376, 1498, 2238), and the process may die between `drop_many` and
`advance_watermark` (`GapOpen`: OB:2413).  The history variables `misread` and `gapped`
tell when one has.  And the end of the job reads the fence twice, `DrainEnds` (HE:1898)
and then `Exit` (HE:1274), with other threads between.  `NoEventSkipped` and
`ExitZeroIsDelivered` are violated (section 4), and the passing run and the proofs show
that nothing but these steps violates them (`SkipsOnlyByFlaw`,
`ExitZeroLiesOnlyByFlaw`).

The abstract `EventStream` is one sequence of events that grows at its end, and
the length of a prefix the platform has closed that only grows.

### 2.4 TelemetryQueue and RunLedger

| State | Code |
|---|---|
| `queue`, `pending`, `dropped`, `worker` | the queue's `_queue`, `_pending`, `_dropped` and `_worker` |
| `call`, `thread`, `flush` | where each `record_run` or direct append, each worker thread and the `flush()` call is |
| `file`, `head` | the readable rows of `runs.jsonl`, each an address and a chain digest; `chain.head` |
| `torn` | whether a line of the file was cut short: its last one (`"tail"`), one further up (`"line"`), none |
| `append[w]` | an `append()` between its read of the head, its write of the row and its write of the sidecar |
| `accepted`, `lost`, `lostDrops`, `owed`, `raced`, `stale` | history: what the queue took, what a fault or crash took away, what `flush()` must wait for; two appends overlapped; the numbers of the rows written without their sidecar |

One action is a critical section of the queue's lock, an operation of
`queue.Queue`, or a touch of the disk.  `Put`/`Drop` then `Ensure` are
`enqueue()`, whose check of the worker is outside the section that put the row;
`Take`, `Claim`, `Handle`, `HandleHead`, `HandlerRaises`, `Settle` and the two
steps of `Park` are the worker with the handler it calls; a thread that has found
the queue empty is alive until it has returned (`"parking"`).  `DirectBegins` to
`DirectEnds` are the callers that append around the queue (TR:145, `runs forget`).
A write that raises, or a crash in it, may leave some of the line: the next append
continues that line (`AppendMerges`, `HandleMerges`), returns as if all were well,
and nobody can read its row.
SHA-256 is taken to be injective: a digest is the sequence of addresses it hashes.

### 2.5 CircuitBreaker and ResilientBackend

`circuit`, `failures`, `successes`, `halfOpenRequests` and `results` are the
breaker's fields.  Time is one flag, `waited`: `timeout_seconds` have passed since
`_last_failure_time`.  Admission and recording hold the breaker's lock, the call
between them does not.  `probing` and `wasted` are history: the calls in flight
that this half-open episode admitted, and how many of its calls ended without
recording (an excluded exception, a `BaseException`).  `Starved` is that fewer probes
may still record than `success_threshold` asks for, by the configuration or by
`wasted`.  A caller of `submit()` takes a token (`Acquire`) or
goes to the fallback (`Limited`), is admitted or refused, calls, records, and
sleeps and tries again or ends.  The limiter's bucket counts whole tokens;
`Refill` is the passing of time, and the limiter's `reset()` is several of them.
`calm` is set by a step that may happen at any moment and after which the backend
answers and no operator touches the breaker; it is only there to state `Recovers`.

### 2.6 RepairLoop

One action is a round of `validate_and_repair` up to the answer it needs: `Certify`,
`Stop`, `Reject`, `Retry`, `Recompile`, `AskForPatch`, the outcomes of a repair
(`RepairApplied`, `RepairFailed`, `PatchRaises`, `CorrectScenarios`), and
`AskLegacy`/`RaiseLegacy` for the loop without a controller.  `mode` is the
generic flag with `readiness_only`.  `used`, `retries`, `signatures`, `decisions`
and `results` are the controller's counters and histories; a signature is the
candidate with the diagnostics, as in the code.  What a validation reports and
whether a repair changes the candidate are choices.

### 2.7 CallerBargeIn

An action is what one task of the event loop does between two awaits, in the mode
where the target transcribes itself.  `active`, `gate`, `turn`, `pending`,
`preparation`, `candidate`, `play`, `finishing` are the controller's fields
(preparations and lines are the number of explanations heard when they began, which
is all that freshness needs); `stream[n]` is where the handler
`_forward_target_transcription` of a transcription stream is, `of[n]` the turn it
belongs to; `speaking` is the session's own reply; `closing` is how far `close()`
is.  A reply that comes out silent makes a follow-up (`Holds`: `_on_hold`,
`_on_unspoken`), which sleeps (`checking`) and makes the caller speak if no message has
come and the session is not busy (`CheckIn`: `_still_there`, `_answer_aloud`); `crossed`
is the history that one did while an interjection had been decided on and had no
frame yet.  A handler that waits for an interjection is woken by its end (`"woken"`), or
sees the cancellation of the playout as its own (`"broken"`).  `Awake` assumes
that a woken handler, which is in the event loop's ready queue already, runs before
a stream that opened later has been read up to the gate and its interjection has
slept.  `Overlap` says whether a stream may open while the
handler of an earlier one still waits.

## 3. Properties and runs

Every passing run is exhaustive for its constants.  Each property of each
passing run has a mutant, a plausible bug under which TLC finds it violated.

| Run | Instance | Shows |
|---|---|---|
| `pool_process` | process provider, 2 worlds, 2 clients × 2 leases, 1 fault, 2 attempts | `LeaseExclusive`, `RecoveryOwed`, and the pool implements `WorldLease` |
| `pool_faults` | broker client, whose session may be lost, 2 clients × 1 lease, 3 faults; 1,107,131 states | `TypeOK`, `EveryWorldAccounted`, `ClosedProviderUntouched`, and the pool implements `PoolView` |
| `pool_live` | process provider, worlds in use may fail, shared engine respawned, 1 fault, fair; 129,579 states | `EveryWorldAccounted`, `LeaseReturns`, `CloseCompletes` |
| `compose_revived` | compose provider, no faults | finding 1 |
| `sched_raising` | raising port, 2 scenarios, 2 worlds, 1 lost world, fair; 1,764,028 states | `LedgerComplete`, `SkippedNeverRan`, `WorldsReturned`, `KeepsPoolProtocol`, `NoLaunchOnceDead`, `RunCompletes` |
| `sched_adapter` | adapter, 3 scenarios, 1 world, 1 lost world; 2,508,493 states | `OneReceipt`, `LedgerComplete`, `ReceiptNamesLastAttempt` |
| `outbound` | an event and the terminal, 3 flushing threads, batches of 2, 2 attempts, 1 crash, 1 file system fault, fair; 274,214 states | `TypeOK`, `SkipsOnlyByFlaw`, `OneEventPerSequence`, `ExitZeroLiesOnlyByFlaw`, `JobEnds`, and the channel implements `EventStream` |
| `spool_gap` | 2 events and the terminal, a crash | finding 2 |
| `telemetry` | 3 rows, queue of 1, 2 worker threads, 1 direct append, 1 fault or crash, lines cut short, fair; 1,501,544 states | `BreaksOnlyWhereStale`, `NothingLostOrReordered`, `DropsAccounted`, `FlushIsHonest`, `FlushReturns` |
| `breaker` | 2 callers, thresholds of 2, 3 probes, window of 3, 1 retry, 1 token, fair; 436,908 states | `HalfOpenDecides`, `ClosedBelowThreshold`, `Recovers`, `SubmitReturns` |
| `repair` | 2 candidates, reports of 2 diagnostics of any of 7 kinds, budgets of 1; 47,406 states | `NeverExhausted`, `EachQuestionOnce`, `OnlyLastUnanswered` |
| `barge_in` | 4 transcription streams that may overlap, follow-ups; 2,107,784 states | `OneVoice`, `QuietOnceClosed` |

**Bounds.**  *Pool.*  Two clients and two worlds are the least at which two
leases, a lease and a reconcile, and a retry that must leave one world out can
meet; the proofs remove the bound for the properties they cover.  `MaxLeases` 2
lets a client come back with a world excluded and find what its first lease left.
`MaxAttempts` is 2 where the code has 3: two attempts have a first, a last and a
backoff between them.  `MaxFaults` bounds failures in one behaviour, since
without it every lease may fail for ever; the reconcile's give-up needs as many
faults as attempts, which `pool_faults` has.  *Scheduler.*  Three scenarios on one
world make two retries compete for the one world that both must reuse; two
scenarios on two worlds make a retry change worlds.  *Outbound.*  Three threads
let two flushes cross while the drain loop makes a third; a second try of a
request may follow an answer that was lost; batches of two are halved.  The
safety properties were also checked with two events and the terminal
(`Events = {e1, e2, t}`, `MaxAttempts = 1`: 1,485,746 states), and are proved for
any number.  *Telemetry.*  A queue of one row is full as soon as the worker is
slow; with three rows a drop, a gap row and a row after it all occur; two thread
numbers let a new worker start while the old one is still returning.  *Breaker.*
Two callers are the least at which a result of one episode is recorded in the
next; a window of three is longer than the failure count that trips; three probes over
a threshold of two leave room for one that records nothing.  *Repair.*
Two candidates are enough for a repair to go back to a candidate it came from; a
budget of one makes every exhaustion happen.  The proofs cover all budgets.
*Barge-in.*  Each stream is opened once, so four streams make up to four turns,
two of them overlapping the handler of a third.

**Deadlock** is not checked in the runs of the pool, of the outbound channel, of
telemetry and of the barge-in, because the program stops there too: clients make
`MaxLeases` calls, the job is over, there is no row, the call is closed.  That
nobody waits for ever is `LeaseReturns`, `CloseCompletes`, `JobEnds` and
`FlushReturns`.  The scheduler, the repair loop (only what is over may stop,
`Done`) and the breaker check it.

**Fairness.**  *Pool.*  The event loop runs every ready coroutine (weak fairness
per client and task); calls of the provider end, as they have timeouts; a
scenario gives its world back, as its phases have timeouts; `asyncio.Lock` wakes
its waiters in order, so a waiter that finds the provider lock free again and
again gets it (strong fairness of the actions that take it).  Nothing is assumed
of faults, of `Cancel`, of `Request` or of `Close`.  *Scheduler.*  The same; a
reconcile ends because its attempts are bounded (`ReconcileEnds`).  *Outbound.*
The event loop runs the end of the job (`MainStep`) and a thread that is in a
flush goes on (`FlushStep`), as requests have timeouts; no receipt has to come
and no event has to be emitted.  The window that would cut the end of the job
short is never assumed to pass, so `JobEnds` does not rest on it.  *Telemetry.*
Worker threads run, and so does the thread in `flush()`; the deadline of `flush()`
is never assumed to pass, so `FlushReturns` says that the queue drains.
*Breaker.*  Callers submit and their calls end; the bucket refills and time
passes.  Nothing is assumed of health checks, operators or `CalmBegins`.

**Why these properties.**  `EveryWorldAccounted` is the one the pool's comments
worry about most (HS 1204–1209): an index in none of the sets makes every later
lease poll for ever.  `RecoveryOwed` is about the window between
`mark_unhealthy`'s critical section, the report of the world, and the creation
of the reconcile task, while another reconcile ends.  `ImplementsView` is the
same window seen by a waiting lease, which gives up on a pool that is down with no
recovery on its way; with `KeepsPoolProtocol` it makes the scheduler's results
results about the scheduler over the real pool.  `ReceiptNamesLastAttempt`
is about the retry that is announced, or not, when the job is stopped between
its first attempt and its second world.  `LedgerComplete` relates the end of the
job to every way a scenario may have ended.  `NoEventSkipped` relates what the
adapter was told (the append returned) to what the platform ever sees, across
concurrent flushes, lost answers, rollbacks and restarts; `OneEventPerSequence`
is the other half, since a number used twice is acknowledged unsent.
`ExitZeroIsDelivered` relates the exit code to the platform's state.  The code keeps
neither of the two unconditionally; `SkipsOnlyByFlaw` and `ExitZeroLiesOnlyByFlaw` say
that three steps (section 4: the gap, the misread, the fence between two reads) are
the only ones that break them.  `BreaksOnlyWhereStale` is what a break that `verify()`
reports may be believed for, across appends that raise and crashes between a row and
its sidecar; `NothingLostOrReordered` and `DropsAccounted` are the two promises of the queue,
kept across workers that park, raise and die.  `HalfOpenDecides` is the wedge a
breaker's half-open limit can cause: no more probes admitted, none in flight; it and
`Recovers` leave out the one way that section 4 shows (`Starved`).
`NeverExhausted` is the comment that the rounds of the repair loop are a bound no
policy reaches; `OnlyLastUnanswered` follows decisions and results to every end of it.
`OneVoice` is the caller's reply and interjection meeting,
through any order of ends, wakings, preparations, check-ins and overlaps, with the
one exception that section 4 shows (`crossed`).

## 4. What the checks found

1. **`compose_revived`** (CC 1200): `healthy()` of the compose provider writes
   READY on a world that was demoted after the reconcile's `provision()`; it is
   put in `_fresh` and granted with the last scenario's data.
2. **`spool_gap`** (OB:2413): `drop_many()` removes the refused records before
   `advance_watermark()` covers them.  A process that dies between the two recovers
   its allocator from the log, behind a number the platform has closed; the next
   event is spooled under that number and acknowledged away without being
   processed, although OB:1034–1036 says that the maximum taken at recovery
   "never skips a record".

The lines of the repository that say otherwise are quoted in `PROJECT.json`.

Further observations have no run of their own.  Those TLC shows are given with
the property it finds violated and the constants that show it; the rest were met
while reading.

*Pool and scheduler*

* With `Provider = "broker"`, `GrantPristine` and `ProvisionCanSucceed` fail: a
  demotion is written on the client's copy of the runtime and never reaches the
  broker (CB 503), and a failed `provision()` drops the broker's session while the
  client keeps the old id, so all retries are refused (CB 324).
* With `HeldWorldsMayFail = TRUE`, `HolderUndisturbed` and `ImplementsLease` fail: a
  failed probe of a world in use demotes it, and the next `provision()` rebuilds it
  under the scenario that holds it (PR 7611).  The other safety properties hold
  there (`MaxLeases = 2`: 2,363,848 states).
* A spool that raises under the terminal event, or under the flush before the skipped
  receipts, leaves the scenarios that never ran without a receipt (HE:2328, 2345, 2370):
  `LedgerComplete` allows for it (`cut`).
* With `Port = "adapter"`, `NoLaunchOnceDead` fails: the adapter absorbs an
  exhausted or superseded channel and nobody sets `pool.fenced`, so waiting
  scenarios are still launched (HE 1330), although HS 1700 says that none may start.
* With a provider that grows the pool, a world whose first probe fails is put in
  `_runtimes` and in neither `_available` nor `_down` (HS 1413); none of the three
  real providers grows a pool.
* An abandoned retry overwrites `abort_holder` with its own failure
  unconditionally (HS 2061), where a first lease does so only for a more precise
  one (HS 2046).

*Outbound*

* `NoEventSkipped` fails without any crash or fault (`Events = {e1, e2, e3, e4, t}`,
  `Flushers = {f1, f2, main}`, `BatchSize = 2`, `MaxAttempts = 1`, `MaxCrashes = 0`,
  `MaxFaults = 0`, constraint `OneRefusal`; 23 steps): a flush looks an offset up under
  the lock and reads the file after another flush's `drop_many` has rewritten it
  (OB:1498), so it may start past records it should return, and the acknowledgement of
  what it did send closes them unsent.  OB:1376 assumes that reads and rewrites are not
  on two threads, while every receipt flushes on a thread of its own (HE:1621).
* `ExitZeroIsDelivered` fails with `Events = {t}`, `Flushers = {f1, main}`,
  `BatchSize = 1`, `MaxAttempts = 1`, no crash and no fault: `drain()` reads the fence
  (HE:1898), and `terminal_undelivered` reads it again and answers False when there is
  one (HE:1274).  A worker thread that latches it in between makes the exit code 0 over
  an undelivered terminal.
* A crash in the gap of finding 2 breaks `OneEventPerSequence` and the refinement of
  `EventStream` too: the number the platform has closed is given to a second event,
  and when the first was processed under it two events share it.  Both properties
  stop at such a crash (`gapped`); a misread breaks neither.
* `terminalRejected` is set by the coroutine that awaits a flush.  One that was cut by
  the window leaves a thread that hears the refusal of the terminal and tells nobody
  (HE:1267, 1423), so exit code 0 says that the terminal was processed, not that it was
  accepted.
* An event that passed `_emit_event`'s checks before `emit_terminal()` may be appended
  after the terminal (HE:1345, 1350).
* An untrusted acknowledgement that comes with refusals has dropped their records
  before the clamp is tried, and the result then names none of them.
* A directory fsync that failed is not tried again by the next append, as the file
  exists by then.

*Telemetry*

* `StaleHeadRescanned` fails with `Writers = {1}`, `Threads = {1}`, `Direct = {}`,
  `MaxRows = 3`, `MaxSize = 3`, `MaxFaults = 1`: `_last_state()` believes any digest in
  `chain.head` (LE:79), so a row whose sidecar was not written is followed by one chained
  to the row above it, and `verify()` fails with one writer; LE:75 says that a stale
  sidecar is scanned past.  `BreaksOnlyWhereStale` bounds the damage to that one link.
* A row, or a gap row, that is appended behind a line cut short is lost although its
  `append()` returned (LE:119–121 writes no newline first): `lost` counts it.
* Appends around the queue (TR:145, `runs forget`, `src/src/fi/alk/cli.py:6338`)
  race with the worker: the history `raced` is what `BreaksOnlyWhereStale` leaves out,
  with `torn`.
* A handler whose append raises loses the row and the drop count it had claimed.
* A row enqueued while the worker is returning waits for the next `enqueue` or
  `flush`.

*Resilient backend*

* `BackendRecovers` fails under `FairSpec` with `HalfOpenMax = 2`, `MaxRetries = 0` and
  otherwise the constants of `breaker.cfg`: a probe that ends without recording anything
  uses up a slot of `half_open_max_requests` (BR:137).  With the defaults, three
  successes out of three, one such probe leaves the breaker half-open, refusing every
  call, until somebody calls `reset()`.
* A `success_threshold` above `half_open_max_requests`, which nothing rejects
  (`src/src/fi/evals/framework/resilience/types.py:116`), makes the breaker stuck
  with no such probe: it is `Starved` from the start.
* A late result of an earlier episode is counted in the present one, and probes in
  flight may exceed the maximum across episodes.
* The flags that choose when to fall back are not read where the exceptions are
  caught (WR:226–231); `stop()` and `start()` of the health checker may leave two
  loops running; `_get_backend_for_handle` routes by backend name, so of two
  backends with one name the fallback gets every handle.
* `cancel()` of a pending task in `src/src/fi/evals/framework/backends/thread_pool.py:207`
  takes the non-reentrant lock its own done-callback takes (line 119).

*Repair loop*

* `PersistedHistoryComplete` fails with the constants of `repair.cfg`: a runtime plan
  patch that cannot be applied, or the last correction of a scenario repair, ends the
  loop by an exception with a decision in the history that has no result (ARV:1783).
  `OnlyLastUnanswered` says that it is the last one, and the only one.
* The branch for `readiness` with `PATCH_SCENARIOS` (ARV:1680) cannot be
  reached.

*Barge-in* (`MaxStreams = 3`)

* `OneVoiceEver` fails with `Overlap = FALSE`: a check-in asks whether the session is busy,
  and an interjection is not the session's (LK:1278, also 1242).  One that has been
  decided on and has no frame yet is not seen, and the caller speaks with two voices.
* `AnsweredOnce` holds with `Overlap = FALSE` (35,054 states) and fails with
  `Overlap = TRUE`: a handler that waited asks about the turn of a later stream
  (CBI:481 against CBI:477, LK:726–727).
* `FillerKeepsLine` fails: the handler's `finally` ends the target once more, and the
  line kept through a short filler is dropped (LK:3666 against CBI:467).
* `LineIsFresh` fails: a line whose preparation began before the target's explanation
  ended is still stored after it (CBI:394 against CBI:468 and 305).
* `CapturedTurnsCount` fails: an interjection cut after its timeout cancels the
  handlers that wait for it, and a captured turn is reported as
  "target_transcription_cancelled", which fails the call (CBI:497, LK:3655, LK:3229–3236
  against LK:3573–3574).

## 5. What is proved

The theorems hold for every number of worlds, clients, scenarios, events,
threads, rows, callers, candidates and streams, every provider or port that their
statement admits, and every value of the bounds.

`WorldPoolProofs` assumes `InstancesAssumption`, `ClientsAssumption` (a client is
none of the names of the pool's tasks, nor "free" or "down"), `ProviderAssumption`,
`BoundsAssumption` and `FlagAssumption`.

| Theorem | Property | Argument |
|---|---|---|
| `TypeCorrect` | `TypeOK` | `TypeInv`: `attempt` is at most `MaxAttempts` only because the pass goes to `backoff` below it, so the invariant adds the bound at `"backoff"` |
| `LeaseIsExclusive`, `IndexSetsApart` | `LeaseExclusive`, `IndexSets` | `LeaseInv`: a client at work has its world in `leased`, two such clients have different worlds, the index sets are disjoint, and before `start()` no one has asked for anything.  Exclusion alone is not inductive: `LeasePick` needs that `available` and `leased` are apart |
| `RecoveryIsOwed` | `RecoveryOwed` | inductive with the types; `ScheduleReconcile` and `LoopCheck` are the steps that end a claim, and each passes it on |
| `NothingCallsAClosedProvider` | `ClosedProviderUntouched` | `PortInv`: a call in flight has the provider lock, the lock has one holder, and once the teardown has stopped waiting there is no reconcile and none is created; the re-check of `_closed` under the lock is what makes it inductive |
| `WorldsAreAccounted` | `EveryWorldAccounted` | for the three providers of the repository, which keep their number of worlds.  `AccountInv` adds to `LeaseInv` that a world in `leased` has a client at work on it until the pool is closed, that calls in flight are about worlds that have a runtime (so none brings a world into being), and that the broker's `provision()` returns every world |
| `PoolImplementsLease` (`WorldLeaseProofs`) | `ImplementsLease` | for the process provider with `HeldWorldsMayFail` off.  `CleanInv` adds to `AccountInv` and `PortInv` that a world in use stays READY (so no reconcile rebuilds it), that a world the reconcile finds PREPARING, or READY while it is down, is clean, and that a world past its reset, or in `_fresh`, is clean; then each client action is one action of the lease or a stutter |
| `GrantsArePristine`, `HoldersUndisturbed` (`WorldLeaseProofs`) | `GrantPristine`, `HolderUndisturbed` | for the process provider with `HeldWorldsMayFail` off: read off the refinement (`StepOfLease`), since a grant is an `Acquire` of a clean world and a `Restore` is of a free one.  They are what finding 1 and the observations of section 4 show to fail with the other providers |
| `PoolImplementsView` (`WorldLeaseProofs`) | `ImplementsView` | for every provider but `protocol`, with every fault and `HeldWorldsMayFail` on or off.  `ViewInv` is `AccountInv` with `HandedOutExist`.  Every step changes the view at one world at most (`ViewOfClient`), but for the state section of a pass, which only moves worlds out of `down` (`ViewOfInstall`): that needs that no world loses its runtime (`NothingGone`), which is what excludes `protocol` |

`HostedSchedulerProofs` assumes `WorldsAssumption`, `PortAssumption`,
`FaultsAssumption` and `NamesAssumption`.

| Theorem | Property | Argument |
|---|---|---|
| `SchedulerTypes` | `TypeOK` | |
| `WorldsAreReturned` | `WorldsReturned` | inductive with `TypeOK`: both directions are needed, since a release is right only if the world is the scenario's |
| `ReceiptAtMostOnce`, `LedgerIsComplete` | `OneReceipt`, `LedgerComplete` | `ReceiptInv`: before a scenario ends it has no receipt and no result; a result goes with one receipt, and a receipt without a result has fenced the pool; receipts for skipped scenarios start only when every coroutine has ended and the pool is not fenced; a scenario without one, where they were cut short or never tried, has not run |
| `ReceiptsNameLastAttempt`, `SkippedHaveNotRun` | `ReceiptNamesLastAttempt`, `SkippedNeverRan` | `AttemptInv`: the attempt number follows `pending` and `retried`, and a scenario that ends without a result was never started |
| `PoolProtocolKept` | `KeepsPoolProtocol` | rests on `WorldsReturned`: a scenario that is granted a world has none, and one that gives a world back has that world |
| `DeadChannelLaunchesNothing` | `NoLaunchOnceDead` | for the raising port: `Latched`, a dead channel has fenced the pool; section 4 shows that the adapter needs the hypothesis |

`OutboundProofs` assumes `EventsAssumption`, `TerminalAssumption`, `MainAssumption` and
`BoundsAssumption`.  Misreads, and crashes at every step, are steps of the
specification; each theorem names in its property the steps after which it promises
nothing.

| Theorem | Property | Argument |
|---|---|---|
| `TypeCorrect`, `NothingSkipped`, `NumbersAreUnique`, `ExitZeroDelivered` | `TypeOK`, `SkipsOnlyByFlaw` (until a misread or a crash in the gap), `OneEventPerSequence` (until a crash in the gap), `ExitZeroLiesOnlyByFlaw` (until either, or a fence) | one invariant of three parts, kept by every step but a crash in the gap (`Invariant`).  `LogInv`: no two records written or processed share a number; the allocator is past every record, but for the last one of a failed append; and, until a flush has misread, a record below one the platform has processed is processed itself, so that the watermark never exceeds what it has processed.  `FlushInv`: a batch is of known records, and until a misread it has no hole above its mark.  `EndInv`: from the latch on, the terminal's record exists under `_terminal_sequence`.  `NoEventSkipped` alone is not inductive: that an acknowledgement of n closes all below n rests on batches without holes, and these on the order in which refused records leave the log |
| `ChannelIsOneStream` | `ImplementsStream` | adds `Numbered`: the number before the allocator has its record.  An append then makes the stream exactly one event longer, a batch only closes more of it, and records that leave the log are known to the platform.  Two steps need care: the record of a failed append becomes known when a poisoned spool still sends it, or when a restart finds it, and is the next event in both; and a restart finds the allocator right behind the last known record unless it fell in the gap, where the theorem stops |

`TelemetryProofs` assumes `WritersAssumption` and `SizesAssumption`.

| Theorem | Property | Argument |
|---|---|---|
| `TypeCorrect` | `TypeOK` | |
| `ChainKept` | `BreaksOnlyWhereStale` | `ChainInv`: while no appends have overlapped there is one at a time; while moreover no line was cut short (`Sound`) what the next append would read is the digest of the last row, unless that row is one of `stale` or the append between its two writes is under way, and every row is linked to the one above or right below a stale one |
| `RowsInOrder` | `NothingLostOrReordered` | `OrderInv`, on top of the invariant below: the queue is the tail of what was accepted (`Suffix`), a thread holds at most the row just before it, that row waits until its line is written, its append raises or its line merges into one cut short, and so do all the queued ones (`HandOrder`, `LaterWait`); so each line written is of a row later than every row of the file.  `IdKept` ties an append under way to the row, or to the drop count, that its thread holds |
| `DropsCounted` | `DropsAccounted` | the property is inductive with `IdKept` and `OneWorker`; each step moves drops between the counter, the worker's hand, the ledger and what is lost.  That one gap row more adds its count to a sum defined by recursion over sets (`GapAppended`) is proved by taking a smallest subset on which it fails (`FiniteMinimal`): strict inclusion is well-founded on finite sets |
| `FlushHonest` | `FlushIsHonest` | `QueueInv`: only the worker is alive (`OneWorker`), so `pending` is the length of the queue and the row in hand (`PendingExact`), and an accepted row is queued, in hand, written or lost (`Placed`); a row merged into a line cut short is lost while its append still runs |

`ResilientBackendProofs` assumes `ThresholdsAssumption`, `SubmitAssumption` and a
finite set of callers.

| Theorem | Property | Argument |
|---|---|---|
| `TypeCorrect`, `ClosedHoldsFew` | `TypeOK`, `ClosedBelowThreshold` | a failure that reaches the threshold opens the breaker in the same critical section, and every way to close it forgets them |
| `EpisodeDecides` | `HalfOpenDecides` | for every configuration.  `Counted`: the probes an episode admitted are at most its successes, its calls in flight and the calls that recorded nothing (`wasted`), so a full episode with none in flight has `SuccessThreshold` successes and would have closed, unless it is `Starved` |

`RepairLoopProofs` assumes `BudgetsAssumption`.

| Theorem | Property | Argument |
|---|---|---|
| `BoundSuffices` | `NeverExhausted` | `RoundsCounted`: the rounds are at most the repairs spent, times one more than the retry allowance, plus the retries of the present candidate; with slack for one allowance while a repair is out, as it may bring a candidate whose retries are used up.  `LegacyCounted` is the same for the loop without a controller |
| `NeverAsksAgain` | `EachQuestionOnce` | `QuestionsSigned`: every question asked has left its signature, and there are as many as repairs spent |
| `HistoryComplete`, `TypeCorrect` | `OnlyLastUnanswered`, `TypeOK` | `ResultsFollow`: decisions run ahead of results by at most the one under way |

`CallerBargeInProofs` assumes `CallAssumption`.

| Theorem | Property | Argument |
|---|---|---|
| `SpeaksWithOneVoice` | `OneVoice` | `DecidesAlone`: an interjection is decided on only while the target speaks and nothing plays; `WokenInSilence`: between the wake of a handler and its step no playout begins, so its reply meets none; `WaitsForLife`: a handler waits for a playout that is alive; `MessageSilences`: once an interjection has its first frame no check-in waits any more, since its message is one |
| `QuietAfterClose` | `QuietOnceClosed` | `OverIsOver`: from `close()` on the target is not active and nothing is pending |

Only model-checked: the liveness properties `LeaseReturns`, `CloseCompletes`,
`RunCompletes`, `JobEnds`, `FlushReturns`, `Recovers` and `SubmitReturns`, which rest
on fairness and on ENABLED and are outside what the proof system does.

## 6. Not modelled, and why

* The contents of worlds, calls, verdicts, events, rows and repairs: the
  properties distinguish only whether a world was used, how a call ended, which
  event has which number, and whether a candidate changed.
* Pool: world failure codes (`_down_codes`) beyond whether an exhausted pool
  reports a generic or a typed cause.
* Providers: building, spawning and port planning, operating-system I/O whose
  result is the state the provider leaves a world in.
* Spool: `compact_through` (which only tests call), `close` and `fork`, the lengths of records, files damaged by others; a second process that
  starts after the terminal was acknowledged; the contents of receipts, artifacts
  and the manifest, and their own clients beyond the latch; `HostedConversation`.
* Telemetry: the sync cursor, a thread that cannot be started, the row count kept
  beside the head.  A line whose newline alone is missing counts as cut short: it
  would still read as a row until the next append joins it.
* Resilient backend: the blocking limiter, `get_result`, the thread of the health
  checker (its read of the breaker is `HealthCheck`), the fallback chain (built
  and never called), the local thread-pool backend.
* Repair: what a validation runs, the model that repairs, certificates and files.
* Simulation: the audio-gated mode of the caller and `on_user_turn_completed`,
  what an interjection says, the rest of the call engine.
* The phases of one call (`_execute`, `call_runner.py`), whose outcome is a choice
  in `HostedScheduler`.
* Metrics, guardrails, optimizers, authoring, product surfaces, CLI, API and
  TypeScript clients: sequential, pure, or calls of models and services.  They are
  most of the repository's lines and keep no state that two actors share.

## 7. Plan

Done: the pool with its abstract lease, the scheduler over the pool's abstract
view, the outbound channel with
its abstract stream, telemetry, the resilient backend, the repair loop, the
barge-in, and their proofs.  Next, in order of importance:

1. The phases of one call, with the turn timeouts and the hang-up that races the
   agent's speech.
2. The clients of receipts and artifacts: the artifact budget and the superseded
   attempt.
3. The local thread-pool backend of the evaluations, and its cancel.

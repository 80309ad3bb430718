------------------------------- MODULE WorldPool -------------------------------
(***************************************************************************)
(* The hosted harness's pool of worlds: class WorldPool of                 *)
(* src/src/fi/alk/harness/hosted_scheduler.py, with the three providers    *)
(* that stand behind its provider port.                                    *)
(*                                                                         *)
(* Clients are scenario workers.  Each `await' is a point where another    *)
(* coroutine may run, so one action is the code between two awaits; the    *)
(* provider's calls run on worker threads, so a call in flight is cut      *)
(* where it reads and where it writes a world's `state' field.  Clients,   *)
(* the reconcile task and the teardown task each have a program counter.   *)
(*                                                                         *)
(* The provider (constant Provider):                                       *)
(*   "process"   process_runtime.py: hands out live objects; its healthy() *)
(*               may only demote                                           *)
(*   "compose"   certified_compose_runtime.py: live objects; its healthy() *)
(*               writes READY or UNHEALTHY                                 *)
(*   "broker"    compose_broker.py: a client of a compose provider in      *)
(*               another process; every provision returns new copies       *)
(*   "protocol"  any provider the WorldProvisioner Protocol admits, as the *)
(*               repository's tests write them: each provision returns new *)
(*               objects for any non-empty set of indices                  *)
(***************************************************************************)
EXTENDS Naturals, FiniteSets

CONSTANTS Instances,         \* worlds the job asked for
          Clients,           \* scenario workers that lease worlds
          Provider,          \* which provider stands behind the port
          HeldWorldsMayFail, \* a world in use may fail its readiness probe
          MaxAttempts,       \* _RECONCILE_MAX_ATTEMPTS
          MaxLeases,         \* bound: lease() calls per client
          MaxFaults          \* bound: provider faults in a behaviour

Providers == {"process", "compose", "broker", "protocol"}
Tasks == {"none", "reconcile", "teardown"}

ASSUME InstancesAssumption == Instances \in Nat \ {0}
ASSUME ClientsAssumption == Clients \cap (Tasks \cup {"free", "down"}) = {}
ASSUME ProviderAssumption == Provider \in Providers
ASSUME BoundsAssumption == /\ MaxAttempts \in Nat \ {0}
                           /\ MaxLeases \in Nat
                           /\ MaxFaults \in Nat
ASSUME FlagAssumption == HeldWorldsMayFail \in BOOLEAN

Worlds == 0 .. Instances - 1

\* RuntimeState, and "absent" for an index that has no runtime object.
States == {"absent", "preparing", "ready", "unhealthy", "stopped"}

ClientPc == {"idle", "top", "wait", "toReset", "resetting", "toProbe",
             "probing", "verdict", "demote", "schedule", "hold",
             "reschedule", "refused"}
ReconcilePc == {"off", "start", "toProvision", "ensuring", "polling",
                "backoff", "giveUp", "toProbe", "probing", "install", "check"}
TeardownPc == {"none", "await", "toClose", "closing", "done"}

VARIABLES
  \* the pool's own fields
  started, closed, available, leased, down, fresh, pending,
  state,      \* state field of the object in _runtimes[w]; "absent" if none
  port,       \* holder of _provider_lock
  \* the clients
  pc, world, exclude, probe, verdict, leases,
  \* the reconcile task and the teardown task
  rpc, attempt, todo, good, result, tpc,
  \* the provider and the environment
  server,     \* the broker's own state field of each world
  session,    \* the broker still knows the client's session
  dirty,      \* a scenario has used the world since it was last rebuilt
  cancelled, faults

poolVars == <<started, closed, available, leased, down, fresh, pending, state>>
clientVars == <<pc, world, exclude, probe, verdict, leases>>
taskVars == <<rpc, attempt, todo, good, result, tpc>>
envVars == <<server, session, dirty, cancelled, faults>>
vars == <<poolVars, port, clientVars, taskVars, envVars>>

--------------------------------------------------------------------------------
Present == {w \in Worlds : state[w] # "absent"}          \* set(self._runtimes)

Preparing == {w \in Worlds : state[w] = "preparing"}

\* provision() hands back new objects instead of the ones the pool holds.
NewObjects == Provider \in {"broker", "protocol"}

\* The provider's own state field of world w, the one provision() reads.
Record == IF Provider = "broker" THEN server ELSE state

\* Both copies of the state field after the provider writes s to its own.
ProviderWrites(w, s) ==
  IF Provider = "broker"
  THEN server' = [server EXCEPT ![w] = s] /\ UNCHANGED state
  ELSE state' = [state EXCEPT ![w] = s] /\ UNCHANGED server

\* reset() and healthy() of the broker's client copy the answer's state back.
ProviderAnswers(w, s) ==
  /\ state' = [state EXCEPT ![w] = s]
  /\ server' = IF Provider = "broker" THEN [server EXCEPT ![w] = s] ELSE server

Rebuilt(w) == dirty' = [dirty EXCEPT ![w] = FALSE]

\* The environment spends one fault of its budget.
Fault == faults < MaxFaults /\ faults' = faults + 1

InFlight == rpc # "off"                                \* _reconcile_in_flight

\* notify_all(): f is the clients' pc after the rest of the step.
Woken(f) == [c \in Clients |-> IF f[c] = "wait" THEN "top" ELSE f[c]]

IsFirst(w, S) == w \in S /\ \A v \in S : w <= v

--------------------------------------------------------------------------------
(* Construction and start(). *)

Init ==
  /\ started = FALSE /\ closed = FALSE /\ pending = FALSE
  /\ available = {} /\ leased = {} /\ down = {} /\ fresh = {}
  /\ state = [w \in Worlds |-> "absent"]
  /\ port = "none"
  /\ pc = [c \in Clients |-> "idle"]
  /\ world = [c \in Clients |-> 0]
  /\ exclude = [c \in Clients |-> {}]
  /\ probe = [c \in Clients |-> "none"]
  /\ verdict = [c \in Clients |-> FALSE]
  /\ leases = [c \in Clients |-> 0]
  /\ rpc = "off" /\ attempt = 1 /\ todo = {} /\ good = {}
  /\ result = [w \in Worlds |-> "absent"]
  /\ tpc = "none"
  /\ server = [w \in Worlds |-> "absent"]
  /\ session = TRUE
  /\ dirty = [w \in Worlds |-> FALSE]
  /\ cancelled = FALSE /\ faults = 0

\* What a first provision() may return: indices 0..n-1 and their states.
FirstStates ==
  CASE Provider = "process" -> {"ready", "unhealthy"}
    [] Provider = "protocol" -> {"ready", "preparing", "unhealthy"}
    [] OTHER -> {"ready"}
FirstSizes ==
  IF Provider \in {"compose", "broker"} THEN {Instances} ELSE 1 .. Instances

Start ==
  /\ ~started /\ ~closed
  /\ started' = TRUE
  /\ \E n \in FirstSizes : \E s \in [0 .. n - 1 -> FirstStates] :
       /\ state' = [w \in Worlds |-> IF w < n THEN s[w] ELSE "absent"]
       /\ available' = {w \in 0 .. n - 1 : s[w] \in {"ready", "preparing"}}
       /\ fresh' = {w \in 0 .. n - 1 : s[w] = "ready"}
       /\ down' = {w \in 0 .. n - 1 : s[w] = "unhealthy"}
  /\ server' = IF Provider = "broker" THEN state' ELSE server
  /\ UNCHANGED <<closed, leased, pending, port, clientVars, taskVars,
                 session, dirty, cancelled, faults>>

--------------------------------------------------------------------------------
(* lease(): one client's walk through the loop. *)

Goto(c, p) == pc' = [pc EXCEPT ![c] = p]

\* A call of lease(); a retry leaves out the world it failed on unless the
\* pool has only that one.
Request(c) ==
  /\ started /\ pc[c] = "idle" /\ leases[c] < MaxLeases
  /\ leases' = [leases EXCEPT ![c] = @ + 1]
  /\ \E x \in {{}, {world[c]}} :
       /\ x # {} => leases[c] > 0 /\ Cardinality(Present) # 1
       /\ exclude' = [exclude EXCEPT ![c] = x]
  /\ Goto(c, "top")
  /\ UNCHANGED <<poolVars, port, world, probe, verdict, taskVars, envVars>>

\* The locals of a lease() that returns or raises die with it.
Forget(c) == /\ exclude' = [exclude EXCEPT ![c] = {}]
             /\ probe' = [probe EXCEPT ![c] = "none"]
             /\ verdict' = [verdict EXCEPT ![c] = FALSE]

\* NoWorldsAvailable(reason="closed"), or None: the caller holds no world.
LeaseRefused(c) ==
  /\ pc[c] = "top" /\ (closed \/ cancelled)
  /\ Goto(c, "refused") /\ Forget(c)
  /\ UNCHANGED <<poolVars, port, world, leases, taskVars, envVars>>

\* Mutant: a world is leased without its reset.
FirstCallNeverResets(w) == "toProbe"

\* A world never leased since it was rebuilt needs no reset.
FirstCall(w) == IF w \in fresh THEN "toProbe" ELSE "toReset"

LeasePick(c) ==
  /\ pc[c] = "top" /\ ~closed /\ ~cancelled
  /\ \E w \in Worlds :
       /\ IsFirst(w, available \ exclude[c])
       /\ available' = available \ {w}
       /\ leased' = leased \cup {w}
       /\ fresh' = fresh \ {w}
       /\ world' = [world EXCEPT ![c] = w]
       /\ Goto(c, FirstCall(w))
  /\ probe' = [probe EXCEPT ![c] = "none"]
  /\ UNCHANGED <<started, closed, down, pending, state, port, exclude, verdict,
                 leases, taskVars, envVars>>

Usable(c) == Present \ exclude[c]

LeaseWait(c) ==
  /\ pc[c] = "top" /\ ~closed /\ ~cancelled
  /\ available \subseteq exclude[c]
  /\ ~(Usable(c) \subseteq down) \/ InFlight \/ pending
  /\ Goto(c, "wait")
  /\ UNCHANGED <<poolVars, port, world, exclude, probe, verdict, leases,
                 taskVars, envVars>>

LeaseExhausted(c) ==
  /\ pc[c] = "top" /\ ~closed /\ ~cancelled
  /\ available \subseteq exclude[c]
  /\ Usable(c) \subseteq down /\ ~InFlight /\ ~pending
  /\ Goto(c, "refused") /\ Forget(c)
  /\ UNCHANGED <<poolVars, port, world, leases, taskVars, envVars>>

\* _wait_bounded(poll=True) stops waiting for a notification after its interval;
\* the scheduler gives every lease() an abandon(), so every wait is a poll.
LeasePoll(c) ==
  /\ pc[c] = "wait"
  /\ Goto(c, "top")
  /\ UNCHANGED <<poolVars, port, world, exclude, probe, verdict, leases,
                 taskVars, envVars>>

\* Mutant: _closed is not checked again under the provider lock.
PortOpenEvenClosed == port = "none"

\* The provider lock is free, and the pool still open under it.
PortOpen == port = "none" /\ ~closed

\* The re-check of _closed under the provider lock; the index stays in _leased.
LeaseShutOut(c) ==
  /\ pc[c] \in {"toReset", "toProbe"} /\ port = "none" /\ closed
  /\ Goto(c, "refused") /\ Forget(c)
  /\ UNCHANGED <<poolVars, port, world, leases, taskVars, envVars>>

\* The provider lock is taken; with no runtime at the index no call is made.
PortCall(c, from, calling, next) ==
  /\ pc[c] = from /\ PortOpen
  /\ IF world[c] \in Present
     THEN port' = c /\ Goto(c, calling)
          /\ probe' = [probe EXCEPT ![c] = "current"]
     ELSE port' = port /\ Goto(c, next)
          /\ probe' = [probe EXCEPT ![c] = "none"]
  /\ UNCHANGED <<poolVars, world, exclude, leases, taskVars, envVars>>

ResetBegin(c) ==
  PortCall(c, "toReset", "resetting", "toProbe") /\ UNCHANGED verdict
ProbeBegin(c) ==
  /\ PortCall(c, "toProbe", "probing", "verdict")
  /\ verdict' = [verdict EXCEPT ![c] = FALSE]

ResetDone(c) ==
  /\ pc[c] = "resetting" /\ session
  /\ port' = "none" /\ Goto(c, "toProbe")
  /\ ProviderAnswers(world[c], "ready") /\ Rebuilt(world[c])
  /\ UNCHANGED <<started, closed, available, leased, down, fresh, pending,
                 world, exclude, probe, verdict, leases, taskVars, session,
                 cancelled, faults>>

\* reset() returns but the sentinel or the readiness poll failed.
ResetUnready(c) ==
  /\ pc[c] = "resetting" /\ Provider \in {"process", "protocol"} /\ Fault
  /\ port' = "none" /\ Goto(c, "toProbe")
  /\ ProviderAnswers(world[c], "unhealthy")
  /\ UNCHANGED <<started, closed, available, leased, down, fresh, pending,
                 world, exclude, probe, verdict, leases, taskVars, session,
                 dirty, cancelled>>

\* reset() raises; a compose world is left as _stop and _start left it.
ResetRaises(c) ==
  /\ pc[c] = "resetting"
  /\ IF session THEN Fault ELSE UNCHANGED faults
  /\ port' = "none" /\ Goto(c, "verdict")
  /\ verdict' = [verdict EXCEPT ![c] = FALSE]
  /\ IF Provider \in {"compose", "broker"} /\ session
     THEN ProviderWrites(world[c], "preparing") ELSE UNCHANGED <<state, server>>
  /\ UNCHANGED <<started, closed, available, leased, down, fresh, pending,
                 world, exclude, probe, leases, taskVars, session, dirty,
                 cancelled>>

\* healthy() answers; only the compose provider's writes READY.
ProbePasses(c) ==
  /\ pc[c] = "probing" /\ session
  /\ port' = "none" /\ Goto(c, "verdict")
  /\ verdict' = [verdict EXCEPT ![c] = TRUE]
  /\ IF Provider \in {"compose", "broker"}
     THEN ProviderAnswers(world[c], "ready") ELSE UNCHANGED <<state, server>>
  /\ UNCHANGED <<started, closed, available, leased, down, fresh, pending,
                 world, exclude, probe, leases, taskVars, session, dirty,
                 cancelled, faults>>

ProbeFails(c) ==
  /\ pc[c] = "probing" /\ session /\ Fault
  /\ port' = "none" /\ Goto(c, "verdict")
  /\ ProviderAnswers(world[c], "unhealthy")
  /\ UNCHANGED <<started, closed, available, leased, down, fresh, pending,
                 world, exclude, probe, verdict, leases, taskVars, session,
                 dirty, cancelled>>

\* healthy() raises because the broker no longer knows the session.
ProbeRaises(c) ==
  /\ pc[c] = "probing" /\ ~session
  /\ port' = "none" /\ Goto(c, "verdict")
  /\ UNCHANGED <<poolVars, world, exclude, probe, verdict, leases, taskVars,
                 envVars>>

\* The last critical section of the loop: grant, discard a stale verdict, or
\* go on to mark_unhealthy.
EndTrip(c) == /\ probe' = [probe EXCEPT ![c] = "none"]
              /\ verdict' = [verdict EXCEPT ![c] = FALSE]

\* Mutant: a stale verdict drops the world instead of returning it.
PutBackNothing(c) == {}

\* The index back into _available, if the pool still has a runtime for it.
PutBack(c) == {world[c]} \cap Present

Stale(c) == world[c] \notin Present \/ probe[c] # "current"

LeaseStale(c) ==
  /\ pc[c] = "verdict" /\ Stale(c)
  /\ leased' = leased \ {world[c]}
  /\ available' = available \cup PutBack(c)
  /\ pc' = Woken([pc EXCEPT ![c] = "top"])
  /\ EndTrip(c)
  /\ UNCHANGED <<started, closed, down, fresh, pending, state, port, world,
                 exclude, leases, taskVars, envVars>>

LeaseGranted(c) ==
  /\ pc[c] = "verdict" /\ ~Stale(c)
  /\ verdict[c] /\ state[world[c]] = "ready"
  /\ pc' = Woken([pc EXCEPT ![c] = "hold"]) /\ Forget(c)
  /\ UNCHANGED <<poolVars, port, world, leases, taskVars, envVars>>

LeaseRejected(c) ==
  /\ pc[c] = "verdict" /\ ~Stale(c)
  /\ ~(verdict[c] /\ state[world[c]] = "ready")
  /\ Goto(c, "demote") /\ EndTrip(c)
  /\ UNCHANGED <<poolVars, port, world, exclude, leases, taskVars, envVars>>

--------------------------------------------------------------------------------
(* mark_unhealthy(), _schedule_reconcile() and release(). *)

\* Mutant: the demotion leaves it to _schedule_reconcile() to announce recovery.
MarkUnhealthyUnannounced(c, next) ==
  LET w == world[c] IN
  /\ leased' = leased \ {w} /\ available' = available \ {w}
  /\ fresh' = fresh \ {w} /\ down' = down \cup {w}
  /\ state' = IF w \in Present THEN [state EXCEPT ![w] = "unhealthy"] ELSE state
  /\ pc' = Woken([pc EXCEPT ![c] = next])
  /\ UNCHANGED <<started, closed, pending, port, world, exclude, probe, verdict,
                 leases, taskVars, envVars>>

\* mark_unhealthy's critical section; the state written is the pool's object.
MarkUnhealthy(c, next) ==
  LET w == world[c] IN
  /\ leased' = leased \ {w} /\ available' = available \ {w}
  /\ fresh' = fresh \ {w} /\ down' = down \cup {w}
  /\ state' = IF w \in Present THEN [state EXCEPT ![w] = "unhealthy"] ELSE state
  /\ pending' = TRUE
  /\ pc' = Woken([pc EXCEPT ![c] = next])
  /\ UNCHANGED <<started, closed, port, world, exclude, probe, verdict, leases,
                 taskVars, envVars>>

Demote(c) == pc[c] = "demote" /\ MarkUnhealthy(c, "schedule")
Discard(c) == pc[c] = "hold" /\ MarkUnhealthy(c, "reschedule")

ScheduleReconcile(c) ==
  /\ pc[c] \in {"schedule", "reschedule"}
  /\ Goto(c, IF pc[c] = "schedule" THEN "top" ELSE "idle")
  /\ pending' = (pending \/ (~closed /\ InFlight))
  /\ rpc' = IF ~closed /\ ~InFlight THEN "start" ELSE rpc
  /\ UNCHANGED <<started, closed, available, leased, down, fresh, state, port,
                 world, exclude, probe, verdict, leases, attempt, todo, good,
                 result, tpc, envVars>>

Release(c) ==
  /\ pc[c] = "hold"
  /\ leased' = leased \ {world[c]}
  /\ available' = available \cup (PutBack(c) \ down)
  /\ pc' = Woken([pc EXCEPT ![c] = "idle"])
  /\ UNCHANGED <<started, closed, down, fresh, pending, state, port, world,
                 exclude, probe, verdict, leases, taskVars, envVars>>

\* The scenario writes to the world it holds.
Use(c) ==
  /\ pc[c] = "hold" /\ ~dirty[world[c]]
  /\ dirty' = [dirty EXCEPT ![world[c]] = TRUE]
  /\ UNCHANGED <<poolVars, port, clientVars, taskVars, server, session,
                 cancelled, faults>>

--------------------------------------------------------------------------------
(* _reconcile_loop() and _reconcile(). *)

\* Mutant: the pass does not clear the flag it answers.
LoopStartForgets ==
  /\ rpc = "start"
  /\ attempt' = 1
  /\ rpc' = IF closed THEN "check" ELSE "toProvision"
  /\ UNCHANGED <<poolVars, port, clientVars, todo, good, result, tpc, envVars>>

LoopStart ==
  /\ rpc = "start"
  /\ pending' = FALSE /\ attempt' = 1
  /\ rpc' = IF closed THEN "check" ELSE "toProvision"
  /\ UNCHANGED <<started, closed, available, leased, down, fresh, state, port,
                 clientVars, todo, good, result, tpc, envVars>>

ProvisionBegin ==
  /\ rpc = "toProvision" /\ port = "none"
  /\ port' = "reconcile" /\ rpc' = "ensuring"
  /\ todo' = IF Provider = "protocol" \/ ~session THEN {} ELSE Present
  /\ UNCHANGED <<poolVars, clientVars, attempt, good, result, tpc, envVars>>

\* _ensure_world leaves a READY or PREPARING world alone; compose only READY.
Sound(w) == \/ Record[w] = "ready"
            \/ Record[w] = "preparing" /\ Provider = "process"

EnsureSkips ==
  /\ rpc = "ensuring"
  /\ \E w \in todo : IsFirst(w, todo) /\ Sound(w) /\ todo' = todo \ {w}
  /\ UNCHANGED <<poolVars, port, clientVars, rpc, attempt, good, result, tpc,
                 envVars>>

EnsureRebuilds ==
  /\ rpc = "ensuring"
  /\ \E w \in todo :
       /\ IsFirst(w, todo) /\ ~Sound(w)
       /\ todo' = todo \ {w}
       /\ ProviderWrites(w, IF Provider = "process" THEN "preparing" ELSE "ready")
       /\ Rebuilt(w)
  /\ UNCHANGED <<started, closed, available, leased, down, fresh, pending, port,
                 clientVars, rpc, attempt, good, result, tpc, session, cancelled,
                 faults>>

\* _poll_runtime_health runs on the provider's thread: the state is read before
\* the poll and written after it.
PollBegin ==
  /\ rpc = "ensuring" /\ todo = {} /\ Provider = "process"
  /\ \E w \in Worlds :
       IsFirst(w, Preparing) /\ todo' = {w}
  /\ rpc' = "polling"
  /\ UNCHANGED <<poolVars, port, clientVars, attempt, good, result, tpc, envVars>>

PollEnd ==
  /\ rpc = "polling"
  /\ \E w \in todo :
       \/ ProviderWrites(w, "ready") /\ UNCHANGED faults
       \/ ProviderWrites(w, "unhealthy") /\ Fault
  /\ todo' = {} /\ rpc' = "ensuring"
  /\ UNCHANGED <<started, closed, available, leased, down, fresh, pending, port,
                 clientVars, attempt, good, result, tpc, session, dirty,
                 cancelled>>

\* Mutant: one attempt more than _RECONCILE_MAX_ATTEMPTS.
AfterFailureOneMore == IF attempt > MaxAttempts THEN "giveUp" ELSE "backoff"

AfterFailure == IF attempt = MaxAttempts THEN "giveUp" ELSE "backoff"

\* provision() raises: a rebuild fails, or the broker refuses the session.  The
\* broker drops its session with the failed call, and its client does not know.
ProvisionRaises ==
  /\ rpc = "ensuring"
  /\ \/ /\ ~session /\ UNCHANGED <<faults, session, state, server>>
     \/ /\ Provider = "protocol" /\ Fault /\ UNCHANGED <<session, state, server>>
     \/ /\ Provider = "process" /\ todo = {} /\ Preparing = {}
        /\ Fault /\ UNCHANGED <<session, state, server>>
     \/ /\ session /\ Fault
        /\ session' = (Provider # "broker")
        /\ \E w \in todo :
             /\ IsFirst(w, todo) /\ ~Sound(w)
             /\ IF Provider = "process" THEN UNCHANGED <<state, server>>
                ELSE ProviderWrites(w, "preparing")
  /\ port' = "none" /\ todo' = {}
  /\ rpc' = AfterFailure
  /\ UNCHANGED <<started, closed, available, leased, down, fresh, pending,
                 clientVars, attempt, good, result, tpc, dirty, cancelled>>

\* A dead job-shared engine is respawned while a world is rebuilt or reset:
\* every other world's database is dropped beneath it and its state demoted.
SharedEngineRespawned ==
  /\ Provider = "process" /\ HeldWorldsMayFail /\ Fault
  /\ \E w \in Worlds :
       /\ \/ rpc = "ensuring" /\ IsFirst(w, todo) /\ ~Sound(w)
          \/ \E c \in Clients : pc[c] = "resetting" /\ world[c] = w
       /\ state' = [v \in Worlds |->
                      IF v \in Present \ {w} THEN "unhealthy" ELSE state[v]]
       /\ dirty' = [v \in Worlds |-> dirty[v] \/ v \in Present \ {w}]
  /\ UNCHANGED <<started, closed, available, leased, down, fresh, pending, port,
                 clientVars, taskVars, server, session, cancelled>>

\* What a provider of new objects returns from provision().
Provisioned ==
  IF Provider = "broker" THEN {server}
  ELSE {r \in [Worlds -> {"absent", "ready", "preparing", "unhealthy"}] :
          \E w \in Worlds : r[w] # "absent"}

\* provision() returns, and the reconcile bails out if the pool is closing.
ProvisionReturns ==
  /\ rpc = "ensuring" /\ todo = {} /\ session
  /\ Provider = "process" => Preparing = {}
  /\ result' \in IF NewObjects THEN Provisioned ELSE {result}
  /\ port' = "none" /\ good' = {}
  /\ rpc' = IF closed THEN "check" ELSE "toProbe"
  /\ UNCHANGED <<poolVars, clientVars, attempt, todo, tpc, envVars>>

Backoff ==
  /\ rpc = "backoff"
  /\ attempt' = attempt + 1
  /\ rpc' = IF closed THEN "check" ELSE "toProvision"
  /\ UNCHANGED <<poolVars, port, clientVars, todo, good, result, tpc, envVars>>

GiveUp ==
  /\ rpc = "giveUp"
  /\ rpc' = "check"
  /\ pc' = Woken(pc)
  /\ UNCHANGED <<poolVars, port, world, exclude, probe, verdict, leases,
                 attempt, todo, good, result, tpc, envVars>>

Achieved == IF NewObjects THEN {w \in Worlds : result[w] # "absent"} ELSE Present

ReconcileProbes ==
  /\ rpc = "toProbe" /\ port = "none"
  /\ port' = "reconcile" /\ rpc' = "probing" /\ todo' = Achieved
  /\ UNCHANGED <<poolVars, clientVars, attempt, good, result, tpc, envVars>>

\* One healthy() of the reconcile's round; the last one frees the port.
WorldProbed(w) ==
  /\ rpc = "probing" /\ IsFirst(w, todo)
  /\ todo' = todo \ {w}
  /\ port' = IF todo' = {} THEN "none" ELSE port
  /\ rpc' = IF todo' = {} THEN "install" ELSE rpc

\* The state healthy() leaves on the object the provider returned.
ProbeWrites(w, s) ==
  IF NewObjects
  THEN /\ result' = [result EXCEPT ![w] = s]
       /\ server' = IF Provider = "broker" THEN [server EXCEPT ![w] = s] ELSE server
       /\ UNCHANGED state
  ELSE state' = [state EXCEPT ![w] = s] /\ UNCHANGED <<result, server>>

WorldProbedWell ==
  /\ \E w \in todo :
       /\ WorldProbed(w) /\ session
       /\ good' = good \cup {w}
       /\ IF Provider \in {"compose", "broker"} THEN ProbeWrites(w, "ready")
          ELSE UNCHANGED <<state, server, result>>
  /\ UNCHANGED <<started, closed, available, leased, down, fresh, pending,
                 clientVars, attempt, tpc, session, dirty, cancelled, faults>>

WorldProbedBadly ==
  /\ \E w \in todo :
       /\ WorldProbed(w)
       /\ \/ Fault /\ (w \in leased => HeldWorldsMayFail) /\ ProbeWrites(w, "unhealthy")
          \/ ~session /\ UNCHANGED <<faults, state, server, result>>
  /\ UNCHANGED <<started, closed, available, leased, down, fresh, pending,
                 clientVars, attempt, good, tpc, session, dirty, cancelled>>

\* Indices no longer provisioned.
Gone == Present \ Achieved

\* Mutant: a healthy world returns to the pool although it is leased.
BackInPoolLeased == good
\* Mutant: every provisioned world leaves _down, healthy or not.
StillDownLosesUnhealthy == down \ (Achieved \cup Gone)

BackInPool == good \ leased
StillDown == (down \ good) \ Gone

\* The reconcile's state section: install the provisioned objects, bring back
\* the healthy ones, forget the indices no longer provisioned.
Install ==
  LET newState == IF NewObjects THEN result ELSE state IN
  /\ rpc = "install"
  /\ state' = newState
  /\ down' = StillDown
  /\ available' = (available \cup BackInPool) \ Gone
  /\ fresh' = (fresh \cup {w \in BackInPool \cap down : newState[w] = "ready"}) \ Gone
  /\ probe' = [c \in Clients |->
                 IF NewObjects /\ world[c] \in Achieved /\ probe[c] = "current"
                 THEN "stale" ELSE probe[c]]
  /\ pc' = Woken(pc)
  /\ rpc' = "check" /\ good' = {} /\ result' = [w \in Worlds |-> "absent"]
  /\ UNCHANGED <<started, closed, leased, pending, port, world, exclude, verdict,
                 leases, attempt, todo, tpc, envVars>>

\* Mutant: a demotion during the pass gets no trailing pass.
AfterPassStops == "off"

AfterPass == IF pending THEN "start" ELSE "off"

LoopCheck ==
  /\ rpc = "check"
  /\ rpc' = AfterPass
  /\ attempt' = 1
  /\ UNCHANGED <<poolVars, port, clientVars, todo, good, result, tpc,
                 envVars>>

--------------------------------------------------------------------------------
(* close() and _teardown(), and the job's cancel signal. *)

Close ==
  /\ started /\ tpc = "none"
  /\ closed' = TRUE
  /\ tpc' = "await"
  /\ pc' = Woken(pc)
  /\ UNCHANGED <<started, available, leased, down, fresh, pending, state, port,
                 world, exclude, probe, verdict, leases, rpc, attempt, todo,
                 good, result, envVars>>

TeardownAwaits ==
  /\ tpc = "await" /\ ~InFlight
  /\ tpc' = "toClose"
  /\ UNCHANGED <<poolVars, port, clientVars, rpc, attempt, todo, good, result,
                 envVars>>

TeardownCloses ==
  /\ tpc = "toClose" /\ port = "none"
  /\ tpc' = "closing" /\ port' = "teardown"
  /\ UNCHANGED <<poolVars, clientVars, rpc, attempt, todo, good, result, envVars>>

TeardownDone ==
  /\ tpc = "closing"
  /\ tpc' = "done" /\ port' = "none"
  /\ IF NewObjects THEN UNCHANGED state
     ELSE state' = [w \in Worlds |-> IF w \in Present THEN "stopped" ELSE state[w]]
  /\ UNCHANGED <<started, closed, available, leased, down, fresh, pending,
                 clientVars, rpc, attempt, todo, good, result, envVars>>

Cancel ==
  /\ ~cancelled
  /\ cancelled' = TRUE
  /\ UNCHANGED <<poolVars, port, clientVars, taskVars, server, session, dirty,
                 faults>>

--------------------------------------------------------------------------------
ClientStep(c) ==
  \/ Request(c) \/ LeaseRefused(c) \/ LeasePick(c) \/ LeaseWait(c)
  \/ LeaseExhausted(c) \/ LeasePoll(c) \/ LeaseShutOut(c)
  \/ ResetBegin(c) \/ ResetDone(c) \/ ResetUnready(c) \/ ResetRaises(c)
  \/ ProbeBegin(c) \/ ProbePasses(c) \/ ProbeFails(c) \/ ProbeRaises(c)
  \/ LeaseStale(c) \/ LeaseGranted(c) \/ LeaseRejected(c)
  \/ Demote(c) \/ Discard(c) \/ ScheduleReconcile(c) \/ Release(c) \/ Use(c)

ReconcileStep ==
  \/ LoopStart \/ ProvisionBegin \/ EnsureSkips \/ EnsureRebuilds
  \/ PollBegin \/ PollEnd \/ ProvisionRaises \/ SharedEngineRespawned
  \/ ProvisionReturns \/ Backoff \/ GiveUp \/ ReconcileProbes
  \/ WorldProbedWell \/ WorldProbedBadly \/ Install \/ LoopCheck

TeardownStep == Close \/ TeardownAwaits \/ TeardownCloses \/ TeardownDone

Next == Start \/ Cancel \/ ReconcileStep \/ TeardownStep
        \/ \E c \in Clients : ClientStep(c)

Spec == Init /\ [][Next]_vars

--------------------------------------------------------------------------------
(* Fairness: the event loop runs every ready coroutine, provider calls end,    *)
(* a scenario gives its world back, and asyncio.Lock wakes waiters in order.   *)

ClientRuns(c) ==
  \/ LeaseRefused(c) \/ LeasePick(c) \/ LeaseWait(c) \/ LeaseExhausted(c)
  \/ ResetDone(c) \/ ResetRaises(c)
  \/ ProbePasses(c) \/ ProbeRaises(c) \/ LeaseStale(c)
  \/ LeaseGranted(c) \/ LeaseRejected(c) \/ Demote(c) \/ Discard(c)
  \/ ScheduleReconcile(c) \/ Release(c)
ClientQueues(c) == LeaseShutOut(c) \/ ResetBegin(c) \/ ProbeBegin(c)
ReconcileQueues == ProvisionBegin \/ ReconcileProbes

Fairness ==
  /\ \A c \in Clients : WF_vars(ClientRuns(c)) /\ SF_vars(ClientQueues(c))
  /\ \A c \in Clients : WF_vars(LeasePoll(c))
  /\ WF_vars(ReconcileStep) /\ SF_vars(ReconcileQueues)
  /\ WF_vars(TeardownAwaits) /\ SF_vars(TeardownCloses) /\ WF_vars(TeardownDone)

FairSpec == Spec /\ Fairness

--------------------------------------------------------------------------------
(* Properties. *)

TypeOK ==
  /\ started \in BOOLEAN /\ closed \in BOOLEAN /\ pending \in BOOLEAN
  /\ available \subseteq Worlds /\ leased \subseteq Worlds
  /\ down \subseteq Worlds /\ fresh \subseteq Worlds
  /\ state \in [Worlds -> States]
  /\ port \in Clients \cup Tasks
  /\ pc \in [Clients -> ClientPc]
  /\ world \in [Clients -> Worlds]
  /\ exclude \in [Clients -> SUBSET Worlds]
  /\ probe \in [Clients -> {"none", "current", "stale"}]
  /\ verdict \in [Clients -> BOOLEAN]
  /\ leases \in [Clients -> Nat]
  /\ rpc \in ReconcilePc /\ attempt \in 1 .. MaxAttempts
  /\ todo \subseteq Worlds /\ good \subseteq Worlds
  /\ result \in [Worlds -> States]
  /\ tpc \in TeardownPc
  /\ server \in [Worlds -> States] /\ session \in BOOLEAN
  /\ dirty \in [Worlds -> BOOLEAN]
  /\ cancelled \in BOOLEAN /\ faults \in Nat

\* A client that has taken an index out of the pool and not yet given it back.
Engaged(c) == pc[c] \in {"toReset", "resetting", "toProbe", "probing",
                         "verdict", "demote", "hold"}

\* No world is worked on by two clients at once, from the moment lease() takes
\* its index until release() or mark_unhealthy(): this is what keeps one
\* scenario's data out of another's call.
LeaseExclusive ==
  \A c, d \in Clients :
    c # d /\ Engaged(c) /\ Engaged(d) => world[c] # world[d]

\* No index is in two of _available, _leased and _down, and only an index in
\* _available may be granted without a reset.
IndexSets ==
  /\ available \cap leased = {} /\ available \cap down = {}
  /\ leased \cap down = {} /\ fresh \subseteq available

\* Every world of the pool is in one of _available, _leased and _down, and an
\* index in _leased belongs to a client at work unless close() shut that client
\* out: an index in none of them would make every later lease() spin.
EveryWorldAccounted ==
  /\ IndexSets
  /\ Present \subseteq available \cup leased \cup down
  /\ ~closed => \A w \in leased : \E c \in Clients : Engaged(c) /\ world[c] = w

\* A demotion is never forgotten: while one is pending, either the reconcile
\* task is alive to run a trailing pass or a client is about to create it.
RecoveryOwed ==
  pending /\ ~closed =>
    InFlight \/ \E c \in Clients : pc[c] \in {"schedule", "reschedule"}

\* After the provider's close() has started, nothing calls the provider again.
ClosedProviderUntouched ==
  tpc \in {"closing", "done"} =>
    /\ port \in {"none", "teardown"} /\ ~InFlight
    /\ \A c \in Clients : pc[c] \notin {"resetting", "probing"}

\* A scenario starts on a pristine world: at the step that grants world w nobody
\* has used w since it was last rebuilt or reset.
GrantPristine ==
  [][\A c \in Clients :
       pc[c] # "hold" /\ pc'[c] = "hold" => ~dirty[world[c]]]_vars

\* The provider never rebuilds, resets or drops the stores of a world while a
\* scenario holds it.
HolderUndisturbed ==
  [][\A c \in Clients :
       pc[c] = "hold" /\ pc'[c] = "hold" /\ dirty[world[c]]
         => dirty'[world[c]]]_vars

\* Whenever provision() is called the provider can still serve this pool: a
\* failed attempt is retried because the next one may succeed.
ProvisionCanSucceed == rpc = "ensuring" => session

\* Every lease() comes back, with a world or with a refusal.
LeaseReturns ==
  \A c \in Clients : pc[c] = "top" ~> pc[c] \in {"hold", "refused"}

\* close() reaches the provider: no reconcile or lease keeps it waiting for ever.
CloseCompletes == tpc = "await" ~> tpc = "done"

\* The pool implements the lease it promises: a client holds a world exactly
\* while it has been granted it, and a world is clean while nobody used it.
NoWorld == Instances
Lease == INSTANCE WorldLease WITH
           held <- [c \in Clients |-> IF pc[c] = "hold" THEN world[c] ELSE NoWorld],
           clean <- {w \in Worlds : ~dirty[w]}
ImplementsLease == Lease!Spec

\* The scenario loop's view of the pool: a world is a client's while that client
\* holds it, free while lease() may still come to it, down otherwise; the pool
\* recovers while a reconcile task runs or a demotion waits for one.
Holds(c, w) == pc[c] = "hold" /\ world[c] = w
Holder ==
  [w \in Worlds |->
     IF \E c \in Clients : Holds(c, w) THEN CHOOSE c \in Clients : Holds(c, w)
     ELSE IF w \in available \cup leased THEN "free" ELSE "down"]
Recovering == InFlight \/ pending

View == INSTANCE PoolView WITH
          Users <- Clients, holder <- Holder, recovering <- Recovering

\* The pool is the one the scenario loop is written against: a world changes
\* hands only from the pool to a client and back, no world goes down without a
\* recovery on its way, and only a recovery brings one back.
ImplementsView == View!Spec
================================================================================

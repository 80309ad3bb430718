----------------------------- MODULE TelemetryQueue -----------------------------
(***************************************************************************)
(* Run telemetry, from the run's thread to the ledger: class               *)
(* TelemetryQueue of src/src/fi/alk/telemetry/_queue.py, its handler and   *)
(* record_run of telemetry/__init__.py, and the two callers that append to *)
(* the ledger around the queue, RunRecorder's _finalize (_run.py) and      *)
(* `runs forget' (cli.py).                                                 *)
(*                                                                         *)
(* Each action is one critical section of the queue's lock, one operation  *)
(* of queue.Queue, or one touch of the disk.  Every row is one call of     *)
(* record_run; the calls may overlap.  Threads are the worker threads      *)
(* _ensure_worker may have started; one that has ended may be a new one    *)
(* later.  A crash ends the process; only the disk outlives it.            *)
(***************************************************************************)
EXTENDS RunLedger, FiniteSetsExt, SequencesExt

CONSTANTS MaxRows,     \* bound: record_run calls
          Direct,      \* append calls made around the queue
          Threads,     \* numbers of the worker threads
          None,        \* no row, no thread
          MaxSize,     \* QUEUE_MAX
          MaxFaults    \* bound: appends that raise, sidecars not written,
                       \* and crashes

ASSUME WritersAssumption == /\ Writers = Threads \cup Direct
                            /\ Threads \subseteq Nat
                            /\ None \notin Nat
                            /\ Direct \cap Nat = {}
ASSUME SizesAssumption == /\ MaxRows \in Nat /\ MaxSize \in Nat \ {0}
                          /\ MaxFaults \in Nat

\* The rows of the record_run calls, numbered as they reach the queue's lock.
Rows == 1 .. MaxRows

VARIABLES queue, pending, dropped, worker,  \* the fields of TelemetryQueue
          call,      \* where each call of record_run or of append is
          thread,    \* what each worker thread is doing
          flush,     \* the flush() call
          accepted,  \* history: rows in the order the queue took them
          lost,      \* history: accepted rows that no line will show: the append
                     \* raised, was cut, or went to the end of a torn line
          lostDrops, \* history: drops whose gap row no line will show
          owed,      \* history: rows accepted when flush() began
          faults

queueVars == <<queue, pending, dropped, worker>>
historyVars == <<accepted, lost, lostDrops, owed>>
vars == <<ledgerVars, queueVars, call, thread, flush, historyVars, faults>>

--------------------------------------------------------------------------------
Off == [pc |-> "off", row |-> None, drops |-> 0]

Init ==
  /\ LedgerInit
  /\ queue = <<>> /\ pending = 0 /\ dropped = 0 /\ worker = None
  /\ call = [c \in Rows \cup Direct |-> "new"]
  /\ thread = [t \in Threads |-> Off]
  /\ flush = "off"
  /\ accepted = <<>> /\ lost = {} /\ lostDrops = 0 /\ owed = {}
  /\ faults = 0

\* Content addresses: gap rows that count the same drops are the same row.
RowId(r) == <<"row", r>>
GapId(n) == <<"gap", n>>

--------------------------------------------------------------------------------
(* The producer: enqueue(), called on the run's own thread. *)

Reaches(r) == call[r] = "new" /\ \A s \in 1 .. r - 1 : call[s] # "new"

Full == Len(queue) >= MaxSize

Put(r) ==
  /\ Reaches(r) /\ ~Full
  /\ queue' = Append(queue, r) /\ pending' = pending + 1
  /\ call' = [call EXCEPT ![r] = "ensure"]
  /\ accepted' = Append(accepted, r)
  /\ UNCHANGED <<ledgerVars, dropped, worker, thread, flush, lost, lostDrops,
                 owed, faults>>

\* queue.Full: the row is dropped and counted.
Drop(r) ==
  /\ Reaches(r) /\ Full
  /\ dropped' = dropped + 1
  /\ call' = [call EXCEPT ![r] = "false"]
  /\ UNCHANGED <<ledgerVars, queue, pending, worker, thread, flush, historyVars,
                 faults>>

\* A new thread takes the lowest number that is free.
Started(t) ==
  /\ thread[t].pc = "off"
  /\ \A u \in Threads : u < t => thread[u].pc # "off"
  /\ worker' = t
  /\ thread' = [thread EXCEPT ![t].pc = "get"]

\* is_alive(): a worker that has found the queue empty and is about to return
\* is still alive.
\* Mutant: a thread is started whether or not the worker is alive.
AliveNever == FALSE
Alive == worker # None /\ thread[worker].pc # "off"
EnsureWorker ==
  \/ Alive /\ UNCHANGED <<worker, thread>>
  \/ ~Alive /\ \E t \in Threads : Started(t)

Ensure(r) ==
  /\ call[r] = "ensure"
  /\ EnsureWorker
  /\ call' = [call EXCEPT ![r] = "true"]
  /\ UNCHANGED <<ledgerVars, queue, pending, dropped, flush, historyVars, faults>>

--------------------------------------------------------------------------------
(* The worker: _drain(), and the handler, _handle_row. *)

Take(t) ==
  /\ thread[t].pc = "get" /\ queue # <<>>
  /\ thread' = [thread EXCEPT ![t].pc = "took", ![t].row = Head(queue)]
  /\ queue' = Tail(queue)
  /\ UNCHANGED <<ledgerVars, pending, dropped, worker, call, flush, historyVars,
                 faults>>

\* get() times out on an empty queue; the thread is alive until it has returned.
Park(t) ==
  /\ \/ thread[t].pc = "get" /\ queue = <<>>
        /\ thread' = [thread EXCEPT ![t].pc = "parking"]
     \/ thread[t].pc = "parking" /\ thread' = [thread EXCEPT ![t] = Off]
  /\ UNCHANGED <<ledgerVars, queueVars, call, flush, historyVars, faults>>

\* Mutant: the gap row says that rows were dropped, not how many.
ClaimedOne == IF dropped > 0 THEN 1 ELSE 0
Claimed == dropped

\* The worker takes the drop count, and the gap row goes before the row.
Claim(t) ==
  /\ thread[t].pc = "took"
  /\ thread' = [thread EXCEPT ![t].pc = IF Claimed > 0 THEN "gap" ELSE "row",
                              ![t].drops = Claimed]
  /\ dropped' = 0
  /\ UNCHANGED <<ledgerVars, queue, pending, worker, call, flush, historyVars,
                 faults>>

Appending(t) == thread[t].pc \in {"gap", "row"}

Handle(t) ==
  /\ Appending(t)
  /\ \/ AppendReads(t, IF thread[t].pc = "gap" THEN GapId(thread[t].drops)
                       ELSE RowId(thread[t].row))
     \/ AppendWrites(t)
  /\ UNCHANGED <<queueVars, call, thread, flush, historyVars, faults>>

\* The line goes to the end of a torn one, and append() returns all the same.
HandleMerges(t) ==
  /\ Appending(t)
  /\ AppendMerges(t)
  /\ IF thread[t].pc = "row"
     THEN lost' = lost \cup {thread[t].row} /\ UNCHANGED lostDrops
     ELSE lostDrops' = lostDrops + thread[t].drops /\ UNCHANGED lost
  /\ UNCHANGED <<queueVars, call, thread, flush, accepted, owed, faults>>

Fault == faults < MaxFaults /\ faults' = faults + 1

HandleHead(t) ==
  /\ Appending(t)
  /\ \/ AppendHeads(t) /\ UNCHANGED faults
     \/ AppendKeepsHead(t) /\ Fault
  /\ thread' = [thread EXCEPT ![t].pc = IF @ = "gap" THEN "row" ELSE "done"]
  /\ UNCHANGED <<queueVars, call, flush, historyVars>>

\* An append raises: _drain swallows it, with the row and the drops not written.
HandlerRaises(t) ==
  /\ Appending(t) /\ Fault
  /\ AppendRaises(t)
  /\ lost' = lost \cup {thread[t].row}
  /\ lostDrops' = lostDrops + IF thread[t].pc = "gap" THEN thread[t].drops ELSE 0
  /\ thread' = [thread EXCEPT ![t].pc = "done"]
  /\ UNCHANGED <<queueVars, call, flush, accepted, owed>>

\* finally: the row no longer counts as pending.
Settle(t) ==
  /\ thread[t].pc = "done"
  /\ thread' = [thread EXCEPT ![t] = [Off EXCEPT !.pc = "get"]]
  /\ pending' = pending - 1
  /\ UNCHANGED <<ledgerVars, queue, dropped, worker, call, flush, historyVars,
                 faults>>

--------------------------------------------------------------------------------
(* Appends around the queue. *)

DirectBegins(w) ==
  /\ call[w] = "new" /\ call' = [call EXCEPT ![w] = "busy"]
  /\ AppendReads(w, RowId(w))
  /\ UNCHANGED <<queueVars, thread, flush, historyVars, faults>>

DirectWrites(w) ==
  /\ AppendWrites(w) \/ AppendMerges(w)
  /\ UNCHANGED <<queueVars, call, thread, flush, historyVars, faults>>

DirectEnds(w) ==
  /\ \/ AppendHeads(w) /\ UNCHANGED faults
     \/ AppendKeepsHead(w) /\ Fault
     \/ AppendRaises(w) /\ Fault
  /\ call' = [call EXCEPT ![w] = "true"]
  /\ UNCHANGED <<queueVars, thread, flush, historyVars>>

--------------------------------------------------------------------------------
(* flush(), called by tests, by the SDK and at exit. *)

Accepted == {accepted[n] : n \in DOMAIN accepted}

FlushBegins ==
  /\ flush \notin {"check", "ensure"}
  /\ flush' = "check" /\ owed' = Accepted
  /\ UNCHANGED <<ledgerVars, queueVars, call, thread, accepted, lost, lostDrops,
                 faults>>

\* Mutant: flush() looks at the queue, not at what is still in hand.
DrainedQueueEmpty == queue = <<>>
Drained == pending = 0

FlushChecks ==
  /\ flush = "check"
  /\ flush' = IF Drained THEN "true" ELSE "ensure"
  /\ UNCHANGED <<ledgerVars, queueVars, call, thread, historyVars, faults>>

\* Mutant: flush() waits for the worker that is there.
RevivesNobody == UNCHANGED <<worker, thread>>
Revives == EnsureWorker

FlushEnsures ==
  /\ flush = "ensure"
  /\ Revives
  /\ flush' = "check"
  /\ UNCHANGED <<ledgerVars, queue, pending, dropped, call, historyVars, faults>>

\* The deadline passes; the last look may still find the queue drained.
FlushTimesOut ==
  /\ flush = "check"
  /\ flush' = IF Drained THEN "true" ELSE "false"
  /\ UNCHANGED <<ledgerVars, queueVars, call, thread, historyVars, faults>>

--------------------------------------------------------------------------------
InHand(t) == thread[t].pc \in {"took", "gap", "row", "done"}

\* The drop count of a gap row that is not in the file yet.
DropsInHand(t) ==
  IF thread[t].pc = "gap" /\ ~HasWritten(t) THEN thread[t].drops ELSE 0

Written == {file[n].id : n \in DOMAIN file}

DropsUnderWay == IF worker = None THEN 0 ELSE DropsInHand(worker)

\* The process dies and is started again: the queue and the threads are gone.
Crash ==
  /\ Fault
  /\ queue' = <<>> /\ pending' = 0 /\ dropped' = 0 /\ worker' = None
  /\ thread' = [t \in Threads |-> Off]
  /\ AppendsCut
  /\ call' = [c \in Rows \cup Direct |->
                IF call[c] \in {"ensure", "busy"} THEN "cut" ELSE call[c]]
  /\ flush' = "off"
  /\ lost' = lost \cup {r \in Accepted : RowId(r) \notin Written}
  /\ lostDrops' = lostDrops + dropped + DropsUnderWay
  /\ UNCHANGED <<accepted, owed>>

--------------------------------------------------------------------------------
Flushing == FlushBegins \/ FlushChecks \/ FlushEnsures \/ FlushTimesOut

Working(t) ==
  \/ Take(t) \/ Park(t) \/ Claim(t) \/ Handle(t) \/ HandleMerges(t)
  \/ HandleHead(t) \/ HandlerRaises(t) \/ Settle(t)

Next ==
  \/ \E r \in Rows : Put(r) \/ Drop(r) \/ Ensure(r)
  \/ \E t \in Threads : Working(t)
  \/ \E w \in Direct : DirectBegins(w) \/ DirectWrites(w) \/ DirectEnds(w)
  \/ Flushing \/ Crash

Spec == Init /\ [][Next]_vars

\* The operating system runs the worker and the thread that flushes; no caller
\* has to flush, and no deadline has to pass.
Fairness ==
  /\ \A t \in Threads : WF_vars(Working(t))
  /\ WF_vars(FlushChecks \/ FlushEnsures)

FairSpec == Spec /\ Fairness

--------------------------------------------------------------------------------
(* Properties. *)

Ids == {"row"} \X (Rows \cup Direct) \cup {"gap"} \X Nat
Digests == Seq(Ids)

TypeOK ==
  /\ file \in Seq([id : Ids, chain : Digests]) /\ head \in Digests
  /\ torn \in {"no", "tail", "line"}
  /\ append \in [Writers -> [step : {"none", "write", "head", "merged"},
                             id : Ids \cup {<<>>}, prev : Digests]]
  /\ raced \in BOOLEAN /\ stale \subseteq Nat
  /\ queue \in Seq(Rows) /\ Len(queue) <= MaxSize /\ pending \in Nat /\ dropped \in Nat
  /\ worker \in Threads \cup {None}
  /\ call \in [Rows \cup Direct ->
                 {"new", "ensure", "busy", "true", "false", "cut"}]
  /\ thread \in [Threads ->
       [pc : {"off", "get", "took", "gap", "row", "done", "parking"},
        row : Rows \cup {None}, drops : Nat]]
  /\ flush \in {"off", "check", "ensure", "true", "false"}
  /\ accepted \in Seq(Rows) /\ lost \subseteq Rows /\ owed \subseteq Rows
  /\ lostDrops \in Nat /\ faults \in Nat

\* A ledger of whole lines that one writer has kept verifies, also when chain.head
\* was left behind its row: "falling back to a linear scan when missing/stale",
\* _last_state (the code does not keep this).
StaleHeadRescanned == ~raced /\ torn = "no" => Intact

\* A chain.head left behind costs one break, right below its row, and no more: as
\* long as no two appends overlapped and no line was cut short, verify() finds every
\* other row chained to the one above it, whatever raised and wherever the process
\* died in between.
BreaksOnlyWhereStale ==
  ~raced /\ torn = "no" =>
    \A n \in DOMAIN file : n - 1 \in stale \/ Linked(n)

\* Rows reach the ledger in the order the queue took them, each once.  The rows
\* still queued are the last it accepted; the row before them may be in the
\* worker's hand; every earlier one is written, or an append that raised, a torn
\* line or a crash took it away, never both; and the file holds no other row.
Taken == Len(accepted) - Len(queue)
IsWritten(r) == RowId(r) \in Written
Waits(r) == ~IsWritten(r) /\ r \notin lost
Resolved(r) == IsWritten(r) # (r \in lost)
Held(r) == \E t \in Threads : InHand(t) /\ thread[t].row = r
NothingLostOrReordered ==
  /\ \A n \in DOMAIN queue : Taken + n > 0 /\ queue[n] = accepted[Taken + n]
  /\ \A n \in DOMAIN accepted :
       IF n > Taken THEN Waits(accepted[n])
       ELSE \/ Resolved(accepted[n])
            \/ n = Taken /\ Waits(accepted[n]) /\ Held(accepted[n])
  /\ \A m, n \in DOMAIN file, i, j \in DOMAIN accepted :
       m < n /\ file[m].id = RowId(accepted[i]) /\ file[n].id = RowId(accepted[j])
         => i < j
  /\ \A r \in Rows : IsWritten(r) => r \in Accepted

\* No drop goes unrecorded: the rows refused are still counted, on their way to
\* the ledger, in a gap row of it, or went with a gap row that was not written.
DropsAccounted ==
  LET gaps == {n \in DOMAIN file : file[n].id[1] = "gap"}
  IN  Cardinality({r \in Rows : call[r] = "false"})
        = dropped + DropsUnderWay + lostDrops
            + MapThenSumSet(LAMBDA n : file[n].id[2], gaps)

\* flush() returns True only when every row accepted before it began has been
\* written, or is lost with an append that raised or ran into a torn line.
FlushIsHonest ==
  flush = "true" => \A r \in owed : RowId(r) \in Written \/ r \in lost

\* flush() drains the queue: while its deadline does not pass it returns, whatever
\* state it found the worker in.
FlushReturns == flush = "check" ~> flush \notin {"check", "ensure"}
================================================================================

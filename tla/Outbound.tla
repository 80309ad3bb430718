------------------------------- MODULE Outbound --------------------------------
(***************************************************************************)
(* The events channel of a hosted job, from the code that emits an event   *)
(* to the platform's acknowledgement and the exit code:                    *)
(*   OutboundAdapter of src/src/fi/alk/harness/hosted_entrypoint.py, whose *)
(*   emissions and flushes run on worker threads (asyncio.to_thread) while *)
(*   the terminal event is emitted by the event loop itself;               *)
(*   EventsClient.flush, its retries and the ChannelState latch of         *)
(*   outbound.py;                                                          *)
(*   the spool they share (module OutboundSpool).                          *)
(*                                                                         *)
(* A flush is a read, a request with retries, and the handling of the      *)
(* answer (drop the refused records, then advance the watermark), and      *)
(* several run at once: every receipt flushes.  Main is the flush of the   *)
(* drain loop.  The platform is external, after the tests' FakePlatform:   *)
(* it acknowledges the highest sequence it has processed and names, each   *)
(* time it is sent them, the events it refuses.                            *)
(***************************************************************************)
EXTENDS OutboundSpool

CONSTANTS
  Terminal,    \* the terminal event
  Flushers,    \* the threads that flush
  Main,        \* the one the drain loop uses
  BatchSize,   \* EVENTS_MAX_BATCH
  MaxAttempts, \* RetryPolicy.max_attempts
  MaxCrashes,  \* bound: crashes of the process
  MaxFaults    \* bound: file system faults

ASSUME TerminalAssumption == Terminal \in Events
ASSUME MainAssumption == Main \in Flushers
ASSUME BoundsAssumption ==
  /\ BatchSize \in Nat \ {0} /\ MaxAttempts \in Nat \ {0}
  /\ MaxCrashes \in Nat /\ MaxFaults \in Nat

VARIABLES
  emission,         \* how far the emission of each event is
  terminalEmitted,  \* _terminal_emitted
  terminalSequence, \* _terminal_sequence, 0 for None
  terminalRejected, \* _terminal_rejected
  channel,          \* the latch, "open" or not, and whether by a fence ever
  flush,            \* the flush each thread is in
  main,             \* how far the end of the job is
  before,           \* drain(): the watermark before this round
  verdict,          \* how run_job() ended
  processed,        \* platform: the records it has processed
  refused,          \* platform: the events it refuses
  crashes, faults,
  misread,          \* history: a flush has read something else than its backlog
  gapped            \* history: a crash has fallen between a drop and its watermark

adapterVars == <<emission, terminalEmitted, terminalSequence, terminalRejected>>
endVars == <<main, before, verdict>>
platformVars == <<processed, refused>>
historyVars == <<crashes, faults, misread, gapped>>
vars == <<spoolVars, adapterVars, channel, flush, endVars, platformVars, historyVars>>

Idle == [pc |-> "idle", mark |-> 0, skip |-> -1, batch |-> {}, tries |-> 0,
         acked |-> 0, rejected |-> {}]

FlushPcs == {"idle", "reading", "sent", "answered", "dropped", "reporting"}

Flush == [pc : FlushPcs, mark : Nat, skip : Nat \cup {-1}, batch : SUBSET Records,
          tries : 0 .. MaxAttempts - 1, acked : Nat \cup {-1},
          rejected : SUBSET (Nat \ {0})]

TypeOK ==
  /\ SpoolTypeOK
  /\ emission \in [Events -> {"new", "checked", "spooled", "failed", "dropped", "lost"}]
  /\ terminalEmitted \in BOOLEAN /\ terminalRejected \in BOOLEAN
  /\ terminalSequence \in Nat
  /\ channel \in {"open", "fenced", "failed"}
  /\ flush \in [Flushers -> Flush]
  /\ main \in {"running", "latching", "skipping", "draining", "flushing", "exiting", "over"}
  /\ before \in Nat
  /\ verdict \in {"none", "ok", "undelivered", "fenced", "raised"}
  /\ processed \subseteq Records
  /\ refused \subseteq Events
  /\ crashes \in 0 .. MaxCrashes /\ faults \in 0 .. MaxFaults
  /\ misread \in BOOLEAN /\ gapped \in BOOLEAN

Init ==
  /\ SpoolInit
  /\ emission = [e \in Events |-> "new"]
  /\ terminalEmitted = FALSE /\ terminalSequence = 0 /\ terminalRejected = FALSE
  /\ channel = "open"
  /\ flush = [f \in Flushers |-> Idle]
  /\ main = "running" /\ before = 0 /\ verdict = "none"
  /\ processed = {} /\ refused \in SUBSET Events
  /\ crashes = 0 /\ faults = 0
  /\ misread = FALSE /\ gapped = FALSE

Alive == verdict = "none"

--------------------------------------------------------------------------------
(* _emit_event, on a worker thread: the checks, then the append. *)

EmissionIs(e, state) == emission' = [emission EXCEPT ![e] = state]

MayEmit == channel # "fenced" /\ ~ terminalEmitted

EmitChecked(e) ==
  /\ Alive /\ e # Terminal /\ emission[e] = "new"
  /\ EmissionIs(e, IF MayEmit THEN "checked" ELSE "dropped")
  /\ UNCHANGED <<spoolVars, terminalEmitted, terminalSequence, terminalRejected,
                 channel, flush, endVars, platformVars, historyVars>>

\* A file system fault during an append
Fault == faults < MaxFaults /\ faults' = faults + 1

\* No append has created the file yet.
NewFile == log = {} /\ \A e \in Events : emission[e] \notin {"spooled", "failed"}

AppendFails(e) ==
  \/ poisoned /\ AppendRefused /\ UNCHANGED faults
  \/ Fault /\ AppendRefused
  \/ Fault /\ AppendPoisons(e)
  \/ Fault /\ NewFile /\ AppendUnsynced(e)

EmitSpooled(e) ==
  /\ Alive /\ e # Terminal /\ emission[e] = "checked"
  /\ \/ Appended(e) /\ EmissionIs(e, "spooled") /\ UNCHANGED faults
     \/ AppendFails(e) /\ EmissionIs(e, "failed")
  /\ UNCHANGED <<terminalEmitted, terminalSequence, terminalRejected, channel,
                 flush, endVars, platformVars, crashes, misread, gapped>>

--------------------------------------------------------------------------------
(* emit_terminal, on the event loop: checks and append, then the latch.  An *)
(* append that raises leaves run_job().  The scheduler has returned: no     *)
(* receipt is under way, a reconcile that reports may be.                   *)

NoFlush == \A f \in Flushers : flush[f].pc = "idle"

EmitTerminal ==
  /\ Alive /\ main = "running" /\ emission[Terminal] = "new"
  /\ MayEmit /\ NoFlush
  /\ \/ /\ Appended(Terminal) /\ EmissionIs(Terminal, "spooled")
        /\ terminalSequence' = nextSequence
        /\ main' = "latching"
        /\ UNCHANGED <<verdict, faults>>
     \/ /\ AppendFails(Terminal) /\ EmissionIs(Terminal, "failed")
        /\ main' = "over" /\ verdict' = "raised"
        /\ UNCHANGED terminalSequence
  /\ UNCHANGED <<terminalEmitted, terminalRejected, channel, flush, before,
                 platformVars, crashes, misread, gapped>>

TerminalLatched ==
  /\ Alive /\ main = "latching"
  /\ terminalEmitted' = TRUE
  /\ main' = "skipping"
  /\ UNCHANGED <<spoolVars, emission, terminalSequence, terminalRejected, channel,
                 flush, before, verdict, platformVars, historyVars>>

\* A fenced attempt emits nothing more and exits at once.
TerminalFenced ==
  /\ Alive /\ main = "running" /\ channel = "fenced" /\ NoFlush
  /\ main' = "over" /\ verdict' = "fenced"
  /\ UNCHANGED <<spoolVars, adapterVars, channel, flush, before, platformVars,
                 historyVars>>

--------------------------------------------------------------------------------
(* EventsClient.flush: the read.  The offset of the first pending record is *)
(* looked up under the lock, the file is read later without it.             *)

Outside == <<spoolVars, emission, terminalEmitted, terminalSequence>>

\* A place in the file is the number of records before it (records of one
\* length); -1 is no cached offset, the whole log is read.
Offset(n) ==
  IF \E r \in log : r.sequence = n
  THEN Cardinality({r \in log : r.sequence < n}) ELSE -1

ReadFrom(offset) ==
  {r \in log : Cardinality({q \in log : q.sequence < r.sequence}) >= offset}

Reading == [Idle EXCEPT !.pc = "reading", !.mark = watermark,
                        !.skip = Offset(watermark + 1)]

\* The latch is open and something is pending; otherwise the call is over.
FlushGoes == channel = "open" /\ ~ Drained

\* Each receipt is pushed, then flushes: those of the workers at once, those of
\* the skipped scenarios one after the other.
Receiving(f) ==
  /\ f # Main /\ flush[f].pc = "idle"
  /\ main = "running" \/ (main = "skipping" /\ NoFlush)

FlushBegin(f) ==
  /\ Alive /\ Receiving(f)
  /\ FlushGoes
  /\ flush' = [flush EXCEPT ![f] = Reading]
  /\ UNCHANGED <<Outside, terminalRejected, channel, endVars, platformVars, historyVars>>

\* The log was rewritten after the lookup: the offset is another record's, or
\* in the middle of one, and what follows does not parse.
Moved(f) == flush[f].skip # -1 /\ Offset(flush[f].mark + 1) # flush[f].skip

Reads(f) ==
  IF Moved(f) THEN {ReadFrom(flush[f].skip), {}} ELSE {After(flush[f].mark)}

Sent(f, batch) ==
  IF batch = {} THEN Idle
  ELSE [flush[f] EXCEPT !.pc = "sent", !.skip = -1, !.batch = batch]

FlushRead(f) ==
  /\ Alive /\ flush[f].pc = "reading"
  /\ \E S \in Reads(f) :
       /\ flush' = [flush EXCEPT ![f] = Sent(f, First(S, BatchSize))]
       /\ misread' = (misread \/ S # After(flush[f].mark))
  /\ UNCHANGED <<Outside, terminalRejected, channel, endVars, platformVars,
                 crashes, faults, gapped>>

--------------------------------------------------------------------------------
(* The platform (external). *)

Numbers(S) == {r.sequence : r \in S}

Top(S) == Max(Numbers(S) \cup {0})

\* The numbers of a batch that it answers are refused
Refusals(S) == {r.sequence : r \in {q \in S : q.event \in refused}}

Process(S) == processed' = processed \cup S /\ UNCHANGED refused

--------------------------------------------------------------------------------
(* EventsClient.flush: the request (_perform_with_retry, classify_response). *)

Requesting(f) == Alive /\ flush[f].pc = "sent"

FlushIs(f, rec) == flush' = [flush EXCEPT ![f] = rec]

\* A request that failed is made again, unless the attempts are used up.
Retried(f) ==
  IF flush[f].tries + 1 = MaxAttempts THEN Idle
  ELSE [flush[f] EXCEPT !.tries = @ + 1]

\* A 2xx answer.  An acknowledgement outside the trusted range stands as -1.
FlushAnswered(f) ==
  /\ Requesting(f)
  /\ Process(flush[f].batch)
  /\ \E acked \in {Top(processed'), -1} :
       FlushIs(f, [flush[f] EXCEPT !.pc = "answered", !.acked = acked,
                                   !.rejected = Refusals(flush[f].batch)])
  /\ UNCHANGED <<Outside, terminalRejected, channel, endVars, historyVars>>

\* A 2xx answer without an acknowledgement: nothing in it is used.
FlushAckMissing(f) ==
  /\ Requesting(f)
  /\ Process(flush[f].batch)
  /\ FlushIs(f, Idle)
  /\ UNCHANGED <<Outside, terminalRejected, channel, endVars, historyVars>>

\* The answer was lost after the platform processed the batch.
FlushAnswerLost(f) ==
  /\ Requesting(f)
  /\ Process(flush[f].batch)
  /\ FlushIs(f, Retried(f))
  /\ UNCHANGED <<Outside, terminalRejected, channel, endVars, historyVars>>

\* 5xx, 429 or no connection
FlushFailed(f) ==
  /\ Requesting(f)
  /\ FlushIs(f, Retried(f))
  /\ UNCHANGED <<Outside, terminalRejected, channel, endVars, platformVars, historyVars>>

\* 413: the first half of the batch, with attempts of its own
FlushHalved(f) ==
  /\ Requesting(f) /\ Cardinality(flush[f].batch) > 1
  /\ FlushIs(f, [flush[f] EXCEPT !.batch = First(@, Cardinality(@) \div 2),
                                 !.tries = 0])
  /\ UNCHANGED <<Outside, terminalRejected, channel, endVars, platformVars, historyVars>>

\* The latch closes once; a fence is recorded even behind a closed latch.
Latches ==
  channel' \in {"fenced"} \cup IF channel = "open" THEN {"failed"} ELSE {channel}

\* 401 or 403; 404 three times
FlushLatches(f) ==
  /\ Requesting(f)
  /\ Latches
  /\ FlushIs(f, Idle)
  /\ UNCHANGED <<Outside, terminalRejected, endVars, platformVars, historyVars>>

\* The clients of receipts and artifacts share the latch; theirs also closes
\* when the attempt is superseded.  The last call is drain()'s push_manifest().
OtherClientLatches ==
  /\ Alive
  /\ (\E f \in Flushers : Receiving(f)) \/ (main = "flushing" /\ flush[Main].pc = "idle")
  /\ Latches
  /\ UNCHANGED <<spoolVars, adapterVars, flush, endVars, platformVars, historyVars>>

--------------------------------------------------------------------------------
(* EventsClient.flush: the answer; aflush_events: the refusals. *)

FlushDropped(f) ==
  /\ Alive /\ flush[f].pc = "answered"
  /\ IF flush[f].rejected = {} THEN UNCHANGED spoolVars ELSE DropMany(flush[f].rejected)
  /\ FlushIs(f, [flush[f] EXCEPT !.pc = "dropped"])
  /\ UNCHANGED <<adapterVars, channel, endVars, platformVars, historyVars>>

\* A poisoned spool: drop_many() raises out of the flush, and out of run_job().
FlushRaises(f) ==
  /\ Alive /\ flush[f].pc = "answered" /\ DropRaises(flush[f].rejected)
  /\ FlushIs(f, Idle)
  /\ IF f = Main THEN main' = "over" /\ verdict' = "raised"
     ELSE UNCHANGED <<main, verdict>>
  /\ UNCHANGED <<spoolVars, adapterVars, channel, before, platformVars, historyVars>>

FlushAdvanced(f) ==
  /\ Alive /\ flush[f].pc = "dropped"
  /\ AdvanceWatermark(flush[f].acked)
  /\ FlushIs(f, IF flush[f].rejected = {} THEN Idle
                ELSE [flush[f] EXCEPT !.pc = "reporting"])
  /\ UNCHANGED <<adapterVars, channel, endVars, platformVars, historyVars>>

\* ack_out_of_range: a result without refusals
FlushUntrusted(f) ==
  /\ Alive /\ flush[f].pc = "dropped"
  /\ AdvanceRaises(flush[f].acked)
  /\ FlushIs(f, Idle)
  /\ UNCHANGED <<spoolVars, adapterVars, channel, endVars, platformVars, historyVars>>

\* The coroutine that awaits the flush is still there to hear of the refusals.
\* The events it logs for them are among those of EmitChecked.
Awaited(f) == f = Main \/ main \in {"running", "skipping"}

FlushReported(f) ==
  /\ Alive /\ flush[f].pc = "reporting"
  /\ terminalRejected' =
       (terminalRejected \/ (Awaited(f) /\ terminalSequence \in flush[f].rejected))
  /\ FlushIs(f, Idle)
  /\ UNCHANGED <<Outside, channel, endVars, platformVars, historyVars>>

--------------------------------------------------------------------------------
(* The rest of _finish: the skipped receipts, cut at the deadline, whose    *)
(* flush then goes on without its coroutine; drain (flush_terminal is the   *)
(* same loop, run earlier); the exit code.                                  *)

SkippingEnds ==
  /\ Alive /\ main = "skipping"
  /\ main' = "draining"
  /\ UNCHANGED <<spoolVars, adapterVars, channel, flush, before, verdict,
                 platformVars, historyVars>>

DrainRound ==
  /\ Alive /\ main = "draining"
  /\ before' = watermark
  /\ main' = "flushing"
  /\ flush' = [flush EXCEPT ![Main] = IF FlushGoes THEN Reading ELSE Idle]
  /\ UNCHANGED <<spoolVars, adapterVars, channel, verdict, platformVars, historyVars>>

RoundOver == Alive /\ main = "flushing" /\ flush[Main].pc = "idle"

\* Mutant: a round without progress is followed by another.
DrainAgainAlways ==
  /\ RoundOver
  /\ channel # "fenced" /\ Pending # {}
  /\ main' = "draining"
  /\ UNCHANGED <<spoolVars, adapterVars, channel, flush, before, verdict,
                 platformVars, historyVars>>

DrainAgain ==
  /\ RoundOver
  /\ channel # "fenced" /\ Pending # {} /\ watermark # before
  /\ main' = "draining"
  /\ UNCHANGED <<spoolVars, adapterVars, channel, flush, before, verdict,
                 platformVars, historyVars>>

\* Fenced, empty, without progress, or past the deadline: drain() returns
\* whether the attempt is fenced, and a fence is the verdict.
DrainEnds ==
  /\ RoundOver
  /\ IF channel = "fenced" THEN main' = "over" /\ verdict' = "fenced"
     ELSE main' = "exiting" /\ UNCHANGED verdict
  /\ UNCHANGED <<spoolVars, adapterVars, channel, flush, before, platformVars,
                 historyVars>>

\* Mutant: the watermark is not looked at.
TerminalUndeliveredRefused == channel # "fenced" /\ terminalRejected

\* terminal_undelivered reads the fence once more: a thread may have latched it
\* since drain() returned.
TerminalUndelivered ==
  /\ channel # "fenced"
  /\ terminalRejected \/ watermark < terminalSequence

Exit ==
  /\ Alive /\ main = "exiting"
  /\ main' = "over"
  /\ verdict' = IF TerminalUndelivered THEN "undelivered" ELSE "ok"
  /\ UNCHANGED <<spoolVars, adapterVars, channel, flush, before, platformVars,
                 historyVars>>

--------------------------------------------------------------------------------
(* The process dies and a new instance recovers the spool. *)

\* A record the platform has closed has left the log above the watermark.
GapOpen == \E r \in processed : r.sequence > watermark /\ r \notin log

Crash ==
  /\ Alive /\ main = "running" /\ crashes < MaxCrashes
  /\ crashes' = crashes + 1 /\ gapped' = (gapped \/ GapOpen)
  /\ Recover
  /\ emission' = [e \in Events |-> IF emission[e] = "checked" THEN "lost" ELSE emission[e]]
  /\ terminalEmitted' = FALSE /\ terminalSequence' = 0 /\ terminalRejected' = FALSE
  /\ channel' = "open"
  /\ flush' = [f \in Flushers |-> Idle]
  /\ UNCHANGED <<endVars, platformVars, faults, misread>>

--------------------------------------------------------------------------------

FlushStep(f) ==
  \/ FlushRead(f)
  \/ FlushAnswered(f) \/ FlushAckMissing(f) \/ FlushAnswerLost(f)
  \/ FlushFailed(f) \/ FlushHalved(f) \/ FlushLatches(f)
  \/ FlushDropped(f) \/ FlushRaises(f) \/ FlushAdvanced(f) \/ FlushUntrusted(f)
  \/ FlushReported(f)

MainStep ==
  \/ EmitTerminal \/ TerminalLatched \/ TerminalFenced
  \/ SkippingEnds \/ DrainRound \/ DrainAgain \/ DrainEnds \/ Exit

Next ==
  \/ \E e \in Events : EmitChecked(e) \/ EmitSpooled(e)
  \/ \E f \in Flushers : FlushBegin(f) \/ FlushStep(f)
  \/ MainStep
  \/ OtherClientLatches \/ Crash

Spec == Init /\ [][Next]_vars

\* Threads that have work go on, and the event loop runs the end of the job.
FairSpec ==
  /\ Spec
  /\ WF_vars(MainStep)
  /\ \A f \in Flushers : WF_vars(FlushStep(f))

--------------------------------------------------------------------------------
(* Properties.  Two steps of the code break what it promises, and the history  *)
(* tells when one has been taken: misread, gapped.                              *)

\* An event whose append returned is never skipped: the platform has processed
\* it, or it is a record the next reads return ("never skips a record that was
\* actually spooled", the class comment of OutboundSpool).
Kept(e) == \E r \in processed \cup After(watermark) : r.event = e

NoEventSkipped == \A e \in Events : emission[e] = "spooled" => Kept(e)

\* Nothing but a misread or a crash in the gap skips an event: other crashes,
\* failed appends, lost answers and flushes that cross do not.
SkipsOnlyByFlaw == ~ misread /\ ~ gapped => NoEventSkipped

\* The platform is never sent two events under one sequence number, whatever
\* reads, crashes outside the gap, failed appends and repeated batches come
\* between.
OneEventPerSequence ==
  ~ gapped => \A r, s \in processed : r.sequence = s.sequence => r = s

\* Exit code 0 is only returned when the platform has processed the terminal
\* event and everything that was spooled before it ("Exit 0 would claim a flush
\* that provably never happened", terminal_undelivered).
Delivered ==
  /\ \E r \in processed : r.event = Terminal
  /\ \A r \in log : r.sequence < terminalSequence => r \in processed

ExitZeroIsDelivered == verdict = "ok" => Delivered

\* Nothing but the two flaws and a fence latched between the two tests of the
\* exit code makes it lie.
ExitZeroLiesOnlyByFlaw ==
  ~ misread /\ ~ gapped /\ channel # "fenced" => ExitZeroIsDelivered

\* The numbers given out, the platform's watermark and the spool's only move as
\* a stream that is appended to: no number is left out or given twice, no record
\* is renumbered or taken back, what is processed is never undone, and what is
\* acknowledged is processed and never undone either (module EventStream).  A
\* crash in the gap ends that.
Known == processed \cup {r \in log : r.sequence < nextSequence}

EventsAt(n) == {r.event : r \in {q \in Known : q.sequence = n}}

Stream == INSTANCE EventStream WITH
            Events <- {{e} : e \in Events},
            stream <- [n \in 1 .. Top(Known) |-> EventsAt(n)],
            closed <- Top(processed),
            confirmed <- watermark

ImplementsStream == Stream!Init /\ [][~ gapped' => Stream!Next]_(Stream!vars)

\* Once the terminal event is spooled the job ends with a verdict.
JobEnds == main # "running" ~> verdict # "none"
================================================================================

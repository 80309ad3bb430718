----------------------------- MODULE CallerBargeIn -----------------------------
(***************************************************************************)
(* A simulated caller that speaks over the agent under test: CallerBargeIn *)
(* of src/src/fi/simulate/simulation/engines/caller_barge_in.py and the    *)
(* handler of a transcription stream that drives it,                       *)
(* _forward_target_transcription of livekit.py; with the follow-ups of a   *)
(* caller who fell silent, _answer_aloud and _still_there, which speak on  *)
(* their own.                                                              *)
(*                                                                         *)
(* All of it runs on one event loop: an action is what one task does       *)
(* between two awaits.  What is generated, how long things take, and       *)
(* whether the dice allow an interjection are choices.                     *)
(***************************************************************************)
EXTENDS Naturals

CONSTANTS
  MaxStreams,  \* bound: transcription streams of the call
  Overlap      \* a stream may open while the handler of an earlier one still waits

ASSUME CallAssumption == MaxStreams \in Nat /\ Overlap \in BOOLEAN

Streams == 1..MaxStreams
None == MaxStreams + 1   \* no preparation, no candidate

VARIABLES
  active, gate,  \* _target_active (in this mode _await_target_text too), _gate_scheduled
  turn,          \* _turn_index
  dialogue,      \* _dialogue_started
  said,          \* history: substantive turns of the target that have ended
  pending,       \* _pending: "none", "sleeping", or "awaiting" the preparation
  preparation,   \* _preparation: None, or said when it began
  candidate,     \* _candidate: None, or said when its preparation began
  play,          \* the last _play_task
  finishing,     \* _finishing_task is the last _play_task
  voiced,        \* events by turn: attempted_at and stopped_at
  stream,        \* the handler of each transcription stream
  of,            \* history: the turn each stream belongs to
  speaking,      \* session.current_speech: the caller's own reply or check-in
  checking,      \* a follow-up sleeps, and no message has come since it was made
  crossed,       \* history: a check-in began before the last interjection's first frame
  closing        \* how far close() is

turnVars == <<active, gate, turn, dialogue, said>>
lineVars == <<preparation, candidate>>
playVars == <<play, voiced>>
ownVars == <<speaking, checking, crossed>>
vars == <<turnVars, pending, lineVars, playVars, finishing, stream, of, ownVars,
          closing>>

Alive == play \in {"scheduled", "playing", "cancelling"}
Interjected(k) == k > 0 /\ voiced[k] \in {"started", "stopped"}
Finished == {"replied", "answered", "recorded", "empty", "failed"}

Init ==
  /\ active = FALSE /\ gate = FALSE /\ turn = 0 /\ dialogue = FALSE /\ said = 0
  /\ pending = "none" /\ preparation = None /\ candidate = None
  /\ play = "none" /\ finishing = FALSE
  /\ voiced = [k \in Streams |-> "no"]
  /\ stream = [n \in Streams |-> "unopened"] /\ of = [n \in Streams |-> 0]
  /\ speaking = FALSE /\ checking = FALSE /\ crossed = FALSE /\ closing = "open"

--------------------------------------------------------------------------------
(* The controller. *)

\* target_ended().  A line is kept only through a turn too short for the gate.
EndTarget(keep) ==
  /\ active' = FALSE /\ pending' = "none"
  /\ said' = IF active /\ gate THEN said + 1 ELSE said
  /\ candidate' = IF keep THEN candidate ELSE None
  /\ UNCHANGED <<gate, turn>>

\* prepare_next(), when the caller's own state changes.
PrepareNext ==
  /\ closing = "open" /\ dialogue /\ ~active
  /\ candidate = None /\ preparation = None
  /\ preparation' = said
  /\ UNCHANGED <<turnVars, pending, candidate, playVars, finishing, stream, of,
                 ownVars, closing>>

\* _prepare() ends with a line, or with none: declined, unsafe, an error.
Prepared ==
  /\ preparation # None /\ preparation' = None
  /\ candidate' \in {candidate, preparation}
  /\ UNCHANGED <<turnVars, pending, playVars, finishing, stream, of, ownVars, closing>>

\* target_text() has seen an explanation; _schedule_gate().  The cooldown is a choice.
GateOpens ==
  /\ \E n \in Streams : stream[n] = "open"
  /\ active /\ ~gate /\ gate' = TRUE
  /\ pending' \in
       IF dialogue /\ pending = "none" /\ ~finishing /\ ~Alive
       THEN {"none", "sleeping"} ELSE {pending}
  /\ UNCHANGED <<active, turn, dialogue, said, lineVars, playVars, finishing, stream,
                 of, ownVars, closing>>

\* The rest of _try_barge(): there is a line and the caller is not busy, or nothing.
Interject ==
  \/ UNCHANGED <<candidate, playVars, crossed>>
  \/ /\ active /\ candidate # None /\ ~speaking
     /\ candidate' = None /\ play' = "scheduled" /\ crossed' = FALSE
     /\ voiced' = [voiced EXCEPT ![turn] = "scheduled"]

\* It has slept, and the turn goes on: it waits for a preparation, or goes on itself.
\* A handler that was woken runs in the loop's next turns, before a stream that opens
\* later can be read up to the gate.
Awake ==
  /\ pending = "sleeping"
  /\ \A n \in Streams : stream[n] \notin {"woken", "broken"}
  /\ IF preparation # None
     THEN pending' = "awaiting" /\ UNCHANGED <<candidate, playVars, crossed>>
     ELSE pending' = "none" /\ Interject
  /\ UNCHANGED <<turnVars, preparation, finishing, stream, of, speaking, checking,
                 closing>>

\* The preparation is over, or has taken too long.
GoesOn ==
  /\ pending = "awaiting" /\ pending' = "none"
  /\ \/ preparation = None /\ Interject
     \/ preparation # None /\ UNCHANGED <<candidate, playVars, crossed>>
  /\ UNCHANGED <<turnVars, preparation, finishing, stream, of, speaking, checking,
                 closing>>

\* The first frame is out, and the line becomes a message of the call.
PlayStarts ==
  /\ play = "scheduled" /\ play' = "playing" /\ checking' = FALSE
  /\ voiced' = [k \in Streams |-> IF voiced[k] = "scheduled" THEN "started" ELSE voiced[k]]
  /\ UNCHANGED <<turnVars, pending, lineVars, finishing, stream, of, speaking, crossed,
                 closing>>

\* _play() returns, or is cancelled, which whoever waits for it sees as its own
\* cancellation.
PlayEnds ==
  /\ Alive
  /\ play' = IF play = "cancelling" THEN "cancelled" ELSE "done"
  /\ voiced' = [k \in Streams |->
       CASE voiced[k] = "started" -> "stopped"
         [] voiced[k] = "scheduled" -> "failed" [] OTHER -> voiced[k]]
  /\ stream' = [n \in Streams |->
       IF stream[n] # "waiting" THEN stream[n]
       ELSE IF play = "cancelling" THEN "broken" ELSE "woken"]
  /\ UNCHANGED <<turnVars, pending, lineVars, finishing, of, ownVars, closing>>

\* 1.25 s have passed since stopped_at.
Fades(k) ==
  /\ voiced[k] = "stopped" /\ voiced' = [voiced EXCEPT ![k] = "past"]
  /\ UNCHANGED <<turnVars, pending, lineVars, play, finishing, stream, of, ownVars,
                 closing>>

--------------------------------------------------------------------------------
(* The streams. *)

\* on_target_transcription(): a handler for stream n, and target_started().
StreamOpens(n) ==
  /\ stream[n] = "unopened" /\ \A m \in Streams : m < n => stream[m] # "unopened"
  /\ Overlap \/ \A m \in Streams : m < n => stream[m] \in Finished
  /\ stream' = [stream EXCEPT ![n] = "open"]
  /\ IF closing = "open" /\ ~active
     THEN active' = TRUE /\ gate' = FALSE /\ turn' = turn + 1
     ELSE UNCHANGED <<active, gate, turn>>
  /\ of' = [of EXCEPT ![n] = turn']
  /\ UNCHANGED <<dialogue, said, pending, lineVars, playVars, finishing, ownVars,
                 closing>>

\* What the handler does with a turn that is not to be answered twice.  Each way adds
\* a message to the call.
Answer(n) ==
  LET reply == ~Interjected(turn) /\ closing = "open" IN
  /\ stream' = [stream EXCEPT ![n] =
       IF Interjected(turn) THEN "answered" ELSE IF reply THEN "replied" ELSE "recorded"]
  /\ speaking' = (speaking \/ reply) /\ checking' = FALSE /\ UNCHANGED crossed

\* The stream is complete: target_ended(), and an empty one returns through the
\* handler's finally clause, which calls target_ended() once more.  A line is never
\* kept by both.  Mutant: the handler does not wait for the interjection.
StreamEndsHasty(n) ==
  /\ stream[n] = "open"
  /\ finishing' = (finishing \/ Alive)
  /\ EndTarget(FALSE) /\ dialogue' = TRUE /\ Answer(n)
  /\ UNCHANGED <<preparation, playVars, of, closing>>
StreamEnds(n) ==
  /\ stream[n] = "open"
  /\ finishing' = (finishing \/ Alive)
  /\ \/ /\ EndTarget(FALSE)   \* no text
        /\ stream' = [stream EXCEPT ![n] = "empty"] /\ UNCHANGED <<dialogue, ownVars>>
     \/ /\ dialogue' = TRUE
        /\ \/ ~finishing' /\ EndTarget(FALSE) /\ Answer(n)
           \/ /\ finishing' /\ EndTarget(active /\ ~gate)
              /\ stream' = [stream EXCEPT ![n] =
                   IF Alive THEN "waiting"
                   ELSE IF play = "cancelled" THEN "broken" ELSE "woken"]
              /\ UNCHANGED ownVars
  /\ UNCHANGED <<preparation, playVars, of, closing>>

\* wait_for_interjection() returns, because the interjection ended or after 4 s, when
\* it cancels it; then the finally clause ends the target, whoever is speaking now, and
\* an interjection that is still being cancelled is finishing once more.
Resume(n) ==
  /\ stream[n] \in {"waiting", "woken"}
  /\ play' = IF stream[n] = "waiting" THEN "cancelling" ELSE play
  /\ Answer(n) /\ EndTarget(FALSE)
  /\ finishing' = Alive
  /\ UNCHANGED <<dialogue, preparation, voiced, of, closing>>

\* It raises CancelledError: "target_transcription_cancelled", and the call fails.
Broken(n) ==
  /\ stream[n] = "broken" /\ stream' = [stream EXCEPT ![n] = "failed"]
  /\ EndTarget(FALSE)
  /\ finishing' = Alive
  /\ UNCHANGED <<dialogue, preparation, playVars, of, ownVars, closing>>

\* The caller's own speech ends.
ReplyEnds ==
  /\ speaking /\ speaking' = FALSE
  /\ UNCHANGED <<turnVars, pending, lineVars, playVars, finishing, stream, of, checking,
                 crossed, closing>>

\* A reply holds or comes out empty: _on_hold() or _on_unspoken() makes a follow-up,
\* which sleeps.
Holds ==
  /\ speaking /\ closing = "open" /\ checking' = TRUE
  /\ UNCHANGED <<turnVars, pending, lineVars, playVars, finishing, stream, of, speaking,
                 crossed, closing>>

\* It has slept, nothing was said since, and the session is not busy: the caller
\* speaks up.  An interjection is not the session's, and is not asked about.
CheckIn ==
  /\ checking /\ ~speaking /\ closing = "open"
  /\ checking' = FALSE /\ speaking' = TRUE
  /\ crossed' = (crossed \/ play = "scheduled")
  /\ UNCHANGED <<turnVars, pending, lineVars, playVars, finishing, stream, of, closing>>

--------------------------------------------------------------------------------
(* The end of the call: conversation_ended is set, end_of_call() cancels the *)
(* follow-ups, and close() runs.                                            *)

\* Up to its first await; the preparation is cancelled.  Mutant: the turn goes on.
CloseQuietly ==
  /\ closing = "open" /\ closing' = "ended" /\ checking' = FALSE
  /\ finishing' = (finishing \/ Alive) /\ preparation' = None
  /\ UNCHANGED <<turnVars, pending, candidate, playVars, stream, of, speaking, crossed>>
Close ==
  /\ closing = "open" /\ closing' = "ended" /\ checking' = FALSE
  /\ EndTarget(active /\ ~gate)
  /\ finishing' = (finishing \/ Alive) /\ preparation' = None
  /\ UNCHANGED <<dialogue, playVars, stream, of, speaking, crossed>>

CutInterjection ==
  /\ closing = "ended" /\ closing' = "cut"
  /\ play' = IF Alive THEN "cancelling" ELSE play
  /\ UNCHANGED <<turnVars, pending, lineVars, voiced, finishing, stream, of, ownVars>>

Closed ==
  /\ closing = "cut" /\ ~Alive /\ closing' = "closed"
  /\ finishing' = FALSE
  /\ UNCHANGED <<turnVars, pending, lineVars, playVars, stream, of, ownVars>>

--------------------------------------------------------------------------------

Next ==
  \/ PrepareNext \/ Prepared \/ GateOpens \/ Awake \/ GoesOn
  \/ PlayStarts \/ PlayEnds \/ \E k \in Streams : Fades(k)
  \/ \E n \in Streams : StreamOpens(n) \/ StreamEnds(n) \/ Resume(n) \/ Broken(n)
  \/ ReplyEnds \/ Holds \/ CheckIn \/ Close \/ CutInterjection \/ Closed

Spec == Init /\ [][Next]_vars

--------------------------------------------------------------------------------

\* The caller has one voice.  "Never queue this behind the simulator's own ongoing
\* sentence", and "Finish the short interjection before handing the completed turn to
\* LiveKit": no interjection plays while the caller's own speech does, in whatever
\* order turns end, handlers wake, preparations finish and streams overlap; except
\* that a check-in may begin between the decision to interject and the first frame.
OneVoice == speaking /\ play \in {"scheduled", "playing"} => crossed

\* No exception: an interjection is never heard beside the caller's own speech.
OneVoiceEver == ~(speaking /\ play = "playing")

\* Once close() is done the caller is silent and nothing can make it speak: no
\* interjection is alive and no decision to play one is under way.
QuietOnceClosed == closing = "closed" => ~Alive /\ pending = "none"

\* "It is still a caller turn and must not be duplicated": no reply is made to a turn
\* the caller has just spoken over.
AnsweredOnce ==
  [][\A n \in Streams :
       stream[n] # "replied" /\ stream'[n] = "replied" => ~Interjected(of[n])]_vars

\* "Keep a prepared line through a short filler ("One moment") because the real
\* explanation normally follows": a handler of a turn too short for the gate that
\* runs to its end leaves the line there was.
FillerKeepsLine ==
  [][\A n \in Streams :
       stream[n] = "open" /\ stream'[n] \in Finished /\ active /\ ~gate
         => candidate' = candidate]_vars

\* "Otherwise the context changed": a line that is played was prepared after the last
\* explanation the target has finished.
LineIsFresh == [][play # "scheduled" /\ play' = "scheduled" => candidate = said]_vars

\* "The trailing target turn survives regardless of session state": a turn that was
\* read to its end is never reported as one that could not be captured.
CapturedTurnsCount == \A n \in Streams : stream[n] # "failed"

================================================================================

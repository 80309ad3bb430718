-------------------------- MODULE CallerBargeInProofs --------------------------
(***************************************************************************)
(* CallerBargeIn for any number of streams: the caller has one voice, and  *)
(* is quiet once closed.                                                   *)
(***************************************************************************)
EXTENDS CallerBargeIn, TLAPS

\* Every stream has a handler in one of its steps.
Handlers ==
  stream \in [Streams -> {"unopened", "open", "waiting", "woken", "broken"} \cup Finished]

\* A decision is pending only while the target speaks and nothing is playing.
DecidesAlone == pending # "none" => active /\ ~Alive

\* A handler is woken by the end of an interjection, and no other has begun since.
WokenInSilence ==
  \A n \in Streams : stream[n] \in {"woken", "broken"} =>
    play \notin {"scheduled", "playing"} /\ pending # "awaiting"

\* A handler waits for an interjection that is alive.
WaitsForLife == \A n \in Streams : stream[n] = "waiting" => Alive

\* A follow-up that still waits was not told of an interjection that plays: it has
\* begun before its first frame, or holds again since.
MessageSilences == checking /\ play = "playing" => crossed

\* Nothing is decided once the call is over.
OverIsOver ==
  /\ closing # "open" => ~active /\ pending = "none"
  /\ closing = "closed" => ~Alive

Inv ==
  /\ Handlers /\ OneVoice /\ MessageSilences /\ DecidesAlone /\ WokenInSilence
  /\ WaitsForLife /\ OverIsOver

--------------------------------------------------------------------------------

LEMMA InitInv == Init => Inv
<1> SUFFICES ASSUME Init PROVE Inv
  OBVIOUS
<1>1. Handlers /\ \A n \in Streams : stream[n] = "unopened"
  BY DEF Init, Handlers
<1>2. OneVoice /\ MessageSilences /\ DecidesAlone /\ OverIsOver
  BY DEF Init, OneVoice, MessageSilences, DecidesAlone, OverIsOver, Alive
<1>3. WokenInSilence /\ WaitsForLife
  BY <1>1 DEF WokenInSilence, WaitsForLife
<1> QED
  BY <1>1, <1>2, <1>3 DEF Inv

\* Awake and GoesOn: a decision that plays, or not.
LEMMA DecisionInv ==
  ASSUME Inv, pending # "none", Interject, pending' = "none",
         \A n \in Streams : stream[n] \notin {"woken", "broken"},
         UNCHANGED <<turnVars, preparation, finishing, stream, of, speaking, checking,
                     closing>>
  PROVE  Inv'
<1>1. active /\ ~Alive /\ closing = "open"
  BY DEF Inv, DecidesAlone, OverIsOver
<1>2. OneVoice' /\ MessageSilences'
  BY DEF Inv, OneVoice, MessageSilences, Interject, playVars
<1>3. DecidesAlone' /\ WokenInSilence' /\ OverIsOver' /\ Handlers'
  BY <1>1 DEF Inv, DecidesAlone, WokenInSilence, OverIsOver, Handlers, turnVars
<1>4. WaitsForLife'
  BY <1>1 DEF Inv, WaitsForLife
<1> QED
  BY <1>2, <1>3, <1>4 DEF Inv

LEMMA NextInv == Inv /\ [Next]_vars => Inv'
<1> SUFFICES ASSUME Inv, [Next]_vars PROVE Inv'
  OBVIOUS
<1> USE DEF Inv, ownVars
<1>1. CASE PrepareNext \/ Prepared \/ ReplyEnds \/ UNCHANGED vars
         \/ \E k \in Streams : Fades(k)
  <2>1. /\ UNCHANGED <<play, pending, active, stream, closing>>
        /\ UNCHANGED <<checking, crossed>> /\ (speaking' => speaking)
    BY <1>1 DEF PrepareNext, Prepared, ReplyEnds, Fades, vars, turnVars, playVars, ownVars
  <2> QED
    BY <2>1 DEF OneVoice, MessageSilences, DecidesAlone, WokenInSilence, WaitsForLife,
       OverIsOver, Alive, Handlers
<1>2. CASE GateOpens
  <2>1. /\ active /\ closing = "open"
        /\ UNCHANGED <<play, active, stream, closing, ownVars>>
        /\ pending' = pending \/ pending' = "none" \/ (pending' = "sleeping" /\ ~Alive)
    BY <1>2 DEF GateOpens, playVars, OverIsOver
  <2> QED
    BY <2>1 DEF OneVoice, MessageSilences, DecidesAlone, WokenInSilence, WaitsForLife,
       OverIsOver, Alive, Handlers
<1>3. CASE Awake
  <2>1. CASE preparation # None
    <3>1. /\ pending' = "awaiting" /\ pending = "sleeping"
          /\ \A n \in Streams : stream[n] \notin {"woken", "broken"}
          /\ UNCHANGED <<play, active, stream, closing, ownVars>>
      BY <1>3, <2>1 DEF Awake, playVars, turnVars
    <3> QED
      BY <3>1 DEF OneVoice, MessageSilences, DecidesAlone, WokenInSilence, WaitsForLife,
       OverIsOver, Alive, Handlers
  <2>2. CASE preparation = None
    BY <1>3, <2>2, DecisionInv DEF Awake
  <2> QED
    BY <2>1, <2>2
<1>4. CASE GoesOn
  <2>1. CASE Interject
    <3>1. \A n \in Streams : stream[n] \notin {"woken", "broken"}
      BY <1>4 DEF GoesOn, WokenInSilence
    <3> QED
      BY <1>4, <2>1, <3>1, DecisionInv DEF GoesOn
  <2>2. CASE UNCHANGED <<candidate, playVars, crossed>>
    <3>1. pending' = "none" /\ UNCHANGED <<play, active, stream, closing, ownVars>>
      BY <1>4, <2>2 DEF GoesOn, playVars, turnVars
    <3> QED
      BY <3>1 DEF OneVoice, MessageSilences, DecidesAlone, WokenInSilence, WaitsForLife,
       OverIsOver, Alive, Handlers
  <2> QED
    BY <1>4, <2>1, <2>2 DEF GoesOn
<1>5. CASE PlayStarts
  <2>1. /\ play = "scheduled" /\ play' = "playing"
        /\ checking' = FALSE
        /\ UNCHANGED <<pending, active, stream, closing, speaking, crossed>>
    BY <1>5 DEF PlayStarts, turnVars
  <2> QED
    BY <2>1 DEF OneVoice, MessageSilences, DecidesAlone, WokenInSilence, WaitsForLife,
       OverIsOver, Alive, Handlers
<1>6. CASE PlayEnds
  <2>1. /\ Alive /\ play' \in {"cancelled", "done"}
        /\ UNCHANGED <<pending, active, closing, ownVars>>
    BY <1>6 DEF PlayEnds, turnVars
  <2>2. pending = "none"
    BY <2>1 DEF DecidesAlone
  <2>3. Handlers' /\ \A n \in Streams : stream'[n] # "waiting"
    BY <1>6 DEF PlayEnds, Handlers
  <2>4. OneVoice' /\ MessageSilences' /\ DecidesAlone' /\ OverIsOver'
    BY <2>1, <2>2 DEF OneVoice, MessageSilences, DecidesAlone, OverIsOver, Alive
  <2>5. WokenInSilence' /\ WaitsForLife'
    BY <2>1, <2>2, <2>3 DEF WokenInSilence, WaitsForLife
  <2> QED
    BY <2>3, <2>4, <2>5
<1>7. ASSUME NEW n \in Streams, StreamOpens(n) PROVE Inv'
  <2>1. /\ UNCHANGED <<play, pending, closing, ownVars>>
        /\ active' = active \/ (closing = "open" /\ ~active /\ active')
    BY <1>7 DEF StreamOpens, playVars
  <2>2. Handlers' /\ \A m \in Streams :
          stream'[m] \in {"waiting", "woken", "broken"} => stream[m] = stream'[m]
    BY <1>7 DEF StreamOpens, Handlers
  <2>3. OneVoice' /\ MessageSilences' /\ OverIsOver'
    BY <2>1 DEF OneVoice, MessageSilences, OverIsOver, Alive
  <2>4. DecidesAlone'
    BY <2>1 DEF DecidesAlone, Alive
  <2>5. WokenInSilence' /\ WaitsForLife'
    BY <2>1, <2>2 DEF WokenInSilence, WaitsForLife, Alive
  <2> QED
    BY <2>2, <2>3, <2>4, <2>5
<1>8. ASSUME NEW n \in Streams, StreamEnds(n) PROVE Inv'
  <2>1. pending' = "none" /\ active' = FALSE /\ UNCHANGED <<play, closing>>
    BY <1>8 DEF StreamEnds, EndTarget, playVars
  <2>2. CASE stream' = [stream EXCEPT ![n] = "empty"] /\ UNCHANGED ownVars
    <3>1. Handlers' /\ \A m \in Streams :
            stream'[m] \in {"waiting", "woken", "broken"} => stream[m] = stream'[m]
      BY <2>2 DEF Handlers, Finished
    <3>2. OneVoice' /\ MessageSilences' /\ DecidesAlone' /\ OverIsOver'
      BY <2>1, <2>2 DEF OneVoice, MessageSilences, DecidesAlone, OverIsOver, Alive
    <3>3. WokenInSilence' /\ WaitsForLife'
      BY <2>1, <3>1 DEF WokenInSilence, WaitsForLife, Alive
    <3> QED
      BY <3>1, <3>2, <3>3
  <2>3. CASE ~finishing' /\ Answer(n)
    <3>1. ~Alive
      BY <1>8, <2>3 DEF StreamEnds
    <3>2. Handlers' /\ \A m \in Streams :
            stream'[m] \in {"waiting", "woken", "broken"} => stream[m] = stream'[m]
      BY <2>3 DEF Answer, Handlers, Finished
    <3>3. OneVoice' /\ MessageSilences' /\ DecidesAlone' /\ OverIsOver'
      BY <2>1, <3>1 DEF OneVoice, MessageSilences, DecidesAlone, OverIsOver, Alive
    <3>4. WokenInSilence' /\ WaitsForLife'
      BY <2>1, <3>2 DEF WokenInSilence, WaitsForLife, Alive
    <3> QED
      BY <3>2, <3>3, <3>4
  <2>4. CASE /\ stream' = [stream EXCEPT ![n] =
                  IF Alive THEN "waiting"
                  ELSE IF play = "cancelled" THEN "broken" ELSE "woken"]
             /\ UNCHANGED ownVars
    <3>1. Handlers'
      BY <2>4 DEF Handlers
    <3>2. \A m \in Streams :
            /\ stream'[m] \in {"woken", "broken"} => stream[m] = stream'[m] \/ ~Alive
            /\ stream'[m] = "waiting" => stream[m] = stream'[m] \/ Alive
      BY <2>4 DEF Handlers
    <3>3. OneVoice' /\ MessageSilences' /\ DecidesAlone' /\ OverIsOver'
      BY <2>1, <2>4 DEF OneVoice, MessageSilences, DecidesAlone, OverIsOver, Alive
    <3>4. WokenInSilence' /\ WaitsForLife'
      BY <2>1, <3>2 DEF WokenInSilence, WaitsForLife, Alive
    <3> QED
      BY <3>1, <3>3, <3>4
  <2> QED
    BY <1>8, <2>2, <2>3, <2>4 DEF StreamEnds
<1>9. ASSUME NEW n \in Streams, Resume(n) PROVE Inv'
  <2>1. /\ pending' = "none" /\ active' = FALSE /\ closing' = closing
        /\ \/ stream[n] = "waiting" /\ play' = "cancelling"
           \/ stream[n] = "woken" /\ play' = play
    BY <1>9 DEF Resume, EndTarget
  <2>2. play' \notin {"scheduled", "playing"}
    BY <2>1 DEF WokenInSilence
  <2>3. Handlers' /\ \A m \in Streams :
          stream'[m] \in {"waiting", "woken", "broken"} => stream[m] = stream'[m]
    BY <1>9 DEF Resume, Answer, Handlers, Finished
  <2>4. Alive' <=> Alive
    BY <2>1 DEF WaitsForLife, Alive
  <2>5. OneVoice' /\ MessageSilences' /\ DecidesAlone' /\ OverIsOver'
    BY <2>1, <2>2, <2>4 DEF OneVoice, MessageSilences, DecidesAlone, OverIsOver
  <2>6. WokenInSilence' /\ WaitsForLife'
    BY <2>1, <2>2, <2>3, <2>4 DEF WokenInSilence, WaitsForLife
  <2> QED
    BY <2>3, <2>5, <2>6
<1>10. ASSUME NEW n \in Streams, Broken(n) PROVE Inv'
  <2>1. pending' = "none" /\ active' = FALSE /\ UNCHANGED <<play, closing, ownVars>>
    BY <1>10 DEF Broken, EndTarget, playVars
  <2>2. Handlers' /\ \A m \in Streams :
          stream'[m] \in {"waiting", "woken", "broken"} => stream[m] = stream'[m]
    BY <1>10 DEF Broken, Handlers, Finished
  <2>3. OneVoice' /\ MessageSilences' /\ DecidesAlone' /\ OverIsOver'
    BY <2>1 DEF OneVoice, MessageSilences, DecidesAlone, OverIsOver, Alive
  <2>4. WokenInSilence' /\ WaitsForLife'
    BY <2>1, <2>2 DEF WokenInSilence, WaitsForLife, Alive
  <2> QED
    BY <2>2, <2>3, <2>4
<1>11. CASE Close
  <2>1. /\ pending' = "none" /\ active' = FALSE /\ closing' = "ended"
        /\ checking' = FALSE /\ UNCHANGED <<play, stream, speaking, crossed>>
    BY <1>11 DEF Close, EndTarget, playVars
  <2> QED
    BY <2>1 DEF OneVoice, MessageSilences, DecidesAlone, WokenInSilence, WaitsForLife,
       OverIsOver, Alive, Handlers
<1>12. CASE Holds
  <2>1. /\ speaking
        /\ UNCHANGED <<play, pending, active, stream, closing, speaking, crossed>>
    BY <1>12 DEF Holds, turnVars, playVars
  <2> QED
    BY <2>1 DEF OneVoice, MessageSilences, DecidesAlone, WokenInSilence, WaitsForLife,
       OverIsOver, Alive, Handlers
<1>13. CASE CheckIn
  <2>1. /\ checking /\ checking' = FALSE /\ crossed' = (crossed \/ play = "scheduled")
        /\ UNCHANGED <<play, pending, active, stream, closing>>
    BY <1>13 DEF CheckIn, turnVars, playVars
  <2> QED
    BY <2>1 DEF OneVoice, MessageSilences, DecidesAlone, WokenInSilence, WaitsForLife,
       OverIsOver, Alive, Handlers
<1>14. CASE CutInterjection
  <2>1. /\ closing = "ended" /\ closing' = "cut"
        /\ UNCHANGED <<pending, active, stream, ownVars>>
        /\ play' = "cancelling" \/ (play' = play /\ ~Alive)
    BY <1>14 DEF CutInterjection, turnVars
  <2>2. pending = "none"
    BY <2>1 DEF OverIsOver
  <2> QED
    BY <2>1, <2>2 DEF OneVoice, MessageSilences, DecidesAlone, WokenInSilence, WaitsForLife,
       OverIsOver, Alive, Handlers
<1>15. CASE Closed
  <2>1. /\ closing = "cut" /\ ~Alive /\ closing' = "closed"
        /\ UNCHANGED <<pending, active, stream, ownVars, play>>
    BY <1>15 DEF Closed, turnVars, playVars
  <2> QED
    BY <2>1 DEF OneVoice, MessageSilences, DecidesAlone, WokenInSilence, WaitsForLife,
       OverIsOver, Alive, Handlers
<1> QED
  BY <1>1, <1>2, <1>3, <1>4, <1>5, <1>6, <1>7, <1>8, <1>9, <1>10, <1>11, <1>12, <1>13,
     <1>14, <1>15
  DEF Next

LEMMA Invariant == Spec => []Inv
BY InitInv, NextInv, PTL DEF Spec

--------------------------------------------------------------------------------

\* However turns end, handlers wake, preparations finish and streams overlap, no
\* interjection plays while the caller's own speech does, unless a check-in began
\* between the decision to interject and the first frame.
THEOREM SpeaksWithOneVoice == Spec => []OneVoice
<1>1. Inv => OneVoice
  BY DEF Inv
<1> QED
  BY <1>1, Invariant, PTL

\* After close() no interjection is alive and none is being decided.
THEOREM QuietAfterClose == Spec => []QuietOnceClosed
<1>1. Inv => QuietOnceClosed
  BY DEF Inv, OverIsOver, QuietOnceClosed
<1> QED
  BY <1>1, Invariant, PTL

================================================================================

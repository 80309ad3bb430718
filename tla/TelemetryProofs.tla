----------------------------- MODULE TelemetryProofs -----------------------------
(***************************************************************************)
(* Theorems of TelemetryQueue, for every number of rows, threads, faults   *)
(* and appends around the queue.                                           *)
(*                                                                         *)
(* Two layers.  Every step of the queue is at most one step of one append  *)
(* (LedgerNext), and a step of the appends preserves the invariant of the  *)
(* ledger (LedgerInv) whoever takes it.  Above it stands the invariant of  *)
(* the queue: one worker is alive, pending counts the rows queued and in   *)
(* its hand, and an accepted row is queued, in hand, written or lost.      *)
(***************************************************************************)
EXTENDS TelemetryQueue, FiniteSetTheorems, WellFoundedInduction, TLAPS

Steps == {"none", "write", "head", "merged"}
Row == [id : Ids, chain : Digests]
Call == [step : Steps, id : Ids \cup {<<>>}, prev : Digests]

LedgerType ==
  /\ file \in Seq(Row) /\ head \in Digests
  /\ torn \in {"no", "tail", "line"}
  /\ append \in [Writers -> Call]
  /\ raced \in BOOLEAN /\ stale \subseteq Nat
  /\ \A w \in Writers : Busy(w) => append[w].id \in Ids

\* What an append under way knows of the file.
AppendSound(w) ==
  /\ append[w].step = "write" => append[w].prev = Scanned \/ Len(file) \in stale
  /\ append[w].step = "head" =>
       file # <<>> /\ file[Len(file)].chain = Link(append[w].prev, append[w].id)

Alone == \A v, w \in Writers : Busy(v) /\ Busy(w) => v = w

HeadCurrent ==
  (\A w \in Writers : ~HasWritten(w)) => LastState = Scanned \/ Len(file) \in stale

\* A break is right below a row without its chain.head.
Links == \A n \in DOMAIN file : n - 1 \in stale \/ Linked(n)

\* No line was cut short.
Sound == torn = "no"

Chained == /\ Links /\ HeadCurrent
           /\ \A w \in Writers : AppendSound(w) /\ append[w].step # "merged"

ChainInv ==
  /\ ~raced => Alone
  /\ ~raced /\ Sound => Chained

LedgerInv == LedgerType /\ ChainInv

AppendStep(w) ==
  \/ \E id \in Ids : AppendReads(w, id)
  \/ AppendWrites(w) \/ AppendMerges(w) \/ AppendRaises(w) \/ AppendHeads(w)
  \/ AppendKeepsHead(w)

LedgerNext ==
  (\E w \in Writers : AppendStep(w)) \/ AppendsCut \/ UNCHANGED ledgerVars

--------------------------------------------------------------------------------
(* The ledger. *)

LEMMA LedgerStart == LedgerInit => LedgerInv
<1> SUFFICES ASSUME LedgerInit PROVE LedgerInv
  OBVIOUS
<1>1. GENESIS \in Digests /\ Ended \in Call
  BY DEF GENESIS, Digests, Ended, Call, Steps
<1>2. LedgerType
  <2>1. file \in Seq(Row) /\ head \in Digests
    BY <1>1 DEF LedgerInit
  <2>2. append \in [Writers -> Call] /\ \A w \in Writers : ~Busy(w)
    BY <1>1 DEF LedgerInit, Busy, Ended
  <2>3. raced \in BOOLEAN /\ stale \subseteq Nat /\ torn \in {"no", "tail", "line"}
    BY Zenon DEF LedgerInit
  <2> QED
    BY <2>1, <2>2, <2>3 DEF LedgerType
<1>3. ChainInv
  BY DEF LedgerInit, ChainInv, Alone, Links, HeadCurrent, AppendSound, Busy,
         Ended, Scanned, LastState, HasWritten, Chained
<1> QED
  BY <1>2, <1>3 DEF LedgerInv

LEMMA LinkIsDigest ==
  ASSUME NEW d \in Digests, NEW id \in Ids
  PROVE  Link(d, id) \in Digests
BY DEF Link, Digests

LEMMA LastStateIsDigest == LedgerType => LastState \in Digests
<1> SUFFICES ASSUME LedgerType PROVE LastState \in Digests
  OBVIOUS
<1>1. GENESIS \in Digests
  BY DEF GENESIS, Digests
<1>2. Scanned \in Digests
  <2>1. CASE file = <<>>
    BY <2>1, <1>1 DEF Scanned
  <2>2. CASE file # <<>>
    <3>1. Len(file) \in DOMAIN file
      BY <2>2 DEF LedgerType
    <3>2. file[Len(file)] \in Row
      BY <3>1 DEF LedgerType
    <3> QED
      BY <2>2, <3>2 DEF Scanned, Row
  <2> QED
    BY <2>1, <2>2
<1> QED
  BY <1>2 DEF LastState, LedgerType

LEMMA LedgerTypeStep ==
  ASSUME LedgerType, LedgerNext
  PROVE  LedgerType'
<1> USE DEF LedgerType
<1>1. ASSUME NEW w \in Writers, NEW id \in Ids, AppendReads(w, id)
      PROVE  LedgerType'
  <2>1. [step |-> "write", id |-> id, prev |-> LastState] \in Call
    BY LastStateIsDigest DEF Call, Steps
  <2>2. append' \in [Writers -> Call]
    BY <1>1, <2>1 DEF AppendReads
  <2>3. raced' \in BOOLEAN
    BY <1>1, Zenon DEF AppendReads
  <2>4. \A v \in Writers : Busy(v)' => append'[v].id \in Ids
    BY <1>1 DEF AppendReads, Busy
  <2> QED
    BY <1>1, <2>2, <2>3, <2>4 DEF AppendReads
<1>2. ASSUME NEW w \in Writers, AppendWrites(w)
      PROVE  LedgerType'
  <2>1. append[w] \in Call /\ append[w].id \in Ids
    BY <1>2 DEF AppendWrites, Busy
  <2>2. [id |-> append[w].id, chain |-> Link(append[w].prev, append[w].id)] \in Row
    BY <2>1, LinkIsDigest DEF Row, Call
  <2>3. file' \in Seq(Row)
    BY <1>2, <2>2 DEF AppendWrites
  <2>4. append' \in [Writers -> Call]
    BY <1>2, <2>1 DEF AppendWrites, Call, Steps
  <2>5. \A v \in Writers : Busy(v)' => append'[v].id \in Ids
    BY <1>2 DEF AppendWrites, Busy
  <2> QED
    BY <1>2, <2>3, <2>4, <2>5 DEF AppendWrites
<1>8. ASSUME NEW w \in Writers, AppendMerges(w)
      PROVE  LedgerType'
  <2>1. append[w] \in Call /\ append[w].id \in Ids
    BY <1>8 DEF AppendMerges, Busy
  <2>2. append' \in [Writers -> Call]
    BY <1>8, <2>1 DEF AppendMerges, Call, Steps
  <2>3. \A v \in Writers : Busy(v)' => append'[v].id \in Ids
    BY <1>8 DEF AppendMerges, Busy
  <2> QED
    BY <1>8, <2>2, <2>3 DEF AppendMerges
<1>3. Ended \in Call
  BY DEF Ended, Call, Steps, Digests, GENESIS
<1>4. ASSUME NEW w \in Writers, AppendRaises(w) \/ AppendKeepsHead(w)
      PROVE  LedgerType'
  <2>1. append' = [append EXCEPT ![w] = Ended]
    BY <1>4 DEF AppendRaises, AppendKeepsHead
  <2>4. stale' \subseteq Nat
    <3>1. Len(file) \in Nat
      OBVIOUS
    <3>2. stale' = stale \/ stale' = stale \cup {Len(file)}
      BY <1>4 DEF AppendRaises, AppendKeepsHead
    <3> QED
      BY <3>1, <3>2
  <2>2. append' \in [Writers -> Call]
    BY <2>1, <1>3
  <2>3. \A v \in Writers : Busy(v)' => append'[v].id \in Ids
    BY <2>1 DEF Busy, Ended
  <2> QED
    BY <1>4, <2>2, <2>3, <2>4 DEF AppendRaises, AppendKeepsHead
<1>5. ASSUME NEW w \in Writers, AppendHeads(w)
      PROVE  LedgerType'
  <2>1. append[w] \in Call /\ append[w].id \in Ids
    BY <1>5 DEF AppendHeads, HasWritten, Busy
  <2>2. head' \in Digests
    BY <1>5, <2>1, LinkIsDigest DEF AppendHeads, HeadWritten, Call
  <2>3. append' \in [Writers -> Call]
    BY <1>5, <1>3 DEF AppendHeads
  <2>4. \A v \in Writers : Busy(v)' => append'[v].id \in Ids
    BY <1>5 DEF AppendHeads, Busy, Ended
  <2> QED
    BY <1>5, <2>2, <2>3, <2>4 DEF AppendHeads
<1>6. CASE AppendsCut
  <2>1. append' \in [Writers -> Call] /\ \A v \in Writers : ~Busy(v)'
    BY <1>6, <1>3 DEF AppendsCut, Busy, Ended
  <2>2. stale' \subseteq Nat
    <3>1. Len(file) \in Nat
      OBVIOUS
    <3>2. stale' = stale \/ stale' = stale \cup {Len(file)}
      BY <1>6 DEF AppendsCut
    <3> QED
      BY <3>1, <3>2
  <2> QED
    BY <1>6, <2>1, <2>2 DEF AppendsCut
<1>7. CASE UNCHANGED ledgerVars
  BY <1>7 DEF ledgerVars, Busy
<1> QED
  BY <1>1, <1>2, <1>4, <1>5, <1>6, <1>7, <1>8 DEF LedgerNext, AppendStep

\* One writer of whole lines keeps the chain, but for a break below a row without its
\* sidecar.
LEMMA ChainStep ==
  ASSUME LedgerInv, LedgerNext
  PROVE  ChainInv'
<1> USE DEF LedgerInv, LedgerType
<1>1. ASSUME NEW w \in Writers, NEW id \in Ids, AppendReads(w, id)
      PROVE  ChainInv'
  <2> USE <1>1 DEF AppendReads
  <2>1. raced' => raced \/ \E v \in Writers : Busy(v)
    BY Zenon
  <2>2. ~raced' => ~raced /\ \A v \in Writers : ~Busy(v)
    BY Zenon
  <2>3. \A v \in Writers : v # w => append'[v] = append[v]
    OBVIOUS
  <2>4. ~raced' => Alone'
    BY <2>2, <2>3 DEF Alone, Busy
  <2>5. ASSUME ~raced', Sound'
        PROVE  Chained'
    <3>1. ~raced /\ Sound /\ \A v \in Writers : append[v].step = "none"
      BY <2>2, <2>5 DEF Busy, Sound
    <3>2. Links /\ (LastState = Scanned \/ Len(file) \in stale)
      BY <3>1 DEF ChainInv, Chained, HeadCurrent, HasWritten
    <3>3. Links' /\ Scanned' = Scanned /\ LastState' = LastState
      BY <3>2 DEF Links, Linked, Above, Scanned, LastState
    <3>4. append'[w].step = "write" /\ append'[w].prev = LastState
      OBVIOUS
    <3>5. \A v \in Writers : v # w => append'[v].step = "none"
      BY <2>3, <3>1
    <3> QED
      BY <3>2, <3>3, <3>4, <3>5 DEF Chained, AppendSound, HeadCurrent
  <2> QED
    BY <2>4, <2>5 DEF ChainInv
<1>2. ASSUME NEW w \in Writers, AppendWrites(w)
      PROVE  ChainInv'
  <2> USE <1>2 DEF AppendWrites
  <2> DEFINE row == [id |-> append[w].id,
                     chain |-> Link(append[w].prev, append[w].id)]
  <2>1. \A v \in Writers : v # w => append'[v] = append[v]
    OBVIOUS
  <2>2. append'[w].step = "head" /\ append'[w].prev = append[w].prev
          /\ append'[w].id = append[w].id /\ Busy(w)
    BY DEF Busy, Call
  <2>3. \A v \in Writers : Busy(v)' = Busy(v)
    BY <2>1, <2>2 DEF Busy
  <2>4. ~raced' => Alone'
    BY <2>3 DEF Alone, ChainInv
  <2>5. ASSUME ~raced', Sound'
        PROVE  Chained'
    <3>1. Alone /\ Links /\ AppendSound(w)
      BY <2>5 DEF ChainInv, Chained, Sound
    <3>2. append[w].prev = Scanned \/ Len(file) \in stale
      BY <3>1 DEF AppendSound
    <3>3. file' = Append(file, row) /\ file \in Seq(Row)
      OBVIOUS
    <3>k. PICK k \in Nat : k = Len(file)
      OBVIOUS
    <3>r. PICK r : r = row
      OBVIOUS
    <3> HIDE DEF row
    <3>4. /\ Len(file') = k + 1 /\ file'[k + 1] = r
          /\ \A n \in 1 .. k : file'[n] = file[n]
          /\ DOMAIN file' = 1 .. k + 1 /\ DOMAIN file = 1 .. k
          /\ file' # <<>>
      BY <3>3, <3>k, <3>r
    <3>5. Above(k + 1)' = Scanned
      <4>1. CASE k = 0
        BY <4>1, <3>k, <3>3 DEF Above, Scanned
      <4>2. CASE k # 0
        BY <4>2, <3>k, <3>4 DEF Above, Scanned
      <4> QED
        BY <4>1, <4>2
    <3>6. k \in stale \/ r.chain = Link(Above(k + 1)', r.id)
      BY <3>2, <3>5, <3>k, <3>r DEF row
    <3>7. Links'
      <4> SUFFICES ASSUME NEW n \in DOMAIN file', n - 1 \notin stale
                   PROVE  file'[n].chain = Link(Above(n)', file'[n].id)
        BY DEF Links, Linked
      <4>1. CASE n = k + 1
        BY <4>1, <3>4, <3>6
      <4>2. CASE n \in 1 .. k
        <5>1. Above(n)' = Above(n)
          BY <4>2, <3>4 DEF Above
        <5> QED
          BY <4>2, <5>1, <3>1, <3>4 DEF Links, Linked
      <4> QED
        BY <4>1, <4>2, <3>4
    <3>8. \A v \in Writers : v # w => append'[v].step = "none"
      BY <2>1, <2>2, <3>1 DEF Alone, Busy
    <3>9. AppendSound(w)'
      BY <2>2, <3>4, <3>r DEF AppendSound, row
    <3> QED
      BY <2>2, <3>7, <3>8, <3>9 DEF Chained, HeadCurrent, HasWritten, AppendSound
  <2> QED
    BY <2>4, <2>5 DEF ChainInv
<1>3. ASSUME NEW w \in Writers, append' = [append EXCEPT ![w] = Ended],
             raced' = raced, file' = file, stale' = stale, Sound' => Sound,
             \/ append[w].step = "write" /\ head' = head
             \/ HasWritten(w) /\ head' = Link(append[w].prev, append[w].id)
      PROVE  ChainInv'
  <2>1. \A v \in Writers : v # w => append'[v] = append[v]
    BY <1>3
  <2>2. append'[w].step = "none"
    BY <1>3 DEF Ended
  <2>3. ~raced' => Alone'
    BY <1>3, <2>1, <2>2 DEF Alone, Busy, ChainInv
  <2>4. ASSUME ~raced', Sound'
        PROVE  Chained'
    <3>1. Alone /\ Links /\ HeadCurrent /\ AppendSound(w) /\ Busy(w)
            /\ append[w].step # "merged"
      BY <1>3, <2>4 DEF ChainInv, Chained, HasWritten, Busy
    <3>2. Links' /\ Scanned' = Scanned
      BY <1>3, <3>1 DEF Links, Linked, Above, Scanned
    <3>3. \A v \in Writers : append'[v].step = "none"
      BY <2>1, <2>2, <3>1 DEF Alone, Busy
    <3>4. LastState' = Scanned \/ Len(file) \in stale
      <4>1. CASE append[w].step = "write"
        <5>1. \A v \in Writers : ~HasWritten(v)
          BY <4>1, <3>1 DEF Alone, Busy, HasWritten
        <5> QED
          BY <4>1, <5>1, <1>3, <3>1, <3>2 DEF HeadCurrent, LastState, HasWritten
      <4>2. CASE append[w].step = "head"
        BY <4>2, <1>3, <3>1, <3>2 DEF AppendSound, Scanned, LastState
      <4> QED
        BY <1>3, <3>1, <4>1, <4>2 DEF HasWritten
    <3> QED
      BY <1>3, <3>2, <3>3, <3>4 DEF Chained, HeadCurrent, AppendSound
  <2> QED
    BY <2>3, <2>4 DEF ChainInv
<1>4. ASSUME NEW w \in Writers, AppendRaises(w) \/ AppendHeads(w)
      PROVE  ChainInv'
  <2>1. /\ raced' = raced /\ file' = file /\ stale' = stale
        /\ append' = [append EXCEPT ![w] = Ended]
    BY <1>4 DEF AppendRaises, AppendHeads
  <2>3. Sound' => Sound
    BY <1>4 DEF AppendRaises, AppendHeads, Sound
  <2>2. \/ append[w].step = "write" /\ head' = head
        \/ HasWritten(w) /\ head' = Link(append[w].prev, append[w].id)
    BY <1>4 DEF AppendRaises, AppendHeads, HeadWritten
  <2> QED
    BY <2>1, <2>2, <2>3, <1>3
<1>5. ASSUME NEW w \in Writers, AppendKeepsHead(w)
      PROVE  ChainInv'
  <2>1. /\ raced' = raced /\ torn' = torn /\ file' = file
        /\ stale' = stale \cup {Len(file)}
        /\ append' = [append EXCEPT ![w] = Ended]
    BY <1>5 DEF AppendKeepsHead
  <2>2. ~raced' => Alone'
    BY <2>1 DEF Alone, Busy, ChainInv, Ended
  <2>3. ASSUME ~raced', Sound'
        PROVE  Chained'
    <3>1. Alone /\ Links /\ Busy(w)
      BY <1>5, <2>1, <2>3 DEF ChainInv, Chained, Sound, AppendKeepsHead, HasWritten, Busy
    <3>2. Links'
      BY <2>1, <3>1 DEF Links, Linked, Above
    <3>3. \A v \in Writers : append'[v].step = "none"
      BY <2>1, <3>1 DEF Alone, Busy, Ended
    <3> QED
      BY <2>1, <3>2, <3>3 DEF Chained, HeadCurrent, AppendSound
  <2> QED
    BY <2>2, <2>3 DEF ChainInv
<1>8. ASSUME NEW w \in Writers, AppendMerges(w)
      PROVE  ChainInv'
  <2>1. raced' = raced /\ torn' # "no" /\ \A v \in Writers : Busy(v)' = Busy(v)
    BY <1>8 DEF AppendMerges, Busy, Call
  <2> QED
    BY <2>1 DEF ChainInv, Alone, Sound
<1>6. CASE AppendsCut
  <2>1. \A v \in Writers : append'[v].step = "none"
    BY <1>6 DEF AppendsCut, Ended
  <2>2. Alone' /\ file' = file /\ head' = head
    BY <1>6, <2>1 DEF AppendsCut, Alone, Busy
  <2>3. ~raced' /\ Sound' => ~raced /\ Sound
    BY <1>6 DEF AppendsCut, Sound
  <2>4. ASSUME ~raced', Sound'
        PROVE  Chained'
    <3>1. Links /\ HeadCurrent
      BY <2>3, <2>4 DEF ChainInv, Chained
    <3>2. /\ stale \subseteq stale'
          /\ (\E w \in Writers : HasWritten(w)) => Len(file) \in stale'
      BY <1>6 DEF AppendsCut
    <3>3. Links'
      BY <2>2, <3>1, <3>2 DEF Links, Linked, Above
    <3>4. LastState' = LastState /\ Scanned' = Scanned
      BY <2>2 DEF LastState, Scanned
    <3>5. LastState' = Scanned' \/ Len(file') \in stale'
      BY <2>2, <3>1, <3>2, <3>4 DEF HeadCurrent
    <3> QED
      BY <2>1, <3>3, <3>5 DEF Chained, HeadCurrent, AppendSound
  <2> QED
    BY <2>2, <2>4 DEF ChainInv
<1>7. CASE UNCHANGED ledgerVars
  BY <1>7 DEF ledgerVars, ChainInv, Chained, Sound, Alone, Busy, Links, Linked, Above,
              HeadCurrent, LastState, HasWritten, Scanned, AppendSound
<1> QED
  BY <1>1, <1>2, <1>4, <1>5, <1>6, <1>7, <1>8 DEF LedgerNext, AppendStep

LEMMA LedgerStep ==
  ASSUME LedgerInv, LedgerNext
  PROVE  LedgerInv'
BY LedgerTypeStep, ChainStep DEF LedgerInv

--------------------------------------------------------------------------------
(* The queue and its worker. *)

Pcs == {"off", "get", "took", "gap", "row", "done", "parking"}
ThreadState == [pc : Pcs, row : Rows \cup {None}, drops : Nat]

QueueType ==
  /\ queue \in Seq(Rows) /\ Len(queue) <= MaxSize
  /\ dropped \in Nat /\ worker \in Threads \cup {None}
  /\ call \in [Rows \cup Direct ->
                 {"new", "ensure", "busy", "true", "false", "cut"}]
  /\ thread \in [Threads -> ThreadState]
  /\ flush \in {"off", "check", "ensure", "true", "false"}
  /\ accepted \in Seq(Rows) /\ lost \subseteq Rows
  /\ lostDrops \in Nat /\ faults \in Nat

\* At most the worker is alive.
OneWorker == \A t \in Threads : thread[t].pc # "off" => t = worker

\* What a thread does with the row in its hand.
HandOK(t) ==
  /\ InHand(t) => thread[t].row \in Rows
  /\ Busy(t) => Appending(t)
  /\ thread[t].pc = "row" /\ Busy(t) => append[t].id = RowId(thread[t].row)
  /\ thread[t].pc = "row" /\ append[t].step = "merged" => thread[t].row \in lost
  /\ thread[t].pc = "done" =>
       RowId(thread[t].row) \in Written \/ thread[t].row \in lost

HeadAfterRow == \A w \in Writers : append[w].step = "head" => append[w].id \in Written

Hands == IF \E t \in Threads : InHand(t) THEN 1 ELSE 0
PendingExact == pending = Len(queue) + Hands

Queued == {queue[n] : n \in DOMAIN queue}
Placed == \A r \in Accepted : \/ r \in Queued \/ Held(r)
                              \/ RowId(r) \in Written \/ r \in lost

QueueInv ==
  /\ QueueType /\ OneWorker /\ \A t \in Threads : HandOK(t)
  /\ HeadAfterRow /\ PendingExact /\ Placed
  /\ owed \subseteq Accepted /\ FlushIsHonest

Inv == LedgerInv /\ QueueInv

\* Constants: the numbers of threads, rows and calls do not meet.
LEMMA WritersAre == Threads \subseteq Writers /\ Direct \subseteq Writers
                      /\ None \notin Threads
BY WritersAssumption

LEMMA RowsAre == Rows \subseteq Nat /\ None \notin Rows /\ Rows \cap Direct = {}
BY WritersAssumption, SizesAssumption DEF Rows

LEMMA IdsAre ==
  /\ \A r \in Rows \cup Direct : RowId(r) \in Ids
  /\ \A n \in Nat : GapId(n) \in Ids
BY DEF Ids, RowId, GapId

\* Every step is at most one step of one append.
LEMMA NextIsLedger ==
  ASSUME LedgerType, QueueInv, [Next]_vars
  PROVE  LedgerNext
<1>1. ASSUME NEW r \in Rows, Put(r) \/ Drop(r) \/ Ensure(r)
      PROVE  LedgerNext
  BY <1>1 DEF Put, Drop, Ensure, LedgerNext
<1>2. ASSUME NEW t \in Threads, Working(t)
      PROVE  LedgerNext
  <2>1. CASE Take(t) \/ Park(t) \/ Claim(t) \/ Settle(t)
    BY <2>1 DEF Take, Park, Claim, Settle, LedgerNext
  <2>2. CASE Handle(t)
    <3>1. Appending(t) /\ thread[t] \in ThreadState /\ HandOK(t)
      BY <2>2 DEF Handle, QueueInv, QueueType
    <3>2. GapId(thread[t].drops) \in Ids
      BY <3>1, IdsAre DEF ThreadState
    <3>3. thread[t].pc = "row" => RowId(thread[t].row) \in Ids
      BY <3>1, IdsAre DEF HandOK, InHand
    <3>4. CASE AppendWrites(t)
      BY <3>4, WritersAre DEF LedgerNext, AppendStep
    <3>5. CASE AppendReads(t, IF thread[t].pc = "gap" THEN GapId(thread[t].drops)
                              ELSE RowId(thread[t].row))
      <4>1. (IF thread[t].pc = "gap" THEN GapId(thread[t].drops)
             ELSE RowId(thread[t].row)) \in Ids
        BY <3>1, <3>2, <3>3 DEF Appending
      <4> QED
        BY <3>5, <4>1, WritersAre DEF LedgerNext, AppendStep
    <3> QED
      BY <2>2, <3>4, <3>5 DEF Handle
  <2>3. CASE HandleMerges(t) \/ HandleHead(t) \/ HandlerRaises(t)
    BY <2>3, WritersAre
       DEF HandleMerges, HandleHead, HandlerRaises, LedgerNext, AppendStep
  <2> QED
    BY <1>2, <2>1, <2>2, <2>3 DEF Working
<1>3. ASSUME NEW w \in Direct, DirectBegins(w) \/ DirectWrites(w) \/ DirectEnds(w)
      PROVE  LedgerNext
  BY <1>3, IdsAre, WritersAre
     DEF DirectBegins, DirectWrites, DirectEnds, LedgerNext, AppendStep
<1>4. CASE Flushing
  BY <1>4 DEF Flushing, FlushBegins, FlushChecks, FlushEnsures, FlushTimesOut,
              LedgerNext
<1>5. CASE Crash
  BY <1>5 DEF Crash, LedgerNext
<1>6. CASE UNCHANGED vars
  BY <1>6 DEF vars, LedgerNext
<1> QED
  BY <1>1, <1>2, <1>3, <1>4, <1>5, <1>6 DEF Next

LEMMA QueueTypeStep ==
  ASSUME LedgerInv, QueueInv, [Next]_vars
  PROVE  QueueType'
<1> USE DEF QueueType, QueueInv
<1>1. ASSUME NEW r \in Rows, Put(r)
      PROVE  QueueType'
  BY <1>1, SizesAssumption DEF Put, Full, ledgerVars
<1>2. ASSUME NEW r \in Rows, Drop(r)
      PROVE  QueueType'
  BY <1>2 DEF Drop, historyVars
<1>e. ASSUME EnsureWorker
      PROVE  worker' \in Threads \cup {None} /\ thread' \in [Threads -> ThreadState]
  <2>1. ASSUME NEW t \in Threads, Started(t)
        PROVE  worker' \in Threads \cup {None} /\ thread' \in [Threads -> ThreadState]
    BY <2>1 DEF Started, ThreadState, Pcs
  <2> QED
    BY <1>e, <2>1 DEF EnsureWorker
<1>3. ASSUME NEW r \in Rows, Ensure(r)
      PROVE  QueueType'
  BY <1>3, <1>e DEF Ensure, historyVars
<1>4. ASSUME NEW t \in Threads, Take(t)
      PROVE  QueueType'
  <2>1. Head(queue) \in Rows /\ Tail(queue) \in Seq(Rows)
          /\ Len(Tail(queue)) <= MaxSize
    BY <1>4, SizesAssumption DEF Take
  <2>2. thread' \in [Threads -> ThreadState]
    BY <1>4, <2>1 DEF Take, ThreadState, Pcs
  <2> QED
    BY <1>4, <2>1, <2>2 DEF Take, historyVars
<1>o. Off \in ThreadState /\ [Off EXCEPT !.pc = "get"] \in ThreadState
  BY DEF Off, ThreadState, Pcs
<1>5. ASSUME NEW t \in Threads, Park(t)
      PROVE  QueueType'
  <2>1. thread' \in [Threads -> ThreadState]
    <3>1. CASE thread' = [thread EXCEPT ![t].pc = "parking"]
      BY <3>1 DEF ThreadState, Pcs
    <3>2. CASE thread' = [thread EXCEPT ![t] = Off]
      BY <3>2, <1>o
    <3> QED
      BY <1>5, <3>1, <3>2 DEF Park
  <2>2. UNCHANGED <<queue, dropped, worker, call, flush, accepted, lost,
                    lostDrops, faults>>
    BY <1>5 DEF Park, queueVars, historyVars
  <2> QED
    BY <2>1, <2>2
<1>6. ASSUME NEW t \in Threads, Claim(t)
      PROVE  QueueType'
  <2>1. thread' \in [Threads -> ThreadState]
    <3>1. PICK next \in {"gap", "row"} :
            thread' = [thread EXCEPT ![t].pc = next, ![t].drops = dropped]
      BY <1>6 DEF Claim, Claimed
    <3> QED
      BY <3>1 DEF ThreadState, Pcs
  <2>2. dropped' = 0 /\ UNCHANGED <<queue, worker, call, flush, accepted, lost,
                                     lostDrops, faults>>
    BY <1>6 DEF Claim, historyVars
  <2> QED
    BY <2>1, <2>2
<1>7. ASSUME NEW t \in Threads, Handle(t)
      PROVE  QueueType'
  BY <1>7 DEF Handle, queueVars, historyVars
<1>f. Fault => faults' \in Nat
  BY DEF Fault
<1>8. ASSUME NEW t \in Threads, HandleHead(t)
      PROVE  QueueType'
  <2>1. thread' \in [Threads -> ThreadState]
    BY <1>8 DEF HandleHead, ThreadState, Pcs
  <2> QED
    BY <1>8, <1>f, <2>1 DEF HandleHead, queueVars, historyVars
<1>9. ASSUME NEW t \in Threads, HandlerRaises(t)
      PROVE  QueueType'
  <2>1. thread' \in [Threads -> ThreadState]
    BY <1>9 DEF HandlerRaises, ThreadState, Pcs
  <2>2. thread[t].row \in Rows /\ thread[t].drops \in Nat
    BY <1>9 DEF HandlerRaises, Appending, HandOK, InHand, ThreadState
  <2>3. lost' \subseteq Rows
    BY <1>9, <2>2 DEF HandlerRaises
  <2>4. lostDrops' \in Nat
    BY <1>9, <2>2 DEF HandlerRaises
  <2> QED
    BY <1>9, <1>f, <2>1, <2>3, <2>4 DEF HandlerRaises, queueVars
<1>16. ASSUME NEW t \in Threads, HandleMerges(t)
      PROVE  QueueType'
  <2>1. thread[t].row \in Rows /\ thread[t].drops \in Nat
    BY <1>16 DEF HandleMerges, Appending, HandOK, InHand, ThreadState
  <2>2. lost' \subseteq Rows /\ lostDrops' \in Nat
    BY <1>16, <2>1 DEF HandleMerges
  <2> QED
    BY <1>16, <2>2 DEF HandleMerges, queueVars
<1>10. ASSUME NEW t \in Threads, Settle(t)
      PROVE  QueueType'
  <2>1. thread' \in [Threads -> ThreadState]
    BY <1>10, <1>o DEF Settle
  <2> QED
    BY <1>10, <2>1 DEF Settle, historyVars
<1>11. ASSUME NEW w \in Direct, DirectBegins(w) \/ DirectWrites(w) \/ DirectEnds(w)
       PROVE  QueueType'
  <2>1. call' \in [Rows \cup Direct ->
                     {"new", "ensure", "busy", "true", "false", "cut"}]
    BY <1>11 DEF DirectBegins, DirectWrites, DirectEnds
  <2> QED
    BY <1>11, <1>f, <2>1
       DEF DirectBegins, DirectWrites, DirectEnds, queueVars, historyVars
<1>12. CASE FlushBegins \/ FlushChecks \/ FlushTimesOut
  BY <1>12 DEF FlushBegins, FlushChecks, FlushTimesOut, queueVars, historyVars
<1>13. CASE FlushEnsures
  BY <1>13, <1>e DEF FlushEnsures, Revives, historyVars
<1>14. CASE Crash
  <2>1. thread' \in [Threads -> ThreadState]
    BY <1>14, <1>o DEF Crash
  <2>2. DropsUnderWay \in Nat
    BY DEF DropsUnderWay, DropsInHand, ThreadState
  <2> QED
    BY <1>14, <1>f, <2>1, <2>2, SizesAssumption DEF Crash, Accepted
<1>15. CASE UNCHANGED vars
  BY <1>15 DEF vars, queueVars, historyVars
<1> QED
  BY <1>1, <1>2, <1>3, <1>4, <1>5, <1>6, <1>7, <1>8, <1>9, <1>10, <1>11, <1>12,
     <1>13, <1>14, <1>15, <1>16 DEF Next, Working, Flushing

--------------------------------------------------------------------------------
(* What a step does to the sets behind the sequences. *)

LEMMA RangeOfAppend ==
  ASSUME NEW S, NEW s \in Seq(S), NEW e \in S, NEW t, t = Append(s, e)
  PROVE  {t[n] : n \in DOMAIN t} = {s[n] : n \in DOMAIN s} \cup {e}
<1>1. /\ t \in Seq(S) /\ Len(t) = Len(s) + 1 /\ t[Len(s) + 1] = e
      /\ \A n \in 1 .. Len(s) : t[n] = s[n]
      /\ DOMAIN s = 1 .. Len(s) /\ DOMAIN t = 1 .. Len(s) + 1 /\ Len(s) \in Nat
  OBVIOUS
<1>2. DOMAIN t = DOMAIN s \cup {Len(s) + 1}
  BY <1>1
<1> QED
  BY <1>1, <1>2

LEMMA RangeOfTail ==
  ASSUME NEW S, NEW s \in Seq(S), s # <<>>, NEW t, t = Tail(s)
  PROVE  \A n \in DOMAIN s :
           s[n] = Head(s) \/ s[n] \in {t[m] : m \in DOMAIN t}
<1> SUFFICES ASSUME NEW n \in DOMAIN s, n # 1
             PROVE  s[n] \in {t[m] : m \in DOMAIN t}
  OBVIOUS
<1>1. n - 1 \in DOMAIN t /\ t[n - 1] = s[n]
  OBVIOUS
<1> QED
  BY <1>1

LEMMA WrittenIs ==
  ASSUME LedgerType, NEW w \in Writers, AppendWrites(w)
  PROVE  Written' = Written \cup {append[w].id}
<1> DEFINE row == [id |-> append[w].id,
                   chain |-> Link(append[w].prev, append[w].id)]
<1>1. row \in Row
  <2>1. append[w] \in Call /\ append[w].id \in Ids
    BY DEF AppendWrites, Busy, LedgerType
  <2> QED
    BY <2>1, LinkIsDigest DEF Row, Call
<1>2. file \in Seq(Row) /\ file' = Append(file, row)
  BY DEF AppendWrites, LedgerType
<1>3. row.id = append[w].id
  OBVIOUS
<1> HIDE DEF row
<1>4. {file'[n] : n \in DOMAIN file'} = {file[n] : n \in DOMAIN file} \cup {row}
  BY <1>1, <1>2, RangeOfAppend
<1> QED
  BY <1>3, <1>4 DEF Written

LEMMA WrittenGrows ==
  ASSUME LedgerType, LedgerNext
  PROVE  Written \subseteq Written'
<1>1. ASSUME NEW w \in Writers, AppendWrites(w)
      PROVE  Written \subseteq Written'
  BY <1>1, WrittenIs
<1>2. file' = file \/ \E w \in Writers : AppendWrites(w)
  BY DEF LedgerNext, AppendStep, AppendReads, AppendMerges, AppendRaises,
         AppendHeads, AppendKeepsHead, AppendsCut, ledgerVars
<1> QED
  BY <1>1, <1>2 DEF Written

\* A step of an append leaves the others alone.
LEMMA OneAppend ==
  ASSUME LedgerType, NEW w \in Writers, NEW u \in Writers, u # w,
         \/ \E id \in Ids : AppendReads(w, id)
         \/ AppendWrites(w) \/ AppendMerges(w) \/ AppendRaises(w)
         \/ AppendHeads(w) \/ AppendKeepsHead(w)
  PROVE  append'[u] = append[u]
BY DEF LedgerType, AppendReads, AppendWrites, AppendMerges, AppendRaises,
       AppendHeads, AppendKeepsHead

LEMMA HeadAfterRowStep ==
  ASSUME LedgerType, HeadAfterRow, LedgerNext
  PROVE  HeadAfterRow'
<1> SUFFICES ASSUME NEW v \in Writers, append'[v].step = "head"
             PROVE  append'[v].id \in Written'
  BY DEF HeadAfterRow
<1>1. CASE append'[v] = append[v]
  BY <1>1, WrittenGrows DEF HeadAfterRow
<1>2. ASSUME NEW w \in Writers, AppendStep(w), append'[v] # append[v]
      PROVE  append'[v].id \in Written'
  <2>1. v = w /\ AppendWrites(w)
    <3>1. v = w
      BY <1>2, OneAppend DEF AppendStep
    <3>2. ~AppendMerges(w)
      BY <3>1 DEF AppendMerges, LedgerType, Call
    <3> QED
      BY <1>2, <3>1, <3>2 DEF AppendStep, AppendReads, AppendRaises, AppendHeads,
                              AppendKeepsHead, Ended, LedgerType
  <2>2. append'[v].id = append[v].id
    BY <2>1 DEF AppendWrites, LedgerType, Call
  <2> QED
    BY <2>1, <2>2, WrittenIs
<1>3. CASE AppendsCut
  BY <1>3 DEF AppendsCut, Ended
<1> QED
  BY <1>1, <1>2, <1>3 DEF LedgerNext, ledgerVars

LEMMA PutAdds ==
  ASSUME QueueType, NEW r \in Rows, Put(r)
  PROVE  Accepted' = Accepted \cup {r} /\ Queued' = Queued \cup {r}
<1>1. accepted \in Seq(Rows) /\ accepted' = Append(accepted, r)
  BY DEF Put, QueueType
<1>2. {accepted'[n] : n \in DOMAIN accepted'}
        = {accepted[n] : n \in DOMAIN accepted} \cup {r}
  BY <1>1, RangeOfAppend
<1>3. queue \in Seq(Rows) /\ queue' = Append(queue, r)
  BY DEF Put, QueueType
<1>4. {queue'[n] : n \in DOMAIN queue'} = {queue[n] : n \in DOMAIN queue} \cup {r}
  BY <1>3, RangeOfAppend
<1> QED
  BY <1>2, <1>4 DEF Accepted, Queued

LEMMA Monotone ==
  ASSUME LedgerType, QueueInv, [Next]_vars
  PROVE  Written \subseteq Written' /\ lost \subseteq lost' /\ Accepted \subseteq Accepted'
<1>1. Written \subseteq Written'
  BY NextIsLedger, WrittenGrows
<1>2. ASSUME NEW r \in Rows, Put(r)
      PROVE  lost \subseteq lost' /\ Accepted \subseteq Accepted'
  BY <1>2, PutAdds DEF Put, QueueInv
<1>3. ASSUME NEW t \in Threads, HandleMerges(t) \/ HandlerRaises(t)
      PROVE  lost \subseteq lost' /\ Accepted \subseteq Accepted'
  <2>1. accepted' = accepted
    BY <1>3 DEF HandleMerges, HandlerRaises
  <2>2. lost \subseteq lost'
    BY <1>3 DEF HandleMerges, HandlerRaises
  <2> QED
    BY <2>1, <2>2 DEF Accepted
<1>4. CASE Crash
  <2>1. accepted' = accepted /\ lost \subseteq lost'
    BY <1>4 DEF Crash
  <2> QED
    BY <1>1, <2>1 DEF Accepted
<1>5. CASE UNCHANGED <<accepted, lost>>
  BY <1>1, <1>5 DEF Accepted
<1>6. \/ \E r \in Rows : Put(r)
      \/ \E t \in Threads : HandleMerges(t) \/ HandlerRaises(t)
      \/ Crash \/ UNCHANGED <<accepted, lost>>
  BY DEF Next, Drop, Ensure, Working, Take, Park, Claim, Handle, HandleHead,
         Settle, DirectBegins, DirectWrites, DirectEnds, Flushing, FlushBegins,
         FlushChecks, FlushEnsures, FlushTimesOut, vars, historyVars
<1> QED
  BY <1>1, <1>2, <1>3, <1>4, <1>5, <1>6

--------------------------------------------------------------------------------
(* The worker is alone. *)

\* _ensure_worker starts a thread only when every thread is off.
LEMMA StartedAlone ==
  ASSUME QueueInv, EnsureWorker
  PROVE  \/ UNCHANGED <<worker, thread>>
         \/ /\ \A u \in Threads : thread[u].pc = "off"
            /\ \E t \in Threads :
                 worker' = t /\ thread' = [thread EXCEPT ![t].pc = "get"]
<1>1. ~Alive => \A u \in Threads : thread[u].pc = "off"
  BY WritersAre DEF Alive, QueueInv, OneWorker
<1> QED
  BY <1>1 DEF EnsureWorker, Started

LEMMA OneWorkerStep ==
  ASSUME QueueInv, [Next]_vars
  PROVE  OneWorker'
<1> USE DEF QueueInv, QueueType
<1>1. CASE EnsureWorker
  BY <1>1, StartedAlone DEF OneWorker
<1>2. CASE /\ worker' = worker
           /\ \A u \in Threads : thread'[u].pc # "off" => thread[u].pc # "off"
  BY <1>2 DEF OneWorker
<1>3. ASSUME NEW t \in Threads, Working(t)
      PROVE  /\ worker' = worker
             /\ \A u \in Threads : thread'[u].pc # "off" => thread[u].pc # "off"
  <2>1. worker' = worker
    BY <1>3 DEF Working, Take, Park, Claim, Handle, HandleMerges, HandleHead,
                HandlerRaises, Settle, queueVars
  <2>2. \A u \in Threads \ {t} : thread'[u] = thread[u]
    BY <1>3 DEF Working, Take, Park, Claim, Handle, HandleMerges, HandleHead,
                HandlerRaises, Settle
  <2>3. thread[t].pc # "off" \/ thread'[t] = thread[t]
    BY <1>3 DEF Working, Take, Park, Claim, Handle, HandleMerges, HandleHead,
                HandlerRaises, Settle, Appending
  <2> QED
    BY <2>1, <2>2, <2>3
<1>4. CASE Crash
  BY <1>4 DEF Crash, OneWorker, Off
<1>5. \/ EnsureWorker \/ Crash
      \/ \E t \in Threads : Working(t)
      \/ UNCHANGED <<worker, thread>>
  BY DEF Next, Put, Drop, Ensure, DirectBegins, DirectWrites, DirectEnds,
         Flushing, FlushBegins, FlushChecks, FlushEnsures, Revives,
         FlushTimesOut, vars, queueVars
<1> QED
  BY <1>1, <1>2, <1>3, <1>4, <1>5

--------------------------------------------------------------------------------
(* The row in a thread's hand. *)

\* A thread and its append that a step leaves alone.
LEMMA HandKept ==
  ASSUME NEW u \in Threads, HandOK(u),
         thread'[u] = thread[u], append'[u] = append[u],
         Written \subseteq Written', lost \subseteq lost'
  PROVE  HandOK(u)'
BY DEF HandOK, InHand, Busy, Appending

Ensuring == FlushEnsures \/ \E r \in Rows : Ensure(r)

\* Only a thread's own steps, and a crash, touch the thread and its append.
LEMMA OthersKept ==
  ASSUME LedgerType, QueueInv, NEW u \in Threads, [Next]_vars,
         ~Working(u), ~Crash, ~Ensuring
  PROVE  thread'[u] = thread[u] /\ append'[u] = append[u]
<1> USE DEF LedgerType, QueueInv, QueueType
<1>1. ASSUME NEW t \in Threads, Working(t), t # u
      PROVE  thread'[u] = thread[u] /\ append'[u] = append[u]
  BY <1>1, WritersAre
     DEF Working, Take, Park, Claim, Handle, HandleMerges, HandleHead,
         HandlerRaises, Settle, AppendReads, AppendWrites, AppendMerges,
         AppendHeads, AppendKeepsHead, AppendRaises, ledgerVars
<1>2. ASSUME NEW w \in Direct, DirectBegins(w) \/ DirectWrites(w) \/ DirectEnds(w)
      PROVE  thread'[u] = thread[u] /\ append'[u] = append[u]
  <2>1. w # u /\ w \in Writers
    BY WritersAssumption
  <2>2. append'[u] = append[u]
    BY <1>2, <2>1, OneAppend, IdsAre, WritersAre
       DEF DirectBegins, DirectWrites, DirectEnds
  <2>3. thread' = thread
    BY <1>2 DEF DirectBegins, DirectWrites, DirectEnds
  <2> QED
    BY <2>2, <2>3
<1>3. ASSUME NEW r \in Rows, Put(r) \/ Drop(r)
      PROVE  UNCHANGED <<thread, append>>
  BY <1>3 DEF Put, Drop, ledgerVars
<1>4. CASE FlushBegins \/ FlushChecks \/ FlushTimesOut
  BY <1>4 DEF FlushBegins, FlushChecks, FlushTimesOut, ledgerVars
<1>5. CASE UNCHANGED vars
  BY <1>5 DEF vars, ledgerVars
<1> QED
  BY <1>1, <1>2, <1>3, <1>4, <1>5 DEF Next, Flushing, Ensuring

LEMMA HandStep ==
  ASSUME LedgerInv, QueueInv, [Next]_vars, NEW t \in Threads
  PROVE  HandOK(t)'
<1> USE DEF LedgerInv, LedgerType, QueueInv, QueueType
<1>m. Written \subseteq Written' /\ lost \subseteq lost'
  BY Monotone
<1>h. HandOK(t) /\ thread[t] \in ThreadState /\ append[t] \in Call /\ t \in Writers
  BY WritersAre
<1>1. CASE ~Working(t) /\ ~Crash /\ ~Ensuring
  BY <1>1, <1>h, <1>m, OthersKept, HandKept
<1>2. CASE Ensuring
  <2>1. append' = append /\ EnsureWorker
    BY <1>2 DEF Ensuring, Ensure, FlushEnsures, Revives, ledgerVars
  <2>2. thread'[t] = thread[t]
          \/ (thread[t].pc = "off" /\ thread'[t].pc = "get")
    <3>1. CASE UNCHANGED <<worker, thread>>
      BY <3>1
    <3>2. ASSUME \A u \in Threads : thread[u].pc = "off",
                 NEW u \in Threads, thread' = [thread EXCEPT ![u].pc = "get"]
          PROVE  thread'[t] = thread[t]
                   \/ (thread[t].pc = "off" /\ thread'[t].pc = "get")
      BY <3>2 DEF ThreadState
    <3> QED
      BY <2>1, <3>1, <3>2, StartedAlone
  <2> QED
    BY <1>h, <1>m, <2>1, <2>2, HandKept DEF HandOK, InHand, Busy, Appending
<1>3. CASE Crash
  <2>1. thread'[t].pc = "off" /\ append'[t].step = "none"
    BY <1>3, <1>h DEF Crash, AppendsCut, Off, Ended
  <2> QED
    BY <2>1 DEF HandOK, InHand, Busy, Appending
<1>4. CASE Take(t)
  <2>1. Head(queue) \in Rows
    BY <1>4 DEF Take
  <2>2. thread'[t].pc = "took" /\ thread'[t].row \in Rows /\ append'[t] = append[t]
    BY <1>4, <2>1 DEF Take, ledgerVars, ThreadState
  <2>3. ~Busy(t)
    BY <1>4, <1>h DEF Take, HandOK, Appending
  <2> QED
    BY <2>2, <2>3 DEF HandOK, InHand, Busy
<1>5. CASE Park(t) \/ Settle(t)
  <2>1. thread'[t].pc \in {"off", "get", "parking"} /\ append'[t] = append[t]
    <3>1. append' = append
      BY <1>5 DEF Park, Settle, ledgerVars
    <3>2. CASE thread' = [thread EXCEPT ![t].pc = "parking"]
      BY <3>1, <3>2 DEF ThreadState
    <3>3. CASE thread' = [thread EXCEPT ![t] = Off]
      BY <3>1, <3>3 DEF Off
    <3>4. CASE thread' = [thread EXCEPT ![t] = [Off EXCEPT !.pc = "get"]]
      BY <3>1, <3>4 DEF Off
    <3> QED
      BY <1>5, <3>2, <3>3, <3>4 DEF Park, Settle
  <2>2. ~Busy(t)
    BY <1>5, <1>h DEF Park, Settle, HandOK, Appending
  <2> QED
    BY <2>1, <2>2 DEF HandOK, InHand, Busy
<1>6. CASE Claim(t)
  <2>1. thread'[t].pc \in {"gap", "row"} /\ thread'[t].row = thread[t].row
          /\ append'[t] = append[t]
    BY <1>6 DEF Claim, ledgerVars, ThreadState
  <2>2. ~Busy(t) /\ thread[t].row \in Rows
    BY <1>6, <1>h DEF Claim, HandOK, Appending, InHand
  <2> QED
    BY <2>1, <2>2 DEF HandOK, InHand, Busy
<1>7. CASE Handle(t)
  <2>1. thread' = thread /\ Appending(t) /\ thread[t].row \in Rows
    BY <1>7, <1>h DEF Handle, Appending, HandOK, InHand
  <2>2. ASSUME thread[t].pc = "row"
        PROVE  append'[t].id = RowId(thread[t].row)
    <3>1. CASE AppendWrites(t)
      <4>1. append[t].id = RowId(thread[t].row)
        BY <3>1, <1>h, <2>2 DEF AppendWrites, HandOK, Busy
      <4> QED
        BY <3>1, <4>1, <1>h DEF AppendWrites, Call
    <3>2. CASE AppendReads(t, RowId(thread[t].row))
      BY <3>2, <1>h DEF AppendReads
    <3> QED
      BY <1>7, <2>2, <3>1, <3>2 DEF Handle
  <2>3. append'[t].step # "merged"
    BY <1>7, <1>h DEF Handle, AppendReads, AppendWrites, Call
  <2> QED
    BY <2>1, <2>2, <2>3 DEF HandOK, InHand, Appending
<1>10. CASE HandleMerges(t)
  <2>1. /\ thread' = thread /\ Appending(t) /\ thread[t].row \in Rows
        /\ append[t].step = "write" /\ append'[t].id = append[t].id
        /\ thread[t].pc = "row" => thread[t].row \in lost'
    BY <1>10, <1>h DEF HandleMerges, AppendMerges, Appending, HandOK, InHand, Call
  <2> QED
    BY <1>h, <2>1 DEF HandOK, InHand, Appending, Busy
<1>8. CASE HandleHead(t)
  <2>1. append[t].step \in {"head", "merged"} /\ append'[t].step = "none"
    BY <1>8, <1>h DEF HandleHead, AppendHeads, AppendKeepsHead, HasWritten, Ended
  <2>2. thread'[t].row = thread[t].row /\ thread[t].row \in Rows
    BY <1>8, <1>h DEF HandleHead, Appending, HandOK, InHand, ThreadState
  <2>3. \/ thread[t].pc = "gap" /\ thread'[t].pc = "row"
        \/ thread[t].pc = "row" /\ thread'[t].pc = "done"
    BY <1>8, <1>h DEF HandleHead, Appending, ThreadState
  <2>4. thread[t].pc = "row" =>
          RowId(thread[t].row) \in Written \/ thread[t].row \in lost
    BY <2>1, <1>h DEF HandOK, Busy, HeadAfterRow
  <2>5. RowId(thread'[t].row) = RowId(thread[t].row)
    BY <2>2
  <2> QED
    BY <1>m, <2>1, <2>2, <2>3, <2>4, <2>5 DEF HandOK, Busy, InHand
<1>9. CASE HandlerRaises(t)
  <2>1. append'[t].step = "none"
    BY <1>9, <1>h DEF HandlerRaises, AppendRaises, Ended
  <2>2. thread'[t].row = thread[t].row /\ thread[t].row \in Rows
          /\ thread'[t].pc = "done"
    BY <1>9, <1>h DEF HandlerRaises, Appending, HandOK, InHand, ThreadState
  <2>3. thread[t].row \in lost'
    BY <1>9 DEF HandlerRaises
  <2> QED
    BY <2>1, <2>2, <2>3 DEF HandOK, Busy, InHand
<1> QED
  BY <1>1, <1>2, <1>3, <1>4, <1>5, <1>6, <1>7, <1>8, <1>9, <1>10 DEF Working

--------------------------------------------------------------------------------
(* pending counts the rows queued and the row in hand. *)

LEMMA HandsKept ==
  ASSUME \A u \in Threads : InHand(u)' = InHand(u)
  PROVE  Hands' = Hands
BY DEF Hands

LEMMA PendingStep ==
  ASSUME LedgerInv, QueueInv, [Next]_vars
  PROVE  PendingExact'
<1> USE DEF QueueInv, QueueType, PendingExact
<1>1. CASE UNCHANGED <<queue, pending, thread>>
  <2>1. Hands' = Hands
    BY <1>1 DEF Hands, InHand
  <2> QED
    BY <1>1, <2>1
<1>2. ASSUME NEW r \in Rows, Put(r)
      PROVE  PendingExact'
  <2>1. Hands' = Hands
    BY <1>2 DEF Put, Hands, InHand
  <2>2. Len(queue') = Len(queue) + 1 /\ pending' = pending + 1
    BY <1>2 DEF Put
  <2> QED
    BY <2>1, <2>2 DEF Hands
<1>3. CASE Ensuring
  <2>1. queue' = queue /\ pending' = pending /\ EnsureWorker
    BY <1>3 DEF Ensuring, Ensure, FlushEnsures, Revives
  <2>2. ASSUME \A u \in Threads : thread[u].pc = "off", NEW t \in Threads,
               thread' = [thread EXCEPT ![t].pc = "get"]
        PROVE  Hands' = Hands
    <3>1. \A u \in Threads : ~InHand(u)' /\ ~InHand(u)
      BY <2>2 DEF InHand, ThreadState
    <3> QED
      BY <3>1 DEF Hands
  <2>3. CASE UNCHANGED <<worker, thread>>
    BY <2>1, <2>3, <1>1
  <2> QED
    BY <2>1, <2>2, <2>3, StartedAlone
<1>4. ASSUME NEW t \in Threads, Take(t)
      PROVE  PendingExact'
  <2>1. \A u \in Threads : ~InHand(u)
    BY <1>4 DEF Take, OneWorker, InHand
  <2>2. InHand(t)'
    BY <1>4 DEF Take, InHand, ThreadState
  <2>3. Hands = 0 /\ Hands' = 1
    BY <2>1, <2>2 DEF Hands
  <2>4. Len(queue') = Len(queue) - 1 /\ pending' = pending
    BY <1>4 DEF Take
  <2> QED
    BY <2>3, <2>4
<1>5. ASSUME NEW t \in Threads, Settle(t)
      PROVE  PendingExact'
  <2>1. \A u \in Threads : u # t => ~InHand(u)
    BY <1>5 DEF Settle, OneWorker, InHand
  <2>2. InHand(t) /\ ~InHand(t)'
    BY <1>5 DEF Settle, InHand, Off
  <2>3. \A u \in Threads : u # t => ~InHand(u)'
    BY <1>5, <2>1 DEF Settle, InHand
  <2>4. Hands = 1 /\ Hands' = 0
    BY <2>2, <2>3 DEF Hands
  <2>5. queue' = queue /\ pending' = pending - 1
    BY <1>5 DEF Settle
  <2> QED
    BY <2>4, <2>5
<1>6. ASSUME NEW t \in Threads,
             \/ Park(t) \/ Claim(t) \/ Handle(t) \/ HandleMerges(t)
             \/ HandleHead(t) \/ HandlerRaises(t)
      PROVE  PendingExact'
  <2>1. queue' = queue /\ pending' = pending
    BY <1>6 DEF Park, Claim, Handle, HandleMerges, HandleHead, HandlerRaises, queueVars
  <2>2. InHand(t)' = InHand(t)
    <3>1. CASE Park(t)
      BY <3>1 DEF Park, InHand, Off, ThreadState
    <3>2. CASE Claim(t)
      BY <3>2 DEF Claim, InHand, ThreadState
    <3>3. CASE Handle(t) \/ HandleMerges(t)
      BY <3>3 DEF Handle, HandleMerges, InHand
    <3>4. CASE HandleHead(t) \/ HandlerRaises(t)
      BY <3>4 DEF HandleHead, HandlerRaises, Appending, InHand, ThreadState
    <3> QED
      BY <1>6, <3>1, <3>2, <3>3, <3>4
  <2>3. \A u \in Threads : u # t => thread'[u] = thread[u]
    BY <1>6 DEF Park, Claim, Handle, HandleMerges, HandleHead, HandlerRaises
  <2>4. \A u \in Threads : InHand(u)' = InHand(u)
    BY <2>2, <2>3 DEF InHand
  <2> QED
    BY <2>1, <2>4, HandsKept
<1>7. CASE Crash
  <2>1. queue' = <<>> /\ pending' = 0 /\ \A u \in Threads : ~InHand(u)'
    BY <1>7 DEF Crash, InHand, Off
  <2> QED
    BY <2>1 DEF Hands
<1>8. ASSUME NEW w \in Direct, DirectBegins(w) \/ DirectWrites(w) \/ DirectEnds(w)
      PROVE  PendingExact'
  BY <1>8, <1>1 DEF DirectBegins, DirectWrites, DirectEnds, queueVars
<1>9. CASE FlushBegins \/ FlushChecks \/ FlushTimesOut
  BY <1>9, <1>1 DEF FlushBegins, FlushChecks, FlushTimesOut, queueVars
<1>10. ASSUME NEW r \in Rows, Drop(r)
       PROVE  PendingExact'
  BY <1>10, <1>1 DEF Drop
<1>11. CASE UNCHANGED vars
  BY <1>11, <1>1 DEF vars, queueVars
<1> QED
  BY <1>2, <1>3, <1>4, <1>5, <1>6, <1>7, <1>8, <1>9, <1>10, <1>11
     DEF Next, Working, Flushing, Ensuring

--------------------------------------------------------------------------------
(* An accepted row is queued, in hand, written or lost. *)

LEMMA PlacedStep ==
  ASSUME LedgerInv, QueueInv, [Next]_vars
  PROVE  Placed'
<1> USE DEF LedgerInv, QueueInv, QueueType
<1>m. Written \subseteq Written' /\ lost \subseteq lost'
  BY Monotone
<1>1. ASSUME accepted' = accepted, Queued \subseteq Queued',
             \A r : Held(r) => Held(r)' \/ RowId(r) \in Written' \/ r \in lost'
      PROVE  Placed'
  <2>1. Accepted' = Accepted
    BY <1>1 DEF Accepted
  <2> QED
    BY <1>1, <1>m, <2>1 DEF Placed
<1>2. ASSUME NEW r \in Rows, Put(r)
      PROVE  Placed'
  <2>4. Accepted' = Accepted \cup {r} /\ Queued' = Queued \cup {r}
    BY <1>2, PutAdds
  <2>5. \A q : Held(q) => Held(q)'
    BY <1>2 DEF Put, Held, InHand
  <2> QED
    BY <1>m, <2>4, <2>5 DEF Placed
<1>3. CASE UNCHANGED <<queue, thread, accepted>>
  BY <1>3, <1>1 DEF Queued, Held, InHand
<1>4. CASE Ensuring
  <2>1. queue' = queue /\ accepted' = accepted /\ EnsureWorker
    BY <1>4 DEF Ensuring, Ensure, FlushEnsures, Revives, historyVars
  <2>2. CASE UNCHANGED <<worker, thread>>
    BY <2>1, <2>2, <1>3
  <2>3. CASE \A u \in Threads : thread[u].pc = "off"
    <3>1. \A r : ~Held(r)
      BY <2>3 DEF Held, InHand
    <3> QED
      BY <2>1, <3>1, <1>1 DEF Queued
  <2> QED
    BY <2>1, <2>2, <2>3, StartedAlone
<1>5. ASSUME NEW t \in Threads, Take(t)
      PROVE  Placed'
  <2>1. queue # <<>> /\ queue' = Tail(queue) /\ accepted' = accepted
    BY <1>5 DEF Take, historyVars
  <2>2. \A n \in DOMAIN queue : queue[n] = Head(queue)
          \/ queue[n] \in {queue'[m] : m \in DOMAIN queue'}
    BY <2>1, RangeOfTail
  <2>3. \A r \in Queued : r = Head(queue) \/ r \in Queued'
    BY <2>2 DEF Queued
  <2>h. PICK h : h = Head(queue)
    OBVIOUS
  <2>4. Held(h)'
    <3>1. thread'[t].pc = "took" /\ thread'[t].row = h
      BY <1>5, <2>h DEF Take, ThreadState
    <3>2. InHand(t)'
      BY <3>1 DEF InHand
    <3> QED
      BY <3>1, <3>2 DEF Held
  <2>5. \A r : ~Held(r)
    BY <1>5 DEF Take, OneWorker, Held, InHand
  <2>6. Accepted' = Accepted
    BY <2>1 DEF Accepted
  <2>7. \A r \in Accepted : r = h \/ r \in Queued'
                             \/ RowId(r) \in Written' \/ r \in lost'
    BY <1>m, <2>h, <2>3, <2>5 DEF Placed
  <2> QED
    BY <2>4, <2>6, <2>7 DEF Placed
<1>6. ASSUME NEW t \in Threads, Settle(t)
      PROVE  Placed'
  <2>1. \A r : Held(r) => RowId(r) \in Written \/ r \in lost
    <3>1. \A u \in Threads : InHand(u) => u = t
      BY <1>6 DEF Settle, OneWorker, InHand
    <3>2. RowId(thread[t].row) \in Written \/ thread[t].row \in lost
      BY <1>6 DEF Settle, HandOK
    <3> QED
      BY <3>1, <3>2 DEF Held
  <2>2. queue' = queue /\ accepted' = accepted
    BY <1>6 DEF Settle, historyVars
  <2> QED
    BY <1>m, <2>1, <2>2, <1>1 DEF Queued
<1>7. ASSUME NEW t \in Threads,
             \/ Park(t) \/ Claim(t) \/ Handle(t) \/ HandleMerges(t)
             \/ HandleHead(t) \/ HandlerRaises(t)
      PROVE  Placed'
  <2>1. queue' = queue /\ accepted' = accepted
    BY <1>7 DEF Park, Claim, Handle, HandleMerges, HandleHead, HandlerRaises,
                queueVars, historyVars
  <2>2. InHand(t) => InHand(t)' /\ thread'[t].row = thread[t].row
    <3>1. CASE Park(t)
      BY <3>1 DEF Park, InHand
    <3>2. CASE Claim(t)
      BY <3>2 DEF Claim, InHand, ThreadState
    <3>3. CASE Handle(t) \/ HandleMerges(t)
      BY <3>3 DEF Handle, HandleMerges, InHand
    <3>4. CASE HandleHead(t) \/ HandlerRaises(t)
      BY <3>4 DEF HandleHead, HandlerRaises, Appending, InHand, ThreadState
    <3> QED
      BY <1>7, <3>1, <3>2, <3>3, <3>4
  <2>3. \A u \in Threads : u # t => thread'[u] = thread[u]
    BY <1>7 DEF Park, Claim, Handle, HandleMerges, HandleHead, HandlerRaises
  <2>4. \A r : Held(r) => Held(r)'
    BY <2>2, <2>3 DEF Held, InHand
  <2> QED
    BY <1>1, <2>1, <2>4 DEF Queued
<1>8. CASE Crash
  <2>1. accepted' = accepted /\ file' = file
          /\ lost' = lost \cup {r \in Accepted : RowId(r) \notin Written}
    BY <1>8 DEF Crash, AppendsCut
  <2>2. Accepted' = Accepted /\ Written' = Written
    BY <2>1 DEF Accepted, Written
  <2> QED
    BY <2>1, <2>2 DEF Placed
<1>9. ASSUME NEW w \in Direct, DirectBegins(w) \/ DirectWrites(w) \/ DirectEnds(w)
      PROVE  Placed'
  BY <1>9, <1>3 DEF DirectBegins, DirectWrites, DirectEnds, queueVars, historyVars
<1>10. CASE FlushBegins \/ FlushChecks \/ FlushTimesOut
  BY <1>10, <1>3 DEF FlushBegins, FlushChecks, FlushTimesOut, queueVars, historyVars
<1>11. ASSUME NEW r \in Rows, Drop(r)
       PROVE  Placed'
  BY <1>11, <1>3 DEF Drop, historyVars
<1>12. CASE UNCHANGED vars
  BY <1>12, <1>3 DEF vars, queueVars, historyVars
<1> QED
  BY <1>2, <1>4, <1>5, <1>6, <1>7, <1>8, <1>9, <1>10, <1>11, <1>12
     DEF Next, Working, Flushing, Ensuring

\* A pending count of zero leaves nothing queued or in hand.
LEMMA NothingPending ==
  ASSUME QueueInv, pending = 0
  PROVE  \A r \in Accepted : RowId(r) \in Written \/ r \in lost
<1>1. Hands \in {0, 1} /\ queue \in Seq(Rows)
  BY DEF Hands, QueueInv, QueueType
<1>2. Len(queue) = 0 /\ Hands = 0
  BY <1>1 DEF QueueInv, PendingExact
<1>3. Queued = {}
  BY <1>1, <1>2 DEF Queued
<1>4. \A r : ~Held(r)
  BY <1>2 DEF Hands, Held
<1> QED
  BY <1>3, <1>4 DEF QueueInv, Placed

LEMMA FlushStep ==
  ASSUME LedgerInv, QueueInv, [Next]_vars
  PROVE  (owed \subseteq Accepted)' /\ FlushIsHonest'
<1> USE DEF LedgerInv, QueueInv
<1>m. /\ Written \subseteq Written' /\ lost \subseteq lost'
      /\ Accepted \subseteq Accepted'
  BY Monotone
<1>1. CASE owed' = owed /\ (flush' = flush \/ flush' # "true")
  BY <1>1, <1>m DEF FlushIsHonest
<1>2. CASE FlushBegins
  <2>1. owed' = Accepted /\ flush' = "check"
    BY <1>2 DEF FlushBegins
  <2> QED
    BY <1>m, <2>1 DEF FlushIsHonest
<1>3. CASE FlushChecks \/ FlushTimesOut
  <2>1. owed' = owed /\ (flush' # "true" \/ pending = 0)
    BY <1>3 DEF FlushChecks, FlushTimesOut, historyVars, Drained
  <2>2. CASE flush' # "true"
    BY <1>1, <2>1, <2>2
  <2>3. CASE pending = 0
    <3>1. \A r \in Accepted : RowId(r) \in Written \/ r \in lost
      BY <2>3, NothingPending
    <3> QED
      BY <1>m, <2>1, <3>1 DEF FlushIsHonest
  <2> QED
    BY <2>1, <2>2, <2>3
<1>4. ASSUME NEW r \in Rows, Put(r) \/ Drop(r) \/ Ensure(r)
      PROVE  owed' = owed /\ flush' = flush
  BY <1>4 DEF Put, Drop, Ensure, historyVars
<1>5. ASSUME NEW t \in Threads, Working(t)
      PROVE  owed' = owed /\ flush' = flush
  BY <1>5 DEF Working, Take, Park, Claim, Handle, HandleMerges, HandleHead,
              HandlerRaises, Settle, historyVars
<1>6. ASSUME NEW w \in Direct, DirectBegins(w) \/ DirectWrites(w) \/ DirectEnds(w)
      PROVE  owed' = owed /\ flush' = flush
  BY <1>6 DEF DirectBegins, DirectWrites, DirectEnds, historyVars
<1>7. FlushEnsures \/ Crash => owed' = owed /\ flush' # "true"
  BY DEF FlushEnsures, Crash, historyVars
<1>8. UNCHANGED vars => owed' = owed /\ flush' = flush
  BY DEF vars, historyVars
<1> QED
  BY <1>1, <1>2, <1>3, <1>4, <1>5, <1>6, <1>7, <1>8 DEF Next, Flushing

--------------------------------------------------------------------------------
(* The invariant, and the properties it carries. *)

LEMMA InvStart == Init => Inv
<1> SUFFICES ASSUME Init PROVE Inv
  OBVIOUS
<1>1. LedgerInv
  BY LedgerStart DEF Init
<1>2. \A t \in Threads : thread[t] = Off /\ ~InHand(t) /\ ~Busy(t)
  BY WritersAre DEF Init, LedgerInit, InHand, Busy, Off, Ended
<1>3. QueueType
  BY SizesAssumption DEF Init, QueueType, ThreadState, Pcs, Off
<1>4. OneWorker /\ \A t \in Threads : HandOK(t)
  BY <1>2 DEF OneWorker, HandOK, Off
<1>5. HeadAfterRow
  BY DEF Init, LedgerInit, HeadAfterRow, Ended
<1>6. PendingExact
  BY <1>2 DEF Init, PendingExact, Hands
<1>7. Accepted = {} /\ Placed /\ owed \subseteq Accepted /\ FlushIsHonest
  BY DEF Init, Accepted, Placed, FlushIsHonest
<1> QED
  BY <1>1, <1>3, <1>4, <1>5, <1>6, <1>7 DEF Inv, QueueInv

LEMMA InvStep == Inv /\ [Next]_vars => Inv'
<1> SUFFICES ASSUME Inv, [Next]_vars PROVE Inv'
  OBVIOUS
<1>1. LedgerInv /\ QueueInv /\ LedgerType
  BY DEF Inv, LedgerInv
<1>2. LedgerNext
  BY <1>1, NextIsLedger
<1>3. LedgerInv'
  BY <1>1, <1>2, LedgerStep
<1>4. HeadAfterRow'
  BY <1>1, <1>2, HeadAfterRowStep DEF QueueInv
<1>5. QueueType' /\ OneWorker' /\ PendingExact' /\ Placed'
  BY <1>1, QueueTypeStep, OneWorkerStep, PendingStep, PlacedStep
<1>6. \A t \in Threads : HandOK(t)'
  BY <1>1, HandStep
<1>7. (owed \subseteq Accepted)' /\ FlushIsHonest'
  BY <1>1, FlushStep
<1> QED
  BY <1>3, <1>4, <1>5, <1>6, <1>7 DEF Inv, QueueInv

\* The inductive invariant of the queue, its worker and the ledger.
THEOREM Invariant == Spec => []Inv
<1>1. Init => Inv
  BY InvStart
<1>2. Inv /\ [Next]_vars => Inv'
  BY InvStep
<1> QED
  BY <1>1, <1>2, PTL DEF Spec

\* The fields of the queue, the ledger's files and every thread stay in their
\* types, the queue within QUEUE_MAX (_queue.py, _ledger.py).
THEOREM TypeCorrect == Spec => []TypeOK
<1>1. Inv => TypeOK
  <2> SUFFICES ASSUME Inv PROVE TypeOK
    OBVIOUS
  <2>1. QueueType /\ LedgerType /\ PendingExact /\ owed \subseteq Accepted
    BY DEF Inv, QueueInv, LedgerInv
  <2>2. Accepted \subseteq Rows
    BY <2>1 DEF QueueType, Accepted
  <2>3. pending \in Nat
    BY <2>1 DEF PendingExact, Hands, QueueType
  <2>4. append \in [Writers -> [step : {"none", "write", "head", "merged"},
                                id : Ids \cup {<<>>}, prev : Digests]]
    BY <2>1 DEF LedgerType, Call, Steps
  <2>5. file \in Seq([id : Ids, chain : Digests]) /\ head \in Digests
          /\ raced \in BOOLEAN /\ stale \subseteq Nat
          /\ torn \in {"no", "tail", "line"}
    BY <2>1, Zenon DEF LedgerType, Row
  <2>6. thread \in [Threads ->
       [pc : {"off", "get", "took", "gap", "row", "done", "parking"},
        row : Rows \cup {None}, drops : Nat]]
    BY <2>1 DEF QueueType, ThreadState, Pcs
  <2> QED
    BY <2>1, <2>2, <2>3, <2>4, <2>5, <2>6 DEF TypeOK, QueueType
<1> QED
  BY <1>1, Invariant, PTL

\* RunLedger.append keeps the hash chain: as long as no two appends overlap and
\* no line is cut short, verify() finds nothing but a break right below each row that
\* was left without its chain.head, whatever raised and wherever the process died.
THEOREM ChainKept == Spec => []BreaksOnlyWhereStale
<1>1. Inv => BreaksOnlyWhereStale
  BY DEF Inv, LedgerInv, ChainInv, Sound, Chained, Links, BreaksOnlyWhereStale
<1> QED
  BY <1>1, Invariant, PTL

\* TelemetryQueue.flush says True only of rows that are written, or lost with an
\* append that raised or ran into a torn line: pending never misses the row in the
\* worker's hand.
THEOREM FlushHonest == Spec => []FlushIsHonest
<1>1. Inv => FlushIsHonest
  BY DEF Inv, QueueInv
<1> QED
  BY <1>1, Invariant, PTL

--------------------------------------------------------------------------------
(* The rows reach the ledger in the order the queue took them.             *)
(*                                                                         *)
(* The queue is the tail of what was accepted, and the row before it is    *)
(* the only one a thread may hold.  While its line is not written that row *)
(* waits, and so do all the queued ones: the next row of the file is later *)
(* than every row there.                                                   *)

\* No row is accepted twice, and none before its call has reached the lock.
OnceEach == \A i, j \in DOMAIN accepted : accepted[i] = accepted[j] => i = j
Known == \A r \in Accepted : call[r] # "new"
\* The queue holds the last rows accepted.
Suffix ==
  /\ Len(queue) <= Len(accepted)
  /\ \A n \in DOMAIN queue : queue[n] = accepted[Taken + n]
LaterWait == \A n \in DOMAIN accepted : n > Taken => Waits(accepted[n])
\* The thread has still to write, or to give up, the row it holds.
Undone(t) == \/ thread[t].pc \in {"took", "gap"}
             \/ thread[t].pc = "row" /\ ~HasWritten(t)
HandOrder(t) ==
  /\ InHand(t) => Taken > 0 /\ thread[t].row = accepted[Taken]
  /\ Undone(t) => Waits(thread[t].row)
\* What is written is not lost, is in order, and was accepted.
NeverBoth == \A r \in Rows : ~ (IsWritten(r) /\ r \in lost)
FileOrdered ==
  \A m, n \in DOMAIN file, i, j \in DOMAIN accepted :
    m < n /\ file[m].id = RowId(accepted[i]) /\ file[n].id = RowId(accepted[j])
      => i < j
NoStranger == lost \subseteq Accepted /\ \A r \in Rows : IsWritten(r) => r \in Accepted
\* The line an append under way will write.
IdKept(w) ==
  /\ w \in Direct /\ Busy(w) => append[w].id = RowId(w)
  /\ w \in Threads /\ Busy(w) /\ thread[w].pc = "gap" =>
       append[w].id = GapId(thread[w].drops)

OrderInv ==
  /\ OnceEach /\ Known /\ Suffix /\ LaterWait
  /\ \A t \in Threads : HandOrder(t)
  /\ NeverBoth /\ FileOrdered /\ NoStranger
  /\ \A w \in Writers : IdKept(w)

LEMMA IdsApart ==
  /\ \A r, s : RowId(r) = RowId(s) => r = s
  /\ \A r, n : RowId(r) # GapId(n)
BY DEF RowId, GapId

LEMMA TakenIs ==
  ASSUME QueueType, Suffix
  PROVE  Taken \in 0 .. Len(accepted) /\ Len(accepted) = Taken + Len(queue)
BY DEF QueueType, Suffix, Taken

\* The invariant says what the property says.
LEMMA OrderIs ==
  ASSUME QueueInv, OrderInv
  PROVE  NothingLostOrReordered
<1> USE DEF OrderInv
<1>1. Taken \in 0 .. Len(accepted) /\ Len(accepted) = Taken + Len(queue)
        /\ queue \in Seq(Rows) /\ accepted \in Seq(Rows)
  BY TakenIs DEF QueueInv, QueueType
<1>2. \A n \in DOMAIN queue : Taken + n > 0 /\ queue[n] = accepted[Taken + n]
  BY <1>1 DEF Suffix
<1>3. ASSUME NEW n \in DOMAIN accepted, n <= Taken
      PROVE  Resolved(accepted[n]) \/ (n = Taken /\ Waits(accepted[n]) /\ Held(accepted[n]))
  <2>1. accepted[n] \in Accepted /\ accepted[n] \in Rows /\ n \in Nat
    BY <1>1 DEF Accepted
  <2>2. accepted[n] \notin Queued
    <3> SUFFICES ASSUME NEW k \in DOMAIN queue, queue[k] = accepted[n] PROVE FALSE
      BY DEF Queued
    <3>1. accepted[Taken + k] = accepted[n] /\ Taken + k \in DOMAIN accepted /\ k \in Nat /\ k > 0
      BY <1>1 DEF Suffix
    <3>2. Taken + k = n
      BY <3>1 DEF OnceEach
    <3> QED
      BY <3>1, <3>2, <1>1, <1>3
  <2>3. Held(accepted[n]) => n = Taken
    <3> SUFFICES ASSUME NEW t \in Threads, InHand(t), thread[t].row = accepted[n]
                 PROVE  n = Taken
      BY DEF Held
    <3>1. accepted[Taken] = accepted[n] /\ Taken \in DOMAIN accepted
      BY <1>1 DEF HandOrder
    <3> QED
      BY <3>1 DEF OnceEach
  <2>4. ~ (IsWritten(accepted[n]) /\ accepted[n] \in lost)
    BY <2>1 DEF NeverBoth
  <2>5. Held(accepted[n]) \/ IsWritten(accepted[n]) \/ accepted[n] \in lost
    BY <2>1, <2>2 DEF QueueInv, Placed, IsWritten
  <2> QED
    BY <2>3, <2>4, <2>5 DEF Resolved, Waits, IsWritten
<1>4. \A n \in DOMAIN accepted : n > Taken \/ n <= Taken
  BY <1>1
<1> QED
  BY <1>2, <1>3, <1>4 DEF NothingLostOrReordered, LaterWait, FileOrdered, NoStranger

\* A step that takes no row and writes none.
LEMMA OrderFrame ==
  ASSUME OrderInv, UNCHANGED <<accepted, queue, file>>, Known',
         lost' = lost,
         \A t \in Threads : HandOrder(t)', \A w \in Writers : IdKept(w)'
  PROVE  OrderInv'
<1>1. Taken' = Taken /\ Accepted' = Accepted /\ Written' = Written
  BY DEF Taken, Accepted, Written
<1>2. \A r : IsWritten(r)' = IsWritten(r) /\ Waits(r)' = Waits(r)
  BY <1>1 DEF IsWritten, Waits
<1> QED
  BY <1>1, <1>2
     DEF OrderInv, OnceEach, Suffix, LaterWait, NeverBoth, FileOrdered, NoStranger

\* The row just accepted is the last of both, and neither written nor lost.
LEMMA OrderPut ==
  ASSUME QueueInv, OrderInv, NEW r \in Rows, Put(r)
  PROVE  OrderInv'
<1> USE DEF OrderInv, QueueInv, QueueType
<1>1. /\ accepted' = Append(accepted, r) /\ queue' = Append(queue, r)
      /\ UNCHANGED <<file, append, lost, thread>> /\ call[r] = "new"
      /\ call' = [call EXCEPT ![r] = "ensure"]
  BY DEF Put, Reaches, ledgerVars
<1>2. Taken \in 0 .. Len(accepted) /\ Len(accepted) = Taken + Len(queue)
        /\ accepted \in Seq(Rows) /\ queue \in Seq(Rows)
  BY TakenIs
<1>3. Accepted' = Accepted \cup {r}
  BY PutAdds
<1>4. Taken' = Taken
  BY <1>1, <1>2 DEF Taken
<1>5. r \notin Accepted /\ Waits(r)
  BY <1>1 DEF Known, NoStranger, Waits
<1>6. \A q : Waits(q)' = Waits(q) /\ IsWritten(q)' = IsWritten(q)
  BY <1>1 DEF Waits, IsWritten, Written
<1>k. PICK k \in Nat : k = Len(accepted)
  BY <1>2
<1>7. /\ DOMAIN accepted' = 1 .. k + 1 /\ DOMAIN accepted = 1 .. k
      /\ accepted'[k + 1] = r /\ \A n \in 1 .. k : accepted'[n] = accepted[n]
      /\ Len(accepted') = k + 1
  BY <1>1, <1>2, <1>k
<1>8. \A n \in 1 .. k : accepted[n] \in Accepted /\ accepted[n] # r
  BY <1>5, <1>7 DEF Accepted
<1>9. OnceEach'
  BY <1>7, <1>8 DEF OnceEach
<1>10. Known'
  BY <1>1, <1>3 DEF Known
<1>11. Suffix'
  <2>1. Len(queue') = Len(queue) + 1 /\ queue'[Len(queue) + 1] = r
          /\ \A n \in 1 .. Len(queue) : queue'[n] = queue[n]
    BY <1>1, <1>2
  <2>2. ASSUME NEW n \in 1 .. Len(queue) PROVE queue'[n] = accepted'[Taken + n]
    <3>1. queue[n] = accepted[Taken + n] /\ Taken + n \in 1 .. k
      BY <1>2, <1>k DEF Suffix
    <3> QED
      BY <2>1, <3>1, <1>7
  <2>3. queue'[Len(queue) + 1] = accepted'[Taken + (Len(queue) + 1)]
    BY <2>1, <1>2, <1>k, <1>7
  <2> QED
    BY <1>1, <1>2, <1>4, <1>7, <1>k, <2>1, <2>2, <2>3 DEF Suffix
<1>12. LaterWait'
  BY <1>4, <1>5, <1>6, <1>7 DEF LaterWait
<1>13. ASSUME NEW t \in Threads PROVE HandOrder(t)'
  <2>1. InHand(t)' = InHand(t) /\ Undone(t)' = Undone(t)
    BY <1>1 DEF InHand, Undone, HasWritten
  <2>2. Taken > 0 => accepted'[Taken] = accepted[Taken]
    BY <1>2, <1>7, <1>k
  <2> QED
    BY <1>1, <1>4, <1>6, <2>1, <2>2 DEF HandOrder
<1>14. NeverBoth' /\ NoStranger'
  BY <1>1, <1>3, <1>6 DEF NeverBoth, NoStranger
<1>15. FileOrdered'
  <2> SUFFICES ASSUME NEW m \in DOMAIN file', NEW n \in DOMAIN file',
                      NEW i \in DOMAIN accepted', NEW j \in DOMAIN accepted',
                      m < n, file'[m].id = RowId(accepted'[i]),
                      file'[n].id = RowId(accepted'[j])
               PROVE  i < j
    BY DEF FileOrdered, RowId
  <2>1. RowId(r) \notin Written
    BY <1>5 DEF Waits, IsWritten
  <2>2. i # k + 1 /\ j # k + 1
    BY <2>1, <1>1, <1>7 DEF Written
  <2>3. accepted'[i] = accepted[i] /\ accepted'[j] = accepted[j]
    BY <2>2, <1>7
  <2> QED
    BY <1>1, <1>7, <2>2, <2>3 DEF FileOrdered
<1>16. \A w \in Writers : IdKept(w)'
  BY <1>1 DEF IdKept, Busy
<1> QED
  BY <1>9, <1>10, <1>11, <1>12, <1>13, <1>14, <1>15, <1>16

\* The worker takes the first row that waits.
LEMMA OrderTake ==
  ASSUME LedgerType, QueueInv, OrderInv, NEW t \in Threads, Take(t)
  PROVE  OrderInv'
<1> USE DEF OrderInv, QueueInv, QueueType
<1>1. /\ queue # <<>> /\ queue' = Tail(queue)
      /\ UNCHANGED <<accepted, file, append, lost, call>>
      /\ thread[t].pc = "get"
      /\ thread' = [thread EXCEPT ![t].pc = "took", ![t].row = Head(queue)]
  BY DEF Take, ledgerVars, historyVars
<1>2. Taken \in 0 .. Len(accepted) /\ Len(accepted) = Taken + Len(queue)
        /\ accepted \in Seq(Rows) /\ queue \in Seq(Rows)
  BY TakenIs
<1>3. Len(queue) > 0 /\ Len(queue') = Len(queue) - 1 /\ queue' \in Seq(Rows)
        /\ \A n \in 1 .. Len(queue) - 1 : queue'[n] = queue[n + 1]
  BY <1>1, <1>2
<1>4. Taken' = Taken + 1
  BY <1>1, <1>2, <1>3 DEF Taken
<1>5. \A q : Waits(q)' = Waits(q) /\ IsWritten(q)' = IsWritten(q)
  BY <1>1 DEF Waits, IsWritten, Written
<1>6. Head(queue) = accepted[Taken + 1] /\ Taken + 1 \in DOMAIN accepted
  BY <1>2, <1>3 DEF Suffix
<1>7. Suffix'
  <2>1. ASSUME NEW n \in 1 .. Len(queue) - 1
        PROVE  queue'[n] = accepted[Taken + (n + 1)]
    <3>1. n + 1 \in DOMAIN queue
      BY <1>2
    <3> QED
      BY <1>3, <3>1 DEF Suffix
  <2>2. \A n \in 1 .. Len(queue) - 1 : queue'[n] = accepted'[Taken' + n]
    BY <2>1, <1>1, <1>2, <1>4
  <2> QED
    BY <2>2, <1>1, <1>2, <1>3 DEF Suffix
<1>8. LaterWait'
  BY <1>1, <1>2, <1>4, <1>5 DEF LaterWait
<1>9. ASSUME NEW u \in Threads PROVE HandOrder(u)'
  <2>1. CASE u = t
    <3>1. thread'[t].row = accepted[Taken + 1] /\ Waits(accepted[Taken + 1])
      BY <1>1, <1>2, <1>6 DEF LaterWait, ThreadState
    <3> QED
      BY <2>1, <3>1, <1>1, <1>2, <1>4, <1>5 DEF HandOrder
  <2>2. CASE u # t
    <3>1. thread'[u] = thread[u] /\ thread[u].pc = "off"
      BY <2>2, <1>1 DEF OneWorker
    <3> QED
      BY <3>1 DEF HandOrder, InHand, Undone
  <2> QED
    BY <2>1, <2>2
<1>10. \A w \in Writers : IdKept(w)'
  BY <1>1, WritersAre DEF IdKept, Busy, ThreadState
<1>11. OnceEach' /\ Known' /\ NeverBoth' /\ FileOrdered' /\ NoStranger'
  BY <1>1, <1>5 DEF OnceEach, Known, NeverBoth, FileOrdered, NoStranger, Accepted
<1> QED
  BY <1>7, <1>8, <1>9, <1>10, <1>11

\* A line that is no row, or the row in hand, keeps the file in order.
LEMMA OrderLine ==
  ASSUME LedgerType, QueueInv, OrderInv, NEW w \in Writers, AppendWrites(w),
         UNCHANGED <<accepted, queue, lost, call>>,
         \A r \in Rows : append[w].id = RowId(r) =>
           Taken > 0 /\ r = accepted[Taken] /\ Waits(r),
         \A t \in Threads : HandOrder(t)', \A v \in Writers : IdKept(v)'
  PROVE  OrderInv'
<1> USE DEF OrderInv, QueueInv, QueueType, LedgerType
<1> DEFINE id == append[w].id
<1>1. Taken' = Taken /\ Accepted' = Accepted
  BY DEF Taken, Accepted
<1>2. Taken \in 0 .. Len(accepted) /\ Len(accepted) = Taken + Len(queue)
        /\ accepted \in Seq(Rows) /\ queue \in Seq(Rows)
  BY TakenIs
<1>3. Written' = Written \cup {id}
  BY WrittenIs
<1>4. \A r \in Rows : IsWritten(r)' = (IsWritten(r) \/ id = RowId(r))
  BY <1>3 DEF IsWritten
<1>5. OnceEach' /\ Known' /\ Suffix'
  BY <1>1 DEF OnceEach, Known, Suffix
<1>6. NeverBoth'
  BY <1>4 DEF NeverBoth, Waits
<1>7. NoStranger'
  <2>1. ASSUME NEW r \in Rows, id = RowId(r) PROVE r \in Accepted
    <3>1. Taken > 0 /\ r = accepted[Taken]
      BY <2>1
    <3>2. Taken \in DOMAIN accepted
      BY <3>1, <1>2
    <3> QED
      BY <3>1, <3>2 DEF Accepted
  <2> QED
    BY <2>1, <1>1, <1>4 DEF NoStranger
<1>8. LaterWait'
  <2> SUFFICES ASSUME NEW n \in DOMAIN accepted, n > Taken
               PROVE  Waits(accepted[n])'
    BY <1>1 DEF LaterWait
  <2>1. accepted[n] \in Rows /\ Waits(accepted[n])
    BY <1>2 DEF LaterWait
  <2>2. id # RowId(accepted[n])
    <3> SUFFICES ASSUME id = RowId(accepted[n]) PROVE FALSE
      OBVIOUS
    <3>1. Taken > 0 /\ accepted[n] = accepted[Taken] /\ Taken \in DOMAIN accepted
      BY <2>1, <1>2
    <3>2. n = Taken
      BY <3>1 DEF OnceEach
    <3> QED
      BY <3>2, <1>2
  <2> QED
    BY <2>1, <2>2, <1>4 DEF Waits
<1>9. FileOrdered'
  <2> DEFINE row == [id |-> id, chain |-> Link(append[w].prev, id)]
  <2>k. PICK k \in Nat : k = Len(file)
    OBVIOUS
  <2>1. file' = Append(file, row) /\ row.id = id
    BY DEF AppendWrites
  <2> HIDE DEF row
  <2>2. /\ DOMAIN file' = 1 .. k + 1 /\ DOMAIN file = 1 .. k
        /\ file'[k + 1] = row /\ \A n \in 1 .. k : file'[n] = file[n]
    BY <2>1, <2>k
  <2> SUFFICES ASSUME NEW m \in 1 .. k + 1, NEW n \in 1 .. k + 1, m < n,
                      NEW i \in DOMAIN accepted, NEW j \in DOMAIN accepted,
                      file'[m].id = RowId(accepted[i]),
                      file'[n].id = RowId(accepted[j])
               PROVE  i < j
    BY <2>2 DEF FileOrdered
  <2>3. m \in DOMAIN file /\ file'[m] = file[m]
    BY <2>2
  <2>4. CASE n \in 1 .. k
    BY <2>2, <2>3, <2>4 DEF FileOrdered
  <2>5. CASE n = k + 1
    <3>1. id = RowId(accepted[j]) /\ accepted[j] \in Rows
      BY <2>1, <2>2, <2>5, <1>2
    <3>2. Taken > 0 /\ accepted[j] = accepted[Taken] /\ Waits(accepted[Taken])
            /\ Taken \in DOMAIN accepted
      BY <3>1, <1>2
    <3>3. j = Taken
      BY <3>2 DEF OnceEach
    <3>4. IsWritten(accepted[i])
      BY <2>3 DEF IsWritten, Written
    <3>5. ~ (i > Taken) /\ i # Taken
      BY <3>2, <3>4 DEF LaterWait, Waits
    <3> QED
      BY <3>3, <3>5, <1>2
  <2> QED
    BY <2>4, <2>5
<1> QED
  BY <1>5, <1>6, <1>7, <1>8, <1>9

\* A step that takes no row, writes none and loses none.
LEMMA OrderQuiet ==
  ASSUME OrderInv, UNCHANGED <<accepted, queue, file, lost>>, Known',
         \A t \in Threads :
           InHand(t)' => InHand(t) /\ thread'[t].row = thread[t].row,
         \A t \in Threads : Undone(t)' => Undone(t),
         \A w \in Writers : IdKept(w)'
  PROVE  OrderInv'
<1>1. \A r : Waits(r)' = Waits(r)
  BY DEF Waits, IsWritten, Written
<1>2. ASSUME NEW t \in Threads PROVE HandOrder(t)'
  <2>1. Taken' = Taken
    BY DEF Taken
  <2>2. Undone(t)' => InHand(t)'
    BY DEF Undone, InHand
  <2> QED
    BY <1>1, <2>1, <2>2 DEF OrderInv, HandOrder
<1> QED
  BY <1>2, OrderFrame

LEMMA KnownStep ==
  ASSUME QueueInv, Known, [Next]_vars, accepted' = accepted
  PROVE  Known'
<1> USE DEF QueueInv, QueueType
<1>1. \/ call' = call
      \/ \E c \in Rows \cup Direct, s \in {"true", "false", "busy"} :
           call' = [call EXCEPT ![c] = s]
      \/ Crash \/ \E r \in Rows : Put(r)
  BY DEF Next, Drop, Ensure, Working, Take, Park, Claim, Handle, HandleMerges,
         HandleHead, HandlerRaises, Settle, DirectBegins, DirectWrites, DirectEnds, Flushing,
         FlushBegins, FlushChecks, FlushEnsures, FlushTimesOut, vars
<1>2. ASSUME NEW r \in Rows, Put(r) PROVE FALSE
  BY <1>2 DEF Put
<1>3. Accepted' = Accepted /\ Accepted \subseteq Rows
  BY DEF Accepted
<1>4. CASE Crash
  BY <1>3, <1>4 DEF Crash, Known
<1> QED
  BY <1>1, <1>2, <1>3, <1>4 DEF Known

\* The row an append under way is writing does not change.
LEMMA IdKeptStep ==
  ASSUME LedgerInv, QueueInv, \A v \in Writers : IdKept(v), [Next]_vars,
         NEW w \in Writers
  PROVE  IdKept(w)'
<1> USE DEF LedgerInv, LedgerType, QueueInv, QueueType
<1>1. CASE Crash
  <2>1. append'[w].step = "none"
    BY <1>1 DEF Crash, AppendsCut, Ended
  <2> QED
    BY <2>1 DEF IdKept, Busy
<1>2. CASE w \in Direct /\ ~Crash
  <2>1. w \notin Threads
    BY <1>2, WritersAssumption
  <2>2. append[w] \in Call /\ IdKept(w)
    OBVIOUS
  <2>3. ASSUME NEW t \in Threads, Working(t)
        PROVE  append'[w] = append[w]
    BY <2>1, <2>3, WritersAre
       DEF Working, Take, Park, Claim, Handle, HandleMerges, HandleHead,
           HandlerRaises, Settle, AppendReads, AppendWrites, AppendMerges,
           AppendHeads, AppendKeepsHead, AppendRaises, ledgerVars
  <2>4. ASSUME NEW v \in Direct, v # w, DirectBegins(v) \/ DirectWrites(v) \/ DirectEnds(v)
        PROVE  append'[w] = append[w]
    BY <2>4, OneAppend, IdsAre, WritersAre DEF DirectBegins, DirectWrites, DirectEnds
  <2>5. CASE DirectBegins(w)
    <3>1. append'[w].id = RowId(w)
      BY <2>5 DEF DirectBegins, AppendReads
    <3> QED
      BY <2>1, <3>1 DEF IdKept
  <2>6. CASE DirectWrites(w)
    <3>1. append'[w].id = append[w].id /\ Busy(w)
      BY <2>2, <2>6 DEF DirectWrites, AppendWrites, AppendMerges, Call, Busy
    <3> QED
      BY <2>1, <2>2, <3>1 DEF IdKept
  <2>7. CASE DirectEnds(w)
    <3>1. append'[w].step = "none"
      BY <2>7 DEF DirectEnds, AppendHeads, AppendKeepsHead, AppendRaises, Ended
    <3> QED
      BY <3>1 DEF IdKept, Busy
  <2>8. ASSUME NEW r \in Rows, Put(r) \/ Drop(r) \/ Ensure(r)
        PROVE  append' = append
    BY <2>8 DEF Put, Drop, Ensure, ledgerVars
  <2>9. CASE Flushing \/ UNCHANGED vars
    BY <2>9, <2>1, <2>2 DEF Flushing, FlushBegins, FlushChecks, FlushEnsures, FlushTimesOut,
               vars, ledgerVars, IdKept, Busy
  <2>10. CASE append'[w] = append[w]
    BY <2>1, <2>2, <2>10 DEF IdKept, Busy
  <2> QED
    BY <1>2, <2>3, <2>4, <2>5, <2>6, <2>7, <2>8, <2>9, <2>10 DEF Next
<1>3. CASE w \in Threads /\ ~Crash
  <2>1. w \notin Direct
    BY <1>3, WritersAssumption
  <2>2. append[w] \in Call /\ IdKept(w) /\ HandOK(w) /\ thread[w] \in ThreadState
    BY <1>3
  <2>3. CASE ~Working(w) /\ ~Ensuring
    <3>1. thread'[w] = thread[w] /\ append'[w] = append[w]
      BY <1>3, <2>3, OthersKept
    <3> QED
      BY <2>1, <2>2, <3>1 DEF IdKept, Busy
  <2>4. CASE Ensuring
    <3>1. append' = append /\ EnsureWorker
      BY <2>4 DEF Ensuring, Ensure, FlushEnsures, Revives, ledgerVars
    <3>2. ASSUME NEW u \in Threads, thread' = [thread EXCEPT ![u].pc = "get"]
          PROVE  thread'[w] = thread[w] \/ thread'[w].pc # "gap"
      BY <1>3, <3>2 DEF ThreadState
    <3>3. thread'[w] = thread[w] \/ thread'[w].pc # "gap"
      BY <3>1, <3>2, StartedAlone
    <3> QED
      BY <2>1, <2>2, <3>1, <3>3 DEF IdKept, Busy
  <2>5. CASE Take(w) \/ Park(w) \/ Settle(w)
    <3>1. thread'[w].pc # "gap"
      BY <1>3, <2>2, <2>5 DEF Take, Park, Settle, Off, ThreadState
    <3> QED
      BY <2>1, <3>1 DEF IdKept
  <2>6. CASE Claim(w)
    <3>1. append' = append /\ ~Busy(w)
      BY <2>2, <2>6 DEF Claim, ledgerVars, HandOK, Appending
    <3> QED
      BY <2>1, <3>1 DEF IdKept, Busy
  <2>7. CASE HandleHead(w) \/ HandlerRaises(w)
    <3>1. append'[w].step = "none"
      BY <2>7 DEF HandleHead, HandlerRaises, AppendHeads, AppendKeepsHead,
                  AppendRaises, Ended
    <3> QED
      BY <2>1, <3>1 DEF IdKept, Busy
  <2>8. CASE Handle(w)
    <3>1. thread' = thread
      BY <2>8 DEF Handle
    <3>2. CASE AppendWrites(w)
      <4>1. append'[w].id = append[w].id /\ Busy(w)
        BY <2>2, <3>2 DEF AppendWrites, Call, Busy
      <4> QED
        BY <2>1, <2>2, <3>1, <4>1 DEF IdKept
    <3>3. CASE thread[w].pc = "gap" /\ AppendReads(w, GapId(thread[w].drops))
      <4>1. append'[w].id = GapId(thread[w].drops)
        BY <3>3 DEF AppendReads
      <4> QED
        BY <2>1, <3>1, <4>1 DEF IdKept
    <3>4. CASE thread[w].pc # "gap"
      BY <2>1, <3>1, <3>4 DEF IdKept
    <3> QED
      BY <2>8, <3>2, <3>3, <3>4 DEF Handle
  <2>9. CASE HandleMerges(w)
    <3>1. thread' = thread /\ append'[w].id = append[w].id /\ Busy(w)
      BY <2>2, <2>9 DEF HandleMerges, AppendMerges, Call, Busy
    <3> QED
      BY <2>1, <2>2, <3>1 DEF IdKept
  <2> QED
    BY <1>3, <2>3, <2>4, <2>5, <2>6, <2>7, <2>8, <2>9 DEF Working
<1> QED
  BY <1>1, <1>2, <1>3, WritersAssumption

\* The row an append was writing waits, and is lost: the append raises, or its
\* line goes to the end of a torn one.
LEMMA OrderLoses ==
  ASSUME LedgerInv, QueueInv, OrderInv, [Next]_vars,
         NEW t \in Threads, Undone(t),
         UNCHANGED <<accepted, queue, file, call>>,
         lost' = lost \cup {thread[t].row}, thread'[t].row = thread[t].row,
         \A u \in Threads : u # t => thread'[u] = thread[u],
         InHand(t)', ~Undone(t)'
  PROVE  OrderInv'
<1> USE DEF OrderInv, QueueInv, QueueType, LedgerInv
<1> DEFINE r == thread[t].row
<1>2. InHand(t)
  BY DEF InHand, Undone
<1>3. Taken \in 0 .. Len(accepted) /\ accepted \in Seq(Rows) /\ Taken > 0
        /\ r = accepted[Taken] /\ Waits(r) /\ Taken \in DOMAIN accepted
  BY <1>2, TakenIs DEF HandOrder
<1>4. Taken' = Taken /\ Accepted' = Accepted /\ Written' = Written
  BY DEF Taken, Accepted, Written
<1>5. \A q : IsWritten(q)' = IsWritten(q) /\ (Waits(q)' <=> Waits(q) /\ q # r)
  BY <1>4 DEF IsWritten, Waits
<1>6. LaterWait'
  BY <1>3, <1>4, <1>5 DEF LaterWait, OnceEach
<1>7. ASSUME NEW u \in Threads PROVE HandOrder(u)'
  <2>1. CASE u = t
    BY <2>1, <1>3, <1>4 DEF HandOrder
  <2>2. CASE u # t
    <3>1. thread[u].pc = "off" /\ thread'[u] = thread[u]
      BY <1>2, <2>2 DEF OneWorker, InHand
    <3> QED
      BY <3>1 DEF HandOrder, InHand, Undone
  <2> QED
    BY <2>1, <2>2
<1>8. NeverBoth' /\ NoStranger'
  <2>1. r \in Accepted
    BY <1>3 DEF Accepted
  <2> QED
    BY <2>1, <1>3, <1>4, <1>5 DEF NeverBoth, NoStranger, Waits
<1>9. OnceEach' /\ Known' /\ Suffix' /\ FileOrdered'
  BY <1>4 DEF OnceEach, Known, Suffix, FileOrdered
<1>10. \A w \in Writers : IdKept(w)'
  BY IdKeptStep
<1> QED
  BY <1>6, <1>7, <1>8, <1>9, <1>10

LEMMA OrderRaise ==
  ASSUME LedgerInv, QueueInv, OrderInv, [Next]_vars, NEW t \in Threads,
         HandlerRaises(t) \/ (HandleMerges(t) /\ thread[t].pc = "row")
  PROVE  OrderInv'
<1>1. thread[t] \in ThreadState /\ append[t] \in Call /\ t \in Writers
  BY WritersAre DEF LedgerInv, LedgerType, QueueInv, QueueType
<1>2. UNCHANGED <<accepted, queue, file, call>> /\ lost' = lost \cup {thread[t].row}
        /\ append[t].step = "write" /\ Appending(t)
  BY DEF HandlerRaises, HandleMerges, AppendRaises, AppendMerges, queueVars
<1>3. Undone(t)
  BY <1>2 DEF Appending, HasWritten, Undone
<1>4. \A u \in Threads : u # t => thread'[u] = thread[u]
  BY DEF HandlerRaises, HandleMerges, QueueInv, QueueType
<1>5. thread'[t].row = thread[t].row /\ InHand(t)' /\ ~Undone(t)'
  <2>1. CASE HandlerRaises(t)
    BY <1>1, <2>1 DEF HandlerRaises, InHand, Undone, ThreadState, QueueInv, QueueType
  <2>2. CASE HandleMerges(t) /\ thread[t].pc = "row"
    BY <1>1, <2>2 DEF HandleMerges, AppendMerges, HasWritten, InHand, Undone,
                      LedgerInv, LedgerType, Call
  <2> QED
    BY <2>1, <2>2
<1> QED
  BY <1>2, <1>3, <1>4, <1>5, OrderLoses

\* A crash leaves no row waiting.
LEMMA OrderCrash ==
  ASSUME LedgerInv, QueueInv, OrderInv, [Next]_vars, Crash
  PROVE  OrderInv'
<1> USE DEF OrderInv, QueueInv, QueueType
<1>1. /\ UNCHANGED <<accepted, file>> /\ queue' = <<>>
      /\ lost' = lost \cup {r \in Accepted : RowId(r) \notin Written}
      /\ thread' = [t \in Threads |-> Off]
  BY DEF Crash, AppendsCut
<1>2. Accepted' = Accepted /\ Written' = Written
  BY <1>1 DEF Accepted, Written
<1>3. Known'
  BY KnownStep, <1>1
<1>4. Taken' = Len(accepted)
  BY <1>1 DEF Taken
<1>5. Suffix' /\ LaterWait'
  BY <1>1, <1>4 DEF Suffix, LaterWait
<1>6. \A t \in Threads : HandOrder(t)'
  BY <1>1 DEF HandOrder, InHand, Undone, Off
<1>7. NeverBoth' /\ NoStranger'
  BY <1>1, <1>2 DEF NeverBoth, NoStranger, IsWritten
<1>8. OnceEach' /\ FileOrdered'
  BY <1>1 DEF OnceEach, FileOrdered
<1>9. \A w \in Writers : IdKept(w)'
  BY IdKeptStep
<1> QED
  BY <1>3, <1>5, <1>6, <1>7, <1>8, <1>9

\* The worker's line: the row it holds, or a gap row.
LEMMA OrderHandle ==
  ASSUME LedgerInv, QueueInv, OrderInv, [Next]_vars,
         NEW t \in Threads, Handle(t), AppendWrites(t)
  PROVE  OrderInv'
<1> USE DEF OrderInv, QueueInv, QueueType, LedgerInv, LedgerType
<1>1. UNCHANGED <<accepted, queue, lost, call, thread>>
  BY DEF Handle, queueVars, historyVars
<1>2. append[t].step = "write" /\ append'[t].step = "head" /\ Busy(t)
        /\ Appending(t) /\ HandOK(t) /\ t \in Writers /\ IdKept(t)
  BY WritersAre DEF Handle, AppendWrites, Busy, Call
<1>3. InHand(t) /\ Undone(t) /\ thread[t].row \in Rows
  BY <1>2 DEF Appending, InHand, Undone, HandOK, HasWritten
<1>4. Taken > 0 /\ thread[t].row = accepted[Taken] /\ Waits(thread[t].row)
  BY <1>3 DEF HandOrder
<1>5. ASSUME NEW r \in Rows, append[t].id = RowId(r)
      PROVE  r = thread[t].row
  <2>1. thread[t].pc # "gap"
    BY <1>2, <1>5, IdsApart DEF IdKept
  <2>2. append[t].id = RowId(thread[t].row)
    BY <1>2, <2>1 DEF HandOK, Appending
  <2> QED
    BY <1>5, <2>2, IdsApart
<1>6. ASSUME NEW u \in Threads PROVE HandOrder(u)'
  <2>1. Taken' = Taken
    BY <1>1 DEF Taken
  <2>2. CASE u # t
    <3>1. thread[u].pc = "off"
      BY <1>3, <2>2 DEF OneWorker, InHand
    <3> QED
      BY <1>1, <3>1 DEF HandOrder, InHand, Undone
  <2>3. CASE u = t /\ thread[t].pc = "row"
    BY <1>1, <1>2, <1>4, <2>1, <2>3 DEF HandOrder, Undone, HasWritten
  <2>4. CASE u = t /\ thread[t].pc = "gap"
    <3>1. append[t].id # RowId(thread[t].row)
      BY <1>2, <2>4, IdsApart DEF IdKept
    <3>2. Written' = Written \cup {append[t].id}
      BY <1>2, WrittenIs
    <3>3. Waits(thread[t].row)'
      BY <1>1, <1>4, <3>1, <3>2 DEF Waits, IsWritten
    <3> QED
      BY <1>1, <1>4, <2>1, <2>4, <3>3 DEF HandOrder
  <2> QED
    BY <1>2, <2>2, <2>3, <2>4 DEF Appending
<1>7. \A v \in Writers : IdKept(v)'
  BY IdKeptStep
<1> QED
  BY <1>1, <1>2, <1>4, <1>5, <1>6, <1>7, OrderLine

\* The line of an append around the queue is none of the queue's rows.
LEMMA OrderDirect ==
  ASSUME LedgerInv, QueueInv, OrderInv, [Next]_vars,
         NEW w \in Direct, DirectWrites(w), AppendWrites(w)
  PROVE  OrderInv'
<1> USE DEF OrderInv, QueueInv, QueueType, LedgerInv, LedgerType
<1>1. UNCHANGED <<accepted, queue, lost, call, thread>> /\ AppendWrites(w)
        /\ Busy(w) /\ w \in Writers /\ w \notin Threads
  BY WritersAssumption DEF DirectWrites, AppendWrites, Busy, queueVars, historyVars
<1>2. append[w].id = RowId(w) /\ \A r \in Rows : append[w].id # RowId(r)
  BY <1>1, IdsApart, RowsAre DEF IdKept
<1>3. ASSUME NEW t \in Threads PROVE HandOrder(t)'
  <2>1. Taken' = Taken
    BY <1>1 DEF Taken
  <2>2. thread' = thread /\ append'[t] = append[t]
    BY <1>1, WritersAre DEF AppendWrites
  <2>3. Written' = Written \cup {RowId(w)}
    BY <1>1, <1>2, WrittenIs
  <2>4. \A r \in Rows : Waits(r)' = Waits(r)
    BY <1>1, <1>2, <2>3 DEF Waits, IsWritten
  <2>5. InHand(t)' = InHand(t) /\ Undone(t)' = Undone(t)
    BY <2>2 DEF InHand, Undone, HasWritten
  <2>6. Undone(t) => thread[t].row \in Rows
    BY DEF Undone, InHand, HandOK
  <2> QED
    BY <1>1, <2>1, <2>2, <2>4, <2>5, <2>6 DEF HandOrder
<1>4. \A v \in Writers : IdKept(v)'
  BY IdKeptStep
<1> QED
  BY <1>1, <1>2, <1>3, <1>4, OrderLine

LEMMA OrderStep ==
  ASSUME LedgerInv, QueueInv, OrderInv, [Next]_vars
  PROVE  OrderInv'
<1> USE DEF QueueInv, QueueType, LedgerInv, LedgerType
<1>1. ASSUME UNCHANGED <<accepted, queue, file, lost>>,
             \A t \in Threads :
               InHand(t)' => InHand(t) /\ thread'[t].row = thread[t].row,
             \A t \in Threads : Undone(t)' => Undone(t)
      PROVE  OrderInv'
  <2>1. Known' /\ \A w \in Writers : IdKept(w)'
    BY <1>1, KnownStep, IdKeptStep DEF OrderInv
  <2> QED
    BY <1>1, <2>1, OrderQuiet
<1>2. CASE UNCHANGED <<accepted, queue, file, lost, thread, append>>
  BY <1>1, <1>2 DEF InHand, Undone, HasWritten
<1>3. ASSUME NEW t \in Threads, UNCHANGED <<accepted, queue, file, lost>>,
             \A u \in Threads : u # t => thread'[u] = thread[u] /\ append'[u] = append[u],
             InHand(t)' => InHand(t) /\ thread'[t].row = thread[t].row,
             Undone(t)' => Undone(t)
      PROVE  OrderInv'
  <2>1. \A u \in Threads : u # t => InHand(u)' = InHand(u) /\ Undone(u)' = Undone(u)
    BY <1>3 DEF InHand, Undone, HasWritten
  <2> QED
    BY <1>1, <1>3, <2>1
<1>4. ASSUME NEW t \in Threads, Working(t), ~Take(t), ~HandlerRaises(t),
             ~AppendWrites(t), ~(HandleMerges(t) /\ thread[t].pc = "row")
      PROVE  OrderInv'
  <2>1. \A u \in Threads : u # t => thread'[u] = thread[u] /\ append'[u] = append[u]
    BY <1>4, WritersAre
       DEF Working, Take, Park, Claim, Handle, HandleMerges, HandleHead,
           HandlerRaises, Settle, AppendReads, AppendMerges, AppendHeads,
           AppendKeepsHead, ledgerVars
  <2>2. UNCHANGED <<accepted, queue, file, lost>>
    BY <1>4 DEF Working, Park, Claim, Handle, HandleMerges, HandleHead, Settle,
           AppendReads, AppendMerges, AppendHeads, AppendKeepsHead, ledgerVars,
           queueVars, historyVars
  <2>3. t \in Writers /\ thread[t] \in ThreadState /\ append[t] \in Call /\ HandOK(t)
    BY WritersAre
  <2>4. CASE Park(t) \/ Settle(t)
    <3>1. ~InHand(t)' /\ ~Undone(t)'
      BY <2>3, <2>4 DEF Park, Settle, Off, InHand, Undone, ThreadState
    <3> QED
      BY <1>3, <2>1, <2>2, <3>1
  <2>5. CASE Claim(t)
    <3>1. thread'[t].row = thread[t].row /\ thread[t].pc = "took"
      BY <2>3, <2>5 DEF Claim, ThreadState
    <3> QED
      BY <1>3, <2>1, <2>2, <3>1 DEF InHand, Undone
  <2>6. CASE Handle(t)
    <3>1. thread' = thread /\ append[t].step = "none" /\ Appending(t)
      BY <1>4, <2>3, <2>6 DEF Handle, AppendReads, Busy, Call, Steps
    <3> QED
      BY <1>3, <2>1, <2>2, <3>1 DEF InHand, Undone, Appending, HasWritten
  <2>8. CASE HandleMerges(t)
    <3>1. thread' = thread /\ thread[t].pc = "gap"
      BY <1>4, <2>8 DEF HandleMerges, Appending
    <3> QED
      BY <1>3, <2>1, <2>2, <3>1 DEF InHand, Undone
  <2>7. CASE HandleHead(t)
    <3>1. thread'[t].row = thread[t].row /\ Appending(t)
            /\ (thread[t].pc = "row" => thread'[t].pc = "done")
      BY <2>3, <2>7 DEF HandleHead, ThreadState
    <3> QED
      BY <1>3, <2>1, <2>2, <3>1 DEF InHand, Undone, Appending
  <2> QED
    BY <1>4, <2>4, <2>5, <2>6, <2>7, <2>8 DEF Working
<1>5. CASE Ensuring
  <2>1. UNCHANGED <<accepted, queue, file, lost, append>> /\ EnsureWorker
    BY <1>5 DEF Ensuring, Ensure, FlushEnsures, Revives, ledgerVars, historyVars
  <2>2. CASE thread' = thread
    BY <1>2, <2>1, <2>2
  <2>3. ASSUME NEW t \in Threads, thread' = [thread EXCEPT ![t].pc = "get"]
        PROVE  OrderInv'
    <3>1. ~InHand(t)' /\ ~Undone(t)'
      BY <2>3 DEF InHand, Undone, ThreadState
    <3> QED
      BY <1>3, <2>1, <2>3, <3>1
  <2> QED
    BY <2>1, <2>2, <2>3, StartedAlone
<1>6. ASSUME NEW w \in Direct, DirectBegins(w) \/ DirectWrites(w) \/ DirectEnds(w),
             ~AppendWrites(w)
      PROVE  OrderInv'
  <2>1. UNCHANGED <<accepted, queue, file, lost, thread>>
    BY <1>6 DEF DirectBegins, DirectWrites, DirectEnds, AppendReads, AppendMerges,
                AppendHeads, AppendKeepsHead, AppendRaises, queueVars, historyVars
  <2>2. \A t \in Threads : append'[t] = append[t]
    BY <1>6, WritersAssumption
       DEF DirectBegins, DirectWrites, DirectEnds, AppendReads, AppendMerges,
           AppendHeads, AppendKeepsHead, AppendRaises
  <2> QED
    BY <1>1, <2>1, <2>2 DEF InHand, Undone, HasWritten
<1>7. ASSUME NEW r \in Rows, Drop(r)
      PROVE  OrderInv'
  BY <1>2, <1>7 DEF Drop, ledgerVars, historyVars
<1>8. CASE FlushBegins \/ FlushChecks \/ FlushTimesOut
  BY <1>2, <1>8 DEF FlushBegins, FlushChecks, FlushTimesOut, ledgerVars, queueVars, historyVars
<1>9. CASE UNCHANGED vars
  BY <1>2, <1>9 DEF vars, ledgerVars, queueVars, historyVars
<1>10. ASSUME NEW t \in Threads,
              Take(t) \/ HandlerRaises(t) \/ (HandleMerges(t) /\ thread[t].pc = "row")
       PROVE  OrderInv'
  BY <1>10, OrderTake, OrderRaise
<1>11. ASSUME NEW t \in Threads, Working(t), AppendWrites(t), ~Take(t), ~HandlerRaises(t)
       PROVE  OrderInv'
  <2>1. append'[t].step = "head" /\ append[t].step = "write" /\ torn # "tail"
    BY <1>11, WritersAre DEF AppendWrites
  <2>2. Handle(t)
    BY <1>11, <2>1, WritersAre
       DEF Working, Park, Claim, HandleMerges, HandleHead, Settle, AppendMerges,
           AppendHeads, AppendKeepsHead, HasWritten, ledgerVars
  <2> QED
    BY <1>11, <2>2, OrderHandle
<1>12. ASSUME NEW w \in Direct, DirectBegins(w) \/ DirectEnds(w)
       PROVE  ~AppendWrites(w)
  <2>1. w \in Writers
    BY WritersAre
  <2>2. AppendWrites(w) => append'[w].step = "head" /\ append[w].step = "write"
    BY <2>1 DEF AppendWrites
  <2>3. append[w].step = "write" => append'[w].step # "head"
    BY <1>12, <2>1
       DEF DirectBegins, DirectEnds, AppendReads, AppendHeads, AppendKeepsHead,
           AppendRaises, HasWritten, Busy, Ended
  <2> QED
    BY <2>2, <2>3
<1>13. ASSUME NEW r \in Rows, Put(r) PROVE OrderInv'
  BY <1>13, OrderPut
<1>14. CASE Crash
  BY <1>14, OrderCrash
<1>15. ASSUME NEW w \in Direct, DirectWrites(w), AppendWrites(w) PROVE OrderInv'
  BY <1>15, OrderDirect
<1>16. ASSUME NEW w \in Direct, DirectBegins(w) \/ DirectWrites(w) \/ DirectEnds(w)
       PROVE  OrderInv'
  BY <1>6, <1>12, <1>15, <1>16
<1> QED
  BY <1>4, <1>5, <1>7, <1>8, <1>9, <1>10, <1>11, <1>13, <1>14, <1>16
     DEF Next, Flushing, Ensuring

LEMMA OrderStart == Init => OrderInv
<1> SUFFICES ASSUME Init PROVE OrderInv
  OBVIOUS
<1>1. accepted = <<>> /\ queue = <<>> /\ file = <<>> /\ lost = {}
  BY DEF Init, LedgerInit
<1>2. OnceEach /\ Known /\ Suffix /\ LaterWait /\ FileOrdered
  BY <1>1 DEF OnceEach, Known, Suffix, LaterWait, FileOrdered, Accepted
<1>3. NeverBoth /\ NoStranger
  BY <1>1 DEF NeverBoth, NoStranger, IsWritten, Written
<1>4. \A t \in Threads : HandOrder(t)
  BY DEF Init, HandOrder, InHand, Undone, Off
<1>5. \A w \in Writers : IdKept(w)
  BY DEF Init, LedgerInit, IdKept, Busy, Ended
<1> QED
  BY <1>2, <1>3, <1>4, <1>5 DEF OrderInv

\* Rows reach the ledger in the order TelemetryQueue took them, each once: only
\* queued rows and the one in the worker's hand wait, every other is written or,
\* when its append raised, met a torn line or was cut by a crash, lost, never both.
THEOREM RowsInOrder == Spec => []NothingLostOrReordered
<1>1. Init => Inv /\ OrderInv
  BY InvStart, OrderStart
<1>2. Inv /\ OrderInv /\ [Next]_vars => Inv' /\ OrderInv'
  BY InvStep, OrderStep DEF Inv
<1>3. Inv /\ OrderInv => NothingLostOrReordered
  BY OrderIs DEF Inv
<1> QED
  BY <1>1, <1>2, <1>3, PTL DEF Spec

--------------------------------------------------------------------------------
(* The sum of the drops that a set of gap rows counts.                     *)
(*                                                                         *)
(* MapThenSumSet is a recursive function on the subsets of the set.  What  *)
(* it computes is proved by looking at a smallest subset that fails: the   *)
(* subsets of a finite set are well-founded under strict inclusion.        *)

\* A family of subsets of a finite set has a smallest member below which there is none.
LEMMA FiniteMinimal ==
  ASSUME NEW S, IsFiniteSet(S), NEW F \in SUBSET SUBSET S, F # {}
  PROVE  \E T \in F : \A U \in SUBSET T : U # T => U \notin F
<1> DEFINE Order == StrictSubsetOrdering(S)
           Sets == FiniteSubsetsOf(S)
<1>1. IsWellFoundedOn(Order, Sets)
  BY FS_StrictSubsetOrderingWellFounded
<1>2. F \subseteq Sets
  BY FS_Subset DEF FiniteSubsetsOf
<1>3. PICK T \in F : \A U \in F : ~ (<<U, T>> \in Order)
  <2> HIDE DEF Order, Sets
  <2> QED
    BY <1>1, <1>2, WFMin, Zenon
<1>4. ASSUME NEW U \in F, U \subseteq T, U # T
      PROVE  <<U, T>> \in Order
  BY <1>4 DEF StrictSubsetOrdering
<1>5. \A U \in SUBSET T : U # T => U \notin F
  <2> HIDE DEF Order, Sets
  <2> QED
    BY <1>3, <1>4
<1> QED
  BY <1>5

\* MapThenSumSet adds up a set in the order in which CHOOSE takes its members.
Pick(s) == CHOOSE x \in s : TRUE
DropsIn(f, S) == MapThenSumSet(LAMBDA n : f[n].id[2], S)
Sums(f, S, h) ==
  h = [s \in SUBSET S |-> IF s = {} THEN 0
                          ELSE f[Pick(s)].id[2] + h[s \ {Pick(s)}]]
Fold(f, S) == CHOOSE h : Sums(f, S, h)

LEMMA DropsInIs ==
  ASSUME NEW f, NEW S PROVE DropsIn(f, S) = Fold(f, S)[S]
BY DEF DropsIn, MapThenSumSet, MapThenFoldSet, Fold, Sums, Pick

LEMMA PickIn == ASSUME NEW s, s # {} PROVE Pick(s) \in s
BY DEF Pick

\* On the sets they share, two solutions agree.
LEMMA SumsAgree ==
  ASSUME NEW f, NEW B, IsFiniteSet(B), NEW A \in SUBSET B, NEW h, NEW k,
         Sums(f, A, h), Sums(f, B, k)
  PROVE  \A s \in SUBSET A : h[s] = k[s]
<1> DEFINE F == {s \in SUBSET A : h[s] # k[s]}
<1> SUFFICES ASSUME F # {} PROVE FALSE
  OBVIOUS
<1>1. IsFiniteSet(A)
  BY FS_Subset
<1>2. PICK s \in F : \A u \in SUBSET s : u # s => u \notin F
  <2> F \in SUBSET SUBSET A
    OBVIOUS
  <2> HIDE DEF F
  <2> QED
    BY <1>1, FiniteMinimal
<1>3. /\ h[s] = IF s = {} THEN 0 ELSE f[Pick(s)].id[2] + h[s \ {Pick(s)}]
      /\ k[s] = IF s = {} THEN 0 ELSE f[Pick(s)].id[2] + k[s \ {Pick(s)}]
  BY DEF Sums
<1>4. CASE s = {}
  BY <1>3, <1>4
<1>5. CASE s # {}
  <2>1. Pick(s) \in s
    BY <1>5, PickIn
  <2>2. s \ {Pick(s)} \in SUBSET s /\ s \ {Pick(s)} # s
    BY <2>1
  <2>3. h[s \ {Pick(s)}] = k[s \ {Pick(s)}]
    BY <2>2, <1>2
  <2> QED
    BY <1>3, <1>5, <2>3
<1> QED
  BY <1>4, <1>5

\* The recursive definition has a solution: CHOOSE finds it.
LEMMA FoldSums ==
  ASSUME NEW f, NEW S, IsFiniteSet(S)
  PROVE  Sums(f, S, Fold(f, S))
<1> DEFINE F == {T \in SUBSET S : ~ \E h : Sums(f, T, h)}
<1>1. SUFFICES ASSUME F # {} PROVE FALSE
  <2>1. \E h : Sums(f, S, h)
    BY <1>1
  <2> QED
    BY <2>1 DEF Fold
<1>2. PICK T \in F : \A U \in SUBSET T : U # T => U \notin F
  <2> F \in SUBSET SUBSET S
    OBVIOUS
  <2> HIDE DEF F
  <2> QED
    BY <1>1, FiniteMinimal
<1>3. ASSUME NEW U \in SUBSET T, U # T
      PROVE  Sums(f, U, Fold(f, U))
  <2>1. \E h : Sums(f, U, h)
    BY <1>2, <1>3
  <2> QED
    BY <2>1 DEF Fold
<1>4. ASSUME NEW U \in SUBSET T, U # T
      PROVE  Fold(f, U)[U] = IF U = {} THEN 0
               ELSE f[Pick(U)].id[2] + Fold(f, U \ {Pick(U)})[U \ {Pick(U)}]
  <2>1. Fold(f, U)[U] = IF U = {} THEN 0
               ELSE f[Pick(U)].id[2] + Fold(f, U)[U \ {Pick(U)}]
    <3>1. Sums(f, U, Fold(f, U)) BY <1>3, <1>4
    <3> DEFINE h == Fold(f, U)
    <3>2. Sums(f, U, h) BY <3>1
    <3> HIDE DEF h
    <3>3. h[U] = IF U = {} THEN 0 ELSE f[Pick(U)].id[2] + h[U \ {Pick(U)}]
      BY <3>2 DEF Sums
    <3> QED
      BY <3>3 DEF h
  <2>2. CASE U # {}
    <3> DEFINE V == U \ {Pick(U)}
    <3>1. V \in SUBSET U /\ V \in SUBSET T /\ V # T /\ V \in SUBSET V
      BY <1>4, <2>2, PickIn
    <3>2. Sums(f, V, Fold(f, V)) /\ Sums(f, U, Fold(f, U)) /\ IsFiniteSet(U)
      BY <1>3, <1>4, <3>1, FS_Subset
    <3>3. Fold(f, V)[V] = Fold(f, U)[V]
      BY <3>1, <3>2, SumsAgree
    <3> QED
      BY <2>1, <3>3
  <2> QED
    BY <2>1, <2>2
<1> DEFINE g == [s \in SUBSET T |-> IF s = {} THEN 0
              ELSE f[Pick(s)].id[2] + Fold(f, s \ {Pick(s)})[s \ {Pick(s)}]]
<1>5. ASSUME NEW s \in SUBSET T, s # {}
      PROVE  g[s \ {Pick(s)}] = Fold(f, s \ {Pick(s)})[s \ {Pick(s)}]
  <2>1. s \ {Pick(s)} \in SUBSET T /\ s \ {Pick(s)} # T
    BY <1>5, PickIn
  <2> QED
    BY <2>1, <1>4
<1>6. Sums(f, T, g)
  <2>1. g = [s \in SUBSET T |-> IF s = {} THEN 0
                          ELSE f[Pick(s)].id[2] + g[s \ {Pick(s)}]]
    <3>1. \A s \in SUBSET T : g[s] = IF s = {} THEN 0 ELSE f[Pick(s)].id[2] + g[s \ {Pick(s)}]
      BY <1>5
    <3>2. g = [s \in SUBSET T |-> g[s]] OBVIOUS
    <3> HIDE DEF g
    <3> QED
      BY <3>1, <3>2
  <2> QED
    BY <2>1 DEF Sums
<1> QED
  BY <1>2, <1>6

LEMMA DropsUnfold ==
  ASSUME NEW f, NEW S, IsFiniteSet(S)
  PROVE  DropsIn(f, S) = IF S = {} THEN 0
           ELSE f[Pick(S)].id[2] + DropsIn(f, S \ {Pick(S)})
<1> DEFINE h == Fold(f, S)
           V == S \ {Pick(S)}
<1>1. Sums(f, S, h)
  BY FoldSums
<1>2. h[S] = IF S = {} THEN 0 ELSE f[Pick(S)].id[2] + h[V]
  <2> HIDE DEF h
  <2> QED
    BY <1>1 DEF Sums
<1>3. V \in SUBSET S /\ IsFiniteSet(V)
  BY FS_Subset
<1>4. Sums(f, V, Fold(f, V))
  BY <1>3, FoldSums
<1>5. Fold(f, V)[V] = h[V]
  <2> HIDE DEF h, V
  <2> QED
    BY <1>1, <1>3, <1>4, SumsAgree
<1> QED
  BY <1>2, <1>5, DropsInIs

LEMMA DropsNat ==
  ASSUME NEW f, NEW S, IsFiniteSet(S), \A n \in S : f[n].id[2] \in Nat
  PROVE  DropsIn(f, S) \in Nat
<1> DEFINE F == {T \in SUBSET S : DropsIn(f, T) \notin Nat}
<1> SUFFICES ASSUME F # {} PROVE FALSE
  OBVIOUS
<1>2. PICK T \in F : \A U \in SUBSET T : U # T => U \notin F
  <2> F \in SUBSET SUBSET S
    OBVIOUS
  <2> HIDE DEF F
  <2> QED
    BY FiniteMinimal
<1>3. DropsIn(f, T) = IF T = {} THEN 0
           ELSE f[Pick(T)].id[2] + DropsIn(f, T \ {Pick(T)})
  BY FS_Subset, DropsUnfold
<1>4. CASE T # {}
  <2>1. Pick(T) \in T /\ T \ {Pick(T)} \in SUBSET T /\ T \ {Pick(T)} # T
    BY <1>4, PickIn
  <2>2. DropsIn(f, T \ {Pick(T)}) \in Nat /\ f[Pick(T)].id[2] \in Nat
    BY <1>2, <2>1
  <2>3. DropsIn(f, T) \in Nat
    BY <1>3, <1>4, <2>2
  <2> QED
    BY <2>3, <1>2
<1> QED
  BY <1>2, <1>3, <1>4

\* Any member may be taken out first.
LEMMA DropsRemove ==
  ASSUME NEW f, NEW S, IsFiniteSet(S), \A n \in S : f[n].id[2] \in Nat
  PROVE  \A x \in S : DropsIn(f, S) = f[x].id[2] + DropsIn(f, S \ {x})
<1> DEFINE F == {T \in SUBSET S : \E x \in T : DropsIn(f, T) # f[x].id[2] + DropsIn(f, T \ {x})}
<1>1. SUFFICES ASSUME F # {} PROVE FALSE
  <2>1. S \notin F BY <1>1
  <2> QED
    BY <2>1
<1>2. PICK T \in F : \A U \in SUBSET T : U # T => U \notin F
  <2> F \in SUBSET SUBSET S
    OBVIOUS
  <2> HIDE DEF F
  <2> QED
    BY <1>1, FiniteMinimal
<1>3. PICK x \in T : DropsIn(f, T) # f[x].id[2] + DropsIn(f, T \ {x})
  BY <1>2
<1>4. T # {} /\ T \in SUBSET S
  BY <1>3
<1>p. PICK p : p = Pick(T) OBVIOUS
<1>5. p \in T /\ DropsIn(f, T) = f[p].id[2] + DropsIn(f, T \ {p})
  BY <1>4, <1>p, PickIn, FS_Subset, DropsUnfold
<1>6. x # p
  BY <1>3, <1>5
<1> DEFINE P == T \ {p}
           X == T \ {x}
           PX == P \ {x}
<1>7. P \in SUBSET T /\ P # T /\ x \in P /\ X \in SUBSET T /\ X # T /\ p \in X
  BY <1>5, <1>6
<1>8. DropsIn(f, P) = f[x].id[2] + DropsIn(f, PX)
  BY <1>2, <1>7
<1>9. DropsIn(f, X) = f[p].id[2] + DropsIn(f, X \ {p})
  BY <1>2, <1>7
<1>10. X \ {p} = PX
  OBVIOUS
<1>11. f[x].id[2] \in Nat /\ f[p].id[2] \in Nat /\ DropsIn(f, PX) \in Nat
  <2>1. IsFiniteSet(PX) /\ \A n \in PX : f[n].id[2] \in Nat
    BY <1>4, FS_Subset
  <2>2. DropsIn(f, PX) \in Nat
    BY <2>1, DropsNat
  <2> QED
    BY <2>2, <1>4, <1>5
<1> HIDE DEF P, X, PX
<1>12. DropsIn(f, T) = f[x].id[2] + DropsIn(f, X)
  <2>1. DropsIn(f, T) = f[p].id[2] + DropsIn(f, P) BY <1>5 DEF P
  <2>2. DropsIn(f, X) = f[p].id[2] + DropsIn(f, PX) BY <1>9, <1>10
  <2> QED
    BY <2>1, <2>2, <1>8, <1>11
<1> QED
  BY <1>3, <1>12 DEF X

LEMMA DropsAgree ==
  ASSUME NEW f, NEW g, NEW S, IsFiniteSet(S), \A n \in S : f[n] = g[n]
  PROVE  DropsIn(f, S) = DropsIn(g, S)
<1> DEFINE F == {T \in SUBSET S : DropsIn(f, T) # DropsIn(g, T)}
<1>1. SUFFICES ASSUME F # {} PROVE FALSE
  OBVIOUS
<1>2. PICK T \in F : \A U \in SUBSET T : U # T => U \notin F
  <2> F \in SUBSET SUBSET S
    OBVIOUS
  <2> HIDE DEF F
  <2> QED
    BY <1>1, FiniteMinimal
<1>3. /\ DropsIn(f, T) = IF T = {} THEN 0 ELSE f[Pick(T)].id[2] + DropsIn(f, T \ {Pick(T)})
      /\ DropsIn(g, T) = IF T = {} THEN 0 ELSE g[Pick(T)].id[2] + DropsIn(g, T \ {Pick(T)})
  BY FS_Subset, DropsUnfold
<1>4. CASE T = {}
  BY <1>2, <1>3, <1>4
<1>5. CASE T # {}
  <2>1. Pick(T) \in T /\ T \ {Pick(T)} \in SUBSET T /\ T \ {Pick(T)} # T
    BY <1>5, PickIn
  <2>2. DropsIn(f, T \ {Pick(T)}) = DropsIn(g, T \ {Pick(T)}) /\ f[Pick(T)] = g[Pick(T)]
    BY <1>2, <2>1
  <2> QED
    BY <1>2, <1>3, <1>5, <2>2
<1> QED
  BY <1>4, <1>5

--------------------------------------------------------------------------------
(* No drop goes unrecorded.                                                *)

GapsOf(f) == {n \in DOMAIN f : f[n].id[1] = "gap"}
GapDrops(f) == DropsIn(f, GapsOf(f))
Refused == {r \in Rows : call[r] = "false"}

LEMMA GapIs ==
  ASSUME NEW id \in Ids
  PROVE  id[1] = "gap" => id[2] \in Nat
BY DEF Ids

LEMMA GapsFinite ==
  ASSUME NEW f \in Seq(Row)
  PROVE  /\ IsFiniteSet(GapsOf(f)) /\ \A n \in GapsOf(f) : f[n].id[2] \in Nat
         /\ GapDrops(f) \in Nat
<1>1. IsFiniteSet(1 .. Len(f)) /\ DOMAIN f = 1 .. Len(f)
  BY FS_Interval
<1>2. IsFiniteSet(GapsOf(f))
  BY <1>1, FS_Subset DEF GapsOf
<1>3. \A n \in GapsOf(f) : f[n].id[2] \in Nat
  <2> SUFFICES ASSUME NEW n \in DOMAIN f, f[n].id[1] = "gap"
               PROVE  f[n].id[2] \in Nat
    BY DEF GapsOf
  <2>1. f[n] \in Row
    OBVIOUS
  <2>2. f[n].id \in Ids
    BY <2>1 DEF Row
  <2> QED
    BY <2>2, GapIs
<1> QED
  BY <1>2, <1>3, DropsNat DEF GapDrops

\* One row more adds its drops, when it is a gap row.
LEMMA GapAppended ==
  ASSUME NEW f \in Seq(Row), NEW r \in Row, NEW g \in Seq(Row),
         Len(g) = Len(f) + 1, g[Len(f) + 1] = r,
         \A n \in 1 .. Len(f) : g[n] = f[n]
  PROVE  GapDrops(g) = IF r.id[1] = "gap" THEN GapDrops(f) + r.id[2] ELSE GapDrops(f)
<1>k. PICK k \in Nat : k = Len(f)
  OBVIOUS
<1>1. /\ g \in Seq(Row) /\ DOMAIN g = 1 .. k + 1 /\ DOMAIN f = 1 .. k /\ g[k + 1] = r
      /\ \A n \in 1 .. k : g[n] = f[n]
  BY <1>k
<1>2. IsFiniteSet(GapsOf(f)) /\ GapDrops(f) \in Nat
  BY GapsFinite
<1>3. IsFiniteSet(GapsOf(g)) /\ \A n \in GapsOf(g) : g[n].id[2] \in Nat
  BY <1>1, GapsFinite
<1>4. DropsIn(g, GapsOf(f)) = GapDrops(f)
  <2>1. \A n \in GapsOf(f) : f[n] = g[n]
    BY <1>1 DEF GapsOf
  <2> QED
    BY <1>2, <2>1, DropsAgree DEF GapDrops
<1>5. CASE r.id[1] = "gap"
  <2>1. k + 1 \in GapsOf(g) /\ GapsOf(g) \ {k + 1} = GapsOf(f)
    BY <1>1, <1>5 DEF GapsOf
  <2>2. DropsIn(g, GapsOf(g)) = g[k + 1].id[2] + DropsIn(g, GapsOf(f))
    <3> DEFINE G == GapsOf(g)
    <3>1. IsFiniteSet(G) /\ (\A n \in G : g[n].id[2] \in Nat) /\ k + 1 \in G
      BY <1>3, <2>1
    <3> HIDE DEF G
    <3>2. DropsIn(g, G) = g[k + 1].id[2] + DropsIn(g, G \ {k + 1})
      BY <3>1, DropsRemove
    <3> QED
      BY <2>1, <3>2 DEF G
  <2>3. g[k + 1].id[2] = r.id[2] /\ r.id[2] \in Nat
    BY <1>1, <1>3, <2>1
  <2> QED
    BY <1>2, <1>4, <1>5, <2>2, <2>3 DEF GapDrops
<1>6. CASE r.id[1] # "gap"
  <2>1. GapsOf(g) = GapsOf(f)
    BY <1>1, <1>6 DEF GapsOf
  <2> QED
    BY <1>4, <1>6, <2>1 DEF GapDrops
<1> QED
  BY <1>5, <1>6

\* What DropsAccounted says, with its sums named.
Counted == Cardinality(Refused) = dropped + DropsUnderWay + lostDrops + GapDrops(file)

LEMMA CountedIs == Counted <=> DropsAccounted
BY DEF Counted, DropsAccounted, Refused, GapDrops, DropsIn, GapsOf


LEMMA UnderWayKept ==
  ASSUME QueueType, worker' = worker,
         \A t \in Threads : DropsInHand(t)' = DropsInHand(t)
  PROVE  DropsUnderWay' = DropsUnderWay
BY DEF QueueType, DropsUnderWay

\* The rows dropped are as many as they were, and so are the drops accounted for.
LEMMA CountedKept ==
  ASSUME QueueType, Counted, file' = file, worker' = worker,
         \A t \in Threads : DropsInHand(t)' = DropsInHand(t),
         UNCHANGED <<dropped, lostDrops>>, Refused' = Refused
  PROVE  Counted'
BY UnderWayKept DEF Counted

\* The drops pass from the counter to the worker's hand, from there to the
\* ledger, or are lost with it.
LEMMA CountedMoves ==
  ASSUME LedgerInv, QueueInv, Counted, NEW t \in Threads, thread[t].pc # "off",
         worker' = worker, Refused' = Refused,
         DropsInHand(t)' + lostDrops' + dropped' + GapDrops(file')
           = DropsInHand(t) + lostDrops + dropped + GapDrops(file),
         DropsInHand(t)' \in Nat, lostDrops' \in Nat, dropped' \in Nat
  PROVE  Counted'
<1>1. worker = t /\ worker # None
  BY WritersAre DEF QueueInv, OneWorker
<1>2. DropsUnderWay = DropsInHand(t) /\ DropsUnderWay' = DropsInHand(t)'
  BY <1>1 DEF DropsUnderWay
<1>3. DropsInHand(t) \in Nat /\ lostDrops \in Nat /\ dropped \in Nat
        /\ GapDrops(file) \in Nat
  BY GapsFinite DEF QueueInv, QueueType, DropsInHand, ThreadState, LedgerInv, LedgerType
<1>4. GapDrops(file') = GapDrops(file)' 
  BY DEF GapDrops
<1> QED
  BY <1>2, <1>3, <1>4 DEF Counted

LEMMA GapWritten ==
  ASSUME LedgerType, NEW w \in Writers, AppendWrites(w)
  PROVE  GapDrops(file') = IF append[w].id[1] = "gap"
                           THEN GapDrops(file) + append[w].id[2] ELSE GapDrops(file)
<1> DEFINE row == [id |-> append[w].id,
                   chain |-> Link(append[w].prev, append[w].id)]
<1>1. row \in Row /\ row.id = append[w].id
  <2>1. append[w] \in Call /\ append[w].id \in Ids
    BY DEF AppendWrites, Busy, LedgerType
  <2> QED
    BY <2>1, LinkIsDigest DEF Row, Call
<1>2. file \in Seq(Row) /\ file' = Append(file, row)
  BY DEF AppendWrites, LedgerType
<1> HIDE DEF row
<1>3. /\ file' \in Seq(Row) /\ Len(file') = Len(file) + 1
      /\ file'[Len(file) + 1] = row /\ \A n \in 1 .. Len(file) : file'[n] = file[n]
  BY <1>1, <1>2
<1>4. GapDrops(file') = IF row.id[1] = "gap" THEN GapDrops(file) + row.id[2]
                        ELSE GapDrops(file)
  BY <1>1, <1>2, <1>3, GapAppended
<1> QED
  BY <1>1, <1>4

LEMMA CountedWorks ==
  ASSUME LedgerInv, QueueInv, \A w \in Writers : IdKept(w), Counted,
         NEW t \in Threads, Working(t)
  PROVE  Counted'
<1> USE DEF LedgerInv, LedgerType, QueueInv, QueueType
<1>1. thread[t].pc # "off" /\ worker' = worker /\ call' = call
  BY DEF Working, Take, Park, Claim, Handle, HandleMerges, HandleHead,
         HandlerRaises, Settle, Appending, queueVars
<1>2. Refused' = Refused
  BY <1>1 DEF Refused
<1>3. thread[t] \in ThreadState /\ append[t] \in Call /\ HandOK(t) /\ IdKept(t)
        /\ t \in Writers /\ t \notin Direct
  BY WritersAre, WritersAssumption
<1>4. ASSUME DropsInHand(t)' + lostDrops' + dropped' + GapDrops(file')
               = DropsInHand(t) + lostDrops + dropped + GapDrops(file),
             DropsInHand(t)' \in Nat, lostDrops' \in Nat, dropped' \in Nat
      PROVE  Counted'
  BY <1>1, <1>2, <1>4, CountedMoves
<1>5. ASSUME DropsInHand(t)' = DropsInHand(t), UNCHANGED <<lostDrops, dropped, file>>
      PROVE  Counted'
  BY <1>3, <1>4, <1>5 DEF DropsInHand, ThreadState
<1>6. CASE Take(t) \/ Park(t) \/ Settle(t)
  <2>1. thread[t].pc # "gap" /\ thread'[t].pc # "gap"
    BY <1>3, <1>6 DEF Take, Park, Settle, Off, ThreadState
  <2>2. UNCHANGED <<lostDrops, dropped, file>>
    BY <1>6 DEF Take, Park, Settle, ledgerVars, queueVars, historyVars
  <2> QED
    BY <1>5, <2>1, <2>2 DEF DropsInHand, HasWritten
<1>7. CASE Claim(t)
  <2>1. DropsInHand(t) = 0 /\ append' = append /\ ~Busy(t)
    BY <1>3, <1>7 DEF Claim, DropsInHand, HandOK, Appending, ledgerVars
  <2>2. ~HasWritten(t)'
    BY <2>1 DEF Busy, HasWritten
  <2>3. thread'[t].drops = dropped /\ (thread'[t].pc = "gap" <=> dropped > 0)
    BY <1>3, <1>7 DEF Claim, Claimed, ThreadState
  <2>4. DropsInHand(t)' = dropped
    BY <2>2, <2>3 DEF DropsInHand, HasWritten
  <2>5. dropped' = 0 /\ lostDrops' = lostDrops /\ file' = file
    BY <1>7 DEF Claim, ledgerVars, historyVars
  <2>6. GapDrops(file) \in Nat
    BY GapsFinite
  <2> QED
    BY <1>4, <2>1, <2>4, <2>5, <2>6
<1>8. CASE Handle(t) /\ ~AppendWrites(t)
  <2>1. ~HasWritten(t) /\ ~HasWritten(t)' /\ thread' = thread
    BY <1>3, <1>8 DEF Handle, AppendReads, Busy, HasWritten
  <2>2. UNCHANGED <<lostDrops, dropped, file>>
    BY <1>8 DEF Handle, AppendReads, queueVars, historyVars
  <2> QED
    BY <1>5, <2>1, <2>2 DEF DropsInHand, HasWritten
<1>9. CASE Handle(t) /\ AppendWrites(t)
  <2>1. append[t].step = "write" /\ append'[t].step = "head" /\ Busy(t)
          /\ thread' = thread /\ UNCHANGED <<lostDrops, dropped>> /\ Appending(t)
    BY <1>3, <1>9 DEF Handle, AppendWrites, Busy, Call, queueVars, historyVars
  <2>2. DropsInHand(t)' = 0
    BY <2>1 DEF DropsInHand, HasWritten
  <2>3. GapDrops(file) \in Nat
    BY GapsFinite
  <2>4. CASE thread[t].pc = "gap"
    <3>1. append[t].id[1] = "gap" /\ append[t].id[2] = thread[t].drops
      BY <1>3, <2>1, <2>4 DEF IdKept, GapId
    <3>2. GapDrops(file') = GapDrops(file) + thread[t].drops
      BY <1>3, <1>9, <3>1, GapWritten
    <3>3. DropsInHand(t) = thread[t].drops /\ thread[t].drops \in Nat
      BY <1>3, <2>1, <2>4 DEF DropsInHand, HasWritten, ThreadState
    <3> QED
      BY <1>4, <2>1, <2>2, <2>3, <3>2, <3>3
  <2>5. CASE thread[t].pc = "row"
    <3>1. append[t].id[1] # "gap"
      BY <1>3, <2>1, <2>5 DEF HandOK, RowId
    <3>2. GapDrops(file') = GapDrops(file)
      BY <1>3, <1>9, <3>1, GapWritten
    <3>3. DropsInHand(t) = 0
      BY <2>5 DEF DropsInHand, HasWritten
    <3> QED
      BY <1>4, <2>1, <2>2, <2>3, <3>2, <3>3
  <2> QED
    BY <2>1, <2>4, <2>5 DEF Appending
<1>10. CASE HandleHead(t)
  <2>1. HasWritten(t) /\ thread'[t].pc # "gap"
    BY <1>3, <1>10 DEF HandleHead, AppendHeads, AppendKeepsHead, ThreadState
  <2>2. UNCHANGED <<lostDrops, dropped, file>>
    BY <1>10 DEF HandleHead, AppendHeads, AppendKeepsHead, queueVars, historyVars
  <2> QED
    BY <1>5, <2>1, <2>2 DEF DropsInHand, HasWritten
<1>11. CASE HandlerRaises(t)
  <2>1. append[t].step = "write" /\ thread'[t].pc = "done" /\ dropped' = dropped
          /\ file' = file
    BY <1>3, <1>11 DEF HandlerRaises, AppendRaises, ThreadState, queueVars
  <2>2. lostDrops' = lostDrops + DropsInHand(t) /\ DropsInHand(t)' = 0
    BY <1>11, <2>1 DEF HandlerRaises, DropsInHand, HasWritten
  <2>3. DropsInHand(t) \in Nat /\ GapDrops(file) \in Nat
    BY <1>3, GapsFinite DEF DropsInHand, ThreadState
  <2> QED
    BY <1>4, <2>1, <2>2, <2>3
<1>12. CASE HandleMerges(t)
  <2>1. append[t].step = "write" /\ append'[t].step = "merged" /\ thread' = thread
          /\ Appending(t) /\ dropped' = dropped /\ file' = file
    BY <1>3, <1>12 DEF HandleMerges, AppendMerges, Call, queueVars
  <2>2. ~HasWritten(t) /\ HasWritten(t)'
    BY <2>1 DEF HasWritten
  <2>3. lostDrops' = lostDrops + DropsInHand(t) /\ DropsInHand(t)' = 0
    <3>1. CASE thread[t].pc = "row"
      BY <1>12, <2>1, <3>1 DEF HandleMerges, DropsInHand
    <3>2. CASE thread[t].pc = "gap"
      BY <1>12, <2>1, <2>2, <3>2 DEF HandleMerges, DropsInHand
    <3> QED
      BY <2>1, <3>1, <3>2 DEF Appending
  <2>4. DropsInHand(t) \in Nat /\ GapDrops(file) \in Nat
    BY <1>3, GapsFinite DEF DropsInHand, ThreadState
  <2> QED
    BY <1>4, <2>1, <2>3, <2>4
<1> QED
  BY <1>6, <1>7, <1>8, <1>9, <1>10, <1>11, <1>12 DEF Working

LEMMA CountedStep ==
  ASSUME LedgerInv, QueueInv, \A w \in Writers : IdKept(w), Counted, [Next]_vars
  PROVE  Counted'
<1> USE DEF LedgerInv, LedgerType, QueueInv, QueueType
<1>n. DropsUnderWay \in Nat /\ GapDrops(file) \in Nat
  BY GapsFinite DEF DropsUnderWay, DropsInHand, ThreadState
<1>1. ASSUME NEW r \in Rows, Put(r) \/ Ensure(r)
      PROVE  Refused' = Refused
  <2>1. PICK s \in {"ensure", "true"} : call' = [call EXCEPT ![r] = s]
    BY <1>1 DEF Put, Ensure
  <2>2. call[r] # "false"
    BY <1>1 DEF Put, Ensure, Reaches
  <2> QED
    BY <2>1, <2>2 DEF Refused
<1>2. ASSUME NEW r \in Rows, Put(r)
      PROVE  Counted'
  <2>1. UNCHANGED <<file, append, thread, worker, dropped, lostDrops>>
    BY <1>2 DEF Put, ledgerVars
  <2>2. \A t \in Threads : DropsInHand(t)' = DropsInHand(t)
    BY <2>1 DEF DropsInHand, HasWritten
  <2> QED
    BY <1>1, <1>2, <2>1, <2>2, CountedKept
<1>3. ASSUME NEW r \in Rows, Drop(r)
      PROVE  Counted'
  <2>1. UNCHANGED <<file, append, thread, worker, lostDrops>>
          /\ dropped' = dropped + 1 /\ call' = [call EXCEPT ![r] = "false"]
          /\ call[r] = "new"
    BY <1>3 DEF Drop, Reaches, ledgerVars, historyVars
  <2>2. \A t \in Threads : DropsInHand(t)' = DropsInHand(t)
    BY <2>1 DEF DropsInHand, HasWritten
  <2>3. DropsUnderWay' = DropsUnderWay
    BY <2>1, <2>2, UnderWayKept
  <2>4. Refused' = Refused \cup {r} /\ r \notin Refused
    BY <2>1 DEF Refused
  <2>5. IsFiniteSet(Refused)
    <3>1. IsFiniteSet(Rows)
      BY FS_Interval, SizesAssumption DEF Rows
    <3> QED
      BY <3>1, FS_Subset DEF Refused
  <2>6. Cardinality(Refused') = Cardinality(Refused) + 1
    BY <2>4, <2>5, FS_AddElement
  <2>7. GapDrops(file)' = GapDrops(file)
    BY <2>1
  <2> QED
    BY <1>n, <2>1, <2>3, <2>6, <2>7 DEF Counted
<1>4. CASE Ensuring
  <2>1. UNCHANGED <<file, append, dropped, lostDrops>> /\ EnsureWorker
    BY <1>4 DEF Ensuring, Ensure, FlushEnsures, Revives, ledgerVars, historyVars
  <2>2. Refused' = Refused
    BY <1>1, <1>4 DEF Ensuring, FlushEnsures, Refused
  <2>3. CASE UNCHANGED <<worker, thread>>
    <3>1. \A t \in Threads : DropsInHand(t)' = DropsInHand(t)
      BY <2>1, <2>3 DEF DropsInHand, HasWritten
    <3> QED
      BY <2>1, <2>2, <2>3, <3>1, CountedKept
  <2>4. ASSUME \A u \in Threads : thread[u].pc = "off", NEW t \in Threads,
               worker' = t, thread' = [thread EXCEPT ![t].pc = "get"]
        PROVE  Counted'
    <3>1. \A u \in Threads : DropsInHand(u) = 0 /\ DropsInHand(u)' = 0
      BY <2>4 DEF DropsInHand, ThreadState
    <3>2. DropsUnderWay = 0 /\ DropsUnderWay' = 0
      BY <3>1, <2>4 DEF DropsUnderWay
    <3> QED
      BY <2>1, <2>2, <3>2 DEF Counted
  <2> QED
    BY <2>1, <2>3, <2>4, StartedAlone
<1>5. ASSUME NEW t \in Threads, Working(t)
      PROVE  Counted'
  BY <1>5, CountedWorks
<1>6. ASSUME NEW w \in Direct, DirectBegins(w) \/ DirectWrites(w) \/ DirectEnds(w)
      PROVE  Counted'
  <2>1. w \in Writers /\ w \notin Threads /\ w \notin Rows /\ IdKept(w)
    BY WritersAssumption, RowsAre
  <2>2. UNCHANGED <<thread, worker, dropped, lostDrops>>
    BY <1>6 DEF DirectBegins, DirectWrites, DirectEnds, queueVars, historyVars
  <2>3. \A t \in Threads : append'[t] = append[t]
    BY <1>6, <2>1, WritersAre
       DEF DirectBegins, DirectWrites, DirectEnds, AppendReads, AppendWrites,
           AppendMerges, AppendHeads, AppendKeepsHead, AppendRaises
  <2>4. \A t \in Threads : DropsInHand(t)' = DropsInHand(t)
    BY <2>2, <2>3 DEF DropsInHand, HasWritten
  <2>5. Refused' = Refused
    BY <1>6, <2>1 DEF Refused, DirectBegins, DirectWrites, DirectEnds
  <2>6. GapDrops(file') = GapDrops(file)
    <3>1. CASE DirectWrites(w) /\ AppendWrites(w)
      <4>1. AppendWrites(w) /\ Busy(w)
        BY <3>1 DEF DirectWrites, AppendWrites, Busy
      <4>2. append[w].id[1] # "gap"
        BY <2>1, <4>1 DEF IdKept, RowId
      <4> QED
        BY <2>1, <4>1, <4>2, GapWritten
    <3>2. CASE DirectBegins(w) \/ DirectEnds(w) \/ AppendMerges(w)
      BY <3>2 DEF DirectBegins, DirectEnds, AppendReads, AppendMerges,
                  AppendHeads, AppendKeepsHead, AppendRaises
    <3> QED
      BY <1>6, <3>1, <3>2 DEF DirectWrites
  <2>7. DropsUnderWay' = DropsUnderWay
    BY <2>2, <2>4, UnderWayKept
  <2> QED
    BY <2>2, <2>5, <2>6, <2>7 DEF Counted
<1>7. CASE Crash
  <2>1. file' = file /\ dropped' = 0 /\ worker' = None
          /\ lostDrops' = lostDrops + dropped + DropsUnderWay
    BY <1>7 DEF Crash, AppendsCut
  <2>2. Refused' = Refused
    BY <1>7 DEF Crash, Refused
  <2>3. DropsUnderWay' = 0 /\ GapDrops(file)' = GapDrops(file)
    BY <2>1 DEF DropsUnderWay
  <2> QED
    BY <1>n, <2>1, <2>2, <2>3 DEF Counted
<1>8. CASE FlushBegins \/ FlushChecks \/ FlushTimesOut \/ UNCHANGED vars
  <2>1. UNCHANGED <<file, append, thread, worker, dropped, lostDrops, call>>
    BY <1>8 DEF FlushBegins, FlushChecks, FlushTimesOut, vars, ledgerVars,
                queueVars, historyVars
  <2>2. \A t \in Threads : DropsInHand(t)' = DropsInHand(t)
    BY <2>1 DEF DropsInHand, HasWritten
  <2> QED
    BY <2>1, <2>2, CountedKept DEF Refused
<1> QED
  BY <1>2, <1>3, <1>4, <1>5, <1>6, <1>7, <1>8 DEF Next, Flushing, Ensuring

LEMMA CountedStart == Init => Counted
<1> SUFFICES ASSUME Init PROVE Counted
  OBVIOUS
<1>1. Refused = {} /\ Cardinality(Refused) = 0
  BY FS_EmptySet, RowsAre DEF Init, Refused
<1>2. DropsUnderWay = 0 /\ dropped = 0 /\ lostDrops = 0
  BY DEF Init, DropsUnderWay
<1>3. GapDrops(file) = 0
  <2>1. GapsOf(file) = {}
    BY DEF Init, LedgerInit, GapsOf
  <2>2. DropsIn(file, {}) = 0
    BY FS_EmptySet, DropsUnfold
  <2> QED
    BY <2>1, <2>2 DEF GapDrops
<1> QED
  BY <1>1, <1>2, <1>3 DEF Counted

\* The rows enqueue refused are as many as the drops still counted, in the worker's
\* hand, lost with their gap row, or in the gap rows of the ledger (_queue.py,
\* _handle_row): none is forgotten and none counted twice.
THEOREM DropsCounted == Spec => []DropsAccounted
<1>1. Init => Inv /\ OrderInv /\ Counted
  BY InvStart, OrderStart, CountedStart
<1>2. Inv /\ OrderInv /\ Counted /\ [Next]_vars => Inv' /\ OrderInv' /\ Counted'
  BY InvStep, OrderStep, CountedStep DEF Inv, OrderInv
<1>3. Counted => DropsAccounted
  BY CountedIs
<1> QED
  BY <1>1, <1>2, <1>3, PTL DEF Spec
================================================================================

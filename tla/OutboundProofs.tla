----------------------------- MODULE OutboundProofs -----------------------------
(***************************************************************************)
(* Proofs about Outbound for every set of events and flushers and every    *)
(* bound.  The types hold of every run.  As long as no crash has fallen in *)
(* the gap of a flush, no sequence number carries two events and the       *)
(* channel implements the numbered stream of module EventStream; as long   *)
(* as no flush has misread the file either, no spooled event is skipped    *)
(* and exit code 0 over an open latch means delivered.                     *)
(***************************************************************************)
EXTENDS Outbound, TLAPS, FiniteSetTheorems, SequenceTheorems

--------------------------------------------------------------------------------
(* Operators *)

\* A finite set of natural numbers that is not empty has a maximum.
LEMMA MaxOfFinite ==
  ASSUME NEW S \in SUBSET Nat, IsFiniteSet(S), S # {}
  PROVE  Max(S) \in S /\ \A y \in S : y <= Max(S)
<1> DEFINE Above(x) == {z \in S : z > x}
           T == {Above(x) : x \in S}
<1>2. IsWellFoundedOn(StrictSubsetOrdering(S), SUBSET S)
  BY FS_StrictSubsetOrderingWellFounded, FS_FiniteSubsetsOfFinite
<1>3. T \subseteq SUBSET S /\ T # {}
  OBVIOUS
<1>4. PICK A \in T : \A B \in T : ~ (<<B, A>> \in StrictSubsetOrdering(S))
  <2> HIDE DEF T
  <2> QED BY <1>2, <1>3, WFMin
<1>5. PICK x \in S : A = Above(x)
  OBVIOUS
<1>6. \A y \in S : x >= y
  <2> SUFFICES ASSUME NEW y \in S, ~ (x >= y) PROVE FALSE
    OBVIOUS
  <2>a. x \in Nat /\ y \in Nat /\ y > x /\ \A z \in S : z \in Nat
    OBVIOUS
  <2>b. \A z \in S : z > y => z > x
    BY <2>a
  <2>c. y \in Above(x)
    BY <2>a
  <2>d. y \notin Above(y)
    BY <2>a
  <2>1. Above(y) \subseteq Above(x)
    BY <2>b
  <2>2. <<Above(y), A>> \in StrictSubsetOrdering(S)
    BY <2>1, <2>c, <2>d, <1>5 DEF StrictSubsetOrdering
  <2> QED BY <1>4, <2>2
<1>7. Max(S) \in S /\ \A y \in S : Max(S) >= y
  BY <1>6 DEF Max
<1> QED BY <1>7

\* The first records of a read are closed downwards.
LEMMA FirstIsPrefix ==
  ASSUME NEW S \in SUBSET Records, IsFiniteSet(S), NEW k \in Int,
         NEW b \in First(S, k), NEW r \in S, r.sequence <= b.sequence
  PROVE  r \in First(S, k)
<1> DEFINE Below(x) == {q \in S : q.sequence < x.sequence}
<1>1. Below(r) \subseteq Below(b) /\ Below(b) \subseteq S
  BY DEF First, Records
<1>2. IsFiniteSet(Below(b)) /\ IsFiniteSet(Below(r))
  BY <1>1, FS_Subset
<1>3. Cardinality(Below(r)) <= Cardinality(Below(b))
  BY <1>1, <1>2, FS_Subset
<1>4. Cardinality(Below(r)) \in Nat /\ Cardinality(Below(b)) \in Nat
  BY <1>2, FS_CardinalityType
<1>5. Cardinality(Below(b)) < k
  BY DEF First
<1>6. Cardinality(Below(r)) < k
  BY <1>3, <1>4, <1>5
<1> QED BY <1>6 DEF First

\* Finitely many records have finitely many numbers.
LEMMA NumbersFinite ==
  ASSUME NEW S, IsFiniteSet(S) PROVE IsFiniteSet(Numbers(S))
<1> DEFINE h == [r \in S |-> r.sequence]
<1>1. h \in Surjection(S, Numbers(S))
  BY DEF Surjection, Numbers
<1> QED BY <1>1, FS_Surjection

\* Top of a finite set of records is 0 or the number of one of them, and at
\* least the number of each.
LEMMA TopIsReached ==
  ASSUME NEW S \in SUBSET Records, IsFiniteSet(S)
  PROVE  /\ Top(S) \in Nat
         /\ Top(S) > 0 => \E r \in S : r.sequence = Top(S)
         /\ \A r \in S : r.sequence <= Top(S)
<1> DEFINE N == Numbers(S) \cup {0}
<1>1. N \in SUBSET Nat /\ N # {} /\ IsFiniteSet(N)
  <2>1. IsFiniteSet(Numbers(S))
    BY NumbersFinite
  <2>2. IsFiniteSet(N)
    BY <2>1, FS_AddElement
  <2> QED BY <2>2 DEF Numbers, Records
<1>2. Max(N) \in N /\ \A y \in N : y <= Max(N)
  <2> HIDE DEF N
  <2> QED BY <1>1, MaxOfFinite
<1>3. Top(S) = Max(N)
  BY DEF Top
<1>4. Top(S) \in Numbers(S) \cup {0}
  BY <1>2, <1>3
<1>5. Top(S) \in Nat
  BY <1>1, <1>2, <1>3
<1>6. Top(S) > 0 => \E r \in S : r.sequence = Top(S)
  BY <1>4, <1>5 DEF Numbers
<1>7. \A r \in S : r.sequence \in N
  BY DEF Numbers
<1>8. \A r \in S : r.sequence <= Top(S)
  BY <1>2, <1>3, <1>7
<1> QED BY <1>5, <1>6, <1>8

--------------------------------------------------------------------------------
(* Types: they hold of every run *)

\* A flush with its types, whose batch is finite
FlushOK(fl) == fl \in Flush /\ IsFiniteSet(fl.batch)

TypeInv ==
  /\ TypeOK
  /\ IsFiniteSet(log) /\ IsFiniteSet(processed)
  /\ \A f \in Flushers : FlushOK(flush[f])

\* The types hold initially.
LEMMA TypeInit == Init => TypeInv
<1> SUFFICES ASSUME Init PROVE TypeInv
  OBVIOUS
<1>0. Idle \in Flush /\ IsFiniteSet(Idle.batch)
  BY BoundsAssumption, FS_EmptySet DEF Idle, Flush, FlushPcs
<1>1. SpoolTypeOK
  <2>1. log \subseteq Records /\ watermark \in Nat /\ nextSequence \in Nat \ {0}
    BY DEF Init, SpoolInit
  <2>2. poisoned \in BOOLEAN
    BY DEF Init, SpoolInit
  <2> QED BY <2>1, <2>2 DEF SpoolTypeOK
<1>2. flush \in [Flushers -> Flush] /\ crashes \in 0 .. MaxCrashes /\ faults \in 0 .. MaxFaults
  BY <1>0, BoundsAssumption DEF Init
<1>3. emission \in [Events -> {"new", "checked", "spooled", "failed", "dropped", "lost"}]
  BY DEF Init
<1>4. TypeOK
  BY <1>1, <1>2, <1>3 DEF Init, TypeOK
<1>5. log = {} /\ processed = {} /\ \A f \in Flushers : flush[f] = Idle
  BY DEF Init, SpoolInit
<1> QED BY <1>0, <1>4, <1>5, FS_EmptySet DEF TypeInv, FlushOK

\* What an append writes
LEMMA WrittenTypes ==
  ASSUME TypeInv, NEW e \in Events
  PROVE  Record(e) \in Records /\ Written(e) \subseteq Records /\ IsFiniteSet(Written(e))
<1> USE DEF TypeInv
<1>1. Record(e) \in Records
  BY DEF Record, Records, TypeOK, SpoolTypeOK
<1>2. Written(e) \subseteq log \cup {Record(e)}
  BY DEF Written
<1>3. IsFiniteSet(log \cup {Record(e)})
  BY FS_AddElement
<1> QED BY <1>1, <1>2, <1>3, FS_Subset DEF TypeOK, SpoolTypeOK

\* The first records of a finite set are finitely many.
LEMMA FirstFinite ==
  ASSUME NEW S \in SUBSET Records, IsFiniteSet(S), NEW k
  PROVE  First(S, k) \in SUBSET Records /\ IsFiniteSet(First(S, k))
<1>1. First(S, k) \subseteq S
  BY DEF First
<1> QED BY <1>1, FS_Subset

\* The allocator that _recover() finds is right behind the last record of the log,
\* or behind the watermark.
LEMMA RecoveredNumber ==
  ASSUME TypeInv, Recover
  PROVE  /\ nextSequence' \in Nat \ {0} /\ watermark < nextSequence'
         /\ \A r \in log : r.sequence < nextSequence'
         /\ \/ nextSequence' = watermark + 1
            \/ \E r \in log : nextSequence' = r.sequence + 1
<1> DEFINE N == Numbers(log) \cup {watermark}
<1>1. N \in SUBSET Nat /\ N # {} /\ IsFiniteSet(N)
  <2>1. IsFiniteSet(N)
    BY NumbersFinite, FS_AddElement DEF TypeInv
  <2> QED BY <2>1 DEF Numbers, Records, TypeInv, TypeOK, SpoolTypeOK
<1>2. Max(N) \in N /\ \A x \in N : x <= Max(N)
  <2> HIDE DEF N
  <2> QED BY <1>1, MaxOfFinite
<1>3. nextSequence' = Max(N) + 1
  BY DEF Recover, Numbers
<1>4. watermark \in N /\ \A r \in log : r.sequence \in N
  BY DEF Numbers
<1>5. /\ Max(N) \in Nat /\ watermark <= Max(N) /\ \A r \in log : r.sequence <= Max(N)
      /\ watermark \in Nat /\ \A r \in log : r.sequence \in Nat
  <2> HIDE DEF N
  <2> QED BY <1>1, <1>2, <1>4
<1>6. Max(N) = watermark \/ \E r \in log : r.sequence = Max(N)
  BY <1>2 DEF Numbers
<1> HIDE DEF N
<1> QED BY <1>3, <1>5, <1>6

\* What a flush reads has the types.
LEMMA FlushTypes ==
  ASSUME TypeInv, NEW f \in Flushers
  PROVE  /\ FlushOK(Idle) /\ FlushOK(Reading) /\ FlushOK(Retried(f))
         /\ \A B \in SUBSET Records : IsFiniteSet(B) => FlushOK(Sent(f, B))
         /\ \A S \in Reads(f) : S \in SUBSET log /\ IsFiniteSet(S)
<1> USE DEF TypeInv
<1>1. /\ flush[f] \in Flush /\ watermark \in Nat /\ log \subseteq Records
      /\ MaxAttempts \in Nat \ {0} /\ IsFiniteSet(flush[f].batch)
  BY BoundsAssumption DEF TypeOK, SpoolTypeOK, FlushOK
<1>2. Idle \in Flush /\ Idle.batch = {} /\ IsFiniteSet({})
  BY <1>1, FS_EmptySet DEF Idle, Flush, FlushPcs
<1>3. \A n : Offset(n) \in Nat \cup {-1}
  <2> SUFFICES ASSUME NEW n PROVE Offset(n) \in Nat \cup {-1}
    OBVIOUS
  <2>1. IsFiniteSet({r \in log : r.sequence < n})
    BY FS_Subset
  <2> QED BY <2>1, FS_CardinalityType DEF Offset
<1>4. Reading \in Flush /\ Reading.batch = {}
  <2>1. Offset(watermark + 1) \in Nat \cup {-1}
    BY <1>3
  <2> QED BY <1>1, <1>2, <2>1 DEF Reading, Flush, FlushPcs
<1>5. FlushOK(Retried(f))
  <2>1. CASE flush[f].tries + 1 = MaxAttempts
    BY <2>1, <1>2 DEF Retried, FlushOK
  <2>2. CASE flush[f].tries + 1 # MaxAttempts
    <3>1. flush[f].tries + 1 \in 0 .. MaxAttempts - 1
      BY <1>1, <2>2 DEF Flush
    <3>2. Retried(f) \in Flush /\ Retried(f).batch = flush[f].batch
      BY <1>1, <2>2, <3>1 DEF Retried, Flush
    <3> QED BY <1>1, <3>2 DEF FlushOK
  <2> QED BY <2>1, <2>2
<1>6. ASSUME NEW B \in SUBSET Records, IsFiniteSet(B)
      PROVE  FlushOK(Sent(f, B))
  <2>1. CASE B = {}
    BY <1>2, <2>1 DEF Sent, FlushOK
  <2>2. CASE B # {}
    <3>1. Sent(f, B) \in Flush /\ Sent(f, B).batch = B
      BY <1>1, <2>2 DEF Sent, Flush, FlushPcs
    <3> QED BY <1>6, <3>1 DEF FlushOK
  <2> QED BY <2>1, <2>2
<1>7. \A S \in Reads(f) : S \in SUBSET log
  BY DEF Reads, ReadFrom, After
<1> QED BY <1>2, <1>4, <1>5, <1>6, <1>7, FS_Subset DEF FlushOK

\* One flush moves and keeps its types.
LEMMA TypeFlushMoves ==
  ASSUME TypeInv, NEW f \in Flushers, FlushBegin(f) \/ FlushStep(f)
  PROVE  \E fl : flush' = [flush EXCEPT ![f] = fl] /\ FlushOK(fl)
<1> USE DEF TypeInv
<1>1. /\ flush[f] \in Flush /\ IsFiniteSet(flush[f].batch)
      /\ processed \subseteq Records /\ IsFiniteSet(processed) /\ log \subseteq Records
  BY DEF TypeOK, SpoolTypeOK, FlushOK
<1>2. CASE FlushBegin(f)
  BY <1>2, FlushTypes DEF FlushBegin
<1>3. CASE FlushRead(f)
  <2>1. PICK S \in Reads(f) :
          flush' = [flush EXCEPT ![f] = Sent(f, First(S, BatchSize))]
    BY <1>3 DEF FlushRead
  <2>2. S \in SUBSET Records /\ IsFiniteSet(S)
    BY <1>1, FlushTypes
  <2>3. FlushOK(Sent(f, First(S, BatchSize)))
    BY <2>2, FirstFinite, FlushTypes
  <2> QED BY <2>1, <2>3
<1>4. CASE FlushAnswered(f)
  <2>1. processed' = processed \cup flush[f].batch
    BY <1>4 DEF FlushAnswered, Process
  <2>2. processed' \in SUBSET Records /\ IsFiniteSet(processed')
    BY <1>1, <2>1, FS_Union DEF Flush
  <2>3. Top(processed') \in Nat
    BY <2>2, TopIsReached
  <2>4. Refusals(flush[f].batch) \subseteq Nat \ {0}
    BY <1>1 DEF Refusals, Flush, Records
  <2>5. PICK acked \in {Top(processed'), -1} :
          flush' = [flush EXCEPT ![f] =
                      [flush[f] EXCEPT !.pc = "answered", !.acked = acked,
                                       !.rejected = Refusals(flush[f].batch)]]
    BY <1>4 DEF FlushAnswered, FlushIs
  <2>6. PICK fl : fl = [flush[f] EXCEPT !.pc = "answered", !.acked = acked,
                                        !.rejected = Refusals(flush[f].batch)]
    OBVIOUS
  <2>7. fl \in Flush /\ fl.batch = flush[f].batch
    BY <1>1, <2>3, <2>4, <2>6 DEF Flush, FlushPcs
  <2> QED BY <1>1, <2>5, <2>6, <2>7 DEF FlushOK
<1>5. CASE FlushAckMissing(f) \/ FlushAnswerLost(f) \/ FlushFailed(f) \/ FlushLatches(f)
  BY <1>5, FlushTypes DEF FlushAckMissing, FlushAnswerLost, FlushFailed, FlushLatches, FlushIs
<1>6. CASE FlushHalved(f)
  <2>1. PICK B : B = First(flush[f].batch, Cardinality(flush[f].batch) \div 2)
    OBVIOUS
  <2>2. B \in SUBSET Records /\ IsFiniteSet(B)
    BY <1>1, <2>1, FirstFinite DEF Flush
  <2>3. 0 \in 0 .. MaxAttempts - 1
    BY BoundsAssumption
  <2>4. PICK fl : fl = [flush[f] EXCEPT !.batch = B, !.tries = 0]
    OBVIOUS
  <2>5. fl \in Flush /\ fl.batch = B
    BY <1>1, <2>2, <2>3, <2>4 DEF Flush
  <2>6. flush' = [flush EXCEPT ![f] = fl]
    BY <1>6, <2>1, <2>4 DEF FlushHalved, FlushIs
  <2> QED BY <2>2, <2>5, <2>6 DEF FlushOK
<1>7. CASE FlushDropped(f)
  <2>1. PICK fl : fl = [flush[f] EXCEPT !.pc = "dropped"]
    OBVIOUS
  <2>2. fl \in Flush /\ fl.batch = flush[f].batch
    BY <1>1, <2>1 DEF Flush, FlushPcs
  <2> QED BY <1>1, <1>7, <2>1, <2>2 DEF FlushDropped, FlushIs, FlushOK
<1>8. CASE FlushAdvanced(f)
  <2>1. PICK fl : fl = [flush[f] EXCEPT !.pc = "reporting"]
    OBVIOUS
  <2>2. fl \in Flush /\ fl.batch = flush[f].batch
    BY <1>1, <2>1 DEF Flush, FlushPcs
  <2>3. FlushOK(fl) /\ FlushOK(Idle)
    BY <1>1, <2>2, FlushTypes DEF FlushOK
  <2> QED BY <1>8, <2>1, <2>3 DEF FlushAdvanced, FlushIs
<1>9. CASE FlushRaises(f) \/ FlushUntrusted(f) \/ FlushReported(f)
  BY <1>9, FlushTypes DEF FlushRaises, FlushUntrusted, FlushReported, FlushIs
<1> QED BY <1>2, <1>3, <1>4, <1>5, <1>6, <1>7, <1>8, <1>9 DEF FlushStep

\* A step of a flush preserves the types.
LEMMA TypeFlush ==
  ASSUME TypeInv, NEW f \in Flushers, FlushBegin(f) \/ FlushStep(f)
  PROVE  TypeInv'
<1> USE DEF Outside, spoolVars, adapterVars, endVars, platformVars, historyVars,
            Process, Requesting, FlushIs
<1>1. /\ flush \in [Flushers -> Flush] /\ \A g \in Flushers : FlushOK(flush[g])
      /\ flush[f] \in Flush /\ IsFiniteSet(flush[f].batch)
      /\ processed \subseteq Records /\ IsFiniteSet(processed)
      /\ log \subseteq Records /\ IsFiniteSet(log)
      /\ watermark \in Nat /\ nextSequence \in Nat \ {0}
  BY DEF TypeInv, TypeOK, SpoolTypeOK, FlushOK
<1>2. UNCHANGED <<emission, terminalEmitted, terminalSequence, refused, before, crashes,
                  faults, gapped, poisoned, nextSequence>>
  BY DEF FlushBegin, FlushStep, FlushRead, FlushAnswered, FlushAckMissing,
         FlushAnswerLost, FlushFailed, FlushHalved, FlushLatches, FlushDropped,
         DropMany, FlushRaises, FlushAdvanced, AdvanceWatermark, FlushUntrusted,
         FlushReported
<1>3. processed' = processed \/ processed' = processed \cup flush[f].batch
  BY DEF FlushBegin, FlushStep, FlushRead, FlushAnswered, FlushAckMissing,
         FlushAnswerLost, FlushFailed, FlushHalved, FlushLatches, FlushDropped,
         FlushRaises, FlushAdvanced, FlushUntrusted, FlushReported
<1>4. processed' \subseteq Records /\ IsFiniteSet(processed')
  <2>1. flush[f].batch \subseteq Records
    BY <1>1 DEF Flush
  <2>2. IsFiniteSet(processed \cup flush[f].batch)
    BY <1>1, FS_Union
  <2> QED BY <1>1, <1>3, <2>1, <2>2
<1>5. log' \subseteq log /\ watermark' \in Nat
  BY <1>1 DEF FlushBegin, FlushStep, FlushRead, FlushAnswered, FlushAckMissing,
         FlushAnswerLost, FlushFailed, FlushHalved, FlushLatches, FlushDropped, DropMany,
         FlushRaises, FlushAdvanced, AdvanceWatermark, AdvanceRaises, InRange,
         FlushUntrusted, FlushReported, Flush
<1>6. log' \subseteq Records /\ IsFiniteSet(log')
  BY <1>1, <1>5, FS_Subset
<1>7. terminalRejected' \in BOOLEAN /\ channel' \in {"open", "fenced", "failed"}
  BY DEF TypeInv, TypeOK, Latches, FlushBegin, FlushStep, FlushRead, FlushAnswered,
         FlushAckMissing, FlushAnswerLost, FlushFailed, FlushHalved, FlushLatches,
         FlushDropped, FlushRaises, FlushAdvanced, FlushUntrusted, FlushReported
<1>8. misread' \in BOOLEAN
  BY DEF TypeInv, TypeOK, FlushBegin, FlushStep, FlushRead, FlushAnswered, FlushAckMissing,
         FlushAnswerLost, FlushFailed, FlushHalved, FlushLatches, FlushDropped,
         FlushRaises, FlushAdvanced, FlushUntrusted, FlushReported
<1>9. /\ main' = main \/ main' = "over"
      /\ verdict' = verdict \/ verdict' = "raised"
  BY DEF FlushBegin, FlushStep, FlushRead, FlushAnswered, FlushAckMissing,
         FlushAnswerLost, FlushFailed, FlushHalved, FlushLatches, FlushDropped,
         FlushRaises, FlushAdvanced, FlushUntrusted, FlushReported
<1>10. PICK fl : flush' = [flush EXCEPT ![f] = fl] /\ FlushOK(fl)
  BY TypeFlushMoves
<1>11. flush' \in [Flushers -> Flush] /\ \A g \in Flushers : FlushOK(flush'[g])
  BY <1>1, <1>10 DEF FlushOK
<1>12. TypeOK'
  BY <1>2, <1>4, <1>5, <1>6, <1>7, <1>8, <1>9, <1>11 DEF TypeInv, TypeOK, SpoolTypeOK
<1> QED BY <1>4, <1>6, <1>11, <1>12 DEF TypeInv, FlushOK

\* An append preserves the types, whether it returns or raises.
LEMMA TypeAppend ==
  ASSUME TypeInv, NEW e \in Events, (Appended(e) /\ UNCHANGED faults) \/ AppendFails(e)
  PROVE  /\ SpoolTypeOK' /\ IsFiniteSet(log') /\ faults' \in 0 .. MaxFaults
         /\ watermark' = watermark
<1> USE DEF TypeInv
<1>1. /\ log \subseteq Records /\ nextSequence \in Nat \ {0}
      /\ faults \in 0 .. MaxFaults /\ MaxFaults \in Nat
  BY BoundsAssumption DEF TypeOK, SpoolTypeOK
<1>2. /\ watermark' = watermark
      /\ log' = log \/ log' = Written(e)
      /\ nextSequence' = nextSequence \/ nextSequence' = nextSequence + 1
      /\ poisoned' = poisoned \/ poisoned' = TRUE
      /\ faults' = faults \/ (faults < MaxFaults /\ faults' = faults + 1)
  BY DEF Appended, AppendFails, AppendRefused, AppendPoisons, AppendUnsynced, Fault,
         spoolVars
<1>3. poisoned' \in BOOLEAN
  BY <1>2 DEF TypeOK, SpoolTypeOK
<1>4. log' \subseteq Records /\ IsFiniteSet(log')
  BY <1>1, <1>2, WrittenTypes
<1>5. watermark' \in Nat /\ nextSequence' \in Nat \ {0} /\ faults' \in 0 .. MaxFaults
  BY <1>1, <1>2 DEF TypeOK, SpoolTypeOK
<1> QED BY <1>2, <1>3, <1>4, <1>5 DEF SpoolTypeOK

\* An emission preserves the types.
LEMMA TypeEmit ==
  ASSUME TypeInv, NEW e \in Events, EmitChecked(e) \/ EmitSpooled(e)
  PROVE  TypeInv'
<1>1. emission' \in [Events -> {"new", "checked", "spooled", "failed", "dropped", "lost"}]
  BY DEF TypeInv, TypeOK, EmitChecked, EmitSpooled, EmissionIs
<1>2. UNCHANGED <<terminalEmitted, terminalSequence, terminalRejected, channel, flush, main,
                  before, verdict, processed, refused, crashes, misread, gapped>>
  BY DEF EmitChecked, EmitSpooled, endVars, platformVars, historyVars
<1>3. CASE EmitChecked(e)
  <2>1. UNCHANGED <<log, watermark, nextSequence, poisoned, faults>>
    BY <1>3 DEF EmitChecked, spoolVars, historyVars
  <2> QED BY <1>1, <1>2, <2>1 DEF TypeInv, TypeOK, SpoolTypeOK, FlushOK
<1>4. CASE EmitSpooled(e)
  <2>1. SpoolTypeOK' /\ IsFiniteSet(log') /\ faults' \in 0 .. MaxFaults
    BY <1>4, TypeAppend DEF EmitSpooled
  <2> QED BY <1>1, <1>2, <2>1 DEF TypeInv, TypeOK, FlushOK
<1> QED BY <1>3, <1>4

\* The end of the job and a crash preserve the types.
LEMMA TypeMain ==
  ASSUME TypeInv, MainStep \/ Crash
  PROVE  TypeInv'
<1>1. /\ Terminal \in Events /\ Main \in Flushers /\ watermark \in Nat
      /\ nextSequence \in Nat \ {0} /\ crashes \in 0 .. MaxCrashes /\ MaxCrashes \in Nat
      /\ flush \in [Flushers -> Flush]
  BY BoundsAssumption, TerminalAssumption, MainAssumption DEF TypeInv, TypeOK, SpoolTypeOK
<1>2. CASE EmitTerminal
  <2>1. /\ UNCHANGED <<terminalEmitted, terminalRejected, channel, flush, before, processed,
                       refused, crashes, misread, gapped>>
        /\ terminalSequence' \in {nextSequence, terminalSequence}
        /\ main' \in {"latching", "over"} /\ verdict' \in {verdict, "raised"}
        /\ (Appended(Terminal) /\ UNCHANGED faults) \/ AppendFails(Terminal)
    BY <1>2 DEF EmitTerminal, platformVars
  <2>2. emission' \in [Events -> {"new", "checked", "spooled", "failed", "dropped", "lost"}]
    BY <1>2 DEF TypeInv, TypeOK, EmitTerminal, EmissionIs
  <2>3. SpoolTypeOK' /\ IsFiniteSet(log') /\ faults' \in 0 .. MaxFaults
    BY <1>1, <2>1, TypeAppend
  <2>4. terminalSequence' \in Nat
    BY <1>1, <2>1 DEF TypeInv, TypeOK
  <2> QED BY <2>1, <2>2, <2>3, <2>4 DEF TypeInv, TypeOK, FlushOK
<1>3. CASE TerminalLatched \/ TerminalFenced \/ SkippingEnds \/ DrainAgain \/ DrainEnds \/ Exit
  <2>1. /\ UNCHANGED <<log, watermark, nextSequence, poisoned, emission, terminalSequence,
                       terminalRejected, channel, flush, before, processed, refused,
                       crashes, faults, misread, gapped>>
        /\ terminalEmitted' \in {terminalEmitted, TRUE}
        /\ main' \in {"skipping", "draining", "exiting", "over"}
        /\ verdict' \in {verdict, "fenced", "undelivered", "ok"}
    BY <1>3 DEF TerminalLatched, TerminalFenced, SkippingEnds, DrainAgain, DrainEnds, Exit,
           spoolVars, adapterVars, platformVars, historyVars
  <2>2. SpoolTypeOK' /\ terminalEmitted' \in BOOLEAN
    BY <2>1 DEF TypeInv, TypeOK, SpoolTypeOK
  <2>3. /\ main' \in {"running", "latching", "skipping", "draining", "flushing", "exiting",
                      "over"}
        /\ verdict' \in {"none", "ok", "undelivered", "fenced", "raised"}
    BY <2>1 DEF TypeInv, TypeOK
  <2>4. TypeOK'
    BY <2>1, <2>2, <2>3 DEF TypeInv, TypeOK
  <2> QED BY <2>1, <2>4 DEF TypeInv, FlushOK
<1>4. CASE DrainRound
  <2>1. PICK fl : flush' = [flush EXCEPT ![Main] = fl] /\ FlushOK(fl)
    BY <1>1, <1>4, FlushTypes DEF DrainRound
  <2>2. flush' \in [Flushers -> Flush] /\ \A g \in Flushers : FlushOK(flush'[g])
    BY <1>1, <2>1 DEF TypeInv, FlushOK
  <2>3. /\ UNCHANGED <<log, watermark, nextSequence, poisoned, emission, terminalEmitted,
                       terminalSequence, terminalRejected, channel, verdict, processed,
                       refused, crashes, faults, misread, gapped>>
        /\ main' = "flushing" /\ before' = watermark
    BY <1>4 DEF DrainRound, spoolVars, adapterVars, platformVars, historyVars
  <2> QED BY <1>1, <2>2, <2>3 DEF TypeInv, TypeOK, SpoolTypeOK, FlushOK
<1>5. CASE Crash
  <2>1. nextSequence' \in Nat \ {0}
    BY <1>5, RecoveredNumber DEF Crash
  <2>2. /\ UNCHANGED <<log, watermark, main, before, verdict, processed, refused, faults,
                       misread>>
        /\ poisoned' = FALSE /\ terminalEmitted' = FALSE /\ terminalSequence' = 0
        /\ terminalRejected' = FALSE /\ channel' = "open"
        /\ flush' = [f \in Flushers |-> Idle] /\ crashes' = crashes + 1
        /\ crashes < MaxCrashes
    BY <1>5 DEF Crash, Recover, endVars, platformVars
  <2>3. gapped' \in BOOLEAN
    BY <1>5 DEF Crash, TypeInv, TypeOK
  <2>4. emission' \in [Events -> {"new", "checked", "spooled", "failed", "dropped", "lost"}]
    BY <1>5 DEF Crash, TypeInv, TypeOK
  <2>5. flush' \in [Flushers -> Flush] /\ \A g \in Flushers : FlushOK(flush'[g])
    BY <1>1, <2>2, FlushTypes DEF FlushOK
  <2>6. crashes' \in 0 .. MaxCrashes
    BY <1>1, <2>2
  <2> QED BY <2>1, <2>2, <2>3, <2>4, <2>5, <2>6 DEF TypeInv, TypeOK, SpoolTypeOK
<1> QED BY <1>2, <1>3, <1>4, <1>5 DEF MainStep

\* Every step preserves the types.
LEMMA TypeStep ==
  ASSUME TypeInv, [Next]_vars
  PROVE  TypeInv'
<1>1. CASE OtherClientLatches
  <2>1. /\ UNCHANGED <<spoolVars, adapterVars, flush, endVars, platformVars, historyVars>>
        /\ channel' \in {"open", "fenced", "failed"}
    BY <1>1 DEF OtherClientLatches, Latches, TypeInv, TypeOK
  <2> QED BY <2>1 DEF spoolVars, adapterVars, endVars, platformVars, historyVars,
             TypeInv, TypeOK, SpoolTypeOK, FlushOK
<1>2. CASE UNCHANGED vars
  BY <1>2 DEF vars, spoolVars, adapterVars, endVars, platformVars, historyVars,
         TypeInv, TypeOK, SpoolTypeOK, FlushOK
<1> QED BY <1>1, <1>2, TypeEmit, TypeFlush, TypeMain DEF Next

\* The variables have their types, and no acknowledgement moves the watermark out of
\* its range, in every run: whatever flushes misread and wherever the process dies.
THEOREM TypeCorrect == Spec => []TypeOK
<1>1. Init => TypeInv
  BY TypeInit
<1>2. TypeInv /\ [Next]_vars => TypeInv'
  BY TypeStep
<1>3. TypeInv => TypeOK
  BY DEF TypeInv
<1> QED BY <1>1, <1>2, <1>3, PTL DEF Spec

--------------------------------------------------------------------------------
(* The inductive invariant *)

\* Every record that was written and is not gone, or gone and processed.
Recorded == log \cup processed

\* The allocator is past the record, or will not be used again.
Allocated(r) == r.sequence < nextSequence \/ (poisoned /\ r \in log)

\* The platform has processed some record at n or above.
Reached(n) == n > 0 => \E p \in processed : n <= p.sequence

\* What an append that failed may have left behind.
Unowned(r) ==
  /\ r.sequence = nextSequence /\ emission[r.event] = "failed"
  /\ poisoned \/ nextSequence = 1

LogInv ==
  /\ watermark < nextSequence
  /\ \A r, s \in Recorded : r.sequence = s.sequence => r = s
  /\ \A r \in log : r.sequence < nextSequence \/ Unowned(r)
  /\ \A r \in processed : Allocated(r)
  /\ ~ misread =>
       \A r \in log, p \in processed : r.sequence <= p.sequence => r \in processed
  /\ Reached(watermark)
  /\ nextSequence = 1 => processed = {} /\ NoFlush
  /\ (\A e \in Events : emission[e] \notin {"spooled", "failed"})
       => log = {} /\ nextSequence = 1
  /\ \A e \in Events : emission[e] = "spooled" => \E r \in Recorded : r.event = e

\* A batch under way has no hole unless the file was misread: what was skipped when
\* it was read was closed.
FlushInv(fl) ==
  /\ fl.mark <= watermark
  /\ fl.batch \subseteq Recorded
  /\ \A r \in fl.batch : Allocated(r)
  /\ ~ misread => \A b \in fl.batch, r \in log :
       fl.mark < r.sequence /\ r.sequence <= b.sequence => r \in fl.batch
  /\ Reached(fl.acked)
  /\ fl.rejected \subseteq Numbers(processed)

TerminalRecord == [sequence |-> terminalSequence, event |-> Terminal]

EndInv ==
  /\ main \in {"latching", "skipping", "draining", "flushing", "exiting"} =>
       emission[Terminal] = "spooled" /\ TerminalRecord \in Recorded
  /\ ~ misread /\ channel # "fenced" => ExitZeroIsDelivered

Inv == TypeInv /\ LogInv /\ (\A f \in Flushers : FlushInv(flush[f])) /\ EndInv

\* The invariant holds initially.
LEMMA InvInit == Init => Inv
<1> SUFFICES ASSUME Init PROVE Inv
  OBVIOUS
<1>1. TypeInv
  BY TypeInit
<1>2. LogInv
  BY FS_EmptySet DEF Init, SpoolInit, LogInv, Recorded, Reached, NoFlush, Idle
<1>3. \A f \in Flushers : FlushInv(flush[f])
  <2> SUFFICES ASSUME NEW f \in Flushers PROVE FlushInv(flush[f])
    OBVIOUS
  <2>1. flush[f] = Idle /\ watermark = 0
    BY DEF Init, SpoolInit
  <2> QED BY <2>1, FS_EmptySet DEF FlushInv, Reached, Idle
<1>4. EndInv
  BY DEF Init, EndInv, ExitZeroIsDelivered
<1> QED BY <1>1, <1>2, <1>3, <1>4 DEF Inv

--------------------------------------------------------------------------------
(* append() *)

\* A record that is written is above every record that was ever read, and what
\* it replaces is of an event whose append failed.
LEMMA WrittenFacts ==
  ASSUME Inv, ~ poisoned, NEW e \in Events
  PROVE  /\ Record(e) \in Records /\ Record(e).sequence = nextSequence
         /\ Record(e).event = e
         /\ Written(e) \subseteq log \cup {Record(e)}
         /\ \A r \in Written(e) : r # Record(e) => r \in log /\ r.sequence < nextSequence
         /\ \A p \in processed : p.sequence < nextSequence
         /\ \A f \in Flushers : \A b \in flush[f].batch : b.sequence < nextSequence
         /\ \A r \in log : r.sequence < nextSequence => r \in Written(e)
         /\ \A r \in log : r \notin Written(e) => emission[r.event] = "failed"
<1> USE DEF Inv, TypeInv
<1>1. /\ Record(e) \in Records /\ Record(e).sequence = nextSequence
      /\ Record(e).event = e
  BY DEF Record, Records, TypeOK, SpoolTypeOK
<1>2. Written(e) \subseteq log \cup {Record(e)}
  BY DEF Written
<1>4. \A p \in processed : p.sequence < nextSequence
  BY DEF LogInv, Allocated
<1>5. \A f \in Flushers : \A b \in flush[f].batch : b.sequence < nextSequence
  BY DEF FlushInv, Allocated
<1>6. nextSequence \in Nat /\ \A r \in log : r.sequence \in Nat
  BY DEF TypeOK, SpoolTypeOK, Records
<1>7. \A r \in log : r.sequence < nextSequence => r \in Written(e)
  BY <1>6 DEF Written
<1>8. \A r \in log : r.sequence < nextSequence \/ Unowned(r)
  BY DEF LogInv
<1>9. \A r \in log : r \notin Written(e) => emission[r.event] = "failed"
  BY <1>7, <1>8 DEF Unowned
<1>10. \A r \in Written(e) : r # Record(e) => r \in log /\ r.sequence < nextSequence
  BY <1>6, <1>8 DEF Written, Unowned
<1> QED BY <1>1, <1>2, <1>4, <1>5, <1>7, <1>9, <1>10

\* Writing a record, with or without moving the allocator, keeps what a batch
\* under way relies on and every record of a spooled event.
LEMMA WrittenKeeps ==
  ASSUME Inv, ~ poisoned, NEW e \in Events, log' = Written(e),
         UNCHANGED <<flush, processed, watermark, misread>>,
         \/ nextSequence' = nextSequence + 1
         \/ nextSequence' = nextSequence
  PROVE  /\ watermark' < nextSequence'
         /\ \A r, s \in Recorded' : r.sequence = s.sequence => r = s
         /\ \A r \in processed' : Allocated(r)'
         /\ ~ misread' =>
              \A r \in log', p \in processed' : r.sequence <= p.sequence => r \in processed'
         /\ Reached(watermark)'
         /\ \A f \in Flushers : FlushInv(flush[f])'
         /\ \A r \in Recorded : r \in Recorded' \/ emission[r.event] = "failed"
         /\ Record(e) \in Recorded'
<1> USE DEF Inv, TypeInv
<1>1. nextSequence \in Nat /\ nextSequence < nextSequence + 1 /\ watermark \in Nat
      /\ \A r \in Recorded : r.sequence \in Nat
  BY DEF TypeOK, SpoolTypeOK, Records, Recorded
<1>2. nextSequence' >= nextSequence /\ nextSequence' \in Nat
  BY <1>1
<1>3. watermark' < nextSequence'
  BY <1>1 DEF LogInv
<1>4. \A r, s \in Recorded' : r.sequence = s.sequence => r = s
  <2> SUFFICES ASSUME NEW r \in Recorded', NEW s \in Recorded', r.sequence = s.sequence
               PROVE  r = s
    OBVIOUS
  <2>1. \A q \in Recorded' : q # Record(e) => q \in Recorded /\ q.sequence < nextSequence
    BY WrittenFacts DEF Recorded
  <2>2. \A q \in Recorded' : q # Record(e) => q.sequence # nextSequence
    BY <1>1, <2>1
  <2>3. Record(e).sequence = nextSequence
    BY WrittenFacts
  <2> QED BY <2>1, <2>2, <2>3 DEF LogInv
<1>5. \A r \in processed' : Allocated(r)'
  <2>1. \A r \in processed : r.sequence < nextSequence /\ r.sequence \in Nat
    BY WrittenFacts, <1>1 DEF Recorded
  <2> QED BY <1>1, <1>2, <2>1 DEF Allocated
<1>6. ~ misread' =>
        \A r \in log', p \in processed' : r.sequence <= p.sequence => r \in processed'
  <2>1. \A p \in processed : p.sequence < nextSequence /\ p.sequence \in Nat
    BY WrittenFacts, <1>1 DEF Recorded
  <2>2. \A r \in log' : r \in log \/ r.sequence = nextSequence
    BY WrittenFacts
  <2> QED BY <1>1, <2>1, <2>2 DEF LogInv
<1>7. Reached(watermark)'
  BY DEF LogInv, Reached
<1>8. \A r \in Recorded : r \in Recorded' \/ emission[r.event] = "failed"
  BY WrittenFacts DEF Recorded
<1>9. \A f \in Flushers : FlushInv(flush[f])'
  <2> SUFFICES ASSUME NEW f \in Flushers PROVE FlushInv(flush[f])'
    OBVIOUS
  <2>1. FlushInv(flush[f])
    OBVIOUS
  <2>2. \A b \in flush[f].batch : b.sequence < nextSequence /\ b.sequence \in Nat
    BY WrittenFacts, <1>1, <2>1 DEF FlushInv
  <2>3. flush[f].batch \subseteq Recorded'
    BY <2>1, <2>2, WrittenFacts DEF FlushInv, Recorded
  <2>4. \A r \in flush[f].batch : Allocated(r)'
    BY <1>1, <1>2, <2>2 DEF Allocated
  <2>5. \A r \in log' : r \in log \/ r.sequence = nextSequence
    BY WrittenFacts
  <2>6. ~ misread' => \A b \in flush[f].batch, r \in log' :
          flush[f].mark < r.sequence /\ r.sequence <= b.sequence => r \in flush[f].batch
    BY <1>1, <2>1, <2>2, <2>5 DEF FlushInv
  <2>7. Reached(flush[f].acked)'
    BY <2>1 DEF FlushInv, Reached
  <2> QED BY <2>1, <2>3, <2>4, <2>6, <2>7 DEF FlushInv
<1> QED BY <1>3, <1>4, <1>5, <1>6, <1>7, <1>8, <1>9, WrittenFacts DEF Recorded, Written

\* An append that returns.
LEMMA AppendedKeeps ==
  ASSUME Inv, NEW e \in Events, Appended(e), EmissionIs(e, "spooled"),
         emission[e] \notin {"spooled", "failed"}, UNCHANGED <<flush, processed, misread>>
  PROVE  /\ LogInv' /\ \A f \in Flushers : FlushInv(flush[f])'
         /\ \A r \in Recorded : emission[r.event] = "spooled" => r \in Recorded'
<1> USE DEF Inv, TypeInv
<1>1. /\ ~ poisoned /\ log' = Written(e) /\ nextSequence' = nextSequence + 1
      /\ UNCHANGED <<flush, processed, watermark, misread>>
  BY DEF Appended
<1>2. nextSequence \in Nat \ {0} /\ emission \in [Events -> {"new", "checked",
        "spooled", "failed", "dropped", "lost"}]
  BY DEF TypeOK, SpoolTypeOK
<1>3. emission'[e] = "spooled" /\ \A d \in Events : d # e => emission'[d] = emission[d]
  BY <1>2 DEF EmissionIs
<1>4. \A r \in log' : r.sequence < nextSequence'
  <2>0. \A r \in log : r.sequence \in Nat
    BY DEF TypeOK, SpoolTypeOK, Records
  <2>1. \A r \in log : r.sequence \in Nat /\ r.sequence <= nextSequence
    BY <1>2, <2>0 DEF LogInv, Unowned
  <2>2. \A r \in Written(e) : r \in log \/ r.sequence = nextSequence
    BY DEF Written, Record
  <2> QED BY <1>1, <1>2, <2>1, <2>2
<1>5. nextSequence' # 1
  BY <1>1, <1>2
<1>6. \A d \in Events : emission'[d] = "spooled" => \E r \in Recorded' : r.event = d
  <2> SUFFICES ASSUME NEW d \in Events, emission'[d] = "spooled"
               PROVE  \E r \in Recorded' : r.event = d
    OBVIOUS
  <2>1. CASE d = e
    BY <2>1, <1>1, WrittenFacts, WrittenKeeps
  <2>2. CASE d # e
    <3>1. PICK r \in Recorded : r.event = d
      BY <2>2, <1>3 DEF LogInv
    <3>2. r \in Recorded'
      BY <2>2, <3>1, <1>1, <1>3, WrittenKeeps
    <3> QED BY <3>1, <3>2
  <2> QED BY <2>1, <2>2
<1>7. LogInv'
  BY <1>1, <1>3, <1>4, <1>5, <1>6, WrittenKeeps DEF LogInv
<1> QED BY <1>1, <1>7, WrittenKeeps

\* An append that raises, whatever it left in the log.
LEMMA AppendFailsKeeps ==
  ASSUME Inv, NEW e \in Events, AppendFails(e), EmissionIs(e, "failed"),
         emission[e] \notin {"spooled", "failed"}, UNCHANGED <<flush, processed, misread>>
  PROVE  /\ LogInv' /\ \A f \in Flushers : FlushInv(flush[f])'
         /\ \A r \in Recorded : emission[r.event] = "spooled" => r \in Recorded'
<1> USE DEF Inv, TypeInv
<1>2. /\ nextSequence \in Nat \ {0} /\ log \subseteq Records /\ poisoned \in BOOLEAN
      /\ emission \in [Events -> {"new", "checked", "spooled", "failed", "dropped", "lost"}]
  BY DEF TypeOK, SpoolTypeOK
<1>3. /\ emission'[e] = "failed"
      /\ \A d \in Events : d # e => emission'[d] = emission[d]
      /\ \A d \in Events : emission[d] = "failed" => emission'[d] = "failed"
  BY <1>2 DEF EmissionIs
<1>4. CASE AppendRefused
  <2>1. UNCHANGED <<log, watermark, nextSequence, poisoned, flush, processed, misread>>
    BY <1>4 DEF AppendRefused, spoolVars
  <2>2. \A f \in Flushers : FlushInv(flush[f])'
    BY <2>1 DEF FlushInv, Recorded, Allocated, Reached
  <2>3. \A r \in log' : r.sequence < nextSequence' \/ Unowned(r)'
    BY <2>1, <1>2, <1>3 DEF LogInv, Unowned, Records
  <2>4. \A d \in Events : emission'[d] = "spooled" => \E r \in Recorded' : r.event = d
    BY <2>1, <1>3 DEF LogInv, Recorded
  <2>5. LogInv'
    BY <2>1, <2>3, <2>4, <1>3 DEF LogInv, Recorded, Allocated, Reached, NoFlush
  <2> QED BY <2>1, <2>2, <2>5 DEF Recorded
<1>5. ASSUME ~ poisoned, log' = Written(e), poisoned' \/ nextSequence = 1,
             UNCHANGED <<watermark, nextSequence>>
      PROVE  /\ LogInv' /\ \A f \in Flushers : FlushInv(flush[f])'
             /\ \A r \in Recorded : emission[r.event] = "spooled" => r \in Recorded'
  <2>1. Record(e) \in log' => Record(e).event = e /\ Record(e).sequence = nextSequence
    BY <1>5, WrittenFacts
  <2>2. \A r \in log' : r.sequence < nextSequence' \/ Unowned(r)'
    BY <1>5, <1>3, <2>1, WrittenFacts DEF Unowned
  <2>3. \A d \in Events : emission'[d] = "spooled" => \E r \in Recorded' : r.event = d
    <3> SUFFICES ASSUME NEW d \in Events, emission'[d] = "spooled"
                 PROVE  \E r \in Recorded' : r.event = d
      OBVIOUS
    <3>1. d # e /\ emission[d] = "spooled"
      BY <1>3
    <3>2. PICK r \in Recorded : r.event = d
      BY <3>1 DEF LogInv
    <3>3. r \in Recorded'
      BY <1>5, <3>1, <3>2, WrittenKeeps
    <3> QED BY <3>2, <3>3
  <2>4. LogInv'
    BY <1>5, <1>3, <2>2, <2>3, WrittenKeeps DEF LogInv, NoFlush
  <2> QED BY <1>5, <2>4, WrittenKeeps
<1>6. CASE AppendPoisons(e) /\ log' = log
  <2>1. ~ poisoned /\ poisoned' /\ UNCHANGED <<log, watermark, nextSequence, flush, processed>>
    BY <1>6 DEF AppendPoisons
  <2>2. \A f \in Flushers : FlushInv(flush[f])'
    BY <2>1 DEF FlushInv, Recorded, Allocated, Reached
  <2>3. \A r \in log' : r.sequence < nextSequence' \/ Unowned(r)'
    BY <2>1, <1>2, <1>3 DEF LogInv, Unowned, Records
  <2>4. \A d \in Events : emission'[d] = "spooled" => \E r \in Recorded' : r.event = d
    BY <2>1, <1>3 DEF LogInv, Recorded
  <2>5. LogInv'
    BY <2>1, <2>3, <2>4, <1>3 DEF LogInv, Recorded, Allocated, Reached, NoFlush
  <2> QED BY <2>1, <2>2, <2>5 DEF Recorded
<1>7. CASE AppendPoisons(e) /\ log' = Written(e)
  BY <1>5, <1>7 DEF AppendPoisons
<1>8. CASE NewFile /\ AppendUnsynced(e)
  <2>1. nextSequence = 1
    BY <1>8 DEF NewFile, LogInv
  <2> QED BY <1>5, <1>8, <2>1 DEF AppendUnsynced
<1> QED BY <1>4, <1>6, <1>7, <1>8 DEF AppendFails, AppendPoisons

--------------------------------------------------------------------------------
(* A flush *)

\* A flush that is over relies on nothing.
LEMMA IdleInv == Inv => FlushInv(Idle)
  BY FS_EmptySet DEF Inv, TypeInv, TypeOK, SpoolTypeOK, FlushInv, Idle, Reached

\* A flush that is under way has found an allocated number.
LEMMA BusyFacts ==
  ASSUME Inv, NEW f \in Flushers, flush[f].pc # "idle"
  PROVE  nextSequence # 1
  BY DEF Inv, LogInv, NoFlush

\* A pending read means an allocated number.
LEMMA PendingFacts ==
  ASSUME Inv, ~ Drained
  PROVE  nextSequence # 1
  BY DEF Inv, TypeInv, TypeOK, SpoolTypeOK, LogInv, Drained

\* One flush goes on, with or without an answer, and nothing else moves.
LEMMA FlushMoves ==
  ASSUME Inv, NEW f \in Flushers, NEW fl, flush' = [flush EXCEPT ![f] = fl],
         UNCHANGED <<log, watermark, nextSequence, poisoned, emission>>,
         misread => misread',
         processed' = processed \/ processed' = processed \cup flush[f].batch,
         nextSequence = 1 => fl.pc = "idle" /\ processed' = processed,
         FlushInv(fl)'
  PROVE  LogInv' /\ (\A g \in Flushers : FlushInv(flush[g])') /\ Recorded \subseteq Recorded'
<1> USE DEF Inv, TypeInv
<1>1. flush \in [Flushers -> Flush]
  BY DEF TypeOK
<1>2. FlushInv(flush[f])
  OBVIOUS
<1>3. Recorded' = Recorded /\ processed \subseteq processed'
  BY <1>2 DEF FlushInv, Recorded
<1>4. \A n : Reached(n) => Reached(n)'
  BY <1>3 DEF Reached
<1>5. \A r : Allocated(r) => Allocated(r)'
  BY DEF Allocated
<1>6. \A g \in Flushers : FlushInv(flush[g])'
  <2> SUFFICES ASSUME NEW g \in Flushers PROVE FlushInv(flush[g])'
    OBVIOUS
  <2>1. CASE g = f
    <3>1. flush'[f] = fl
      BY <1>1
    <3> QED BY <3>1, <2>1 DEF FlushInv
  <2>2. CASE g # f
    <3>1. flush'[g] = flush[g]
      BY <1>1, <2>2
    <3>2. Numbers(processed) \subseteq Numbers(processed')
      BY <1>3 DEF Numbers
    <3> QED BY <3>1, <3>2, <1>3, <1>4, <1>5 DEF FlushInv, Numbers
  <2> QED BY <2>1, <2>2
<1>7. \A r \in processed' : Allocated(r)'
  BY <1>2, <1>5 DEF FlushInv, LogInv
<1>8. ~ misread' =>
        \A r \in log', p \in processed' : r.sequence <= p.sequence => r \in processed'
  <2> SUFFICES ASSUME ~ misread, NEW r \in log, NEW p \in processed',
                      r.sequence <= p.sequence
               PROVE  r \in processed'
    OBVIOUS
  <2>1. CASE p \in processed
    BY <2>1, <1>3 DEF LogInv
  <2>2. CASE p \in flush[f].batch /\ processed' = processed \cup flush[f].batch
    <3>0. /\ r.sequence \in Nat \ {0} /\ flush[f].mark \in Nat /\ watermark \in Nat
          /\ \A q \in processed : q.sequence \in Nat
      BY <1>1 DEF TypeOK, SpoolTypeOK, Records, Flush
    <3>1. CASE flush[f].mark < r.sequence
      BY <3>1, <2>2, <1>2 DEF FlushInv
    <3>2. CASE r.sequence <= flush[f].mark
      <4>1. r.sequence <= watermark /\ watermark > 0
        BY <3>0, <3>2, <1>2 DEF FlushInv
      <4>2. PICK q \in processed : watermark <= q.sequence
        BY <4>1 DEF LogInv, Reached
      <4>3. r.sequence <= q.sequence
        BY <4>1, <4>2, <3>0
      <4> QED BY <4>3, <1>3 DEF LogInv
    <3> QED BY <3>0, <3>1, <3>2
  <2> QED BY <2>1, <2>2
<1>9. nextSequence' = 1 => processed' = {} /\ NoFlush'
  BY <1>1 DEF LogInv, NoFlush
<1>10. \A r \in log' : r.sequence < nextSequence' \/ Unowned(r)'
  BY DEF LogInv, Unowned
<1>11. LogInv'
  BY <1>3, <1>4, <1>7, <1>8, <1>9, <1>10 DEF LogInv
<1> QED BY <1>3, <1>6, <1>11

FlushKept ==
  LogInv' /\ (\A g \in Flushers : FlushInv(flush[g])') /\ Recorded \subseteq Recorded'

\* A flush that begins or whose request fails stays with what it read; the
\* read takes the first records above its mark.
LEMMA FlushReadKeeps ==
  ASSUME Inv, NEW f \in Flushers,
         UNCHANGED <<log, watermark, nextSequence, poisoned, emission, processed>>,
         misread => misread',
         \/ FlushGoes /\ flush' = [flush EXCEPT ![f] = Reading]
         \/ flush' = [flush EXCEPT ![f] = Idle]
         \/ FlushRead(f)
         \/ flush[f].pc # "idle" /\ flush' = [flush EXCEPT ![f] = Retried(f)]
         \/ FlushHalved(f)
  PROVE  FlushKept
<1> USE DEF Inv, TypeInv
<1>1. /\ log \subseteq Records
      /\ flush[f] \in Flush /\ FlushInv(flush[f])
      /\ watermark \in Nat
  BY DEF TypeOK, SpoolTypeOK
<1>2. \A fl : FlushInv(fl) => FlushInv(fl)'
  BY DEF FlushInv, Recorded, Allocated, Reached
<1>3. ASSUME FlushGoes, flush' = [flush EXCEPT ![f] = Reading]
      PROVE  FlushKept
  <2>1. PICK fl : fl = Reading
    OBVIOUS
  <2>2. FlushInv(fl)
    BY <2>1, <1>1, FS_EmptySet DEF Reading, Idle, FlushInv, Reached
  <2>3. nextSequence # 1
    BY <1>3, PendingFacts DEF FlushGoes
  <2> QED BY <1>2, <1>3, <2>1, <2>2, <2>3, FlushMoves DEF FlushKept
<1>4. ASSUME flush' = [flush EXCEPT ![f] = Idle]
      PROVE  FlushKept
  <2>1. PICK fl : fl = Idle
    OBVIOUS
  <2>2. FlushInv(fl) /\ fl.pc = "idle"
    BY <2>1, IdleInv DEF Idle
  <2> QED BY <1>2, <1>4, <2>1, <2>2, FlushMoves DEF FlushKept
<1>5. ASSUME FlushRead(f)
      PROVE  FlushKept
  <2>1. PICK S \in Reads(f) :
          /\ flush' = [flush EXCEPT ![f] = Sent(f, First(S, BatchSize))]
          /\ misread' = (misread \/ S # After(flush[f].mark))
    BY <1>5 DEF FlushRead
  <2>2. flush[f].pc # "idle" /\ nextSequence # 1
    BY <1>5, BusyFacts DEF FlushRead
  <2>3. PICK B : B = First(S, BatchSize)
    OBVIOUS
  <2>4. CASE B = {}
    BY <2>1, <2>3, <2>4, <1>4 DEF Sent
  <2>5. CASE B # {}
    <3>1. PICK fl : fl = [flush[f] EXCEPT !.pc = "sent", !.skip = -1, !.batch = B]
      OBVIOUS
    <3>2. /\ fl.mark = flush[f].mark /\ fl.batch = B /\ fl.acked = flush[f].acked
          /\ fl.rejected = flush[f].rejected /\ fl.pc = "sent"
      BY <3>1, <1>1 DEF Flush
    <3>3. S \subseteq log /\ IsFiniteSet(S) /\ B \subseteq log
      BY <2>3, FlushTypes DEF First
    <3>4. \A r \in B : Allocated(r)
      BY <3>3, <2>2 DEF LogInv, Allocated, Unowned
    <3>5. ~ misread' => \A b \in B, r \in log :
                          fl.mark < r.sequence /\ r.sequence <= b.sequence => r \in B
      <4> SUFFICES ASSUME S = After(flush[f].mark), NEW b \in B, NEW r \in log,
                          flush[f].mark < r.sequence, r.sequence <= b.sequence
                   PROVE  r \in B
        BY <2>1, <3>2
      <4>1. r \in S
        BY <1>1 DEF After, Flush, Records
      <4> QED BY <4>1, <3>3, <1>1, <2>3, FirstIsPrefix, BoundsAssumption
    <3>6. FlushInv(fl)'
      BY <1>1, <1>2, <3>2, <3>3, <3>4, <3>5 DEF FlushInv, Recorded, Allocated, Reached
    <3>7. flush' = [flush EXCEPT ![f] = fl]
      BY <2>1, <2>3, <2>5, <3>1 DEF Sent
    <3> QED BY <2>2, <3>6, <3>7, <3>2, FlushMoves DEF FlushKept
  <2> QED BY <2>4, <2>5
<1>6. ASSUME flush[f].pc # "idle", flush' = [flush EXCEPT ![f] = Retried(f)]
      PROVE  FlushKept
  <2>1. CASE flush[f].tries + 1 = MaxAttempts
    BY <2>1, <1>6, <1>4 DEF Retried
  <2>2. CASE flush[f].tries + 1 # MaxAttempts
    <3>1. PICK fl : fl = [flush[f] EXCEPT !.tries = @ + 1]
      OBVIOUS
    <3>2. FlushInv(fl)
      BY <3>1, <1>1 DEF FlushInv, Flush
    <3> QED BY <1>2, <1>6, <2>2, <3>1, <3>2, BusyFacts, FlushMoves DEF Retried, FlushKept
  <2> QED BY <2>1, <2>2
<1>7. ASSUME FlushHalved(f)
      PROVE  FlushKept
  <2>1. PICK k : k = Cardinality(flush[f].batch) \div 2
    OBVIOUS
  <2>2. PICK B : B = First(flush[f].batch, k)
    OBVIOUS
  <2>3. PICK fl : fl = [flush[f] EXCEPT !.batch = B, !.tries = 0]
    OBVIOUS
  <2>4. flush[f].pc = "sent" /\ flush' = [flush EXCEPT ![f] = fl]
    BY <1>7, <2>1, <2>2, <2>3 DEF FlushHalved, Requesting, FlushIs
  <2>5. B \subseteq flush[f].batch
    BY <2>2 DEF First
  <2>6. /\ fl.mark = flush[f].mark /\ fl.batch = B /\ fl.acked = flush[f].acked
        /\ fl.rejected = flush[f].rejected
    BY <2>3, <1>1 DEF Flush
  <2>7. IsFiniteSet(flush[f].batch) /\ flush[f].batch \in SUBSET Records
    BY <1>1 DEF FlushOK, Flush
  <2>8. k \in Int
    BY <2>1, <2>7, FS_CardinalityType
  <2>9. \A b \in B, r \in flush[f].batch : r.sequence <= b.sequence => r \in B
    BY <2>2, <2>7, <2>8, FirstIsPrefix
  <2>10. FlushInv(fl)
    BY <1>1, <2>5, <2>6, <2>7, <2>9 DEF FlushInv
  <2> QED BY <1>2, <2>4, <2>10, BusyFacts, FlushMoves DEF FlushKept
<1> QED BY <1>3, <1>4, <1>5, <1>6, <1>7

\* An answer: the batch is processed, and what the answer says of it, the
\* highest number processed and the numbers refused, is about processed records.
LEMMA FlushAnsweredKeeps ==
  ASSUME Inv, NEW f \in Flushers,
         FlushAnswered(f) \/ FlushAckMissing(f) \/ FlushAnswerLost(f)
  PROVE  FlushKept
<1> USE DEF Inv, TypeInv
<1>1. /\ flush[f] \in Flush /\ FlushInv(flush[f]) /\ nextSequence \in Nat \ {0}
      /\ processed \subseteq Records /\ log \subseteq Records
  BY DEF TypeOK, SpoolTypeOK
<1>2. /\ flush[f].pc = "sent" /\ processed' = processed \cup flush[f].batch
      /\ UNCHANGED <<log, watermark, nextSequence, poisoned, emission, misread>>
  BY DEF FlushAnswered, FlushAckMissing, FlushAnswerLost, Requesting, Process,
         Outside, spoolVars, historyVars
<1>3. nextSequence # 1
  BY <1>2, BusyFacts
<1>4. \A fl : FlushInv(fl) => FlushInv(fl)'
  <2>1. Recorded \subseteq Recorded' /\ processed \subseteq processed'
    BY <1>2 DEF Recorded
  <2>2. Numbers(processed) \subseteq Numbers(processed')
    BY <2>1 DEF Numbers
  <2>3. \A n : Reached(n) => Reached(n)'
    BY <2>1 DEF Reached
  <2>4. \A r : Allocated(r) => Allocated(r)'
    BY <1>2 DEF Allocated
  <2> QED BY <1>2, <2>1, <2>2, <2>3, <2>4 DEF FlushInv, Numbers
<1>5. CASE FlushAckMissing(f) \/ (FlushAnswerLost(f) /\ Retried(f) = Idle)
  <2>1. PICK fl : fl = Idle
    OBVIOUS
  <2>2. FlushInv(fl) /\ flush' = [flush EXCEPT ![f] = fl]
    BY <1>5, <2>1, IdleInv DEF FlushAckMissing, FlushAnswerLost, FlushIs
  <2> QED BY <1>2, <1>3, <1>4, <2>2, FlushMoves DEF FlushKept
<1>6. CASE FlushAnswerLost(f) /\ Retried(f) # Idle
  <2>1. PICK fl : fl = [flush[f] EXCEPT !.tries = @ + 1]
    OBVIOUS
  <2>2. FlushInv(fl)
    BY <2>1, <1>1 DEF FlushInv, Flush
  <2>3. flush' = [flush EXCEPT ![f] = fl]
    BY <1>6, <2>1 DEF FlushAnswerLost, FlushIs, Retried
  <2> QED BY <1>2, <1>3, <1>4, <2>2, <2>3, FlushMoves DEF FlushKept
<1>7. CASE FlushAnswered(f)
  <2>1. PICK acked \in {Top(processed'), -1} :
          FlushIs(f, [flush[f] EXCEPT !.pc = "answered", !.acked = acked,
                                      !.rejected = Refusals(flush[f].batch)])
    BY <1>7 DEF FlushAnswered
  <2>2. PICK fl : fl = [flush[f] EXCEPT !.pc = "answered", !.acked = acked,
                                        !.rejected = Refusals(flush[f].batch)]
    OBVIOUS
  <2>3. /\ fl.mark = flush[f].mark /\ fl.batch = flush[f].batch /\ fl.acked = acked
        /\ fl.rejected = Refusals(flush[f].batch)
    BY <2>2, <1>1 DEF Flush
  <2>4. Refusals(flush[f].batch) \subseteq Numbers(processed')
    BY <1>2 DEF Refusals, Numbers
  <2>5. processed' \in SUBSET Records /\ IsFiniteSet(processed')
    BY <1>1, <1>2, FS_Union DEF FlushOK, Flush
  <2>6. Top(processed') > 0 => \E r \in processed' : r.sequence = Top(processed')
    BY <2>5, TopIsReached
  <2>7. Reached(acked)'
    BY <2>5, <2>6 DEF Reached, Records
  <2>8. FlushInv(fl)'
    BY <1>1, <1>4, <2>3, <2>4, <2>7 DEF FlushInv
  <2>9. flush' = [flush EXCEPT ![f] = fl]
    BY <2>1, <2>2 DEF FlushIs
  <2> QED BY <1>2, <1>3, <2>8, <2>9, FlushMoves DEF FlushKept
<1> QED BY <1>5, <1>6, <1>7

\* What drop_many() takes out of the log is processed.
LEMMA FlushDroppedKeeps ==
  ASSUME Inv, NEW f \in Flushers, FlushDropped(f)
  PROVE  FlushKept
<1> USE DEF Inv, TypeInv
<1>1. /\ flush \in [Flushers -> Flush] /\ FlushInv(flush[f])
      /\ flush[f].pc # "idle" /\ nextSequence # 1
      /\ UNCHANGED <<watermark, nextSequence, poisoned, processed, emission, misread>>
      /\ flush' = [flush EXCEPT ![f] = [flush[f] EXCEPT !.pc = "dropped"]]
  <2>1. flush[f].pc # "idle"
    BY DEF FlushDropped
  <2> QED BY <2>1, BusyFacts DEF TypeOK, FlushDropped, FlushIs, DropMany, spoolVars,
             adapterVars, platformVars, historyVars
<1>2. \/ log' = log
      \/ ~ poisoned /\ log' = {r \in log : r.sequence \notin flush[f].rejected}
  BY DEF FlushDropped, DropMany, DropRaises, spoolVars
<1>3. log' \subseteq log
  BY <1>2
<1>4. \A r \in log : r \in log' \/ r \in processed
  <2> SUFFICES ASSUME NEW r \in log, r \notin log' PROVE r \in processed
    OBVIOUS
  <2>1. r.sequence \in Numbers(processed)
    BY <1>1, <1>2 DEF FlushInv
  <2>2. PICK p \in processed : p.sequence = r.sequence
    BY <2>1 DEF Numbers
  <2> QED BY <2>2 DEF LogInv, Recorded
<1>5. Recorded' = Recorded
  BY <1>1, <1>3, <1>4 DEF Recorded
<1>6. \A n : Reached(n) => Reached(n)'
  BY <1>1 DEF Reached
<1>7. \A r : Allocated(r) => Allocated(r)'
  BY <1>1, <1>2 DEF Allocated
<1>8. \A g \in Flushers : FlushInv(flush[g])'
  <2> SUFFICES ASSUME NEW g \in Flushers PROVE FlushInv(flush[g])'
    OBVIOUS
  <2>1. /\ flush'[g].mark = flush[g].mark /\ flush'[g].batch = flush[g].batch
        /\ flush'[g].acked = flush[g].acked /\ flush'[g].rejected = flush[g].rejected
    BY <1>1 DEF Flush
  <2>2. FlushInv(flush[g])
    OBVIOUS
  <2> QED BY <1>1, <1>3, <1>5, <1>6, <1>7, <2>1, <2>2 DEF FlushInv, Numbers
<1>9. LogInv'
  <2>1. \A r \in log' : r.sequence < nextSequence' \/ Unowned(r)'
    BY <1>1, <1>3 DEF LogInv, Unowned
  <2>2. nextSequence' # 1
    BY <1>1
  <2>3. \A r \in processed' : Allocated(r)'
    BY <1>1, <1>7 DEF LogInv
  <2> QED BY <1>1, <1>3, <1>5, <1>6, <2>1, <2>2, <2>3 DEF LogInv
<1> QED BY <1>5, <1>8, <1>9 DEF FlushKept

\* The watermark moves to a number that is processed and allocated.
LEMMA FlushAdvancedKeeps ==
  ASSUME Inv, NEW f \in Flushers, FlushAdvanced(f)
  PROVE  FlushKept
<1> USE DEF Inv, TypeInv
<1>1. /\ flush \in [Flushers -> Flush] /\ FlushInv(flush[f])
      /\ flush[f].pc # "idle" /\ nextSequence # 1
      /\ watermark' = flush[f].acked /\ InRange(flush[f].acked)
      /\ UNCHANGED <<log, nextSequence, poisoned, processed, emission, misread>>
  <2>1. flush[f].pc # "idle"
    BY DEF FlushAdvanced
  <2> QED BY <2>1, BusyFacts DEF TypeOK, FlushAdvanced, AdvanceWatermark, AdvanceRaises,
             adapterVars, platformVars, historyVars
<1>2. \A g \in Flushers : flush'[g] = flush[g] \/ flush'[g] = Idle
                         \/ flush'[g] = [flush[g] EXCEPT !.pc = "reporting"]
  BY <1>1 DEF FlushAdvanced, FlushIs
<1>3. /\ watermark \in Nat /\ watermark' \in Nat /\ watermark <= watermark'
      /\ watermark' < nextSequence'
  BY <1>1 DEF TypeOK, SpoolTypeOK, InRange, Flush
<1>4. Reached(watermark)' /\ \A n : Reached(n) => Reached(n)'
  BY <1>1 DEF FlushInv, Reached
<1>5. \A fl : fl.mark \in Nat /\ FlushInv(fl) => FlushInv(fl)'
  BY <1>1, <1>3, <1>4 DEF FlushInv, Recorded, Allocated
<1>6. \A g \in Flushers : FlushInv(flush[g])'
  <2> SUFFICES ASSUME NEW g \in Flushers PROVE FlushInv(flush[g])'
    OBVIOUS
  <2>1. PICK fl : fl = flush'[g]
    OBVIOUS
  <2>2. FlushInv(fl) /\ fl.mark \in Nat
    <3>1. CASE fl = Idle
      BY <3>1, IdleInv DEF Idle
    <3>2. CASE fl = flush[g]
      BY <3>2, <1>1 DEF Flush
    <3>3. CASE fl = [flush[g] EXCEPT !.pc = "reporting"]
      <4>1. flush[g] \in Flush /\ FlushInv(flush[g])
        BY <1>1
      <4> QED BY <4>1, <3>3 DEF FlushInv, Flush
    <3> QED BY <1>2, <2>1, <3>1, <3>2, <3>3
  <2>3. FlushInv(fl)'
    BY <1>5, <2>2
  <2> QED BY <2>1, <2>3 DEF FlushInv
<1>7. LogInv'
  <2>1. \A r \in log' : r.sequence < nextSequence' \/ Unowned(r)'
    BY <1>1 DEF LogInv, Unowned
  <2>2. nextSequence' # 1
    BY <1>1
  <2>3. \A r \in processed' : Allocated(r)'
    BY <1>1 DEF LogInv, Allocated
  <2> QED BY <1>1, <1>3, <1>4, <2>1, <2>2, <2>3 DEF LogInv, Recorded
<1> QED BY <1>1, <1>6, <1>7 DEF FlushKept, Recorded

\* No step of a flush disturbs the log or another flush.
LEMMA FlushStepKeeps ==
  ASSUME Inv, NEW f \in Flushers, FlushBegin(f) \/ FlushStep(f)
  PROVE  FlushKept
<1>1. CASE FlushBegin(f)
  BY <1>1, FlushReadKeeps DEF FlushBegin, Outside, spoolVars, platformVars, historyVars
<1>2. CASE FlushRead(f)
  BY <1>2, FlushReadKeeps DEF FlushRead, Outside, spoolVars, platformVars, historyVars
<1>3. CASE FlushAnswered(f) \/ FlushAckMissing(f) \/ FlushAnswerLost(f)
  BY <1>3, FlushAnsweredKeeps
<1>4. CASE FlushFailed(f)
  BY <1>4, FlushReadKeeps
     DEF FlushFailed, Requesting, FlushIs, Outside, spoolVars, platformVars, historyVars
<1>5. CASE FlushHalved(f)
  BY <1>5, FlushReadKeeps DEF FlushHalved, Outside, spoolVars, platformVars, historyVars
<1>6. CASE FlushLatches(f)
  BY <1>6, FlushReadKeeps DEF FlushLatches, FlushIs, Outside, spoolVars, platformVars, historyVars
<1>7. CASE FlushDropped(f)
  BY <1>7, FlushDroppedKeeps
<1>8. CASE FlushRaises(f)
  BY <1>8, FlushReadKeeps DEF FlushRaises, FlushIs, spoolVars, adapterVars, platformVars, historyVars
<1>9. CASE FlushAdvanced(f)
  BY <1>9, FlushAdvancedKeeps
<1>10. CASE FlushUntrusted(f)
  BY <1>10, FlushReadKeeps DEF FlushUntrusted, FlushIs, spoolVars, adapterVars, platformVars, historyVars
<1>11. CASE FlushReported(f)
  BY <1>11, FlushReadKeeps DEF FlushReported, FlushIs, Outside, spoolVars, platformVars, historyVars
<1> QED BY <1>1, <1>2, <1>3, <1>4, <1>5, <1>6, <1>7, <1>8, <1>9, <1>10, <1>11
        DEF FlushStep

--------------------------------------------------------------------------------
(* The end of the job, and crashes *)

\* A crash outside the gap of a flush: what _recover() finds is past every
\* record that was ever sent.
LEMMA CrashKeeps ==
  ASSUME ~ gapped', Inv, Crash
  PROVE  LogInv' /\ (\A f \in Flushers : FlushInv(flush[f])')
<1> USE DEF Inv, TypeInv
<1>1. /\ log \subseteq Records /\ watermark \in Nat /\ nextSequence \in Nat \ {0}
      /\ processed \subseteq Records
  BY DEF TypeOK, SpoolTypeOK
<1>2. /\ UNCHANGED <<log, watermark, processed, misread>>
      /\ flush' = [f \in Flushers |-> Idle]
      /\ emission' = [e \in Events |-> IF emission[e] = "checked" THEN "lost" ELSE emission[e]]
  BY DEF Crash, Recover, platformVars
<1>5. /\ nextSequence' \in Nat \ {0} /\ watermark < nextSequence'
      /\ \A r \in log : r.sequence < nextSequence'
      /\ nextSequence' = watermark + 1 \/ \E r \in log : nextSequence' = r.sequence + 1
  BY RecoveredNumber DEF Crash
<1>6. \A r \in processed : r.sequence < nextSequence'
  <2> SUFFICES ASSUME NEW r \in processed PROVE r.sequence < nextSequence'
    OBVIOUS
  <2>0. ~ GapOpen
    BY DEF Crash
  <2>1. r.sequence <= watermark \/ r \in log
    BY <1>1, <2>0 DEF GapOpen, Records
  <2> QED BY <1>1, <1>5, <2>1 DEF Records
<1>7. \A f \in Flushers : flush'[f] = Idle
  BY <1>2
<1>8. nextSequence' = 1 => processed' = {} /\ NoFlush'
  BY <1>1, <1>2, <1>6, <1>7 DEF NoFlush, Idle, Records
<1>9. (\A e \in Events : emission'[e] \notin {"spooled", "failed"})
        => log' = {} /\ nextSequence' = 1
  <2> SUFFICES ASSUME \A e \in Events : emission'[e] \notin {"spooled", "failed"}
               PROVE  log' = {} /\ nextSequence' = 1
    OBVIOUS
  <2>1. \A e \in Events : emission[e] \notin {"spooled", "failed"}
    BY <1>2
  <2>2. log = {} /\ nextSequence = 1
    BY <2>1 DEF LogInv
  <2>3. watermark = 0
    BY <1>1, <2>2 DEF LogInv
  <2> QED BY <1>2, <1>5, <2>2, <2>3
<1>10. \A e \in Events : emission'[e] = "spooled" => \E r \in Recorded' : r.event = e
  BY <1>2 DEF LogInv, Recorded
<1>11. LogInv'
  BY <1>2, <1>5, <1>6, <1>8, <1>9, <1>10
     DEF LogInv, Recorded, Reached, Allocated
<1>12. \A f \in Flushers : FlushInv(flush[f])'
  <2> SUFFICES ASSUME NEW f \in Flushers PROVE FlushInv(flush[f])'
    OBVIOUS
  <2>1. PICK fl : fl = flush'[f]
    OBVIOUS
  <2>2. /\ fl.mark = 0 /\ fl.batch = {} /\ fl.acked = 0 /\ fl.rejected = {}
    BY <1>7, <2>1 DEF Idle
  <2>3. FlushInv(fl)'
    BY <1>1, <1>2, <2>2, FS_EmptySet DEF FlushInv, Reached
  <2> QED BY <2>1, <2>3 DEF FlushInv
<1> QED BY <1>11, <1>12

\* Steps that end nothing keep the record of the terminal event.
Ending == {"latching", "skipping", "draining", "flushing", "exiting"}

LEMMA EndKeeps ==
  ASSUME Inv, verdict' # "ok", UNCHANGED terminalSequence,
         emission[Terminal] = "spooled" => emission'[Terminal] = "spooled",
         \A r \in Recorded : emission[r.event] = "spooled" => r \in Recorded',
         main' \in Ending => main \in Ending
  PROVE  EndInv'
<1>1. ExitZeroIsDelivered'
  BY DEF ExitZeroIsDelivered
<1>2. TerminalRecord.event = Terminal /\ TerminalRecord' = TerminalRecord
  BY DEF TerminalRecord
<1> QED BY <1>1, <1>2 DEF Inv, EndInv, Ending

\* Exit code 0 over an open latch is only returned for a watermark at the terminal
\* event.
LEMMA ExitKeeps ==
  ASSUME Inv, Exit
  PROVE  EndInv'
<1> USE DEF Inv, TypeInv
<1>1. main' = "over" /\ UNCHANGED <<log, watermark, processed, terminalSequence, channel, misread>>
  BY DEF Exit, spoolVars, adapterVars, platformVars, historyVars
<1>2. ~ misread' /\ channel' # "fenced" => ExitZeroIsDelivered'
  <2> SUFFICES ASSUME ~ misread, channel # "fenced", verdict' = "ok"
               PROVE  ExitZeroIsDelivered'
    BY <1>1 DEF ExitZeroIsDelivered
  <2>1. ~ TerminalUndelivered
    BY DEF Exit
  <2>2. TerminalRecord \in Recorded
    BY DEF Exit, EndInv
  <2>3. /\ terminalSequence \in Nat \ {0} /\ watermark \in Nat
        /\ \A r \in Recorded : r.sequence \in Nat
    BY <2>2 DEF TypeOK, SpoolTypeOK, Recorded, Records, TerminalRecord
  <2>4. terminalSequence <= watermark
    BY <2>1, <2>3 DEF TerminalUndelivered
  <2>5. PICK p \in processed : watermark <= p.sequence
    BY <2>3, <2>4 DEF LogInv, Reached
  <2>6. \A r \in log : r.sequence <= terminalSequence => r \in processed
    BY <2>3, <2>4, <2>5 DEF LogInv, Recorded
  <2>7. TerminalRecord \in processed
    BY <2>2, <2>3, <2>6 DEF Recorded, TerminalRecord
  <2>8. \A r \in log : r.sequence < terminalSequence => r \in processed
    BY <2>3, <2>6 DEF Recorded
  <2>9. Delivered'
    BY <1>1, <2>7, <2>8 DEF Delivered, TerminalRecord
  <2> QED BY <2>9 DEF ExitZeroIsDelivered
<1> QED BY <1>1, <1>2 DEF EndInv

--------------------------------------------------------------------------------
(* Theorems *)

\* Every step but a crash in the gap preserves the invariant.
LEMMA InvStep ==
  ASSUME ~ gapped', Inv, [Next]_vars
  PROVE  Inv'
<1> USE DEF Inv
<1>0. TypeInv'
  BY TypeStep
<1>1. ASSUME NEW e \in Events, EmitChecked(e)
      PROVE  Inv'
  <2>2. /\ UNCHANGED <<log, watermark, nextSequence, poisoned, terminalSequence, flush,
                       main, verdict, processed, misread>>
        /\ emission \in [Events -> {"new", "checked", "spooled", "failed", "dropped", "lost"}]
        /\ emission[e] = "new" /\ emission' = [emission EXCEPT ![e] = emission'[e]]
        /\ emission'[e] \in {"checked", "dropped"} /\ Alive
    BY <1>1 DEF EmitChecked, EmissionIs, spoolVars, endVars, platformVars, historyVars,
           TypeInv, TypeOK
  <2>3. \A d \in Events : /\ emission[d] \in {"spooled", "failed"} => emission'[d] = emission[d]
                          /\ emission'[d] \in {"spooled", "failed"} => emission'[d] = emission[d]
    BY <2>2
  <2>4. \A r \in log : r.event \in Events
    BY DEF TypeInv, TypeOK, SpoolTypeOK, Records
  <2>5. LogInv'
    <3>1. \A r \in log' : r.sequence < nextSequence' \/ Unowned(r)'
      BY <2>2, <2>3, <2>4 DEF LogInv, Unowned
    <3>2. (\A d \in Events : emission'[d] \notin {"spooled", "failed"})
            => log' = {} /\ nextSequence' = 1
      BY <2>2, <2>3 DEF LogInv
    <3>3. \A d \in Events : emission'[d] = "spooled" => \E r \in Recorded' : r.event = d
      BY <2>2, <2>3 DEF LogInv, Recorded
    <3> QED BY <2>2, <3>1, <3>2, <3>3 DEF LogInv, Recorded, Allocated, Reached, NoFlush
  <2>6. \A f \in Flushers : FlushInv(flush[f])'
    BY <2>2 DEF FlushInv, Recorded, Allocated, Reached
  <2>7. EndInv'
    BY <2>2, <2>3, EndKeeps, TerminalAssumption DEF Recorded, Alive
  <2> QED BY <1>0, <2>5, <2>6, <2>7
<1>2. ASSUME NEW e \in Events, EmitSpooled(e)
      PROVE  Inv'
  <2>2. /\ \/ Appended(e) /\ EmissionIs(e, "spooled")
           \/ AppendFails(e) /\ EmissionIs(e, "failed")
        /\ emission[e] \notin {"spooled", "failed"} /\ e # Terminal /\ Alive
        /\ UNCHANGED <<flush, processed, main, verdict, terminalSequence, misread>>
    BY <1>2 DEF EmitSpooled, endVars, platformVars
  <2>3. /\ LogInv' /\ \A f \in Flushers : FlushInv(flush[f])'
        /\ \A r \in Recorded : emission[r.event] = "spooled" => r \in Recorded'
    BY <2>2, AppendedKeeps, AppendFailsKeeps
  <2>4. emission'[Terminal] = emission[Terminal]
    BY <2>2, TerminalAssumption DEF EmissionIs, TypeInv, TypeOK
  <2>5. EndInv'
    BY <2>2, <2>3, <2>4, EndKeeps DEF Alive
  <2> QED BY <1>0, <2>3, <2>5
<1>3. ASSUME NEW f \in Flushers, FlushBegin(f) \/ FlushStep(f)
      PROVE  Inv'
  <2>2. FlushKept
    BY <1>3, FlushStepKeeps
  <2>3. /\ emission' = emission /\ terminalSequence' = terminalSequence /\ verdict = "none"
        /\ main' = main \/ main' = "over"
        /\ verdict' = verdict \/ verdict' = "raised"
    BY <1>3 DEF FlushBegin, FlushStep, FlushRead, FlushAnswered, FlushAckMissing,
           FlushAnswerLost, FlushFailed, FlushHalved, FlushLatches, FlushDropped,
           FlushRaises, FlushAdvanced, FlushUntrusted, FlushReported, Requesting,
           Outside, adapterVars, endVars, Alive
  <2>4. EndInv'
    BY <2>2, <2>3, EndKeeps DEF FlushKept, Ending
  <2> QED BY <1>0, <2>2, <2>4 DEF FlushKept
<1>4. CASE EmitTerminal
  <2>2. /\ emission[Terminal] \notin {"spooled", "failed"} /\ Terminal \in Events
        /\ UNCHANGED <<flush, processed, misread>> /\ verdict = "none"
        /\ emission \in [Events -> {"new", "checked", "spooled", "failed", "dropped", "lost"}]
    BY <1>4, TerminalAssumption DEF EmitTerminal, platformVars, Alive, TypeInv, TypeOK
  <2>3. CASE /\ Appended(Terminal) /\ EmissionIs(Terminal, "spooled")
             /\ terminalSequence' = nextSequence /\ main' = "latching"
             /\ verdict' = verdict
    <3>1. LogInv' /\ \A f \in Flushers : FlushInv(flush[f])'
      BY <2>2, <2>3, AppendedKeeps
    <3>2. emission'[Terminal] = "spooled"
      BY <2>2, <2>3 DEF EmissionIs
    <3>3. TerminalRecord' \in Recorded'
      BY <2>3 DEF Appended, Written, Record, TerminalRecord, Recorded
    <3> QED BY <1>0, <2>2, <2>3, <3>1, <3>2, <3>3 DEF EndInv, ExitZeroIsDelivered
  <2>4. CASE /\ AppendFails(Terminal) /\ EmissionIs(Terminal, "failed")
             /\ main' = "over" /\ verdict' = "raised"
    <3>1. LogInv' /\ \A f \in Flushers : FlushInv(flush[f])'
      BY <2>2, <2>4, AppendFailsKeeps
    <3> QED BY <1>0, <2>4, <3>1 DEF EndInv, ExitZeroIsDelivered
  <2> QED BY <1>4, <2>3, <2>4 DEF EmitTerminal
<1>5. CASE TerminalLatched \/ TerminalFenced \/ SkippingEnds \/ DrainAgain \/ DrainEnds \/ Exit
  <2>2. /\ UNCHANGED <<log, watermark, nextSequence, poisoned, emission, terminalSequence,
                       flush, processed, misread>>
        /\ verdict = "none"
    BY <1>5 DEF TerminalLatched, TerminalFenced, SkippingEnds, DrainAgain, DrainEnds, Exit,
           RoundOver, Alive, spoolVars, adapterVars, platformVars, historyVars
  <2>3. LogInv' /\ \A f \in Flushers : FlushInv(flush[f])'
    BY <2>2 DEF LogInv, FlushInv, Recorded, Allocated, Reached, Unowned, NoFlush
  <2>4. CASE Exit
    BY <1>0, <2>3, <2>4, ExitKeeps
  <2>5. CASE TerminalLatched \/ TerminalFenced \/ SkippingEnds \/ DrainAgain \/ DrainEnds
    <3>1. /\ main' \in Ending => main \in Ending
          /\ verdict' # "ok"
      BY <2>2, <2>5 DEF TerminalLatched, TerminalFenced, SkippingEnds, DrainAgain, DrainEnds,
             RoundOver, Ending
    <3>2. EndInv'
      BY <2>2, <3>1, EndKeeps DEF Recorded
    <3> QED BY <1>0, <2>3, <3>2
  <2> QED BY <1>5, <2>4, <2>5
<1>6. CASE DrainRound
  <2>2. /\ UNCHANGED <<log, watermark, nextSequence, poisoned, emission, terminalSequence,
                       processed, verdict, misread>>
        /\ verdict = "none" /\ main = "draining" /\ main' = "flushing"
        /\ flush' = [flush EXCEPT ![Main] = IF FlushGoes THEN Reading ELSE Idle]
    BY <1>6 DEF DrainRound, Alive, spoolVars, adapterVars, platformVars, historyVars
  <2>3. FlushKept
    BY <2>2, FlushReadKeeps, MainAssumption
  <2>4. EndInv'
    BY <2>2, EndKeeps DEF Recorded, Ending
  <2> QED BY <1>0, <2>3, <2>4 DEF FlushKept
<1>7. CASE Crash
  <2>2. main' = "running" /\ verdict' = "none"
    BY <1>7 DEF Crash, Alive, endVars
  <2> QED BY <1>0, <1>7, <2>2, CrashKeeps DEF EndInv, ExitZeroIsDelivered
<1>8. CASE OtherClientLatches \/ UNCHANGED vars
  <2>1. UNCHANGED <<spoolVars, adapterVars, flush, endVars, platformVars, historyVars>>
    BY <1>8 DEF OtherClientLatches, vars
  <2>2. channel' = channel \/ verdict # "ok"
    BY <1>8 DEF OtherClientLatches, Alive, vars
  <2> QED BY <1>0, <2>1, <2>2 DEF spoolVars, adapterVars, endVars, platformVars, historyVars,
      LogInv, FlushInv, EndInv, Recorded, Allocated, Reached, Unowned,
      NoFlush, TerminalRecord, ExitZeroIsDelivered, Delivered
<1> QED BY <1>1, <1>2, <1>3, <1>4, <1>5, <1>6, <1>7, <1>8 DEF Next, MainStep

\* A crash in the gap stays in the history.
LEMMA GapStays ==
  ASSUME [Next]_vars, gapped PROVE gapped'
<1>1. gapped' = gapped \/ gapped' = (gapped \/ GapOpen)
  BY DEF Next, MainStep, FlushStep, EmitChecked, EmitSpooled, FlushBegin, FlushRead,
         FlushAnswered, FlushAckMissing, FlushAnswerLost, FlushFailed, FlushHalved,
         FlushLatches, FlushDropped, FlushRaises, FlushAdvanced, FlushUntrusted,
         FlushReported, EmitTerminal, TerminalLatched, TerminalFenced, SkippingEnds,
         DrainRound, DrainAgain, DrainEnds, Exit, OtherClientLatches, Crash, vars, historyVars
<1> QED BY <1>1

\* The invariant holds as long as no crash has fallen in the gap of a flush.
THEOREM Invariant == Spec => [](~ gapped => Inv)
<1>1. Init => (~ gapped => Inv)
  BY InvInit
<1>2. (~ gapped => Inv) /\ [Next]_vars => (~ gapped' => Inv')
  BY InvStep, GapStays
<1> QED BY <1>1, <1>2, PTL DEF Spec

\* No event whose append returned is skipped unless a flush has misread the file or a
\* crash has fallen in its gap, whatever other crashes, retries, lost answers and
\* concurrent flushes come between.
THEOREM NothingSkipped == Spec => []SkipsOnlyByFlaw
<1>1. Inv /\ ~ misread => NoEventSkipped
  <2> SUFFICES ASSUME Inv, ~ misread, NEW e \in Events, emission[e] = "spooled"
               PROVE  Kept(e)
    BY DEF NoEventSkipped
  <2> USE DEF Inv, TypeInv
  <2>1. PICK r \in Recorded : r.event = e
    BY DEF LogInv
  <2>2. CASE r \in processed
    BY <2>1, <2>2 DEF Kept
  <2>3. CASE r \in log /\ r.sequence > watermark
    BY <2>1, <2>3 DEF Kept, After
  <2>4. CASE r \in log /\ ~ r.sequence > watermark
    <3>1. watermark \in Nat /\ r.sequence \in Nat \ {0} /\ \A p \in processed : p.sequence \in Nat
      BY <2>4 DEF TypeOK, SpoolTypeOK, Records
    <3>2. PICK p \in processed : watermark <= p.sequence
      BY <3>1, <2>4 DEF LogInv, Reached
    <3>3. r \in processed
      BY <3>1, <3>2, <2>4 DEF LogInv
    <3> QED BY <2>1, <3>3 DEF Kept
  <2> QED BY <2>2, <2>3, <2>4 DEF Recorded
<1>2. (~ gapped => Inv) => SkipsOnlyByFlaw
  BY <1>1 DEF SkipsOnlyByFlaw
<1> QED BY <1>2, Invariant, PTL

\* The platform never processes two events under one number before a crash falls in the
\* gap of a flush, misread or not.
THEOREM NumbersAreUnique == Spec => []OneEventPerSequence
<1>1. (~ gapped => Inv) => OneEventPerSequence
  BY DEF Inv, LogInv, Recorded, OneEventPerSequence
<1> QED BY <1>1, Invariant, PTL

\* Exit code 0 over a latch that is not fenced is returned only for a delivered terminal
\* event, unless a flush has misread the file or a crash has fallen in its gap.
THEOREM ExitZeroDelivered == Spec => []ExitZeroLiesOnlyByFlaw
<1>1. (~ gapped => Inv) => ExitZeroLiesOnlyByFlaw
  BY DEF Inv, EndInv, ExitZeroLiesOnlyByFlaw
<1> QED BY <1>1, Invariant, PTL

--------------------------------------------------------------------------------
(* The channel implements EventStream.  The stream is what is known of each     *)
(* number up to the last one, so it grows by one event only if no number below  *)
(* the allocator is free.                                                       *)

\* The last number given out has its record.
Numbered == nextSequence > 1 => \E r \in Known : r.sequence = nextSequence - 1

\* A function one longer than another, and equal to it so far, is that one with an
\* element appended.
LEMMA OneLonger ==
  ASSUME NEW S, NEW n \in Nat, NEW s \in [1 .. n -> S], NEW t \in [1 .. n + 1 -> S],
         \A i \in 1 .. n : t[i] = s[i]
  PROVE  t = Append(s, t[n + 1]) /\ Len(s) = n /\ Len(t) = n + 1
<1>1. s \in Seq(S) /\ t \in Seq(S)
  BY SeqDef
<1>2. Len(s) = n /\ Len(t) = n + 1
  BY <1>1
<1>3. t[n + 1] \in S
  OBVIOUS
<1>4. /\ Append(s, t[n + 1]) \in Seq(S) /\ Len(Append(s, t[n + 1])) = n + 1
      /\ \A i \in 1 .. n : Append(s, t[n + 1])[i] = s[i]
      /\ Append(s, t[n + 1])[n + 1] = t[n + 1]
  BY <1>1, <1>2, <1>3, AppendProperties
<1>5. \A i \in 1 .. n + 1 : t[i] = Append(s, t[n + 1])[i]
  BY <1>4
<1>6. t = Append(s, t[n + 1])
  BY <1>1, <1>2, <1>4, <1>5, SeqEqual
<1> QED BY <1>2, <1>6

\* Where the known records end, and the processed ones.
LEMMA KnownFacts ==
  ASSUME Inv, Numbered
  PROVE  /\ Known \subseteq Records /\ IsFiniteSet(Known) /\ processed \subseteq Known
         /\ \A r \in Known : r.sequence <= Top(Known)
         /\ \A r \in log : r.sequence <= nextSequence
         /\ \A r \in Known : r.sequence < nextSequence \/ (poisoned /\ r \in processed)
         /\ Top(Known) \in {nextSequence - 1, nextSequence}
         /\ (\A r \in Known : r.sequence < nextSequence) => Top(Known) = nextSequence - 1
         /\ Top(processed) \in Nat /\ Top(processed) <= Top(Known)
<1> USE DEF Inv, TypeInv
<1>1. /\ log \subseteq Records /\ processed \subseteq Records /\ nextSequence \in Nat \ {0}
      /\ Known \subseteq Records /\ processed \subseteq Known
  BY DEF TypeOK, SpoolTypeOK, Known
<1>2. \A r \in log : r.sequence <= nextSequence
  BY <1>1 DEF LogInv, Unowned, Records
<1>3. \A r \in Known : r.sequence < nextSequence \/ (poisoned /\ r \in processed)
  BY DEF Known, LogInv, Allocated
<1>4. \A r \in Known : r.sequence <= nextSequence
  BY <1>1, <1>2, <1>3 DEF Records, LogInv, Allocated
<1>f. IsFiniteSet(Known) /\ IsFiniteSet(processed)
  <2>1. Known \subseteq log \cup processed
    BY DEF Known
  <2>2. IsFiniteSet(log \cup processed)
    BY FS_Union
  <2> QED BY <2>1, <2>2, FS_Subset
<1>5. /\ Top(Known) \in Nat /\ \A r \in Known : r.sequence <= Top(Known)
      /\ Top(Known) > 0 => \E r \in Known : r.sequence = Top(Known)
  BY <1>1, <1>f, TopIsReached
<1>6. /\ Top(processed) \in Nat /\ \A r \in processed : r.sequence <= Top(processed)
      /\ Top(processed) > 0 => \E r \in processed : r.sequence = Top(processed)
  BY <1>1, <1>f, TopIsReached
<1>7. Top(Known) >= nextSequence - 1
  BY <1>1, <1>5 DEF Numbered, Records
<1>8. Top(Known) <= nextSequence
  BY <1>1, <1>4, <1>5
<1>9. (\A r \in Known : r.sequence < nextSequence) => Top(Known) = nextSequence - 1
  BY <1>1, <1>5, <1>7
<1>10. Top(processed) <= Top(Known)
  BY <1>1, <1>5, <1>6
<1> QED BY <1>1, <1>2, <1>3, <1>f, <1>5, <1>6, <1>7, <1>8, <1>9, <1>10

\* The stream as the map makes it, with the known records R up to number n.
StreamOf(R, n) == [k \in 1 .. n |-> {r.event : r \in {q \in R : q.sequence = k}}]

\* A record above all the known ones makes the stream one event longer.
LEMMA StreamAppends ==
  ASSUME NEW R \in SUBSET Records, NEW n \in Nat, \A q \in R : q.sequence <= n,
         NEW r \in Records, r.sequence = n + 1
  PROVE  /\ StreamOf(R \cup {r}, n + 1) = Append(StreamOf(R, n), {r.event})
         /\ Len(StreamOf(R, n)) = n /\ Len(StreamOf(R \cup {r}, n + 1)) = n + 1
<1> DEFINE s == StreamOf(R, n)
           t == StreamOf(R \cup {r}, n + 1)
<1>1. s \in [1 .. n -> SUBSET Events] /\ t \in [1 .. n + 1 -> SUBSET Events]
  BY DEF StreamOf, Records
<1>2. \A k \in 1 .. n : t[k] = s[k]
  BY DEF StreamOf, Records
<1>3. t[n + 1] = {r.event}
  <2>1. {q \in R \cup {r} : q.sequence = n + 1} = {r}
    BY DEF Records
  <2>2. n + 1 \in 1 .. n + 1
    OBVIOUS
  <2> QED BY <2>1, <2>2 DEF StreamOf
<1>4. t = Append(s, t[n + 1]) /\ Len(s) = n /\ Len(t) = n + 1
  <2> HIDE DEF s, t
  <2> QED BY <1>1, <1>2, OneLonger
<1> QED BY <1>3, <1>4

\* A record behind the last known one is the next event of the stream, spooled or
\* already processed.
LEMMA StreamGrows ==
  ASSUME Inv, Numbered, NEW r \in Records, r.sequence = Top(Known) + 1,
         Known' = Known \cup {r}, watermark' = watermark,
         \/ processed' = processed
         \/ r \in processed' /\ processed' \subseteq Known'
  PROVE  Stream!Next
<1> DEFINE n == Top(Known)
<1>1. /\ Known \subseteq Records /\ n \in Nat /\ \A q \in Known : q.sequence <= n
      /\ r.event \in Events
  BY KnownFacts DEF Inv, TypeInv, TypeOK, SpoolTypeOK, Records
<1>a. r.sequence = n + 1
  OBVIOUS
<1>2. Known' \subseteq Records /\ \A q \in Known' : q.sequence <= n + 1
  <2> HIDE DEF n
  <2> QED BY <1>1, <1>a DEF Records
<1>f. IsFiniteSet(Known')
  BY KnownFacts, FS_AddElement
<1>3. Top(Known') = n + 1
  <2>1. /\ Top(Known') \in Nat /\ \A q \in Known' : q.sequence <= Top(Known')
        /\ Top(Known') > 0 => \E q \in Known' : q.sequence = Top(Known')
    BY <1>2, <1>f, TopIsReached
  <2>2. Top(Known') <= n + 1
    <3> HIDE DEF n
    <3>1. CASE Top(Known') > 0
      <4>1. PICK q \in Known' : q.sequence = Top(Known')
        BY <2>1, <3>1
      <4> QED BY <1>2, <4>1
    <3>2. CASE ~ (Top(Known') > 0)
      BY <1>1, <2>1, <3>2
    <3> QED BY <3>1, <3>2
  <2>3. Top(Known') >= n + 1
    BY <2>1
  <2> HIDE DEF n
  <2> QED BY <1>1, <2>1, <2>2, <2>3
<1>4. /\ StreamOf(Known', n + 1) = Append(StreamOf(Known, n), {r.event})
      /\ Len(StreamOf(Known', n + 1)) = n + 1
  <2> HIDE DEF n
  <2> QED BY <1>1, <1>a, StreamAppends
<1>5. CASE processed' = processed
  <2>1. Stream!Spool({r.event})
    BY <1>3, <1>4, <1>5 DEF Stream!Spool, StreamOf, EventsAt
  <2> QED BY <1>1, <2>1 DEF Stream!Next
<1>6. CASE r \in processed' /\ processed' \subseteq Known'
  <2>1. Top(processed') = n + 1
    <3> HIDE DEF n
    <3>0. processed' \in SUBSET Records /\ IsFiniteSet(processed')
      BY <1>2, <1>f, <1>6, FS_Subset
    <3>1. /\ Top(processed') \in Nat /\ \A q \in processed' : q.sequence <= Top(processed')
          /\ Top(processed') > 0 => \E q \in processed' : q.sequence = Top(processed')
      BY <3>0, TopIsReached
    <3> QED BY <1>1, <1>2, <1>6, <1>a, <3>1 DEF Records
  <2>2. Stream!CloseUnspooled({r.event})
    BY <1>3, <1>4, <2>1 DEF Stream!CloseUnspooled, StreamOf, EventsAt
  <2> QED BY <1>1, <2>2 DEF Stream!Next
<1> QED BY <1>5, <1>6

\* With no record behind it the stream stays, and more of it may be closed.
LEMMA StreamCloses ==
  ASSUME Inv, Numbered, Known' = Known, watermark' = watermark,
         processed \subseteq processed', processed' \subseteq Known'
  PROVE  [Stream!Next]_(Stream!vars)
<1> DEFINE n == Top(Known)
<1>1. /\ Known \subseteq Records /\ n \in Nat /\ \A q \in Known : q.sequence <= n
      /\ Top(processed) \in Nat /\ processed \subseteq Records
      /\ IsFiniteSet(Known) /\ IsFiniteSet(processed)
  BY KnownFacts DEF Inv, TypeInv, TypeOK, SpoolTypeOK
<1>2. StreamOf(Known', n) = StreamOf(Known, n) /\ Top(Known') = n
  OBVIOUS
<1>3. /\ Top(processed') \in Nat /\ \A q \in processed' : q.sequence <= Top(processed')
      /\ Top(processed') > 0 => \E q \in processed' : q.sequence = Top(processed')
  <2> HIDE DEF n
  <2>1. processed' \in SUBSET Records /\ IsFiniteSet(processed')
    BY <1>1, FS_Subset
  <2> QED BY <2>1, TopIsReached
<1>4. /\ \A q \in processed : q.sequence <= Top(processed)
      /\ Top(processed) > 0 => \E q \in processed : q.sequence = Top(processed)
  BY <1>1, TopIsReached
<1>5. Top(processed) <= Top(processed') /\ Top(processed') <= n
  <2> HIDE DEF n
  <2> QED BY <1>1, <1>3, <1>4
<1>6. Len(StreamOf(Known, n)) = n
  <2> HIDE DEF n
  <2>1. StreamOf(Known, n) \in [1 .. n -> SUBSET Events]
    BY <1>1 DEF StreamOf, Records
  <2> QED BY <1>1, <2>1
<1>7. CASE Top(processed') = Top(processed)
  BY <1>2, <1>7 DEF Stream!vars, StreamOf, EventsAt
<1>8. CASE Top(processed') # Top(processed)
  <2>1. Top(processed') \in Top(processed) + 1 .. n
    <3> HIDE DEF n
    <3> QED BY <1>1, <1>3, <1>5, <1>8
  <2>2. Stream!Close
    BY <1>2, <1>6, <2>1 DEF Stream!Close, StreamOf, EventsAt
  <2> QED BY <2>2 DEF Stream!Next
<1> QED BY <1>7, <1>8

\* What the map sees: the records, the allocator and the platform.
LEMMA StreamStays ==
  ASSUME Inv, Numbered, UNCHANGED <<log, nextSequence, processed, watermark>>
  PROVE  [Stream!Next]_(Stream!vars) /\ Numbered'
<1>1. Known' = Known /\ processed' \subseteq Known'
  BY DEF Known
<1>2. [Stream!Next]_(Stream!vars)
  BY <1>1, StreamCloses
<1>3. Numbered'
  BY <1>1 DEF Numbered
<1> QED BY <1>2, <1>3

\* An append that returns makes the stream one event longer.
LEMMA StreamOfAppend ==
  ASSUME Inv, Numbered, NEW e \in Events, Appended(e), processed' = processed
  PROVE  [Stream!Next]_(Stream!vars) /\ Numbered'
<1> DEFINE r == Record(e)
<1>1. /\ ~ poisoned /\ nextSequence' = nextSequence + 1 /\ log' = Written(e)
      /\ watermark' = watermark
      /\ nextSequence \in Nat \ {0} /\ log \subseteq Records /\ processed \subseteq Records
  BY DEF Appended, Inv, TypeInv, TypeOK, SpoolTypeOK
<1>2. r \in Records /\ r.sequence = nextSequence
  BY <1>1, WrittenFacts
<1>3. /\ \A q \in log : q.sequence <= nextSequence
      /\ \A q \in Known : q.sequence < nextSequence
      /\ Top(Known) = nextSequence - 1
  BY <1>1, KnownFacts
<1>4. Known' = Known \cup {r}
  <2>1. log' = {q \in log : q.sequence # nextSequence} \cup {r}
    BY <1>1 DEF Written
  <2> HIDE DEF r
  <2>2. ASSUME NEW q PROVE q \in Known' <=> q \in Known \cup {r}
    BY <1>1, <1>2, <1>3, <2>1 DEF Known, Records
  <2> QED BY <2>2
<1>5. r.sequence = Top(Known) + 1
  <2> HIDE DEF r
  <2> QED BY <1>1, <1>2, <1>3
<1>6. Stream!Next
  <2> HIDE DEF r
  <2> QED BY <1>1, <1>2, <1>4, <1>5, StreamGrows
<1>7. Numbered'
  <2> HIDE DEF r
  <2>1. r \in Known' /\ r.sequence = nextSequence' - 1
    BY <1>1, <1>2, <1>4
  <2> QED BY <2>1 DEF Numbered
<1> QED BY <1>6, <1>7

\* One that raises leaves the stream: what it may have written is not known yet.
LEMMA StreamOfFailure ==
  ASSUME Inv, Numbered, NEW e \in Events, AppendFails(e), processed' = processed
  PROVE  [Stream!Next]_(Stream!vars) /\ Numbered'
<1>1. nextSequence' = nextSequence /\ watermark' = watermark
  BY DEF AppendFails, AppendRefused, AppendPoisons, AppendUnsynced, spoolVars
<1>2. log' = log \/ (~ poisoned /\ log' = Written(e))
  BY DEF AppendFails, AppendRefused, AppendPoisons, AppendUnsynced, spoolVars
<1>3. CASE log' = log
  BY <1>1, <1>3, StreamStays
<1>4. CASE ~ poisoned /\ log' = Written(e)
  <2>1. Record(e).sequence = nextSequence /\ nextSequence \in Nat
    BY <1>4, WrittenFacts DEF Inv, TypeInv, TypeOK, SpoolTypeOK
  <2>2. Known' = Known
    BY <1>1, <1>4, <2>1 DEF Known, Written
  <2>3. processed' \subseteq Known'
    BY DEF Known
  <2>4. [Stream!Next]_(Stream!vars)
    BY <1>1, <2>2, <2>3, StreamCloses
  <2>5. Numbered'
    BY <1>1, <2>2 DEF Numbered
  <2> QED BY <2>4, <2>5
<1> QED BY <1>2, <1>3, <1>4

\* A batch the platform processes closes more of the stream; the record of a failed
\* append, in a spool that takes no more, is known only now.
LEMMA StreamOfBatch ==
  ASSUME Inv, Numbered, NEW f \in Flushers, processed' = processed \cup flush[f].batch,
         UNCHANGED <<log, nextSequence, watermark>>
  PROVE  [Stream!Next]_(Stream!vars) /\ Numbered'
<1> DEFINE B == flush[f].batch
<1>1. /\ log \subseteq Records /\ processed \subseteq Records /\ nextSequence \in Nat \ {0}
      /\ B \subseteq Recorded /\ \A q \in B : Allocated(q)
      /\ \A q, r \in Recorded : q.sequence = r.sequence => q = r
  BY DEF Inv, TypeInv, TypeOK, SpoolTypeOK, LogInv, FlushInv
<1>2. /\ \A q \in log : q.sequence <= nextSequence
      /\ Known \subseteq Records /\ processed \subseteq Known /\ Known \subseteq Recorded
      /\ (\A q \in Known : q.sequence < nextSequence) => Top(Known) = nextSequence - 1
  BY KnownFacts DEF Known, Recorded
<1>3. Known' = Known \cup B
  BY <1>1 DEF Known, Recorded
<1>4. B \subseteq Recorded /\ Recorded \subseteq Records
  BY <1>1 DEF Recorded
<1>5. Numbered'
  BY <1>3 DEF Numbered
<1>6. CASE B \subseteq Known
  <2>1. Known' = Known /\ processed \subseteq processed' /\ processed' \subseteq Known'
    BY <1>2, <1>3, <1>6
  <2> QED BY <1>5, <2>1, StreamCloses
<1>7. ASSUME NEW r \in B, r \notin Known
      PROVE  [Stream!Next]_(Stream!vars)
  <2>1. r \in log /\ r.sequence = nextSequence /\ r \in Records
    BY <1>1, <1>2, <1>7 DEF Known, Recorded, Allocated, Records
  <2>2. \A q \in Known : q.sequence # nextSequence
    BY <1>1, <1>2, <1>4, <1>7, <2>1 DEF Recorded
  <2>3. \A q \in Known : q.sequence < nextSequence
    BY <2>2, KnownFacts, <1>1, <1>2 DEF Known, LogInv, Inv, Allocated, Records
  <2>4. B \subseteq Known \cup {r}
    <3> SUFFICES ASSUME NEW q \in B, q \notin Known PROVE q = r
      OBVIOUS
    <3>1. q \in log /\ q.sequence = nextSequence
      BY <1>1, <1>2 DEF Known, Recorded, Allocated, Records
    <3> QED BY <1>1, <2>1, <3>1 DEF Recorded
  <2>5. Known' = Known \cup {r}
    BY <1>3, <2>4
  <2>6. r \in processed' /\ processed' \subseteq Known'
    BY <1>2, <1>3
  <2>7. r.sequence = Top(Known) + 1
    BY <1>1, <1>2, <2>1, <2>3
  <2> HIDE DEF B
  <2> QED BY <2>1, <2>5, <2>6, <2>7, StreamGrows
<1> QED BY <1>5, <1>6, <1>7

\* Records that leave the log were refused by the platform, which knows them.
LEMMA StreamOfDrop ==
  ASSUME Inv, Numbered, NEW f \in Flushers, FlushDropped(f)
  PROVE  [Stream!Next]_(Stream!vars) /\ Numbered'
<1>1. processed' = processed /\ watermark' = watermark
  BY DEF FlushDropped, DropMany, spoolVars, platformVars
<1>2. CASE UNCHANGED spoolVars
  BY <1>1, <1>2, StreamStays DEF spoolVars
<1>3. CASE DropMany(flush[f].rejected)
  <2>1. /\ log' = {r \in log : r.sequence \notin flush[f].rejected}
        /\ nextSequence' = nextSequence
    BY <1>3 DEF DropMany
  <2>2. /\ flush[f].rejected \subseteq Numbers(processed)
        /\ \A q, r \in Recorded : q.sequence = r.sequence => q = r
    BY DEF Inv, LogInv, FlushInv
  <2>3. \A r \in log : r.sequence \in flush[f].rejected => r \in processed
    BY <2>2 DEF Numbers, Recorded
  <2>4. Known' = Known
    BY <1>1, <2>1, <2>3 DEF Known
  <2>5. processed' \subseteq Known'
    BY DEF Known
  <2>6. [Stream!Next]_(Stream!vars)
    BY <1>1, <2>4, <2>5, StreamCloses
  <2>7. Numbered'
    BY <2>1, <2>4 DEF Numbered
  <2> QED BY <2>6, <2>7
<1> QED BY <1>2, <1>3 DEF FlushDropped

\* A move of the watermark confirms more of what is closed, or nothing.
LEMMA StreamOfAdvance ==
  ASSUME Inv, Numbered, NEW f \in Flushers, FlushAdvanced(f)
  PROVE  [Stream!Next]_(Stream!vars) /\ Numbered'
<1>1. /\ UNCHANGED <<log, nextSequence, processed>>
      /\ watermark' = flush[f].acked /\ watermark <= flush[f].acked
      /\ watermark \in Nat /\ flush[f] \in Flush /\ processed \in SUBSET Records
      /\ IsFiniteSet(processed) /\ Reached(flush[f].acked)
  BY DEF FlushAdvanced, AdvanceWatermark, AdvanceRaises, InRange, platformVars,
         Inv, TypeInv, TypeOK, SpoolTypeOK, FlushOK, FlushInv
<1>2. watermark' \in Nat
  BY <1>1 DEF Flush
<1>3. Known' = Known
  BY <1>1 DEF Known
<1>4. Numbered'
  BY <1>1, <1>3 DEF Numbered
<1>5. UNCHANGED <<[n \in 1 .. Top(Known) |-> EventsAt(n)], Top(processed)>>
  BY <1>1, <1>3 DEF EventsAt
<1>6. CASE watermark' = watermark
  BY <1>4, <1>5, <1>6 DEF Stream!vars
<1>7. CASE watermark' # watermark
  <2>1. PICK p \in processed : watermark' <= p.sequence
    BY <1>1, <1>2, <1>7 DEF Reached
  <2>2. Top(processed) \in Nat /\ p.sequence <= Top(processed) /\ p.sequence \in Nat
    BY <1>1, TopIsReached DEF Records
  <2>3. watermark' \in watermark + 1 .. Top(processed)
    BY <1>1, <1>2, <1>7, <2>1, <2>2
  <2>4. Stream!Confirm
    BY <1>5, <2>3 DEF Stream!Confirm
  <2> QED BY <1>4, <2>4 DEF Stream!Next
<1> QED BY <1>6, <1>7

LEMMA StreamOfFlush ==
  ASSUME Inv, Numbered, NEW f \in Flushers, FlushBegin(f) \/ FlushStep(f)
  PROVE  [Stream!Next]_(Stream!vars) /\ Numbered'
<1>1. CASE FlushDropped(f)
  BY <1>1, StreamOfDrop
<1>2. CASE FlushAnswered(f) \/ FlushAckMissing(f) \/ FlushAnswerLost(f)
  <2>1. processed' = processed \cup flush[f].batch /\ UNCHANGED <<log, nextSequence, watermark>>
    BY <1>2 DEF FlushAnswered, FlushAckMissing, FlushAnswerLost, Process, Outside,
                spoolVars
  <2> QED BY <2>1, StreamOfBatch
<1>3. CASE \/ FlushBegin(f) \/ FlushRead(f) \/ FlushFailed(f) \/ FlushHalved(f)
           \/ FlushLatches(f) \/ FlushRaises(f) \/ FlushUntrusted(f) \/ FlushReported(f)
  <2>1. UNCHANGED <<log, nextSequence, processed, watermark>>
    BY <1>3 DEF FlushBegin, FlushRead, FlushFailed, FlushHalved, FlushLatches,
                FlushRaises, FlushUntrusted, FlushReported, Outside, spoolVars, platformVars
  <2> QED BY <2>1, StreamStays
<1>4. CASE FlushAdvanced(f)
  BY <1>4, StreamOfAdvance
<1> QED BY <1>1, <1>2, <1>3, <1>4 DEF FlushStep

\* A restart makes the record of a failed append, if there is one, the last event,
\* and finds the allocator right behind the last known record.
LEMMA StreamOfCrash ==
  ASSUME ~ gapped', Inv, Numbered, Crash
  PROVE  [Stream!Next]_(Stream!vars) /\ Numbered'
<1>1. /\ log \subseteq Records /\ watermark \in Nat /\ nextSequence \in Nat \ {0}
      /\ processed \subseteq Records /\ watermark < nextSequence
      /\ \A q, r \in Recorded : q.sequence = r.sequence => q = r
      /\ Reached(watermark)
  BY DEF Inv, TypeInv, TypeOK, SpoolTypeOK, LogInv
<1>2. log' = log /\ processed' = processed /\ watermark' = watermark
  BY DEF Crash, Recover, platformVars
<1>3. /\ \A q \in log : q.sequence <= nextSequence
      /\ Known \subseteq Records /\ processed \subseteq Known
      /\ \A q \in Known : q.sequence < nextSequence \/ q \in processed
      /\ Top(Known) \in {nextSequence - 1, nextSequence}
      /\ (\A q \in Known : q.sequence < nextSequence) => Top(Known) = nextSequence - 1
  BY KnownFacts
<1>4. /\ nextSequence' \in Nat \ {0} /\ watermark < nextSequence'
      /\ \A r \in log : r.sequence < nextSequence'
      /\ nextSequence' = watermark + 1 \/ \E r \in log : nextSequence' = r.sequence + 1
  BY RecoveredNumber DEF Crash, Inv
<1>5. ~ GapOpen
  BY DEF Crash
<1>6. \A p \in processed : p.sequence <= watermark \/ p \in log
  BY <1>1, <1>5 DEF GapOpen, Records
<1>7. Known' = processed \cup log
  BY <1>2, <1>4 DEF Known
<1>8. Numbered'
  <2> SUFFICES ASSUME nextSequence' > 1
               PROVE  \E r \in Known' : r.sequence = nextSequence' - 1
    BY DEF Numbered
  <2>1. ASSUME NEW r \in log, nextSequence' = r.sequence + 1
        PROVE  \E q \in Known' : q.sequence = nextSequence' - 1
    BY <1>1, <1>7, <2>1 DEF Records
  <2>2. CASE nextSequence' = watermark + 1
    <3>1. PICK p \in processed : watermark <= p.sequence
      BY <1>1, <2>2 DEF Reached
    <3>2. CASE p.sequence <= watermark
      <4>1. p.sequence = watermark
        BY <1>1, <3>1, <3>2 DEF Records
      <4> QED BY <1>1, <1>7, <2>2, <4>1
    <3>3. CASE p \in log
      <4>1. p.sequence = watermark
        BY <1>1, <1>4, <2>2, <3>1, <3>3 DEF Records
      <4> QED BY <1>1, <1>7, <2>2, <4>1
    <3> QED BY <1>6, <3>2, <3>3
  <2> QED BY <1>4, <2>1, <2>2
<1>9. CASE log \subseteq Known
  <2>1. Known' = Known /\ processed \subseteq processed' /\ processed' \subseteq Known'
    BY <1>2, <1>3, <1>7, <1>9 DEF Known
  <2> QED BY <1>2, <1>8, <2>1, StreamCloses
<1>10. ASSUME NEW r \in log, r \notin Known
       PROVE  [Stream!Next]_(Stream!vars)
  <2>1. r.sequence = nextSequence /\ r \in Records
    BY <1>1, <1>3, <1>10 DEF Known, Records
  <2>2. \A q \in processed : q.sequence # nextSequence
    BY <1>1, <1>3, <1>10, <2>1 DEF Recorded
  <2>3. \A q \in Known : q.sequence < nextSequence
    BY <1>1, <1>3, <2>2, KnownFacts DEF Known, LogInv, Inv, Allocated, Records
  <2>4. log \subseteq Known \cup {r}
    <3> SUFFICES ASSUME NEW q \in log, q \notin Known PROVE q = r
      OBVIOUS
    <3>1. q.sequence = nextSequence
      BY <1>1, <1>3 DEF Known, Records
    <3> QED BY <1>1, <1>10, <2>1, <3>1 DEF Recorded
  <2>5. Known' = Known \cup {r}
    BY <1>7, <1>10, <2>4 DEF Known
  <2>6. r.sequence = Top(Known) + 1
    BY <1>1, <1>3, <2>1, <2>3
  <2> QED BY <1>2, <2>1, <2>5, <2>6, StreamGrows
<1> QED BY <1>8, <1>9, <1>10

\* Every step of the channel is a step of the stream, or none.
LEMMA StreamStep ==
  ASSUME ~ gapped', Inv, Numbered, [Next]_vars
  PROVE  [Stream!Next]_(Stream!vars) /\ Numbered'
<1>1. ASSUME NEW e \in Events, EmitSpooled(e)
      PROVE  [Stream!Next]_(Stream!vars) /\ Numbered'
  <2>1. processed' = processed /\ (Appended(e) \/ AppendFails(e))
    BY <1>1 DEF EmitSpooled, platformVars
  <2> QED BY <2>1, StreamOfAppend, StreamOfFailure
<1>2. CASE EmitTerminal
  <2>1. processed' = processed /\ (Appended(Terminal) \/ AppendFails(Terminal))
    BY <1>2 DEF EmitTerminal, platformVars
  <2> QED BY <2>1, TerminalAssumption, StreamOfAppend, StreamOfFailure
<1>3. ASSUME NEW f \in Flushers, FlushBegin(f) \/ FlushStep(f)
      PROVE  [Stream!Next]_(Stream!vars) /\ Numbered'
  BY <1>3, StreamOfFlush
<1>4. CASE Crash
  BY <1>4, StreamOfCrash
<1>5. CASE \/ \E e \in Events : EmitChecked(e)
           \/ TerminalLatched \/ TerminalFenced \/ SkippingEnds \/ DrainRound
           \/ DrainAgain \/ DrainEnds \/ Exit \/ OtherClientLatches \/ UNCHANGED vars
  <2>1. UNCHANGED <<log, nextSequence, processed, watermark>>
    BY <1>5 DEF EmitChecked, TerminalLatched, TerminalFenced, SkippingEnds, DrainRound,
           DrainAgain, DrainEnds, Exit, OtherClientLatches, vars, spoolVars, platformVars
  <2> QED BY <2>1, StreamStays
<1> QED BY <1>1, <1>2, <1>3, <1>4, <1>5 DEF Next, MainStep

\* The channel starts with an empty stream.
LEMMA StreamInit == Init => Stream!Init /\ Numbered
<1> SUFFICES ASSUME Init PROVE Stream!Init /\ Numbered
  OBVIOUS
<1>1. Known = {} /\ processed = {} /\ watermark = 0
  BY DEF Init, SpoolInit, Known
<1>2. Top({}) = 0
  <2>1. Top({}) = Max({0})
    BY DEF Top, Numbers
  <2>2. IsFiniteSet({0})
    BY FS_Singleton
  <2>3. Max({0}) \in {0}
    BY <2>2, MaxOfFinite
  <2> QED BY <2>1, <2>3
<1>3. [n \in 1 .. 0 |-> EventsAt(n)] = <<>>
  OBVIOUS
<1>4. Stream!Init
  BY <1>1, <1>2, <1>3 DEF Stream!Init
<1>5. Numbered
  BY DEF Init, SpoolInit, Numbered
<1> QED BY <1>4, <1>5

\* The channel implements one numbered stream of which a prefix is closed, and a
\* prefix of that confirmed, until a crash falls in the gap of a flush.
THEOREM ChannelIsOneStream == Spec => ImplementsStream
<1>1. Init => (~ gapped => Inv /\ Numbered) /\ Stream!Init
  BY InvInit, StreamInit
<1>2. (~ gapped => Inv /\ Numbered) /\ [Next]_vars
        => /\ (~ gapped' => Inv' /\ Numbered')
           /\ [~ gapped' => Stream!Next]_(Stream!vars)
  BY InvStep, StreamStep, GapStays
<1> QED BY <1>1, <1>2, PTL DEF Spec, ImplementsStream
================================================================================

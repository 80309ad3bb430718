----------------------------- MODULE OutboundSpool -----------------------------
(***************************************************************************)
(* The durable queue of outbound events: class OutboundSpool of            *)
(* src/src/fi/alk/harness/outbound.py with sequenced=True.                 *)
(*                                                                         *)
(* The log is the set of its records: the file holds them in the order of  *)
(* their sequence numbers, so a read "from the offset of n" is a read of   *)
(* the records from n on.  A record whose number was assigned again is not *)
(* reachable (the cached offset of the number is the later record's), so   *)
(* the later record replaces it here.                                      *)
(***************************************************************************)
EXTENDS Integers, FiniteSets, FiniteSetsExt

CONSTANTS Events

ASSUME EventsAssumption == IsFiniteSet(Events)

VARIABLES
  log,          \* <name>.spool.jsonl: the complete records
  watermark,    \* <name>.spool.watermark.json
  nextSequence, \* _next_sequence, lost by a crash and found again by _recover
  poisoned      \* _poisoned: a rollback failed, nothing may be written

spoolVars == <<log, watermark, nextSequence, poisoned>>

Records == [sequence : Nat \ {0}, event : Events]

SpoolTypeOK ==
  /\ log \subseteq Records
  /\ watermark \in Nat
  /\ nextSequence \in Nat \ {0}
  /\ poisoned \in BOOLEAN

SpoolInit ==
  /\ log = {}
  /\ watermark = 0
  /\ nextSequence = 1
  /\ poisoned = FALSE

--------------------------------------------------------------------------------
(* Reads. *)

\* records_after(n)
After(n) == {r \in log : r.sequence > n}

\* The steady state in which the file is not opened at all.
Drained == watermark + 1 = nextSequence

\* pending_since_watermark(), when nothing moves under it
Pending == IF Drained THEN {} ELSE After(watermark)

\* The first k records of a read, in the order of the file.
First(S, k) ==
  {r \in S : Cardinality({q \in S : q.sequence < r.sequence}) < k}

--------------------------------------------------------------------------------
(* append().  The record is written and fsynced, then, for a new file, the  *)
(* directory is, and only then does the allocator move.                     *)

Record(e) == [sequence |-> nextSequence, event |-> e]

Written(e) == {r \in log : r.sequence # nextSequence} \cup {Record(e)}

Appended(e) ==
  /\ ~ poisoned
  /\ log' = Written(e)
  /\ nextSequence' = nextSequence + 1
  /\ UNCHANGED <<watermark, poisoned>>

\* _require_writable() raises, or the write does and _truncate_to() undoes it.
AppendRefused == UNCHANGED spoolVars

\* The rollback fails too.  What the file then ends with is torn bytes, which
\* no reader takes for a record, or the whole record.
AppendPoisons(e) ==
  /\ ~ poisoned
  /\ poisoned' = TRUE
  /\ log' \in {log, Written(e)}
  /\ UNCHANGED <<watermark, nextSequence>>

\* The record is in a new file and the fsync of the directory raises.
AppendUnsynced(e) ==
  /\ ~ poisoned
  /\ log' = Written(e)
  /\ UNCHANGED <<watermark, nextSequence, poisoned>>

--------------------------------------------------------------------------------
(* The operations of the flusher. *)

\* drop_many(): no writable check for an empty set
DropRaises(numbers) == numbers # {} /\ poisoned

DropMany(numbers) ==
  /\ ~ DropRaises(numbers)
  /\ log' = {r \in log : r.sequence \notin numbers}
  /\ UNCHANGED <<watermark, nextSequence, poisoned>>

\* Mutant: the clamp has no lower bound.
InRangeUpper(n) == n < nextSequence

\* Mutant: an older acknowledgement that comes late is taken.
InRangeLatest(n) == 0 <= n /\ n < nextSequence

\* The clamp of advance_watermark()
InRange(n) == watermark <= n /\ n < nextSequence

AdvanceRaises(n) == poisoned \/ ~ InRange(n)

AdvanceWatermark(n) ==
  /\ ~ AdvanceRaises(n)
  /\ watermark' = n
  /\ UNCHANGED <<log, nextSequence, poisoned>>

\* Mutant: the allocator is found in the log alone.
RecoverFromLog ==
  /\ nextSequence' = Max({r.sequence : r \in log} \cup {0}) + 1
  /\ poisoned' = FALSE
  /\ UNCHANGED <<log, watermark>>

\* Mutant: the allocator is found in the watermark alone.
RecoverFromWatermark ==
  /\ nextSequence' = watermark + 1
  /\ poisoned' = FALSE
  /\ UNCHANGED <<log, watermark>>

\* A new instance in a new process: _recover() truncates a torn tail and finds
\* the allocator in the log and the watermark.
Recover ==
  /\ nextSequence' = Max({r.sequence : r \in log} \cup {watermark}) + 1
  /\ poisoned' = FALSE
  /\ UNCHANGED <<log, watermark>>
================================================================================

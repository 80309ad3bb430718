------------------------------- MODULE RunLedger -------------------------------
(***************************************************************************)
(* The run ledger on disk: class RunLedger of                              *)
(* src/src/fi/alk/telemetry/_ledger.py, the rows of runs.jsonl and the     *)
(* chain.head sidecar, and append() cut where it touches the disk.         *)
(*                                                                         *)
(* A row is its content address and its chain digest.  SHA-256 is taken to *)
(* be injective, so a digest is the sequence of the addresses it hashes,   *)
(* and GENESIS is the empty one.                                           *)
(*                                                                         *)
(* This module has no specification of its own: TelemetryQueue composes    *)
(* its operators with the threads that call them.                          *)
(***************************************************************************)
EXTENDS Naturals, Sequences

CONSTANT Writers   \* threads and processes that append to the ledger

VARIABLES file,    \* the readable lines of runs.jsonl
          torn,    \* "tail": its last line was cut short; "line": one above was
          head,    \* the digest in chain.head; GENESIS while there is no file
          append,  \* the append() call of each writer
          raced,   \* history: two appends have overlapped
          stale    \* history: rows, by number, written without their chain.head

ledgerVars == <<file, torn, head, append, raced, stale>>

GENESIS == <<>>
Ended == [step |-> "none", id |-> <<>>, prev |-> GENESIS]

LedgerInit ==
  /\ file = <<>> /\ torn = "no" /\ head = GENESIS
  /\ append = [w \in Writers |-> Ended]
  /\ raced = FALSE /\ stale = {}

\* _chain_link
Link(prev, id) == Append(prev, id)

\* The scan of _last_state: the chain of the last row; unreadable lines are
\* passed over.
Scanned == IF file = <<>> THEN GENESIS ELSE file[Len(file)].chain

\* _last_state: any digest in the sidecar is believed, the rows are not read.
LastState == IF head # GENESIS THEN head ELSE Scanned

Busy(w) == append[w].step # "none"

AppendReads(w, id) ==
  /\ ~Busy(w)
  /\ append' = [append EXCEPT ![w] =
                  [step |-> "write", id |-> id, prev |-> LastState]]
  /\ raced' = (raced \/ \E v \in Writers : Busy(v))
  /\ UNCHANGED <<file, torn, head, stale>>

\* The line is written and flushed; an fsync that fails is ignored.
AppendWrites(w) ==
  /\ append[w].step = "write" /\ torn # "tail"
  /\ file' = Append(file, [id |-> append[w].id,
                           chain |-> Link(append[w].prev, append[w].id)])
  /\ append' = [append EXCEPT ![w].step = "head"]
  /\ UNCHANGED <<torn, head, raced, stale>>

\* ... but at the end of a line cut short it makes one line that nobody can read.
AppendMerges(w) ==
  /\ append[w].step = "write" /\ torn = "tail"
  /\ torn' = "line"
  /\ append' = [append EXCEPT ![w].step = "merged"]
  /\ UNCHANGED <<file, head, raced, stale>>

\* mkdir, open or write raises; some of the line may have been written.
AppendRaises(w) ==
  /\ append[w].step = "write"
  /\ torn' \in {torn, "tail"}
  /\ append' = [append EXCEPT ![w] = Ended]
  /\ UNCHANGED <<file, head, raced, stale>>

HasWritten(w) == append[w].step \in {"head", "merged"}

\* Mutant: the sidecar keeps the digest the row was chained to.
HeadWrittenPrevious(w) == append[w].prev
HeadWritten(w) == Link(append[w].prev, append[w].id)

\* _write_chain_head.
AppendHeads(w) ==
  /\ HasWritten(w)
  /\ head' = HeadWritten(w)
  /\ append' = [append EXCEPT ![w] = Ended]
  /\ UNCHANGED <<file, torn, raced, stale>>

\* ... an OSError of which is swallowed.
AppendKeepsHead(w) ==
  /\ HasWritten(w)
  /\ append' = [append EXCEPT ![w] = Ended]
  /\ stale' = stale \cup {Len(file)}
  /\ UNCHANGED <<file, torn, head, raced>>

\* Every writer dies where it is, a write() perhaps halfway.
AppendsCut ==
  /\ append' = [w \in Writers |-> Ended]
  /\ stale' = IF \E w \in Writers : HasWritten(w) THEN stale \cup {Len(file)} ELSE stale
  /\ \/ torn' = torn
     \/ torn' = "tail" /\ \E w \in Writers : append[w].step = "write"
  /\ UNCHANGED <<file, head, raced>>

\* Before row n: GENESIS, or the chain of the row above it.
Above(n) == IF n = 1 THEN GENESIS ELSE file[n - 1].chain

Linked(n) == file[n].chain = Link(Above(n), file[n].id)

\* verify() finds no chain_mismatch.
Intact == \A n \in DOMAIN file : Linked(n)
================================================================================

------------------------------ MODULE EventStream ------------------------------
(***************************************************************************)
(* What the events channel promises: one stream of events, numbered from 1 *)
(* without a gap, that only grows, of which the platform has closed a      *)
(* prefix and the sender heard of a shorter one; both only grow.           *)
(***************************************************************************)
EXTENDS Naturals, Sequences

CONSTANTS Events

VARIABLES stream, closed, confirmed

vars == <<stream, closed, confirmed>>

Init == stream = <<>> /\ closed = 0 /\ confirmed = 0

\* An event gets the next number.
Spool(e) == stream' = Append(stream, e) /\ UNCHANGED <<closed, confirmed>>

\* The platform closes a longer prefix.
Close == closed' \in closed + 1 .. Len(stream) /\ UNCHANGED <<stream, confirmed>>

\* The platform closes the whole stream and an event whose append had failed.
CloseUnspooled(e) ==
  stream' = Append(stream, e) /\ closed' = Len(stream') /\ UNCHANGED confirmed

\* The sender takes an acknowledgement of more than the last one.
Confirm == confirmed' \in confirmed + 1 .. closed /\ UNCHANGED <<stream, closed>>

Next == Close \/ Confirm \/ \E e \in Events : Spool(e) \/ CloseUnspooled(e)

Spec == Init /\ [][Next]_vars
================================================================================

------------------------------- MODULE MCOutbound ------------------------------
(* Instances of Outbound for TLC. *)
EXTENDS Outbound, TLC

Symmetry == Permutations(Events \ {Terminal}) \cup Permutations(Flushers \ {Main})

\* Behaviours in which the scenarios still run and one event is refused: the bound
\* under which a flush that reads what another has rewritten skips an event.
OneRefusal == main = "running" /\ Cardinality(refused) <= 1
================================================================================

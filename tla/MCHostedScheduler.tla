--------------------------- MODULE MCHostedScheduler ---------------------------
(* Instances of HostedScheduler for TLC; the .cfg files choose the port. *)
EXTENDS HostedScheduler, TLC

Symmetry == Permutations(Scenarios) \cup Permutations(Worlds)
================================================================================

------------------------------ MODULE MCWorldPool ------------------------------
(* Instances of WorldPool for TLC; the .cfg files choose the provider. *)
EXTENDS WorldPool, TLC

Symmetry == Permutations(Clients)
================================================================================

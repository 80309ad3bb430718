-------------------------- MODULE MCResilientBackend --------------------------
(* Instances of ResilientBackend for TLC. *)
EXTENDS ResilientBackend
================================================================================

------------------------------ MODULE MCTelemetry ------------------------------
(* Instances of TelemetryQueue for TLC; the .cfg files choose the writers. *)
EXTENDS TelemetryQueue
================================================================================

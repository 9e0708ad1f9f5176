-------------------------- MODULE MCPreflightWorkers --------------------------
(* Bounds for model checking PreflightWorkers.                              *)
EXTENDS PreflightWorkers
=============================================================================

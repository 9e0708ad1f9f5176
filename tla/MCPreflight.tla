----------------------------- MODULE MCPreflight -----------------------------
(* Bounds for model checking Preflight.                                     *)
EXTENDS Preflight, TLC

\* No command tells one dispatching execution from another.
TriggerSymmetry == Permutations(TriggerRuns)
=============================================================================

---------------------------- MODULE MCEngineRuns ----------------------------
(***************************************************************************)
(* Instances of EngineRuns for TLC.  The identities of tasks and of        *)
(* callers are interchangeable (used by the safety runs only).             *)
(***************************************************************************)
EXTENDS EngineRuns, TLC

Symmetric == Permutations(Runs) \cup Permutations(Callers)
=============================================================================

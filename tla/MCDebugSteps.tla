---------------------------- MODULE MCDebugSteps ----------------------------
(* Small instances of DebugSteps for TLC.                                   *)
EXTENDS DebugSteps, DebugInstances
=============================================================================

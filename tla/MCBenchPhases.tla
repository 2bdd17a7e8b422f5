---------------------------- MODULE MCBenchPhases ----------------------------
(***************************************************************************)
(* Instances of BenchPhases for TLC.                                       *)
(***************************************************************************)
EXTENDS BenchPhases
=============================================================================

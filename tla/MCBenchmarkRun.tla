---------------------------- MODULE MCBenchmarkRun ----------------------------
(***************************************************************************)
(* BenchmarkRun with a level above the gateway's limit and one at it.      *)
(***************************************************************************)
EXTENDS BenchmarkRun

TwoLevels == <<3, 2>>

=============================================================================

------------------------------ MODULE MCBenchOps ------------------------------
(* BenchOps on a bench with a watchdog, dispatched runs and one operator.  *)
EXTENDS BenchOps, TLC
=============================================================================

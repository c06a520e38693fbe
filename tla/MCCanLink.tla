------------------------------ MODULE MCCanLink ------------------------------
(* CanLink on two controllers, whose handler threads are alike.            *)
EXTENDS CanLink, TLC

ThreadsAreAlike == Permutations(Threads)
=============================================================================

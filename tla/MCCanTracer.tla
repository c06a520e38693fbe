----------------------------- MODULE MCCanTracer -----------------------------
(* CanTracer with a few buses and streams.                                 *)
EXTENDS CanTracer, TLC
=============================================================================

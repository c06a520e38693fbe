---------------------------- MODULE MCLtcEmulator ----------------------------
(* LtcEmulator with two chips, one per module. *)
EXTENDS LtcEmulator

CONSTANTS ch0, ch1
=============================================================================

----------------------------- MODULE MCBrokerRpc -----------------------------
(* BrokerRpc with a client of each kind.                                   *)
EXTENDS BrokerRpc
=============================================================================

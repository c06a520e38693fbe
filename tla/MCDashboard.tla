----------------------------- MODULE MCDashboard -----------------------------
(* Dashboard with two request threads, two relays and one DAC.             *)
EXTENDS Dashboard
=============================================================================

--------------------------- MODULE MCCarrierFlash ---------------------------
(* CarrierFlash on bench-01: an AMS, an ECU and a slot without a DUT.      *)
EXTENDS CarrierFlash, TLC

Bench == 2 :> "ams" @@ 3 :> "none" @@ 4 :> "ecu"
Profiles == "ams" :> 2 @@ "ecu" :> 1
=============================================================================

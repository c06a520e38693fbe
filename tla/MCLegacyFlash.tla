---------------------------- MODULE MCLegacyFlash ----------------------------
(* LegacyFlash with a short and a long image.                              *)
EXTENDS LegacyFlash, TLC

Lengths == "short" :> 1 @@ "long" :> 2
=============================================================================

--------------------------- MODULE MCStakingBridge ---------------------------
(* Small instances of StakingBridge for TLC.                                *)
EXTENDS StakingBridge
=============================================================================

------------------------------ MODULE MCStaking ------------------------------
(* Small instances of Staking for TLC.                                      *)
EXTENDS Staking
=============================================================================

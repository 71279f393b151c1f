--------------------------- MODULE MCVoteWeighting ---------------------------
(* Small instances of VoteWeighting for TLC.                                *)
EXTENDS VoteWeighting
=============================================================================

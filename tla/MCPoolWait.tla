----------------------------- MODULE MCPoolWait -----------------------------
(* Small instances of PoolWait for TLC. *)
EXTENDS PoolWait
=============================================================================

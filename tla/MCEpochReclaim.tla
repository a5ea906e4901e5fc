--------------------------- MODULE MCEpochReclaim ---------------------------
(* Model-checking instance of EpochReclaim. *)
EXTENDS EpochReclaim
=============================================================================

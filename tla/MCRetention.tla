---------------------------- MODULE MCRetention -----------------------------
(* Small instances of Retention for TLC. *)
EXTENDS Retention, TLC

\* Four epochs let both frames mature twice, so that the ring wraps; a mask of
\* two lets a counted frame be counted again.
MCSetups ==
  {[countMask |-> 1, retires |-> {}, epochs |-> 4],
   [countMask |-> 2, retires |-> {TRUE, FALSE}, epochs |-> 2]}

Symmetry == Permutations(Readers) \cup Permutations(Frames) \cup Permutations(Pages)
=============================================================================

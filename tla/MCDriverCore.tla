---------------------------- MODULE MCDriverCore ----------------------------
\* The driver core instantiated for TLC: threads are interchangeable.
EXTENDS DriverCore, TLC

\* Scatter reads with barriers, staged writes with blocking calls, plain reads.
MCEmbedders == {{"vector", "fsync"}, {"write", "blocking"}, {"read"}}

Symmetry == Permutations(Threads)
=============================================================================

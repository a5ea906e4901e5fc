---------------------------- MODULE MCPageTable ----------------------------
EXTENDS PageTable, TLC

CONSTANTS p1, p2, p3

\* Placements on three neighbouring homes; 7 and 8 lie on either side of the
\* wrap for a table of four cells and one of eight.  One page is placed in the
\* middle, the others anywhere.
MCHomes == {h \in [Pages -> {6, 7, 8}] : h[p3] = 7}
\* Two files share the pages, so that lists of several frames and of one occur.
MCFileOf == [p \in Pages |-> IF p = p3 THEN "b" ELSE "a"]
Symmetry == Permutations({p1, p2})
=============================================================================

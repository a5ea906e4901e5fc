--------------------------- MODULE MCEagerDriver ---------------------------
(* Embedders: threads contending for a staging slot, on either kind of      *)
(* wait, and a thread that reads one or two frames into the arena.          *)
EXTENDS EagerDriver

CONSTANTS t1, t2, t3

Writers(callers, kinds, pumps, opens) ==
    [kinds |-> kinds, pumps |-> pumps, callers |-> callers, modes |-> {0},
     opens |-> opens, locked |-> TRUE]

Reader(kinds) ==
    [kinds |-> kinds, pumps |-> TRUE, callers |-> {t1}, modes |-> {0, 2, 4},
     opens |-> 1, locked |-> FALSE]

MCThreads == {t1, t2, t3}

MCSetups ==
    {Writers({t1, t2}, {"write"}, TRUE, 2),
     Writers({t1, t2, t3}, {"write"}, FALSE, 1),
     Writers({t1, t2}, {"write", "blocking"}, TRUE, 1),
     Reader({"vector"}), Reader({"point", "rawpoint"}), Reader({"raw", "fsync", "write"})}
=============================================================================

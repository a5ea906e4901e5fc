----------------------------- MODULE MCMissFlow -----------------------------
(* Instances of MissFlow for TLC. *)
EXTENDS MissFlow, TLC

CONSTANTS t1, t2, p1, p2, p3, f1, f2

Both(P) == (t1 :> P) @@ (t2 :> P)

\* Two reads at once, in parts; one frame that is evicted and refilled while its
\* miss slot is reused; a page read for one thread while another makes room;
\* a direct file whose remainders must be aligned.
MCSetups ==
  {[frames |-> {f1, f2}, reads |-> 2, granule |-> 2, alignment |-> 1, generations |-> <<1, 1>>,
    asks |-> Both({p1, p2})],
   [frames |-> {f1}, reads |-> 1, granule |-> 1, alignment |-> 1, generations |-> <<3>>,
    asks |-> Both({p1, p2})],
   [frames |-> {f1, f2}, reads |-> 1, granule |-> 1, alignment |-> 1, generations |-> <<1, 2>>,
    asks |-> (t1 :> {p1}) @@ (t2 :> {p2, p3})],
   [frames |-> {f1}, reads |-> 1, granule |-> 4, alignment |-> 2, generations |-> <<1>>,
    asks |-> Both({p1})]}

\* One read of one sector by two threads.
OneRead == {[frames |-> {f1}, reads |-> 1, granule |-> 1, alignment |-> 1,
             generations |-> <<1>>, asks |-> Both({p1})]}
=============================================================================

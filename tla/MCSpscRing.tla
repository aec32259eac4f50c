----------------------------- MODULE MCSpscRing -----------------------------
(* A ring of two slots whose counters wrap after three laps: the counters  *)
(* meet every wrap position with every occupancy and every stale view.     *)
EXTENDS SpscRing

CONSTANTS e1, e2

MCEvent == {e1, e2}
=============================================================================

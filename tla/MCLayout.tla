------------------------------ MODULE MCLayout ------------------------------
(* Up to five instances on screens whose sides are odd, prime or too small *)
(* to divide, one of them left of the origin, in derived, full, overfull   *)
(* and partly filled grids, stacked, and with the strip on every edge; and *)
(* up to five latencies on a scale of three buckets, at the edges of the   *)
(* buckets and beyond the last.                                            *)
EXTENDS Layout, LatencyStats

Descriptor(kind, rows, cols, thumb, edge) ==
  [kind |-> kind, rows |-> rows, cols |-> cols, thumb |-> thumb, edge |-> edge]

SomeAreas == {Rect(0, 0, 7, 5), Rect(-11, 2, 11, 6), Rect(0, 0, 3, 2), Rect(1, 0, 16, 4)}
SomeLatencies == {0, 9, 10, 25, 29, 30, 47}
SomeSpecs ==
  {Descriptor("Grid", rows, cols, 0, "Right") : rows \in {0, 1, 2}, cols \in {0, 2}}
    \union {Descriptor("Stacked", 0, 0, 0, "Right")}
    \union {Descriptor("Pip", 0, 0, thumb, edge) : thumb \in {0, 2}, edge \in Edges}

(* When an event has been delivered to `count` instances, each delivery    *)
(* with any of the latencies, the statistics printed of them are true      *)
(* (record, percentile_us).                                                *)
PercentilesAreRanks == FaithfulOf[AtMost(MaxSamples, count)]
=============================================================================

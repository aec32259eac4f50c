---------------------------- MODULE LatencyStats ----------------------------
(***************************************************************************)
(* The latency histogram: core/include/mm/latency_stats.hpp.  The numbers  *)
(* the program prints are the percentiles 50 and 99 and the maximum.       *)
(*                                                                         *)
(* A percentile is a natural number here.  The bounds of the check are     *)
(* Samples and MaxSamples.                                                 *)
(***************************************************************************)
EXTENDS Naturals, Sequences, FiniteSets

CONSTANTS
  BucketUs,     (* kBucketUs, the width of a bucket                        *)
  Buckets,      (* kBuckets; the last one takes everything above too       *)
  NoMin,        (* UINT32_MAX                                              *)
  Samples,      (* the latencies recorded                                  *)
  MaxSamples    (* bound on their number                                   *)

ASSUME LatencyAssumption ==
  /\ BucketUs \in Nat \ {0} /\ Buckets \in Nat \ {0}
  /\ NoMin \in Nat /\ Samples \subseteq 0 .. NoMin
  /\ MaxSamples \in Nat

AtMost(bound, v) == IF v <= bound THEN v ELSE bound

(* reset() and the initial values.                                         *)
Cleared ==
  [buckets |-> [b \in 0 .. Buckets - 1 |-> 0], count |-> 0, sum |-> 0,
   min |-> NoMin, max |-> 0]

BucketOf_Unclamped(us) == (us \div BucketUs) % Buckets
BucketOf(us) == AtMost(Buckets - 1, us \div BucketUs)

Recorded(stats, us) ==
  [buckets |-> [stats.buckets EXCEPT ![BucketOf(us)] = @ + 1],
   count   |-> stats.count + 1,
   sum     |-> stats.sum + us,
   min     |-> AtMost(stats.min, us),
   max     |-> IF us <= stats.max THEN stats.max ELSE us]

MinUs(stats) == IF stats.count = 0 THEN 0 ELSE stats.min
MeanUs(stats) == IF stats.count = 0 THEN 0 ELSE stats.sum \div stats.count

(* percentile_us: the upper edge of the first bucket at which the share of *)
(* the samples seen so far reaches the percentile.                         *)
Seen(stats) ==
  LET seen[b \in 0 .. Buckets - 1] ==
        IF b = 0 THEN stats.buckets[0] ELSE seen[b - 1] + stats.buckets[b]
  IN  seen

PercentileUs(stats, pct) ==
  LET target == AtMost(100, pct) * stats.count
      seen == Seen(stats)
      reached == {b \in 0 .. Buckets - 1 : 100 * seen[b] >= target}
  IN  IF stats.count = 0 THEN 0
      ELSE (1 + CHOOSE b \in reached : \A c \in reached : b <= c) * BucketUs

-----------------------------------------------------------------------------

(* The statistics after the given latencies, in order.                     *)
After(latencies) ==
  LET after[n \in 0 .. Len(latencies)] ==
        IF n = 0 THEN Cleared ELSE Recorded(after[n - 1], latencies[n])
  IN  after[Len(latencies)]

(* v is the r-th smallest of the latencies.                                *)
Below(latencies, v) == {i \in DOMAIN latencies : latencies[i] < v}
UpTo(latencies, v) == {i \in DOMAIN latencies : latencies[i] <= v}
HasRank(latencies, v, r) ==
  Cardinality(Below(latencies, v)) < r /\ r <= Cardinality(UpTo(latencies, v))

(* What is printed of the latencies is what they are: the extremes and the *)
(* mean exactly, and a percentile p is at most one bucket above the        *)
(* latency below which p percent of them lie, or the end of the scale if   *)
(* that is beyond it; nothing is printed but zeros if there are none.      *)
Faithful(latencies) ==
  LET n == Len(latencies)
      stats == After(latencies)
  IN  IF n = 0
        THEN {MinUs(stats), MeanUs(stats), stats.max, PercentileUs(stats, 99)} = {0}
        ELSE /\ HasRank(latencies, MinUs(stats), 1) /\ HasRank(latencies, stats.max, n)
             /\ MinUs(stats) <= MeanUs(stats) /\ MeanUs(stats) <= stats.max
             /\ \A pct \in {1, 50, 99, 100, 150} :
                  \E us \in Samples :
                    LET edge == PercentileUs(stats, pct)
                        share == AtMost(100, pct) * n
                    IN  /\ HasRank(latencies, us, (share + 99) \div 100)
                        /\ IF us < Buckets * BucketUs
                             THEN us < edge /\ edge <= us + BucketUs
                             ELSE edge = Buckets * BucketUs

FaithfulOf == [n \in 0 .. MaxSamples |-> \A latencies \in [1 .. n -> Samples] : Faithful(latencies)]

=============================================================================

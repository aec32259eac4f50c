---------------------------- MODULE LatencyProofs ----------------------------
(***************************************************************************)
(* For any number of latencies, of any size, and for any width and number  *)
(* of buckets: what is printed of them is true.                            *)
(*                                                                         *)
(* record is a loop over the latencies and percentile_us a loop over the   *)
(* buckets, so what they compute is shown by induction; the induction      *)
(* theorems of the library take an operator, and what is used instead is   *)
(* that a set of natural numbers has a least element (WFMin).              *)
(***************************************************************************)
EXTENDS MCLayout, LayoutProofs, FiniteSetTheorems

-----------------------------------------------------------------------------
(* Induction.                                                              *)

LEMMA LeastElement ==
  ASSUME NEW T \in SUBSET Nat, T # {}
  PROVE  \E n \in T : \A k \in T : n <= k
<1>. DEFINE R == {pair \in Nat \X Nat : pair[1] < pair[2]}
<1>1. IsWellFoundedOn(R, Nat)
  <2>1. OpToRel(<, Nat) = R
    BY Zenon DEF OpToRel
  <2>. HIDE DEF R
  <2>. QED  BY <2>1, NatLessThanWellFounded, Zenon
<1>2. \A x, y \in Nat : <<y, x>> \in R <=> y < x
  OBVIOUS
<1>. HIDE DEF R
<1>3. PICK n \in T : \A k \in T : ~(<<k, n>> \in R)
  BY <1>1, WFMin
<1>4. \A k \in T : ~(k < n)
  BY <1>2, <1>3
<1>. QED  BY <1>4

LEMMA InductionUpTo ==
  ASSUME NEW n \in Nat, NEW T,
         0 \in T,
         \A k \in 0 .. n - 1 : k \in T => k + 1 \in T
  PROVE  0 .. n \subseteq T
<1>. SUFFICES ASSUME (0 .. n) \ T # {}  PROVE FALSE
  OBVIOUS
<1>1. (0 .. n) \ T \in SUBSET Nat
  OBVIOUS
<1>2. PICK k \in (0 .. n) \ T : \A l \in (0 .. n) \ T : k <= l
  BY <1>1, LeastElement
<1>3. k - 1 \in 0 .. n - 1 /\ k - 1 \in 0 .. n /\ ~(k <= k - 1)
  BY <1>2
<1>4. k - 1 \in T
  BY <1>2, <1>3
<1>. QED  BY <1>2, <1>3, <1>4

(* A loop that starts with base and goes on with step[i] has a run.        *)
Steps(n, S) == [1 .. n -> [S -> S]]
Runs(n, S, base, step) ==
  {f \in [0 .. n -> S] : f[0] = base /\ \A i \in 1 .. n : f[i] = step[i][f[i - 1]]}

LEMMA LoopRuns ==
  ASSUME NEW n \in Nat, NEW S, NEW base \in S, NEW step \in Steps(n, S)
  PROVE  Runs(n, S, base, step) # {}
<1>. DEFINE Run(k, f) == f[0] = base /\ \A i \in 1 .. k : f[i] = step[i][f[i - 1]]
            T == {k \in 0 .. n : \E f \in [0 .. k -> S] : Run(k, f)}
<1>1. 0 \in T
  <2>1. [i \in 0 .. 0 |-> base] \in [0 .. 0 -> S] /\ Run(0, [i \in 0 .. 0 |-> base])
    OBVIOUS
  <2>2. \E f \in [0 .. 0 -> S] : Run(0, f)
    BY <2>1
  <2>. QED  BY <2>2
<1>2. ASSUME NEW k \in 0 .. n - 1, k \in T  PROVE k + 1 \in T
  <2>1. PICK f \in [0 .. k -> S] : Run(k, f)
    BY <1>2
  <2>. DEFINE g == [i \in 0 .. k + 1 |-> IF i = k + 1 THEN step[k + 1][f[k]] ELSE f[i]]
  <2>2. k + 1 \in 1 .. n /\ step[k + 1][f[k]] \in S
    BY DEF Steps
  <2>3. g \in [0 .. k + 1 -> S]
    BY <2>2
  <2>4. Run(k + 1, g)
    BY <2>1
  <2>5. \E h \in [0 .. k + 1 -> S] : Run(k + 1, h)
    BY <2>3, <2>4
  <2>. QED  BY <2>2, <2>5
<1>. HIDE DEF Run
<1>3. 0 .. n \subseteq T
  BY <1>1, <1>2, InductionUpTo
<1>4. n \in T
  BY <1>3
<1>5. \E f \in [0 .. n -> S] : Run(n, f)
  BY <1>4
<1>. QED  BY <1>5 DEF Run, Runs

(* Counting the members of a set of indices, one at a time.                *)
LEMMA OneMore ==
  ASSUME NEW m \in Nat, NEW T, NEW U, T \subseteq 1 .. m,
         U = T \/ U = T \union {m + 1}
  PROVE  /\ IsFiniteSet(T) /\ Cardinality(T) \in Nat
         /\ U = T => Cardinality(U) = Cardinality(T)
         /\ U # T => Cardinality(U) = Cardinality(T) + 1
<1>1. IsFiniteSet(1 .. m)
  BY FS_Interval
<1>2. IsFiniteSet(T)
  BY <1>1, FS_Subset
<1>3. m + 1 \notin T
  OBVIOUS
<1>4. Cardinality(T \union {m + 1}) = Cardinality(T) + 1
  BY <1>2, <1>3, FS_AddElement
<1>. QED  BY <1>2, <1>4, FS_CardinalityType

LEMMA Fewer ==
  ASSUME NEW n \in Nat, NEW T, NEW U, T \subseteq U, U \subseteq 1 .. n
  PROVE  /\ Cardinality(T) \in 0 .. n /\ Cardinality(U) \in 0 .. n
         /\ Cardinality(T) <= Cardinality(U)
         /\ Cardinality(T) = Cardinality(U) => T = U
<1>1. IsFiniteSet(1 .. n) /\ Cardinality(1 .. n) = n
  BY FS_Interval
<1>2. IsFiniteSet(U) /\ Cardinality(U) <= n
  BY <1>1, FS_Subset
<1>3. IsFiniteSet(T) /\ Cardinality(T) <= Cardinality(U) /\ (Cardinality(U) = Cardinality(T) => U = T)
  BY <1>2, FS_Subset
<1>. QED  BY <1>2, <1>3, FS_CardinalityType

-----------------------------------------------------------------------------
(* The statistics: what reset leaves and what each record adds to it.      *)

BucketIndices == 0 .. Buckets - 1
Statistics ==
  [buckets : [BucketIndices -> Nat], count : Nat, sum : Nat, min : 0 .. NoMin, max : 0 .. NoMin]

InBucket(l, m, b) == {i \in 1 .. m : BucketOf(l[i]) = b}

(* What the statistics say of the first m latencies.                       *)
Summary(l, m, a) ==
  /\ a \in Statistics
  /\ a.count = m
  /\ \A b \in BucketIndices : a.buckets[b] = Cardinality(InBucket(l, m, b))
  /\ a.min * m <= a.sum /\ a.sum <= a.max * m
  /\ \A i \in 1 .. m : a.min <= l[i] /\ l[i] <= a.max
  /\ m > 0 => (\E i \in 1 .. m : l[i] = a.min) /\ (\E i \in 1 .. m : l[i] = a.max)
  /\ m = 0 => a = Cleared

LEMMA SamplesAre ==
  /\ BucketUs \in Nat \ {0} /\ Buckets \in Nat \ {0} /\ NoMin \in Nat
  /\ \A us \in Samples : us \in 0 .. NoMin
  BY LatencyAssumption

LEMMA Successors ==
  ASSUME NEW v \in Int, NEW m \in Int
  PROVE  v * (m + 1) = v * m + v
  OBVIOUS

LEMMA BucketIs ==
  ASSUME NEW us \in Nat
  PROVE  /\ us \div BucketUs \in Nat
         /\ BucketOf(us) = IF us \div BucketUs <= Buckets - 1 THEN us \div BucketUs ELSE Buckets - 1
         /\ BucketOf(us) \in BucketIndices
<1>. DEFINE q == us \div BucketUs
<1>1. q \in Nat
  <2>1. 0 \div BucketUs <= q /\ q \in Int
    BY SamplesAre, DivMono, DivBounds
  <2>2. (0 * BucketUs + 0) \div BucketUs = 0 /\ 0 * BucketUs + 0 = 0
    BY SamplesAre, DivIs
  <2>. QED  BY <2>1, <2>2
<1>. HIDE DEF q
<1>2. BucketOf(us) = IF q <= Buckets - 1 THEN q ELSE Buckets - 1
  BY DEF BucketOf, AtMost, q
<1>3. BucketOf(us) \in BucketIndices
  BY <1>1, <1>2, SamplesAre DEF BucketIndices
<1>. QED  BY <1>1, <1>2, <1>3 DEF q

LEMMA BucketsMono ==
  ASSUME NEW us \in Nat, NEW vs \in Nat, us <= vs
  PROVE  BucketOf(us) <= BucketOf(vs)
<1>1. us \div BucketUs <= vs \div BucketUs
  BY SamplesAre, DivMono
<1>. QED  BY <1>1, SamplesAre, BucketIs

LEMMA NoLatencies ==
  ASSUME NEW l
  PROVE  Summary(l, 0, Cleared)
<1>1. Cleared \in Statistics
  BY SamplesAre DEF Cleared, Statistics, BucketIndices
<1>2. ASSUME NEW b  PROVE InBucket(l, 0, b) = {}
  BY DEF InBucket
<1>3. Cardinality({}) = 0
  BY FS_EmptySet
<1>4. NoMin * 0 = 0 /\ 0 * 0 = 0
  BY SamplesAre
<1>. QED  BY <1>1, <1>2, <1>3, <1>4 DEF Summary, Cleared, BucketIndices

LEMMA OneLatencyMore ==
  ASSUME NEW n \in Nat, NEW l \in [1 .. n -> Samples], NEW m \in 0 .. n - 1,
         NEW a, Summary(l, m, a)
  PROVE  Summary(l, m + 1, Recorded(a, l[m + 1]))
<1>. DEFINE us == l[m + 1]
            new == Recorded(a, us)
<1>1. m \in Nat /\ us \in Nat /\ us \in 0 .. NoMin /\ NoMin \in Nat
  BY SamplesAre
<1>2. \A i \in 1 .. m : l[i] \in Nat
  BY SamplesAre
<1>. HIDE DEF us
<1>3. /\ a.buckets \in [BucketIndices -> Nat] /\ a.count = m /\ a.sum \in Nat
      /\ a.min \in 0 .. NoMin /\ a.max \in 0 .. NoMin
  BY DEF Summary, Statistics
<1>4. BucketOf(us) \in BucketIndices
  BY <1>1, BucketIs
<1>5. /\ new.buckets = [a.buckets EXCEPT ![BucketOf(us)] = @ + 1]
      /\ new.count = m + 1 /\ new.sum = a.sum + us
      /\ new.min = IF a.min <= us THEN a.min ELSE us
      /\ new.max = IF us <= a.max THEN a.max ELSE us
  <2>1. /\ new.buckets = [a.buckets EXCEPT ![BucketOf(us)] = @ + 1]
        /\ new.count = a.count + 1 /\ new.sum = a.sum + us
        /\ new.min = AtMost(a.min, us)
        /\ new.max = IF us <= a.max THEN a.max ELSE us
    BY DEF Recorded
  <2>2. AtMost(a.min, us) = IF a.min <= us THEN a.min ELSE us
    BY <1>1, <1>3 DEF AtMost
  <2>. QED  BY <1>3, <2>1, <2>2
<1>6. new \in Statistics
  BY <1>1, <1>3, <1>4 DEF Recorded, AtMost, Statistics
<1>. HIDE DEF new
<1>7. ASSUME NEW b \in BucketIndices
      PROVE  new.buckets[b] = Cardinality(InBucket(l, m + 1, b))
  <2>1. InBucket(l, m + 1, b) = IF BucketOf(us) = b THEN InBucket(l, m, b) \union {m + 1}
                                                     ELSE InBucket(l, m, b)
    BY <1>1 DEF InBucket, us
  <2>2. InBucket(l, m, b) \subseteq 1 .. m /\ m + 1 \notin InBucket(l, m, b)
    BY <1>1 DEF InBucket
  <2>3. Cardinality(InBucket(l, m + 1, b)) =
          IF BucketOf(us) = b THEN Cardinality(InBucket(l, m, b)) + 1
                              ELSE Cardinality(InBucket(l, m, b))
    BY <1>1, <2>1, <2>2, OneMore
  <2>4. a.buckets[b] = Cardinality(InBucket(l, m, b))
    BY DEF Summary
  <2>5. new.buckets[b] = IF BucketOf(us) = b THEN a.buckets[b] + 1 ELSE a.buckets[b]
    BY <1>3, <1>4, <1>5
  <2>. QED  BY <2>3, <2>4, <2>5
<1>8. new.min * (m + 1) <= new.sum /\ new.sum <= new.max * (m + 1)
  <2>. DEFINE low == new.min
              high == new.max
  <2>1. low \in Nat /\ high \in Nat /\ a.min \in Nat /\ a.max \in Nat
    BY <1>6, <1>3, <1>1 DEF Statistics
  <2>2. low <= a.min /\ low <= us /\ a.max <= high /\ us <= high
    BY <1>1, <1>5, <2>1
  <2>. HIDE DEF low, high
  <2>3. low * m <= a.min * m /\ a.max * m <= high * m
    BY <1>1, <2>1, <2>2, Products
  <2>4. low * (m + 1) = low * m + low /\ high * (m + 1) = high * m + high
    BY <1>1, <2>1, Successors
  <2>5. a.min * m <= a.sum /\ a.sum <= a.max * m
    BY DEF Summary
  <2>6. low * m \in Int /\ high * m \in Int /\ a.min * m \in Int /\ a.max * m \in Int
    BY <1>1, <2>1
  <2>7. low * (m + 1) <= a.sum + us
    <3>. DEFINE x == low * m
                y == a.min * m
    <3>1. x \in Int /\ y \in Int /\ x <= y /\ y <= a.sum /\ low * (m + 1) = x + low
      BY <2>3, <2>4, <2>5, <2>6
    <3>. HIDE DEF x, y
    <3>. QED  BY <1>1, <1>3, <2>1, <2>2, <3>1
  <2>8. a.sum + us <= high * (m + 1)
    <3>. DEFINE x == high * m
                y == a.max * m
    <3>1. x \in Int /\ y \in Int /\ y <= x /\ a.sum <= y /\ high * (m + 1) = x + high
      BY <2>3, <2>4, <2>5, <2>6
    <3>. HIDE DEF x, y
    <3>. QED  BY <1>1, <1>3, <2>1, <2>2, <3>1
  <2>. QED  BY <1>5, <2>7, <2>8 DEF low, high
<1>9. \A i \in 1 .. m : a.min <= l[i] /\ l[i] <= a.max
  BY DEF Summary
<1>10. ASSUME NEW i \in 1 .. m + 1  PROVE new.min <= l[i] /\ l[i] <= new.max
  <2>1. CASE i = m + 1
    BY <1>1, <1>3, <1>5, <2>1 DEF us
  <2>2. CASE i \in 1 .. m
    BY <1>1, <1>2, <1>3, <1>5, <1>9, <2>2
  <2>. QED  BY <1>1, <2>1, <2>2
<1>11. m > 0 => (\E i \in 1 .. m : l[i] = a.min) /\ (\E i \in 1 .. m : l[i] = a.max)
  BY DEF Summary
<1>12. m = 0 => a = Cleared
  BY DEF Summary
<1>13. (\E i \in 1 .. m + 1 : l[i] = new.min) /\ (\E i \in 1 .. m + 1 : l[i] = new.max)
  <2>1. m + 1 \in 1 .. m + 1 /\ 1 .. m \subseteq 1 .. m + 1
    BY <1>1
  <2>2. CASE m = 0
    <3>1. a.min = NoMin /\ a.max = 0
      BY <1>12, <2>2 DEF Cleared
    <3>2. new.min = us /\ new.max = us
      BY <1>1, <1>5, <3>1
    <3>. QED  BY <2>1, <3>2 DEF us
  <2>3. CASE m > 0
    BY <1>5, <1>11, <2>1, <2>3 DEF us
  <2>. QED  BY <1>1, <2>2, <2>3
<1>14. new.count = m + 1 /\ m + 1 # 0
  BY <1>1, <1>5
<1>15. Summary(l, m + 1, new)
  BY <1>6, <1>7, <1>8, <1>10, <1>13, <1>14 DEF Summary
<1>. QED  BY <1>15 DEF new, us

LEMMA AfterIs ==
  ASSUME NEW n \in Nat, NEW l \in [1 .. n -> Samples]
  PROVE  Summary(l, n, After(l))
<1>1. Len(l) = n
  OBVIOUS
<1>. DEFINE isRun(f) == f = [k \in 0 .. n |-> IF k = 0 THEN Cleared ELSE Recorded(f[k - 1], l[k])]
            run == CHOOSE f : isRun(f)
            step == [k \in 1 .. n |-> [a \in Statistics |-> Recorded(a, l[k])]]
<1>2. step \in Steps(n, Statistics)
  <2>1. ASSUME NEW k \in 1 .. n, NEW a \in Statistics  PROVE Recorded(a, l[k]) \in Statistics
    <3>1. l[k] \in Nat /\ l[k] \in 0 .. NoMin
      BY SamplesAre
    <3>2. BucketOf(l[k]) \in BucketIndices
      BY <3>1, BucketIs
    <3>. QED  BY <3>1, <3>2 DEF Recorded, Statistics, AtMost
  <2>. QED  BY <2>1 DEF Steps
<1>3. \A k \in 1 .. n, a \in Statistics : step[k][a] = Recorded(a, l[k])
  OBVIOUS
<1>4. Cleared \in Statistics
  BY NoLatencies DEF Summary
<1>. HIDE DEF step, isRun, run
<1>5. Runs(n, Statistics, Cleared, step) # {}
  BY <1>2, <1>4, LoopRuns
<1>6. PICK f \in [0 .. n -> Statistics] :
         f[0] = Cleared /\ \A k \in 1 .. n : f[k] = Recorded(f[k - 1], l[k])
  <2>1. ASSUME NEW f \in [0 .. n -> Statistics], NEW k \in 1 .. n
        PROVE  step[k][f[k - 1]] = Recorded(f[k - 1], l[k])
    BY <1>3
  <2>. QED  BY <1>5, <2>1 DEF Runs
<1>7. isRun(f)
  BY <1>6 DEF isRun
<1>8. isRun(run)
  BY <1>7, Zenon DEF run
<1>9. After(l) = run[n]
  BY <1>1, Zenon DEF After, isRun, run
<1>10. run[0] = Cleared /\ \A k \in 1 .. n : run[k] = Recorded(run[k - 1], l[k])
  <2>1. run = [k \in 0 .. n |-> IF k = 0 THEN Cleared ELSE Recorded(run[k - 1], l[k])]
    BY <1>8, Zenon DEF isRun
  <2>. QED  BY <2>1
<1>. DEFINE T == {k \in 0 .. n : Summary(l, k, run[k])}
<1>11. 0 \in T
  BY <1>10, NoLatencies
<1>12. ASSUME NEW k \in 0 .. n - 1, k \in T  PROVE k + 1 \in T
  <2>1. k + 1 \in 1 .. n /\ k + 1 \in 0 .. n /\ k + 1 - 1 = k
    OBVIOUS
  <2>2. run[k + 1] = Recorded(run[k], l[k + 1])
    BY <1>10, <2>1
  <2>3. Summary(l, k + 1, run[k + 1])
    BY <1>12, <2>2, OneLatencyMore
  <2>. QED  BY <2>1, <2>3
<1>13. n \in T
  <2>1. 0 .. n \subseteq T
    BY <1>11, <1>12, InductionUpTo
  <2>. QED  BY <2>1
<1>. QED  BY <1>9, <1>13

-----------------------------------------------------------------------------
(* The scan of the buckets.                                                *)

SeenUpTo(l, n, b) == {i \in 1 .. n : BucketOf(l[i]) <= b}

LEMMA SeenIs ==
  ASSUME NEW n \in Nat, NEW l \in [1 .. n -> Samples], NEW a, Summary(l, n, a)
  PROVE  \A b \in BucketIndices : Seen(a)[b] = Cardinality(SeenUpTo(l, n, b))
<1>. DEFINE last == Buckets - 1
            isScan(f) == f = [b \in 0 .. Buckets - 1 |->
                                IF b = 0 THEN a.buckets[0] ELSE f[b - 1] + a.buckets[b]]
            scan == CHOOSE f : isScan(f)
            step == [b \in 1 .. last |-> [x \in Nat |-> x + a.buckets[b]]]
<1>1. last \in Nat /\ BucketIndices = 0 .. last /\ last = Buckets - 1
  BY SamplesAre DEF BucketIndices
<1>2. \A b \in 0 .. last : a.buckets[b] = Cardinality(InBucket(l, n, b)) /\ a.buckets[b] \in Nat
  BY <1>1 DEF Summary, Statistics
<1>. HIDE DEF last, isScan, scan
<1>3. step \in Steps(last, Nat)
  BY <1>1, <1>2 DEF Steps
<1>4. \A b \in 1 .. last, x \in Nat : step[b][x] = x + a.buckets[b]
  OBVIOUS
<1>. HIDE DEF step
<1>5. a.buckets[0] \in Nat
  BY <1>1, <1>2
<1>6. Runs(last, Nat, a.buckets[0], step) # {}
  BY <1>1, <1>3, <1>5, LoopRuns
<1>7. PICK f \in [0 .. last -> Nat] :
         f[0] = a.buckets[0] /\ \A b \in 1 .. last : f[b] = f[b - 1] + a.buckets[b]
  <2>1. ASSUME NEW f \in [0 .. last -> Nat], NEW b \in 1 .. last
        PROVE  step[b][f[b - 1]] = f[b - 1] + a.buckets[b]
    BY <1>1, <1>4
  <2>. QED  BY <1>6, <2>1 DEF Runs
<1>8. isScan(f)
  BY <1>1, <1>7 DEF isScan
<1>9. isScan(scan)
  BY <1>8, Zenon DEF scan
<1>10. Seen(a) = scan
  BY Zenon DEF Seen, isScan, scan
<1>11. scan[0] = a.buckets[0] /\ \A b \in 1 .. last : scan[b] = scan[b - 1] + a.buckets[b]
  <2>1. scan = [b \in 0 .. Buckets - 1 |-> IF b = 0 THEN a.buckets[0] ELSE scan[b - 1] + a.buckets[b]]
    BY <1>9, Zenon DEF isScan
  <2>. QED  BY <1>1, <2>1
<1>12. \A i \in 1 .. n : BucketOf(l[i]) \in 0 .. last
  <2>1. \A i \in 1 .. n : l[i] \in Nat
    BY SamplesAre
  <2>. QED  BY <1>1, <2>1, BucketIs
<1>. DEFINE T == {b \in 0 .. last : scan[b] = Cardinality(SeenUpTo(l, n, b))}
<1>13. 0 \in T
  <2>1. SeenUpTo(l, n, 0) = InBucket(l, n, 0)
    BY <1>1, <1>12 DEF SeenUpTo, InBucket
  <2>. QED  BY <1>1, <1>2, <1>11, <2>1
<1>14. ASSUME NEW b \in 0 .. last - 1, b \in T  PROVE b + 1 \in T
  <2>. DEFINE S == SeenUpTo(l, n, b)
              U == InBucket(l, n, b + 1)
  <2>1. b + 1 \in 1 .. last /\ b + 1 \in 0 .. last /\ b + 1 - 1 = b /\ b \in Nat
    BY <1>1
  <2>2. SeenUpTo(l, n, b + 1) = S \union U /\ S \intersect U = {}
    BY <1>1, <1>12 DEF SeenUpTo, InBucket
  <2>3. IsFiniteSet(S) /\ IsFiniteSet(U)
    <3>1. IsFiniteSet(1 .. n)
      BY FS_Interval
    <3>2. S \subseteq 1 .. n /\ U \subseteq 1 .. n
      BY DEF SeenUpTo, InBucket
    <3>. QED  BY <3>1, <3>2, FS_Subset
  <2>. HIDE DEF S, U
  <2>4. Cardinality(S) \in Nat /\ Cardinality(U) \in Nat
    BY <2>3, FS_CardinalityType
  <2>5. Cardinality(S \union U) = Cardinality(S) + Cardinality(U)
    <3>1. Cardinality(S \union U) = Cardinality(S) + Cardinality(U) - Cardinality(S \intersect U)
      BY <2>3, FS_Union
    <3>2. Cardinality(S \intersect U) = 0
      BY <2>2, FS_EmptySet
    <3>. QED  BY <2>4, <3>1, <3>2
  <2>6. scan[b + 1] = scan[b] + a.buckets[b + 1]
    BY <1>11, <2>1
  <2>7. scan[b] = Cardinality(S) /\ a.buckets[b + 1] = Cardinality(U)
    BY <1>2, <1>14, <2>1 DEF S, U
  <2>. QED  BY <2>1, <2>2, <2>5, <2>6, <2>7
<1>15. 0 .. last \subseteq T
  BY <1>1, <1>13, <1>14, InductionUpTo
<1>. QED  BY <1>1, <1>10, <1>15

-----------------------------------------------------------------------------
(* Ranks.                                                                  *)

LEMMA RankSets ==
  ASSUME NEW n \in Nat, NEW l \in [1 .. n -> Samples]
  PROVE  /\ \A i \in 1 .. n : l[i] \in Nat /\ l[i] <= NoMin
         /\ \A v : Below(l, v) = {i \in 1 .. n : l[i] < v} /\ UpTo(l, v) = {i \in 1 .. n : l[i] <= v}
         /\ \A v : Cardinality(Below(l, v)) \in 0 .. n /\ Cardinality(UpTo(l, v)) \in 0 .. n
<1>1. \A i \in 1 .. n : l[i] \in Nat /\ l[i] <= NoMin
  BY SamplesAre
<1>2. \A v : Below(l, v) = {i \in 1 .. n : l[i] < v} /\ UpTo(l, v) = {i \in 1 .. n : l[i] <= v}
  BY DEF Below, UpTo
<1>3. ASSUME NEW v  PROVE Cardinality(Below(l, v)) \in 0 .. n /\ Cardinality(UpTo(l, v)) \in 0 .. n
  <2>1. Below(l, v) \subseteq 1 .. n /\ UpTo(l, v) \subseteq 1 .. n
    BY <1>2
  <2>. QED  BY <2>1, Fewer
<1>. QED  BY <1>1, <1>2, <1>3

(* Every rank is that of a latency.                                        *)
LEMMA RankExists ==
  ASSUME NEW n \in Nat, NEW l \in [1 .. n -> Samples], NEW r \in 1 .. n
  PROVE  \E i \in 1 .. n : HasRank(l, l[i], r)
<1>. DEFINE T == {v \in Nat : r <= Cardinality(UpTo(l, v))}
<1>1. T # {}
  <2>1. UpTo(l, NoMin) = 1 .. n
    BY RankSets
  <2>2. Cardinality(1 .. n) = n
    BY FS_Interval
  <2>. QED  BY <2>1, <2>2, SamplesAre
<1>2. PICK v \in T : \A w \in T : v <= w
  BY <1>1, LeastElement
<1>3. Cardinality(Below(l, v)) < r
  <2>1. CASE v = 0
    <3>1. Below(l, v) = {}
      BY <2>1, RankSets
    <3>2. Cardinality({}) = 0
      BY FS_EmptySet
    <3>. QED  BY <3>1, <3>2
  <2>2. CASE v # 0
    <3>1. v - 1 \in Nat /\ ~(v <= v - 1) /\ v \in Nat
      BY <2>2
    <3>2. ~(r <= Cardinality(UpTo(l, v - 1)))
      BY <1>2, <3>1
    <3>3. Below(l, v) = UpTo(l, v - 1)
      <4>1. \A i \in 1 .. n : l[i] < v <=> l[i] <= v - 1
        BY <3>1, RankSets
      <4>2. Below(l, v) = {i \in 1 .. n : l[i] < v} /\ UpTo(l, v - 1) = {i \in 1 .. n : l[i] <= v - 1}
        BY RankSets
      <4>. QED  BY <4>1, <4>2
    <3>4. Cardinality(UpTo(l, v - 1)) \in 0 .. n
      BY RankSets
    <3>. QED  BY <3>2, <3>3, <3>4
  <2>. QED  BY <2>1, <2>2
<1>4. r <= Cardinality(UpTo(l, v))
  BY <1>2
<1>5. \E i \in 1 .. n : l[i] = v
  <2>1. SUFFICES ASSUME \A i \in 1 .. n : l[i] # v  PROVE FALSE
    OBVIOUS
  <2>2. UpTo(l, v) = Below(l, v)
    <3>1. \A i \in 1 .. n : l[i] <= v <=> l[i] < v
      BY <2>1, RankSets
    <3>2. UpTo(l, v) = {i \in 1 .. n : l[i] <= v} /\ Below(l, v) = {i \in 1 .. n : l[i] < v}
      BY RankSets
    <3>. QED  BY <3>1, <3>2
  <2>3. Cardinality(Below(l, v)) \in 0 .. n
    BY RankSets
  <2>. QED  BY <1>3, <1>4, <2>2, <2>3
<1>. QED  BY <1>3, <1>4, <1>5 DEF HasRank

LEMMA ExtremesAreRanks ==
  ASSUME NEW n \in Nat \ {0}, NEW l \in [1 .. n -> Samples],
         NEW v, NEW k \in 1 .. n, l[k] = v
  PROVE  /\ (\A i \in 1 .. n : v <= l[i]) => HasRank(l, v, 1)
         /\ (\A i \in 1 .. n : l[i] <= v) => HasRank(l, v, n)
<1>1. n \in Nat /\ v \in Nat /\ \A i \in 1 .. n : l[i] \in Nat
  BY RankSets
<1>2. Cardinality({}) = 0 /\ Cardinality(1 .. n) = n
  BY FS_EmptySet, FS_Interval
<1>3. UpTo(l, v) \subseteq 1 .. n /\ {} \subseteq UpTo(l, v) /\ UpTo(l, v) # {}
  BY <1>1, RankSets
<1>4. Cardinality(UpTo(l, v)) \in 0 .. n /\ Cardinality(UpTo(l, v)) # 0
  BY <1>1, <1>2, <1>3, Fewer
<1>5. ASSUME \A i \in 1 .. n : v <= l[i]  PROVE HasRank(l, v, 1)
  <2>1. Below(l, v) = {}
    BY <1>1, <1>5, RankSets
  <2>. QED  BY <1>1, <1>2, <1>4, <2>1 DEF HasRank
<1>6. ASSUME \A i \in 1 .. n : l[i] <= v  PROVE HasRank(l, v, n)
  <2>1. UpTo(l, v) = 1 .. n
    <3>1. UpTo(l, v) = {i \in 1 .. n : l[i] <= v}
      BY RankSets
    <3>. QED  BY <1>6, <3>1
  <2>2. Below(l, v) \subseteq 1 .. n /\ 1 .. n \subseteq 1 .. n /\ Below(l, v) # 1 .. n
    BY <1>1, RankSets
  <2>3. Cardinality(Below(l, v)) <= Cardinality(1 .. n) /\ Cardinality(Below(l, v)) # Cardinality(1 .. n)
        /\ Cardinality(Below(l, v)) \in 0 .. n
    BY <1>1, <2>2, Fewer
  <2>. QED  BY <1>1, <1>2, <2>1, <2>3 DEF HasRank
<1>. QED  BY <1>5, <1>6

-----------------------------------------------------------------------------
(* What is printed.                                                        *)

(* The first bucket at which r latencies have been seen is that of the     *)
(* r-th smallest.                                                          *)
LEMMA FirstReached ==
  ASSUME NEW n \in Nat, NEW l \in [1 .. n -> Samples], NEW a, Summary(l, n, a),
         NEW r \in 1 .. n, NEW us \in Nat, HasRank(l, us, r)
  PROVE  /\ BucketOf(us) \in BucketIndices
         /\ \A b \in BucketIndices : Seen(a)[b] \in Nat /\ (Seen(a)[b] >= r <=> BucketOf(us) <= b)
<1>1. BucketOf(us) \in BucketIndices /\ \A b \in BucketIndices : b \in Nat
  BY BucketIs, SamplesAre DEF BucketIndices
<1>2. \A i \in 1 .. n : l[i] \in Nat /\ BucketOf(l[i]) \in Nat
  BY <1>1, RankSets, BucketIs
<1>3. /\ Below(l, us) = {i \in 1 .. n : l[i] < us} /\ UpTo(l, us) = {i \in 1 .. n : l[i] <= us}
      /\ Cardinality(Below(l, us)) \in 0 .. n /\ Cardinality(UpTo(l, us)) \in 0 .. n
  BY RankSets
<1>4. ASSUME NEW b \in BucketIndices
      PROVE  Seen(a)[b] \in Nat /\ (Seen(a)[b] >= r <=> BucketOf(us) <= b)
  <2>. DEFINE S == SeenUpTo(l, n, b)
  <2>1. Seen(a)[b] = Cardinality(S) /\ S \subseteq 1 .. n
    BY SeenIs DEF SeenUpTo
  <2>. DEFINE first == BucketOf(us)
  <2>4. b \in Nat /\ first \in Nat
    BY <1>1
  <2>. HIDE DEF first
  <2>2. CASE BucketOf(us) <= b
    <3>1. ASSUME NEW i \in 1 .. n, l[i] <= us  PROVE BucketOf(l[i]) <= b
      <4>1. BucketOf(l[i]) <= BucketOf(us)
        BY <1>2, <3>1, BucketsMono
      <4>. QED  BY <1>2, <2>2, <2>4, <4>1 DEF first
    <3>2. UpTo(l, us) \subseteq S
      BY <1>3, <3>1 DEF SeenUpTo
    <3>3. Cardinality(UpTo(l, us)) <= Cardinality(S) /\ Cardinality(S) \in 0 .. n
      BY <2>1, <3>2, Fewer
    <3>4. r <= Cardinality(UpTo(l, us))
      BY DEF HasRank
    <3>. QED  BY <1>3, <2>1, <2>2, <3>3, <3>4
  <2>3. CASE ~(BucketOf(us) <= b)
    <3>1. ASSUME NEW i \in 1 .. n, BucketOf(l[i]) <= b  PROVE l[i] < us
      <4>1. us <= l[i] => BucketOf(us) <= BucketOf(l[i])
        BY <1>2, BucketsMono
      <4>. QED  BY <1>2, <2>3, <2>4, <3>1, <4>1 DEF first
    <3>2. S \subseteq Below(l, us) /\ Below(l, us) \subseteq 1 .. n
      BY <1>3, <3>1 DEF SeenUpTo
    <3>3. Cardinality(S) <= Cardinality(Below(l, us)) /\ Cardinality(S) \in 0 .. n
      BY <3>2, Fewer
    <3>4. Cardinality(Below(l, us)) < r
      BY DEF HasRank
    <3>. QED  BY <1>3, <2>1, <2>3, <3>3, <3>4
  <2>. QED  BY <2>2, <2>3
<1>. QED  BY <1>1, <1>4

(* The rank of a percentile, rounded up.                                   *)
LEMMA PercentRank ==
  ASSUME NEW n \in Nat \ {0}, NEW p \in 1 .. 100
  PROVE  /\ p * n \in Nat /\ (p * n + 99) \div 100 \in 1 .. n
         /\ \A s \in Nat : 100 * s >= p * n <=> s >= (p * n + 99) \div 100
<1>. DEFINE share == p * n
            r == (share + 99) \div 100
            m == (share + 99) % 100
<1>1. share \in Nat /\ 1 <= share /\ share <= 100 * n
  <2>1. 1 * n <= p * n /\ p * n <= 100 * n /\ p * n \in Int
    BY Products
  <2>. QED  BY <2>1
<1>. HIDE DEF share
<1>2. r \in Int /\ m \in 0 .. 99 /\ share + 99 = 100 * r + m
  BY <1>1
<1>. HIDE DEF r, m
<1>3. r \in 1 .. n
  BY <1>1, <1>2
<1>4. \A s \in Nat : 100 * s >= share <=> s >= r
  BY <1>1, <1>2
<1>. QED  BY <1>1, <1>3, <1>4 DEF share, r

(* percentile_us, for any percentile above 0.                              *)
LEMMA PercentileIs ==
  ASSUME NEW n \in Nat \ {0}, NEW l \in [1 .. n -> Samples], NEW a, Summary(l, n, a),
         NEW pct \in Nat \ {0}
  PROVE  \E us \in Samples :
           LET edge == PercentileUs(a, pct)
               share == AtMost(100, pct) * n
           IN  /\ HasRank(l, us, (share + 99) \div 100)
               /\ IF us < Buckets * BucketUs
                    THEN us < edge /\ edge <= us + BucketUs
                    ELSE edge = Buckets * BucketUs
<1>. DEFINE p == AtMost(100, pct)
            share == p * n
            r == (share + 99) \div 100
            edge == PercentileUs(a, pct)
<1>1. p \in 1 .. 100
  BY DEF AtMost
<1>. HIDE DEF p
<1>2. share \in Nat /\ r \in 1 .. n /\ \A s \in Nat : 100 * s >= share <=> s >= r
  BY <1>1, PercentRank
<1>. HIDE DEF share
<1>3. PICK i \in 1 .. n : HasRank(l, l[i], r)
  BY <1>2, RankExists
<1>. HIDE DEF r
<1>. DEFINE us == l[i]
            first == BucketOf(us)
            reached == {b \in 0 .. Buckets - 1 : 100 * Seen(a)[b] >= share}
<1>4. us \in Samples /\ us \in Nat /\ HasRank(l, us, r)
  BY <1>3, SamplesAre
<1>. HIDE DEF us
<1>5. /\ first \in BucketIndices
      /\ \A b \in BucketIndices : Seen(a)[b] \in Nat /\ (Seen(a)[b] >= r <=> first <= b)
  BY <1>2, <1>4, FirstReached
<1>. HIDE DEF first
<1>6. reached = {b \in BucketIndices : first <= b}
  BY <1>2, <1>5 DEF BucketIndices
<1>7. a.count = n /\ a.count # 0
  BY DEF Summary
<1>8. edge = (1 + CHOOSE b \in reached : \A c \in reached : b <= c) * BucketUs
  BY <1>7 DEF PercentileUs, share, p
<1>. HIDE DEF reached, edge
<1>9. edge = (1 + first) * BucketUs
  <2>1. first \in reached /\ \A c \in reached : first <= c
    BY <1>5, <1>6, SamplesAre DEF BucketIndices
  <2>2. ASSUME NEW b \in reached, \A c \in reached : b <= c  PROVE b = first
    <3>1. b <= first /\ first <= b
      BY <2>1, <2>2
    <3>2. b \in Int /\ first \in Int
      BY <1>5, <1>6, SamplesAre DEF BucketIndices
    <3>. QED  BY <3>1, <3>2
  <2>3. (CHOOSE b \in reached : \A c \in reached : b <= c) = first
    BY <2>1, <2>2
  <2>. QED  BY <1>8, <2>3
<1>. DEFINE q == us \div BucketUs
            m == us % BucketUs
<1>. HIDE DEF q, m
<1>10. q \in Nat /\ first = IF q <= Buckets - 1 THEN q ELSE Buckets - 1
  BY <1>4, BucketIs DEF first, q
<1>11. m \in 0 .. BucketUs - 1 /\ us = q * BucketUs + m
  <2>1. us \in Int /\ BucketUs \in Nat \ {0}
    BY <1>4, SamplesAre
  <2>. QED  BY <2>1, DivBounds DEF q, m
<1>. DEFINE good(v) == /\ HasRank(l, v, r)
                       /\ IF v < Buckets * BucketUs
                            THEN v < edge /\ edge <= v + BucketUs
                            ELSE edge = Buckets * BucketUs
<1>12. ASSUME us < Buckets * BucketUs  PROVE good(us)
  <2>1. q <= Buckets - 1
    <3>1. Buckets <= q => Buckets * BucketUs <= q * BucketUs
      BY <1>10, SamplesAre, Products
    <3>2. Buckets * BucketUs \in Int /\ q * BucketUs \in Int
      BY <1>10, SamplesAre
    <3>. QED  BY <1>4, <1>10, <1>11, <1>12, <3>1, <3>2, SamplesAre
  <2>2. edge = q * BucketUs + BucketUs /\ q * BucketUs \in Int
    BY <1>9, <1>10, <2>1, SamplesAre
  <2>3. us < edge /\ edge <= us + BucketUs
    BY <1>4, <1>11, <2>2, SamplesAre
  <2>. QED  BY <1>4, <1>12, <2>3
<1>13. ASSUME ~(us < Buckets * BucketUs)  PROVE good(us)
  <2>1. ~(q <= Buckets - 1)
    <3>1. q <= Buckets - 1 => q * BucketUs <= (Buckets - 1) * BucketUs
      BY <1>10, SamplesAre, Products
    <3>2. Buckets * BucketUs \in Int /\ q * BucketUs \in Int
          /\ (Buckets - 1) * BucketUs = Buckets * BucketUs - BucketUs
      BY <1>10, SamplesAre
    <3>. QED  BY <1>4, <1>10, <1>11, <1>13, <3>1, <3>2, SamplesAre
  <2>2. edge = Buckets * BucketUs
    BY <1>9, <1>10, <2>1, SamplesAre
  <2>. QED  BY <1>4, <1>13, <2>2
<1>14. \E v \in Samples : good(v)
  BY <1>4, <1>12, <1>13
<1>. QED  BY <1>14 DEF r, share, p, edge

LEMMA MeanIs ==
  ASSUME NEW n \in Nat \ {0}, NEW low \in Nat, NEW high \in Nat, NEW sum \in Nat,
         low * n <= sum, sum <= high * n
  PROVE  low <= sum \div n /\ sum \div n <= high
<1>1. (low * n + 0) \div n = low /\ (high * n + 0) \div n = high
  BY DivIs
<1>2. low * n \in Int /\ high * n \in Int /\ low * n + 0 = low * n /\ high * n + 0 = high * n
  OBVIOUS
<1>3. (low * n) \div n <= sum \div n /\ sum \div n <= (high * n) \div n
  BY <1>2, DivMono
<1>. QED  BY <1>1, <1>2, <1>3

(* Whatever latencies are recorded, in whatever order and number: the      *)
(* extremes printed are theirs, the mean lies between them, and the        *)
(* percentiles are at most one bucket off.                                 *)
LEMMA AllIsFaithful ==
  ASSUME NEW n \in Nat, NEW l \in [1 .. n -> Samples]
  PROVE  Faithful(l)
<1>. DEFINE a == After(l)
<1>1. Len(l) = n
  OBVIOUS
<1>2. Summary(l, n, a)
  BY AfterIs
<1>. HIDE DEF a
<1>3. a.count = n /\ a.min \in Nat /\ a.max \in Nat /\ a.sum \in Nat
  BY <1>2, SamplesAre DEF Summary, Statistics
<1>4. CASE n = 0
  <2>1. a = Cleared
    BY <1>2, <1>4 DEF Summary
  <2>2. MinUs(a) = 0 /\ MeanUs(a) = 0 /\ a.max = 0 /\ PercentileUs(a, 99) = 0
    BY <2>1 DEF MinUs, MeanUs, PercentileUs, Cleared
  <2>. QED  BY <1>1, <1>4, <2>2 DEF Faithful, a
<1>5. CASE n # 0
  <2>1. MinUs(a) = a.min /\ MeanUs(a) = a.sum \div n
    BY <1>3, <1>5 DEF MinUs, MeanUs
  <2>2. HasRank(l, a.min, 1) /\ HasRank(l, a.max, n)
    <3>1. (\A i \in 1 .. n : a.min <= l[i]) /\ (\A i \in 1 .. n : l[i] <= a.max)
      BY <1>2 DEF Summary
    <3>2. (\E i \in 1 .. n : l[i] = a.min) /\ (\E i \in 1 .. n : l[i] = a.max)
      BY <1>2, <1>5 DEF Summary
    <3>. QED  BY <1>5, <3>1, <3>2, ExtremesAreRanks
  <2>3. a.min <= a.sum \div n /\ a.sum \div n <= a.max
    BY <1>2, <1>3, <1>5, MeanIs DEF Summary
  <2>4. \A pct \in {1, 50, 99, 100, 150} :
          \E us \in Samples :
            LET edge == PercentileUs(a, pct)
                share == AtMost(100, pct) * n
            IN  /\ HasRank(l, us, (share + 99) \div 100)
                /\ IF us < Buckets * BucketUs
                     THEN us < edge /\ edge <= us + BucketUs
                     ELSE edge = Buckets * BucketUs
    BY <1>2, <1>5, PercentileIs
  <2>. QED  BY <1>1, <1>5, <2>1, <2>2, <2>3, <2>4 DEF Faithful, a
<1>. QED  BY <1>4, <1>5

(* What is printed of the latencies is true of them, for any number and    *)
(* width of buckets and any number of latencies of any size (record,       *)
(* percentile_us).                                                         *)
THEOREM PrintedIsTrue == Spec => []PercentilesAreRanks
<1>1. SlotsInv => PercentilesAreRanks
  <2>. SUFFICES ASSUME SlotsInv  PROVE PercentilesAreRanks
    OBVIOUS
  <2>1. AtMost(MaxSamples, count) \in 0 .. MaxSamples
    BY LatencyAssumption, LayoutAssumption DEF AtMost, SlotsInv, TypeOK
  <2>2. \A n \in 0 .. MaxSamples : FaithfulOf[n]
    BY AllIsFaithful DEF FaithfulOf
  <2>. QED  BY <2>1, <2>2 DEF PercentilesAreRanks
<1>. QED  BY <1>1, SlotsAlways, PTL
=============================================================================

---------------------------- MODULE LayoutProofs ----------------------------
(***************************************************************************)
(* For every screen, every layout and every number of instances: the slots *)
(* stay 0 .. n-1, each taken once; windows do not overlap and leave no     *)
(* pixel of the screen free; a mirrored click lands in its window; no two  *)
(* pixels share an absolute coordinate.                                    *)
(***************************************************************************)
EXTENDS Layout, TLAPS

-----------------------------------------------------------------------------
(* Arithmetic.                                                             *)

LEMMA DivIs ==
  ASSUME NEW b \in Nat \ {0}, NEW q \in Int, NEW r \in 0 .. b - 1
  PROVE  (q * b + r) \div b = q /\ (q * b + r) % b = r
  OBVIOUS

LEMMA DivBounds ==
  ASSUME NEW a \in Int, NEW b \in Nat \ {0}
  PROVE  /\ a \div b \in Int /\ a % b \in 0 .. b - 1
         /\ a = (a \div b) * b + (a % b)
  OBVIOUS

LEMMA DivMono ==
  ASSUME NEW a \in Int, NEW c \in Int, a <= c, NEW b \in Nat \ {0}
  PROVE  a \div b <= c \div b
  OBVIOUS

LEMMA Products ==
  ASSUME NEW a \in Int, NEW b \in Int, NEW c \in Nat, a <= b
  PROVE  a * c \in Int /\ b * c \in Int /\ a * c <= b * c
  OBVIOUS

LEMMA MinIs ==
  ASSUME NEW a \in Int, NEW b \in Int
  PROVE  Min({a, b}) = IF a <= b THEN a ELSE b
<1>1. \E x \in {a, b} : \A y \in {a, b} : x <= y
  OBVIOUS
<1>2. Min({a, b}) \in {a, b} /\ \A y \in {a, b} : Min({a, b}) <= y
  BY <1>1 DEF Min
<1>. QED  BY <1>2

LEMMA MaxIs ==
  ASSUME NEW a \in Int, NEW b \in Int
  PROVE  Max({a, b}) = IF a >= b THEN a ELSE b
<1>1. \E x \in {a, b} : \A y \in {a, b} : x >= y
  OBVIOUS
<1>2. Max({a, b}) \in {a, b} /\ \A y \in {a, b} : Max({a, b}) >= y
  BY <1>1 DEF Max
<1>. QED  BY <1>2

-----------------------------------------------------------------------------
(* The slots.                                                              *)

SlotsInv == TypeOK /\ SlotsCompact

LEMMA SlotsStart == Init => SlotsInv
  BY LayoutAssumption DEF Init, SlotsInv, TypeOK, SlotsCompact, Instances

LEMMA SwapKeepsSlots ==
  ASSUME SlotsInv, NEW i, NEW j, Swap(i, j)
  PROVE  SlotsInv'
<1>1. CASE ~({i, j} \subseteq Instances)
  BY <1>1 DEF SlotsInv, TypeOK, SlotsCompact, Instances, Swap
<1>2. CASE {i, j} \subseteq Instances
  <2>. DEFINE back(k) == IF k = i THEN j ELSE IF k = j THEN i ELSE k
  <2>1. Instances' = Instances
    BY DEF Instances, Swap
  <2>2. \A k \in Instances : back(k) \in Instances /\ slot_of'[k] = slot_of[back(k)]
    BY <1>2 DEF Swap, SlotsInv, TypeOK
  <2>3. \A k, l \in Instances : back(k) = back(l) => k = l
    OBVIOUS
  <2>4. \A k \in Instances : slot_of'[back(k)] = slot_of[k]
    BY <1>2 DEF Swap, SlotsInv, TypeOK
  <2>. HIDE DEF back
  <2>5. TypeOK'
    BY <1>2, <2>1 DEF Swap, SlotsInv, TypeOK
  <2>6. \A k, l \in Instances : slot_of'[k] = slot_of'[l] => k = l
    BY <2>2, <2>3 DEF SlotsInv, SlotsCompact
  <2>7. {slot_of'[k] : k \in Instances} = Instances
    BY <2>2, <2>4 DEF SlotsInv, SlotsCompact
  <2>. QED  BY <2>1, <2>5, <2>6, <2>7 DEF SlotsInv, SlotsCompact
<1>. QED  BY <1>1, <1>2

LEMMA EraseKeepsSlots ==
  ASSUME SlotsInv, NEW i, Erase(i)
  PROVE  SlotsInv'
<1>. DEFINE was(j) == IF j < i THEN j ELSE j + 1
            moved(s) == IF s > slot_of[i] THEN s - 1 ELSE s
<1>1. /\ i \in Instances /\ Instances = 0 .. count - 1 /\ Instances' = 0 .. count - 2
      /\ count \in Nat /\ count <= MaxInstances /\ count' = count - 1
      /\ MaxInstances \in Nat
  BY LayoutAssumption DEF SlotsInv, TypeOK, Erase, Instances
<1>2. \A j \in Instances' : was(j) \in Instances \ {i} /\ slot_of'[j] = moved(slot_of[was(j)])
  BY <1>1 DEF Erase
<1>3. \A k \in Instances : slot_of[k] \in Instances
  BY DEF SlotsInv, SlotsCompact
<1>4. \A k \in Instances \ {i} : slot_of[k] # slot_of[i] /\ moved(slot_of[k]) \in Instances'
  BY <1>1, <1>3 DEF SlotsInv, SlotsCompact
<1>5. \A k, l \in Instances \ {i} : moved(slot_of[k]) = moved(slot_of[l]) => k = l
  <2>. SUFFICES ASSUME NEW k \in Instances \ {i}, NEW l \in Instances \ {i},
                       moved(slot_of[k]) = moved(slot_of[l])
                PROVE  k = l
    OBVIOUS
  <2>1. slot_of[k] \in Int /\ slot_of[l] \in Int /\ slot_of[i] \in Int
    BY <1>1, <1>3
  <2>2. slot_of[k] # slot_of[i] /\ slot_of[l] # slot_of[i]
    BY <1>4
  <2>3. slot_of[k] = slot_of[l]
    BY <2>1, <2>2
  <2>. QED  BY <2>3 DEF SlotsInv, SlotsCompact
<1>6. \A j, l \in Instances' : was(j) = was(l) => j = l
  BY <1>1
<1>7. ASSUME NEW s \in Instances'
      PROVE  \E j \in Instances' : slot_of'[j] = s
  <2>. DEFINE t == IF s < slot_of[i] THEN s ELSE s + 1
  <2>1. t \in Instances /\ t # slot_of[i] /\ moved(t) = s
    BY <1>1, <1>3
  <2>2. PICK k \in Instances : slot_of[k] = t
    BY <2>1 DEF SlotsInv, SlotsCompact
  <2>. DEFINE j == IF k < i THEN k ELSE k - 1
  <2>3. k # i
    BY <2>1, <2>2
  <2>4. j \in Instances' /\ was(j) = k
    BY <1>1, <2>3
  <2>. QED  BY <1>2, <2>1, <2>2, <2>4
<1>. HIDE DEF was, moved
<1>8. TypeOK'
  <2>1. slot_of' = [j \in Instances' |-> slot_of'[j]]
    BY <1>1 DEF Erase
  <2>2. ASSUME NEW j \in Instances'  PROVE slot_of'[j] \in 0 .. MaxInstances - 1
    <3>1. slot_of'[j] \in Instances'
      BY <1>2, <1>4
    <3>. QED  BY <1>1, <3>1
  <2>3. count' \in 0 .. MaxInstances
    BY <1>1
  <2>. QED  BY <2>1, <2>2, <2>3 DEF SlotsInv, TypeOK, Erase
<1>9. \A k, l \in Instances' : slot_of'[k] = slot_of'[l] => k = l
  BY <1>2, <1>5, <1>6
<1>10. {slot_of'[k] : k \in Instances'} = Instances'
  BY <1>2, <1>4, <1>7
<1>. QED  BY <1>8, <1>9, <1>10 DEF SlotsInv, SlotsCompact

LEMMA SlotsAlways == Spec => []SlotsInv
<1>1. SlotsInv /\ [Next]_vars => SlotsInv'
  <2>. SUFFICES ASSUME SlotsInv, [Next]_vars  PROVE SlotsInv'
    OBVIOUS
  <2>1. ASSUME NEW i, SetMaster(i)  PROVE SlotsInv'
    BY <2>1, SwapKeepsSlots DEF SetMaster
  <2>2. CASE UNCHANGED vars
    BY <2>2 DEF SlotsInv, TypeOK, SlotsCompact, Instances, vars
  <2>. QED  BY <2>1, <2>2, EraseKeepsSlots DEF Next
<1>. QED  BY <1>1, SlotsStart, PTL DEF Spec

(* The type of the layout and of the assignment.                           *)
THEOREM TypeCorrect == Spec => []TypeOK
  BY SlotsAlways, PTL DEF SlotsInv

(* However often instances are promoted and removed, and in whatever       *)
(* order: for any number of them, one is the master and no two share a     *)
(* slot.                                                                   *)
THEOREM OneMaster == Spec => []SlotsCompact
  BY SlotsAlways, PTL DEF SlotsInv

-----------------------------------------------------------------------------
(* Coordinates.                                                            *)

(* Rounding is off by at most one half.                                    *)
LEMMA RoundedIs ==
  ASSUME NEW num \in Int, NEW den \in Nat \ {0}, NEW r \in Rounded(num, den)
  PROVE  r \in Int /\ 2 * num - den <= r * (2 * den) /\ r * (2 * den) <= 2 * num + den
<1>. DEFINE a == 2 * num + den
            b == 2 * den
            q == a \div b
            m == a % b
<1>1. a \in Int /\ b \in Nat \ {0} /\ a = 2 * num + den /\ b = 2 * den
  OBVIOUS
<1>2. r = q \/ (m = 0 /\ r = q - 1)
  BY DEF Rounded
<1>. HIDE DEF a, b
<1>3. q \in Int /\ m \in 0 .. b - 1 /\ a = q * b + m
  BY <1>1, DivBounds
<1>. HIDE DEF q, m
<1>4. q * b \in Int /\ (q - 1) * b = q * b - b
  BY <1>1, <1>3
<1>5. r \in Int /\ a - b <= r * b /\ r * b <= a
  BY <1>1, <1>2, <1>3, <1>4
<1>6. r \in Int /\ 2 * num - den <= r * b /\ r * b <= 2 * num + den
  BY <1>1, <1>5
<1>. QED  BY <1>6 DEF b

LEMMA RoundedNat ==
  ASSUME NEW num \in Nat, NEW den \in Nat \ {0}, NEW r \in Rounded(num, den)
  PROVE  r \in Nat
<1>. DEFINE b == 2 * den
<1>1. b \in Nat \ {0} /\ b = 2 * den
  OBVIOUS
<1>2. r \in Int /\ 2 * num - den <= r * b
  BY RoundedIs
<1>. HIDE DEF b
<1>3. r * b \in Int /\ (r <= -1 => r * b <= 0 - b)
  BY <1>1, <1>2
<1>. DEFINE z == r * b
<1>. HIDE DEF z
<1>4. z \in Int /\ 2 * num - den <= z /\ (r <= -1 => z <= 0 - b)
  BY <1>2, <1>3 DEF z
<1>. QED  BY <1>1, <1>2, <1>4

(* What is a whole number already is kept.                                 *)
LEMMA RoundedWhole ==
  ASSUME NEW q \in Int, NEW den \in Nat \ {0}
  PROVE  Rounded(q * den, den) = {q}
<1>. DEFINE b == 2 * den
            e == q * den
<1>1. b \in Nat \ {0} /\ b = 2 * den /\ e \in Int
  OBVIOUS
<1>2. 2 * e = q * b
  OBVIOUS
<1>. HIDE DEF b
<1>3. (q * b + den) \div b = q /\ (q * b + den) % b = den
  BY <1>1, DivIs
<1>4. (2 * e + den) \div b = q /\ (2 * e + den) % b # 0
  BY <1>2, <1>3
<1>. HIDE DEF e
<1>5. Rounded(e, den) = {q}
  BY <1>4 DEF Rounded, b
<1>. QED  BY <1>5 DEF e

LEMMA ClampIs ==
  ASSUME NEW v \in Int, NEW high \in Nat
  PROVE  /\ Clamp(v, 0, high) \in 0 .. high
         /\ v \in 0 .. high => Clamp(v, 0, high) = v
<1>1. Min({v, high}) = IF v <= high THEN v ELSE high
  BY MinIs
<1>2. Max({0, Min({v, high})}) = IF 0 >= Min({v, high}) THEN 0 ELSE Min({v, high})
  BY <1>1, MaxIs
<1>. QED  BY <1>1, <1>2 DEF Clamp

LEMMA AbsIsExact ==
  ASSUME NEW origin \in Int, NEW extent \in 2 .. AbsMax
  PROVE  LET abs(v) == ToAbsolute(origin, extent, origin + v)
         IN  /\ abs(0) = {0} /\ abs(extent - 1) = {AbsMax}
             /\ \A u, v \in 0 .. extent - 1 : u # v => abs(u) \intersect abs(v) = {}
<1>. DEFINE abs(v) == ToAbsolute(origin, extent, origin + v)
            den == extent - 1
<1>1. AbsMax \in Nat /\ den \in Nat \ {0} /\ den = extent - 1 /\ den < AbsMax
  BY LayoutAssumption
<1>. HIDE DEF den
<1>2. ASSUME NEW v \in 0 .. den  PROVE abs(v) = Rounded(v * AbsMax, den)
  <2>1. Clamp(v, 0, den) = v
    BY <1>1, ClampIs
  <2>2. origin + v - origin = v
    BY <1>1
  <2>. QED  BY <1>1, <2>1, <2>2 DEF ToAbsolute
<1>3. abs(0) = {0}
  <2>1. 0 * AbsMax = 0 * den
    BY <1>1
  <2>2. Rounded(0 * den, den) = {0}
    BY <1>1, RoundedWhole
  <2>. QED  BY <1>1, <1>2, <2>1, <2>2
<1>4. abs(den) = {AbsMax}
  <2>1. den * AbsMax = AbsMax * den
    BY <1>1
  <2>2. Rounded(AbsMax * den, den) = {AbsMax}
    BY <1>1, RoundedWhole
  <2>. QED  BY <1>1, <1>2, <2>1, <2>2
<1>5. ASSUME NEW u \in 0 .. den, NEW v \in 0 .. den, u < v, NEW r, r \in abs(u), r \in abs(v)
      PROVE  FALSE
  <2>. DEFINE x == u * AbsMax
              y == v * AbsMax
              z == r * (2 * den)
  <2>1. x \in Int /\ y \in Int
    BY <1>1
  <2>2. r \in Int /\ z <= 2 * x + den /\ 2 * y - den <= z
    BY <1>1, <1>2, <1>5, <2>1, RoundedIs
  <2>3. y >= x + AbsMax
    BY <1>1, <1>5
  <2>4. z \in Int
    BY <1>1, <2>2
  <2>. HIDE DEF x, y, z
  <2>. QED  BY <1>1, <2>1, <2>2, <2>3, <2>4
<1>6. \A u, v \in 0 .. den : u # v => abs(u) \intersect abs(v) = {}
  <2>1. \A u, v \in 0 .. den : u # v => u < v \/ v < u
    BY <1>1
  <2>. QED  BY <1>5, <2>1
<1>. QED  BY <1>1, <1>3, <1>4, <1>6

LEMMA MirroredIs ==
  ASSUME NEW from \in Int, NEW length \in Int, NEW to \in Int, NEW size \in Nat \ {0},
         NEW p \in from .. from + length - 1
  PROVE  Mirrored(from, length, to, size, p) =
           {IF r <= size - 1 THEN to + r ELSE to + size - 1 :
              r \in Rounded((p - from) * size, length)}
<1>1. length \in Nat \ {0} /\ p - from \in 0 .. length - 1 /\ Max({length, 1}) = length
  BY MaxIs
<1>2. Clamp(p - from, 0, length) = p - from /\ (p - from) * size \in Nat
  BY <1>1, ClampIs
<1>3. ASSUME NEW r \in Rounded((p - from) * size, length)
      PROVE  Min({to + r, to + size - 1}) = IF r <= size - 1 THEN to + r ELSE to + size - 1
  <2>1. r \in Int
    BY <1>1, <1>2, <1>3, RoundedNat
  <2>2. Min({to + r, to + size - 1}) = IF to + r <= to + size - 1 THEN to + r ELSE to + size - 1
    BY <2>1, MinIs
  <2>. QED  BY <2>1, <2>2
<1>. DEFINE R == Rounded((p - from) * size, length)
            kept(r) == IF size > 0 THEN Min({to + r, to + size - 1}) ELSE to + r
            den == Max({length, 1})
<1>4. Mirrored(from, length, to, size, p) = {Min({to + r, to + size - 1}) : r \in R}
  <2>1. Mirrored(from, length, to, size, p) =
          {kept(r) : r \in Rounded(Clamp(p - from, 0, den) * size, den)}
    BY DEF Mirrored
  <2>2. Rounded(Clamp(p - from, 0, den) * size, den) = R
    BY <1>1, <1>2
  <2>3. \A r : kept(r) = Min({to + r, to + size - 1})
    OBVIOUS
  <2>. HIDE DEF R, kept
  <2>. QED  BY <2>1, <2>2, <2>3
<1>5. \A r \in R : Min({to + r, to + size - 1}) = IF r <= size - 1 THEN to + r ELSE to + size - 1
  BY <1>3
<1>. HIDE DEF R
<1>6. Mirrored(from, length, to, size, p) =
        {IF r <= size - 1 THEN to + r ELSE to + size - 1 : r \in R}
  BY <1>4, <1>5
<1>. QED  BY <1>6 DEF R

LEMMA MirroredInside ==
  ASSUME NEW from \in Int, NEW length \in Int, NEW to \in Int, NEW size \in Nat \ {0},
         NEW p \in from .. from + length - 1
  PROVE  Mirrored(from, length, to, size, p) \subseteq to .. to + size - 1
<1>1. length \in Nat \ {0} /\ (p - from) * size \in Nat
  OBVIOUS
<1>2. \A r \in Rounded((p - from) * size, length) :
        (IF r <= size - 1 THEN to + r ELSE to + size - 1) \in to .. to + size - 1
  BY <1>1, RoundedNat
<1>. QED  BY <1>2, MirroredIs

LEMMA MirroredKept ==
  ASSUME NEW from \in Int, NEW to \in Int, NEW size \in Int,
         NEW p \in from .. from + size - 1
  PROVE  Mirrored(from, size, to, size, p) = {to + (p - from)}
<1>1. size \in Nat \ {0} /\ p - from \in Int /\ p - from <= size - 1
  OBVIOUS
<1>2. Rounded((p - from) * size, size) = {p - from}
  BY <1>1, RoundedWhole
<1>. DEFINE R == Rounded((p - from) * size, size)
<1>3. Mirrored(from, size, to, size, p) =
        {IF r <= size - 1 THEN to + r ELSE to + size - 1 : r \in R}
  BY <1>1, MirroredIs
<1>4. R = {p - from}
  BY <1>2
<1>. HIDE DEF R
<1>. QED  BY <1>1, <1>3, <1>4

-----------------------------------------------------------------------------
(* The parts of a length.                                                  *)

LEMMA PartIs ==
  ASSUME NEW o \in Int, NEW length \in Nat, NEW n \in Nat \ {0}, NEW k \in 0 .. n - 1
  PROVE  LET p == Part(o, length, k, n)
         IN  /\ p.from \in Int /\ p.size \in Nat
             /\ o <= p.from /\ p.from + p.size <= o + length
             /\ length >= n => p.size > 0
             /\ \A l \in 0 .. n - 1 : k < l => p.from + p.size <= Part(o, length, l, n).from
<1>. DEFINE edge(j) == (length * j) \div n
            p(j) == Part(o, length, j, n)
<1>1. ASSUME NEW j \in Int  PROVE length * j \in Int /\ edge(j) \in Int
  BY <1>1, DivBounds
<1>2. ASSUME NEW j \in Int, NEW l \in Int, j <= l  PROVE edge(j) <= edge(l)
  <2>1. length * j <= length * l
    BY <1>2
  <2>. QED  BY <1>1, <2>1, DivMono
<1>3. edge(0) = 0 /\ edge(n) = length
  <2>1. (0 * n + 0) \div n = 0 /\ (length * n + 0) \div n = length
    BY DivIs
  <2>2. length * 0 = 0 * n + 0 /\ length * n = length * n + 0
    OBVIOUS
  <2>. QED  BY <2>1, <2>2
<1>4. length >= n => edge(k) < edge(k + 1)
  <2>. DEFINE a == length * k
  <2>1. a \in Int /\ length * (k + 1) = a + length
    OBVIOUS
  <2>2. edge(k) = a \div n /\ edge(k + 1) = (a + length) \div n
    BY <2>1
  <2>3. (a + n) \div n = (a \div n) + 1
    <3>. DEFINE q == a \div n
                r == a % n
    <3>1. q \in Int /\ r \in 0 .. n - 1 /\ a = q * n + r
      BY <2>1, DivBounds
    <3>. HIDE DEF q, r
    <3>2. a + n = (q + 1) * n + r
      BY <2>1, <3>1
    <3>3. ((q + 1) * n + r) \div n = q + 1
      BY <3>1, DivIs
    <3>. QED  BY <3>2, <3>3 DEF q
  <2>4. length >= n => (a + n) \div n <= (a + length) \div n
    BY <2>1, DivMono
  <2>5. edge(k) \in Int /\ edge(k + 1) \in Int
    BY <1>1
  <2>. HIDE DEF edge
  <2>. QED  BY <2>2, <2>3, <2>4, <2>5
<1>5. \A j \in 0 .. n - 1 : p(j).from = o + edge(j) /\ p(j).size = edge(j + 1) - edge(j)
  BY DEF Part
<1>. HIDE DEF p, edge
<1>6. /\ p(k).from \in Int /\ p(k).size \in Nat
      /\ o <= p(k).from /\ p(k).from + p(k).size <= o + length
      /\ length >= n => p(k).size > 0
  <2>1. edge(k) \in Int /\ edge(k + 1) \in Int
    BY <1>1
  <2>2. 0 <= edge(k) /\ edge(k) <= edge(k + 1) /\ edge(k + 1) <= length
    BY <1>2, <1>3
  <2>. QED  BY <1>4, <1>5, <2>1, <2>2
<1>7. ASSUME NEW l \in 0 .. n - 1, k < l  PROVE p(k).from + p(k).size <= p(l).from
  <2>1. edge(k) \in Int /\ edge(k + 1) \in Int /\ edge(l) \in Int /\ edge(k + 1) <= edge(l)
    BY <1>1, <1>2, <1>7
  <2>. QED  BY <1>5, <2>1
<1>. QED  BY <1>6, <1>7 DEF p

(* No pixel is lost between the parts of a length: each lies in one.       *)
LEMMA PartCovers ==
  ASSUME NEW o \in Int, NEW length \in Nat, NEW n \in Nat \ {0}, NEW v \in 0 .. length - 1
  PROVE  \E k \in 0 .. n - 1 :
           LET p == Part(o, length, k, n)
           IN  /\ p.from <= o + v /\ o + v < p.from + p.size
               /\ p.from \in Int /\ p.size \in Int
<1>. DEFINE a == v * n + (n - 1)
            k == a \div length
            r == a % length
<1>1. length \in Nat \ {0} /\ v \in Nat /\ v <= length - 1
  OBVIOUS
<1>2. v * n \in Nat
  BY <1>1, Products
<1>3. a \in Nat
  BY <1>2
<1>4. k \in Int /\ r \in 0 .. length - 1 /\ a = k * length + r
  BY <1>1, <1>3, DivBounds
<1>5. a <= n * length - 1
  <2>1. v * n <= (length - 1) * n
    BY <1>1, Products
  <2>2. (length - 1) * n = n * length - n
    BY <1>1
  <2>3. n * length \in Int
    BY <1>1
  <2>. QED  BY <1>2, <2>1, <2>2, <2>3
<1>. HIDE DEF k, r
<1>6. k * length \in Int /\ n * length \in Int
  BY <1>1, <1>4
<1>7. k \in 0 .. n - 1
  <2>1. k >= n => n * length <= k * length
    BY <1>1, <1>4, Products
  <2>2. ~(k >= n)
    BY <1>3, <1>4, <1>5, <1>6, <2>1
  <2>3. k < 0 => (k + 1) * length <= 0 * length
    BY <1>1, <1>4, Products
  <2>4. (k + 1) * length = k * length + length /\ 0 * length = 0
    BY <1>1, <1>4
  <2>5. ~(k < 0)
    BY <1>1, <1>3, <1>4, <1>6, <2>3, <2>4
  <2>. QED  BY <1>4, <2>2, <2>5
<1>8. (length * k) \div n <= v
  <2>1. length * k = k * length
    BY <1>1, <1>4
  <2>2. (length * k) \div n <= a \div n
    BY <1>3, <1>4, <1>6, <2>1, DivMono
  <2>3. a \div n = v
    BY <1>1, DivIs
  <2>. QED  BY <2>2, <2>3
<1>9. v + 1 <= (length * (k + 1)) \div n
  <2>1. length * (k + 1) = k * length + length
    BY <1>1, <1>4
  <2>2. (v + 1) * n + 0 = a + 1
    BY <1>1
  <2>3. (v + 1) * n + 0 <= length * (k + 1) /\ length * (k + 1) \in Int
    BY <1>1, <1>3, <1>4, <1>6, <2>1, <2>2
  <2>4. ((v + 1) * n + 0) \div n <= (length * (k + 1)) \div n
    BY <1>3, <2>2, <2>3, DivMono
  <2>5. ((v + 1) * n + 0) \div n = v + 1
    BY <1>1, DivIs
  <2>. QED  BY <2>4, <2>5
<1>10. (length * k) \div n \in Int /\ (length * (k + 1)) \div n \in Int
  <2>1. length * k \in Int /\ length * (k + 1) \in Int
    BY <1>1, <1>4
  <2>. QED  BY <2>1, DivBounds
<1>. HIDE DEF a
<1>11. LET p == Part(o, length, k, n)
       IN  /\ p.from <= o + v /\ o + v < p.from + p.size
           /\ p.from \in Int /\ p.size \in Int
  BY <1>1, <1>8, <1>9, <1>10 DEF Part
<1>. QED  BY <1>7, <1>11

LEMMA DerivedColsIs ==
  ASSUME NEW n \in 1 .. 32
  PROVE  /\ DerivedCols(n) \in 1 .. n
         /\ DerivedRows(n) \in Nat \ {0}
         /\ \A k \in 0 .. n - 1 : k \div DerivedCols(n) < DerivedRows(n)
<1>1. \E c \in 1 .. n : c * c >= n /\ (c - 1) * (c - 1) < n
  <2>. DEFINE c == IF n = 1 THEN 1 ELSE IF n <= 4 THEN 2 ELSE IF n <= 9 THEN 3
                   ELSE IF n <= 16 THEN 4 ELSE IF n <= 25 THEN 5 ELSE 6
  <2>1. c \in 1 .. n /\ c * c >= n /\ (c - 1) * (c - 1) < n
    OBVIOUS
  <2>. QED  BY <2>1
<1>. DEFINE c == DerivedCols(n)
            rows == DerivedRows(n)
<1>2. c \in 1 .. n
  BY <1>1 DEF DerivedCols
<1>3. rows = (n + c - 1) \div c
  BY DEF DerivedRows
<1>. HIDE DEF c, rows
<1>4. (n - 1 + c) \div c = ((n - 1) \div c) + 1
  <2>. DEFINE q == (n - 1) \div c
              r == (n - 1) % c
  <2>1. q \in Int /\ r \in 0 .. c - 1 /\ n - 1 = q * c + r
    BY <1>2, DivBounds
  <2>. HIDE DEF q, r
  <2>2. n - 1 + c = (q + 1) * c + r
    BY <1>2, <2>1
  <2>3. ((q + 1) * c + r) \div c = q + 1
    BY <1>2, <2>1, DivIs
  <2>. QED  BY <2>2, <2>3 DEF q
<1>5. \A k \in 0 .. n - 1 : k \div c <= (n - 1) \div c /\ k \div c \in Int
  BY <1>2, DivMono, DivBounds
<1>6. (n - 1) \div c \in Int /\ 0 <= (n - 1) \div c
  BY <1>2
<1>7. rows = ((n - 1) \div c) + 1
  BY <1>2, <1>3, <1>4
<1>8. rows \in Nat \ {0} /\ \A k \in 0 .. n - 1 : k \div c < rows
  BY <1>5, <1>6, <1>7
<1>. QED  BY <1>2, <1>8 DEF c, rows

-----------------------------------------------------------------------------
(* The cells of a layout.                                                  *)

Rects == [x : Int, y : Int, w : Int, h : Int]

LEMMA CellIs ==
  ASSUME NEW across, NEW down
  PROVE  LET r == Cell(across, down)
         IN  /\ r.x = across.from /\ r.w = across.size
             /\ r.y = down.from /\ r.h = down.size
             /\ across.from \in Int /\ across.size \in Int
                  /\ down.from \in Int /\ down.size \in Int => r \in Rects
  BY DEF Cell, Rect, Rects

LEMMA GridIs ==
  ASSUME NEW s \in Specs, NEW a \in Areas, NEW n \in 1 .. MaxInstances
  PROVE  LET cols == Cols(s, n)
             rows == Rows(s, n)
         IN  /\ cols \in Nat \ {0} /\ rows \in Nat \ {0}
             /\ s.rows = 0 => /\ cols = DerivedCols(n) /\ rows = DerivedRows(n)
                              /\ \A k \in 0 .. n - 1 : k \div cols < rows
<1>1. n \in 1 .. 32 /\ s.rows \in Nat /\ s.cols \in Nat
  BY LayoutAssumption
<1>2. /\ DerivedCols(n) \in Nat \ {0} /\ DerivedRows(n) \in Nat \ {0}
      /\ \A k \in 0 .. n - 1 : k \div DerivedCols(n) < DerivedRows(n)
  <2>1. /\ DerivedCols(n) \in 1 .. n /\ DerivedRows(n) \in Nat \ {0}
        /\ \A k \in 0 .. n - 1 : k \div DerivedCols(n) < DerivedRows(n)
    BY <1>1, DerivedColsIs
  <2>. QED  BY <1>1, <2>1
<1>3. CASE s.rows = 0 \/ s.cols = 0
  <2>1. Cols(s, n) = DerivedCols(n) /\ Rows(s, n) = DerivedRows(n)
    BY <1>3 DEF Cols, Rows
  <2>. QED  BY <1>2, <2>1
<1>4. CASE ~(s.rows = 0 \/ s.cols = 0)
  BY <1>1, <1>4 DEF Cols, Rows
<1>. QED  BY <1>3, <1>4

(* The cell of slot k.                                                     *)
LEMMA GridCell ==
  ASSUME NEW s \in Specs, NEW a \in Areas, NEW n \in 1 .. MaxInstances, NEW k \in 0 .. n - 1
  PROVE  LET cols == Cols(s, n)
             rows == Rows(s, n)
             r == Grid(s, a, n)[k]
         IN  /\ r \in Rects
             /\ k \div cols < rows =>
                  /\ r = Cell(Part(a.x, a.w, k % cols, cols), Part(a.y, a.h, k \div cols, rows))
                  /\ k % cols \in 0 .. cols - 1 /\ k \div cols \in 0 .. rows - 1
                  /\ Inside(r, a)
                  /\ cols <= a.w /\ rows <= a.h => ~Empty(r)
<1>. DEFINE cols == Cols(s, n)
            rows == Rows(s, n)
            r == Grid(s, a, n)[k]
            across == Part(a.x, a.w, k % cols, cols)
            down == Part(a.y, a.h, k \div cols, rows)
<1>1. cols \in Nat \ {0} /\ rows \in Nat \ {0}
  BY GridIs
<1>2. r = IF k \div cols >= rows THEN Rect(0, 0, 0, 0) ELSE Cell(across, down)
  BY DEF Grid
<1>3. a.x \in Int /\ a.y \in Int /\ a.w \in Nat /\ a.h \in Nat
  BY LayoutAssumption
<1>. HIDE DEF cols, rows, r
<1>4. k % cols \in 0 .. cols - 1 /\ k \div cols \in Nat
  BY <1>1
<1>5. CASE k \div cols >= rows
  BY <1>1, <1>2, <1>4, <1>5 DEF Rect, Rects, r, cols, rows
<1>6. CASE k \div cols < rows
  <2>1. k \div cols \in 0 .. rows - 1
    BY <1>1, <1>4, <1>6
  <2>2. /\ across.from \in Int /\ across.size \in Nat
        /\ a.x <= across.from /\ across.from + across.size <= a.x + a.w
        /\ a.w >= cols => across.size > 0
    BY <1>1, <1>3, <1>4, PartIs
  <2>3. /\ down.from \in Int /\ down.size \in Nat
        /\ a.y <= down.from /\ down.from + down.size <= a.y + a.h
        /\ a.h >= rows => down.size > 0
    BY <1>1, <1>3, <2>1, PartIs
  <2>4. r = Cell(across, down)
    BY <1>1, <1>2, <1>4, <1>6
  <2>. HIDE DEF across, down
  <2>5. /\ r.x = across.from /\ r.w = across.size
        /\ r.y = down.from /\ r.h = down.size /\ r \in Rects
    BY <2>2, <2>3, <2>4, CellIs
  <2>6. Inside(r, a)
    BY <2>2, <2>3, <2>5 DEF Inside
  <2>7. cols <= a.w /\ rows <= a.h => ~Empty(r)
    BY <1>1, <1>3, <2>2, <2>3, <2>5 DEF Empty
  <2>. QED  BY <1>4, <2>1, <2>4, <2>5, <2>6, <2>7 DEF across, down, r, cols, rows
<1>7. k \div cols >= rows \/ k \div cols < rows
  BY <1>1, <1>4
<1>. QED  BY <1>5, <1>6, <1>7

LEMMA GridDisjoint ==
  ASSUME NEW s \in Specs, NEW a \in Areas, NEW n \in 1 .. MaxInstances,
         NEW k \in 0 .. n - 1, NEW l \in 0 .. n - 1, k # l,
         k \div Cols(s, n) < Rows(s, n), l \div Cols(s, n) < Rows(s, n)
  PROVE  Disjoint(Grid(s, a, n)[k], Grid(s, a, n)[l])
<1>. DEFINE cols == Cols(s, n)
            rows == Rows(s, n)
            cell(j) == Grid(s, a, n)[j]
            across(j) == Part(a.x, a.w, j % cols, cols)
            down(j) == Part(a.y, a.h, j \div cols, rows)
<1>1. cols \in Nat \ {0} /\ rows \in Nat \ {0}
  BY GridIs
<1>2. a.x \in Int /\ a.y \in Int /\ a.w \in Nat /\ a.h \in Nat
  BY LayoutAssumption
<1>3. \A j \in {k, l} : /\ j % cols \in 0 .. cols - 1 /\ j \div cols \in 0 .. rows - 1
                        /\ cell(j).x = across(j).from /\ cell(j).w = across(j).size
                        /\ cell(j).y = down(j).from /\ cell(j).h = down(j).size
  BY GridCell, CellIs
<1>. HIDE DEF cols, rows
<1>4. ASSUME NEW i \in {k, l}, NEW j \in {k, l}, i % cols < j % cols
      PROVE  across(i).from + across(i).size <= across(j).from
  BY <1>1, <1>2, <1>3, <1>4, PartIs
<1>5. ASSUME NEW i \in {k, l}, NEW j \in {k, l}, i \div cols < j \div cols
      PROVE  down(i).from + down(i).size <= down(j).from
  BY <1>1, <1>2, <1>3, <1>5, PartIs
<1>6. k % cols # l % cols \/ k \div cols # l \div cols
  <2>1. k = (k \div cols) * cols + (k % cols) /\ l = (l \div cols) * cols + (l % cols)
    <3>1. k \in Int /\ l \in Int
      BY LayoutAssumption
    <3>. QED  BY <1>1, <3>1, DivBounds
  <2>. QED  BY <2>1
<1>7. /\ k % cols \in Int /\ l % cols \in Int
      /\ k \div cols \in Int /\ l \div cols \in Int
  BY <1>3
<1>8. \/ k % cols < l % cols \/ l % cols < k % cols
      \/ k \div cols < l \div cols \/ l \div cols < k \div cols
  BY <1>6, <1>7
<1>. HIDE DEF cell, across, down
<1>9. Disjoint(cell(k), cell(l))
  BY <1>3, <1>4, <1>5, <1>8 DEF Disjoint
<1>. QED  BY <1>9 DEF cell

LEMMA PipIs ==
  ASSUME NEW s \in Specs, NEW a \in Areas
  PROVE  LET main == PipMain(s, a)
             strip == PipStrip(s, a)
             side == IF Vertical(s) THEN a.w ELSE a.h
         IN  /\ main \in Rects /\ strip \in Rects
             /\ Vertical(s) => strip.y = a.y /\ strip.h = a.h
             /\ ~Vertical(s) => strip.x = a.x /\ strip.w = a.w
             /\ \A p : Contains(a, p) => Contains(main, p) \/ Contains(strip, p)
             /\ Thumb(s, a) < side =>
                  /\ Inside(main, a) /\ Inside(strip, a)
                  /\ Vertical(s) => \/ main.x + main.w <= strip.x
                                    \/ strip.x + strip.w <= main.x
                  /\ ~Vertical(s) => \/ main.y + main.h <= strip.y
                                     \/ strip.y + strip.h <= main.y
<1>. DEFINE t == Thumb(s, a)
            main == PipMain(s, a)
            strip == PipStrip(s, a)
<1>1. /\ a \in [x : Int, y : Int, w : Nat \ {0}, h : Nat \ {0}]
      /\ s.thumb \in Nat /\ s.edge \in Edges
  BY LayoutAssumption
<1>2. t \in Nat \ {0}
  <2>1. Min({a.w, a.h}) \in Nat
    BY <1>1, MinIs
  <2>2. Min({a.w, a.h}) \div 5 \in Int
    BY <2>1
  <2>3. Max({1, Min({a.w, a.h}) \div 5}) \in Nat \ {0}
    BY <2>2, MaxIs
  <2>. QED  BY <1>1, <2>3 DEF Thumb
<1>. HIDE DEF t
<1>3. CASE s.edge = "Right"
  <2>1. /\ main = [a EXCEPT !.w = @ - t]
        /\ strip = [a EXCEPT !.x = @ + a.w - t, !.w = t]
        /\ Vertical(s)
    BY <1>3 DEF PipMain, PipStrip, Vertical, t
  <2>. HIDE DEF main, strip
  <2>2. main = Rect(a.x, a.y, a.w - t, a.h) /\ strip = Rect(a.x + a.w - t, a.y, t, a.h)
    BY <1>1, <2>1 DEF Rect
  <2>3. main \in Rects /\ strip \in Rects
    BY <1>1, <1>2, <2>2 DEF Rect, Rects
  <2>4. t < a.w => Inside(main, a) /\ Inside(strip, a)
    BY <1>1, <1>2, <2>2 DEF Rect, Inside
  <2>5. strip.y = a.y /\ strip.h = a.h
    BY <2>2 DEF Rect
  <2>6. main.x + main.w <= strip.x \/ strip.x + strip.w <= main.x
    BY <1>1, <1>2, <2>2 DEF Rect
  <2>7. \A p : Contains(a, p) => Contains(main, p) \/ Contains(strip, p)
    BY <1>1, <1>2, <2>2 DEF Rect, Contains
  <2>. QED  BY <2>1, <2>3, <2>4, <2>5, <2>6, <2>7 DEF main, strip, t
<1>4. CASE s.edge = "Left"
  <2>1. /\ main = [a EXCEPT !.x = @ + t, !.w = @ - t]
        /\ strip = [a EXCEPT !.w = t]
        /\ Vertical(s)
    BY <1>4 DEF PipMain, PipStrip, Vertical, t
  <2>. HIDE DEF main, strip
  <2>2. main = Rect(a.x + t, a.y, a.w - t, a.h) /\ strip = Rect(a.x, a.y, t, a.h)
    BY <1>1, <2>1 DEF Rect
  <2>3. main \in Rects /\ strip \in Rects
    BY <1>1, <1>2, <2>2 DEF Rect, Rects
  <2>4. t < a.w => Inside(main, a) /\ Inside(strip, a)
    BY <1>1, <1>2, <2>2 DEF Rect, Inside
  <2>5. strip.y = a.y /\ strip.h = a.h
    BY <2>2 DEF Rect
  <2>6. main.x + main.w <= strip.x \/ strip.x + strip.w <= main.x
    BY <1>1, <1>2, <2>2 DEF Rect
  <2>7. \A p : Contains(a, p) => Contains(main, p) \/ Contains(strip, p)
    BY <1>1, <1>2, <2>2 DEF Rect, Contains
  <2>. QED  BY <2>1, <2>3, <2>4, <2>5, <2>6, <2>7 DEF main, strip, t
<1>5. CASE s.edge = "Bottom"
  <2>1. /\ main = [a EXCEPT !.h = @ - t]
        /\ strip = [a EXCEPT !.y = @ + a.h - t, !.h = t]
        /\ ~Vertical(s)
    BY <1>5 DEF PipMain, PipStrip, Vertical, t
  <2>. HIDE DEF main, strip
  <2>2. main = Rect(a.x, a.y, a.w, a.h - t) /\ strip = Rect(a.x, a.y + a.h - t, a.w, t)
    BY <1>1, <2>1 DEF Rect
  <2>3. main \in Rects /\ strip \in Rects
    BY <1>1, <1>2, <2>2 DEF Rect, Rects
  <2>4. t < a.h => Inside(main, a) /\ Inside(strip, a)
    BY <1>1, <1>2, <2>2 DEF Rect, Inside
  <2>5. strip.x = a.x /\ strip.w = a.w
    BY <2>2 DEF Rect
  <2>6. main.y + main.h <= strip.y \/ strip.y + strip.h <= main.y
    BY <1>1, <1>2, <2>2 DEF Rect
  <2>7. \A p : Contains(a, p) => Contains(main, p) \/ Contains(strip, p)
    BY <1>1, <1>2, <2>2 DEF Rect, Contains
  <2>. QED  BY <2>1, <2>3, <2>4, <2>5, <2>6, <2>7 DEF main, strip, t
<1>6. CASE s.edge = "Top"
  <2>1. /\ main = [a EXCEPT !.y = @ + t, !.h = @ - t]
        /\ strip = [a EXCEPT !.h = t]
        /\ ~Vertical(s)
    BY <1>6 DEF PipMain, PipStrip, Vertical, t
  <2>. HIDE DEF main, strip
  <2>2. main = Rect(a.x, a.y + t, a.w, a.h - t) /\ strip = Rect(a.x, a.y, a.w, t)
    BY <1>1, <2>1 DEF Rect
  <2>3. main \in Rects /\ strip \in Rects
    BY <1>1, <1>2, <2>2 DEF Rect, Rects
  <2>4. t < a.h => Inside(main, a) /\ Inside(strip, a)
    BY <1>1, <1>2, <2>2 DEF Rect, Inside
  <2>5. strip.x = a.x /\ strip.w = a.w
    BY <2>2 DEF Rect
  <2>6. main.y + main.h <= strip.y \/ strip.y + strip.h <= main.y
    BY <1>1, <1>2, <2>2 DEF Rect
  <2>7. \A p : Contains(a, p) => Contains(main, p) \/ Contains(strip, p)
    BY <1>1, <1>2, <2>2 DEF Rect, Contains
  <2>. QED  BY <2>1, <2>3, <2>4, <2>5, <2>6, <2>7 DEF main, strip, t
<1>. QED  BY <1>1, <1>3, <1>4, <1>5, <1>6 DEF Edges

(* Slot k > 0 of a picture-in-picture layout is a part of the strip.       *)
LEMMA ThumbIs ==
  ASSUME NEW s \in Specs, NEW a \in Areas, NEW n \in 1 .. MaxInstances, NEW k \in 1 .. n - 1
  PROVE  LET strip == PipStrip(s, a)
             r == Pip(s, a, n)[k]
         IN  /\ r \in Rects /\ Inside(r, strip)
             /\ \A l \in 1 .. n - 1 : k < l => Disjoint(r, Pip(s, a, n)[l])
<1>. DEFINE strip == PipStrip(s, a)
            whole(origin, length) == [from |-> origin, size |-> length]
            r(j) == Pip(s, a, n)[j]
            across(j) == Part(strip.x, strip.w, j - 1, n - 1)
            down(j) == Part(strip.y, strip.h, j - 1, n - 1)
<1>1. /\ a.x \in Int /\ a.y \in Int /\ a.w \in Nat /\ a.h \in Nat
      /\ n \in Nat /\ n - 1 \in Nat \ {0}
      /\ \A j \in 1 .. n - 1 : j - 1 \in 0 .. (n - 1) - 1
  BY LayoutAssumption
<1>2. /\ strip.x \in Int /\ strip.y \in Int /\ strip.w \in Int /\ strip.h \in Int
      /\ Vertical(s) => strip.y = a.y /\ strip.h = a.h
      /\ ~Vertical(s) => strip.x = a.x /\ strip.w = a.w
  BY PipIs DEF Rects
<1>3. ASSUME NEW j \in 1 .. n - 1
      PROVE  r(j) = IF Vertical(s) THEN Cell(whole(strip.x, strip.w), down(j))
                                   ELSE Cell(across(j), whole(strip.y, strip.h))
  BY <1>1 DEF Pip
<1>. HIDE DEF strip, r
<1>4. CASE Vertical(s)
  <2>1. ASSUME NEW j \in 1 .. n - 1
        PROVE  /\ down(j).from \in Int /\ down(j).size \in Nat
               /\ strip.y <= down(j).from /\ down(j).from + down(j).size <= strip.y + strip.h
               /\ \A l \in 1 .. n - 1 : j < l => down(j).from + down(j).size <= down(l).from
    <3>. DEFINE p(i) == Part(strip.y, strip.h, i, n - 1)
    <3>1. strip.y \in Int /\ strip.h \in Nat
      BY <1>1, <1>2, <1>4
    <3>2. ASSUME NEW i \in 0 .. (n - 1) - 1
          PROVE  /\ p(i).from \in Int /\ p(i).size \in Nat
                 /\ strip.y <= p(i).from /\ p(i).from + p(i).size <= strip.y + strip.h
                 /\ \A m \in 0 .. (n - 1) - 1 : i < m => p(i).from + p(i).size <= p(m).from
      BY <1>1, <3>1, PartIs
    <3>3. \A m \in 1 .. n - 1 : m - 1 \in 0 .. (n - 1) - 1 /\ (j < m => j - 1 < m - 1)
      BY <1>1
    <3>. DEFINE I == 0 .. (n - 1) - 1
    <3>. HIDE DEF p, down, I
    <3>4. /\ p(j - 1).from \in Int /\ p(j - 1).size \in Nat
          /\ strip.y <= p(j - 1).from /\ p(j - 1).from + p(j - 1).size <= strip.y + strip.h
          /\ \A m \in I : j - 1 < m => p(j - 1).from + p(j - 1).size <= p(m).from
      BY <3>2, <3>3 DEF I
    <3>5. ASSUME NEW i \in 1 .. n - 1, j < i  PROVE down(j).from + down(j).size <= down(i).from
      <4>1. i - 1 \in I /\ j - 1 < i - 1
        BY <3>3, <3>5 DEF I
      <4>2. down(i) = p(i - 1) /\ down(j) = p(j - 1)
        BY DEF p, down
      <4>. QED  BY <3>4, <4>1, <4>2
    <3>6. down(j) = p(j - 1)
      BY DEF p, down
    <3>. QED  BY <3>4, <3>5, <3>6
  <2>2. ASSUME NEW j \in 1 .. n - 1
        PROVE  /\ r(j) \in Rects
               /\ r(j).x = strip.x /\ r(j).w = strip.w
               /\ r(j).y = down(j).from /\ r(j).h = down(j).size
    <3>1. r(j) = Cell(whole(strip.x, strip.w), down(j))
      BY <1>3, <1>4
    <3>. QED  BY <1>2, <2>1, <3>1, CellIs
  <2>. HIDE DEF down
  <2>3. r(k) \in Rects /\ Inside(r(k), strip)
    BY <1>2, <2>1, <2>2 DEF Inside
  <2>4. \A l \in 1 .. n - 1 : k < l => Disjoint(r(k), r(l))
    BY <2>1, <2>2 DEF Disjoint
  <2>. QED  BY <2>3, <2>4 DEF r, strip
<1>5. CASE ~Vertical(s)
  <2>1. ASSUME NEW j \in 1 .. n - 1
        PROVE  /\ across(j).from \in Int /\ across(j).size \in Nat
               /\ strip.x <= across(j).from /\ across(j).from + across(j).size <= strip.x + strip.w
               /\ \A l \in 1 .. n - 1 : j < l => across(j).from + across(j).size <= across(l).from
    <3>. DEFINE p(i) == Part(strip.x, strip.w, i, n - 1)
    <3>1. strip.x \in Int /\ strip.w \in Nat
      BY <1>1, <1>2, <1>5
    <3>2. ASSUME NEW i \in 0 .. (n - 1) - 1
          PROVE  /\ p(i).from \in Int /\ p(i).size \in Nat
                 /\ strip.x <= p(i).from /\ p(i).from + p(i).size <= strip.x + strip.w
                 /\ \A m \in 0 .. (n - 1) - 1 : i < m => p(i).from + p(i).size <= p(m).from
      BY <1>1, <3>1, PartIs
    <3>3. \A m \in 1 .. n - 1 : m - 1 \in 0 .. (n - 1) - 1 /\ (j < m => j - 1 < m - 1)
      BY <1>1
    <3>. DEFINE I == 0 .. (n - 1) - 1
    <3>. HIDE DEF p, across, I
    <3>4. /\ p(j - 1).from \in Int /\ p(j - 1).size \in Nat
          /\ strip.x <= p(j - 1).from /\ p(j - 1).from + p(j - 1).size <= strip.x + strip.w
          /\ \A m \in I : j - 1 < m => p(j - 1).from + p(j - 1).size <= p(m).from
      BY <3>2, <3>3 DEF I
    <3>5. ASSUME NEW i \in 1 .. n - 1, j < i  PROVE across(j).from + across(j).size <= across(i).from
      <4>1. i - 1 \in I /\ j - 1 < i - 1
        BY <3>3, <3>5 DEF I
      <4>2. across(i) = p(i - 1) /\ across(j) = p(j - 1)
        BY DEF p, across
      <4>. QED  BY <3>4, <4>1, <4>2
    <3>6. across(j) = p(j - 1)
      BY DEF p, across
    <3>. QED  BY <3>4, <3>5, <3>6
  <2>2. ASSUME NEW j \in 1 .. n - 1
        PROVE  /\ r(j) \in Rects
               /\ r(j).y = strip.y /\ r(j).h = strip.h
               /\ r(j).x = across(j).from /\ r(j).w = across(j).size
    <3>1. r(j) = Cell(across(j), whole(strip.y, strip.h))
      BY <1>3, <1>5
    <3>. QED  BY <1>2, <2>1, <3>1, CellIs
  <2>. HIDE DEF across
  <2>3. r(k) \in Rects /\ Inside(r(k), strip)
    BY <1>2, <2>1, <2>2 DEF Inside
  <2>4. \A l \in 1 .. n - 1 : k < l => Disjoint(r(k), r(l))
    BY <2>1, <2>2 DEF Disjoint
  <2>. QED  BY <2>3, <2>4 DEF r, strip
<1>. QED  BY <1>4, <1>5

(* The thumbnails leave no pixel of the strip free.                        *)
LEMMA ThumbsCover ==
  ASSUME NEW s \in Specs, NEW a \in Areas, NEW n \in 1 .. MaxInstances, n > 1,
         NEW p, Contains(PipStrip(s, a), p)
  PROVE  \E k \in 1 .. n - 1 : Contains(Pip(s, a, n)[k], p)
<1>. DEFINE strip == PipStrip(s, a)
            whole(origin, length) == [from |-> origin, size |-> length]
            across(k) == Part(strip.x, strip.w, k, n - 1)
            down(k) == Part(strip.y, strip.h, k, n - 1)
<1>1. /\ strip \in Rects /\ n \in Nat /\ n - 1 \in Nat \ {0}
      /\ p.x \in strip.x .. strip.x + strip.w - 1 /\ p.y \in strip.y .. strip.y + strip.h - 1
  BY PipIs, LayoutAssumption DEF Contains
<1>2. /\ strip.x \in Int /\ strip.y \in Int /\ strip.w \in Nat /\ strip.h \in Nat
  BY <1>1 DEF Rects
<1>3. ASSUME NEW k \in 0 .. (n - 1) - 1
      PROVE  /\ k + 1 \in 1 .. n - 1
             /\ Pip(s, a, n)[k + 1] =
                  IF Vertical(s) THEN Cell(whole(strip.x, strip.w), down(k))
                                 ELSE Cell(across(k), whole(strip.y, strip.h))
  BY <1>1 DEF Pip
<1>. HIDE DEF strip
<1>4. CASE Vertical(s)
  <2>. DEFINE v == p.y - strip.y
  <2>1. v \in 0 .. strip.h - 1 /\ strip.y + v = p.y
    BY <1>1, <1>2
  <2>. HIDE DEF v
  <2>2. PICK k \in 0 .. (n - 1) - 1 :
          /\ down(k).from <= strip.y + v /\ strip.y + v < down(k).from + down(k).size
          /\ down(k).from \in Int /\ down(k).size \in Int
    BY <1>1, <1>2, <2>1, PartCovers
  <2>. HIDE DEF down
  <2>3. Pip(s, a, n)[k + 1] = Cell(whole(strip.x, strip.w), down(k))
    BY <1>3, <1>4
  <2>4. Contains(Pip(s, a, n)[k + 1], p)
    BY <1>1, <1>2, <2>1, <2>2, <2>3, CellIs DEF Contains
  <2>. QED  BY <1>3, <2>4
<1>5. CASE ~Vertical(s)
  <2>. DEFINE v == p.x - strip.x
  <2>1. v \in 0 .. strip.w - 1 /\ strip.x + v = p.x
    BY <1>1, <1>2
  <2>. HIDE DEF v
  <2>2. PICK k \in 0 .. (n - 1) - 1 :
          /\ across(k).from <= strip.x + v /\ strip.x + v < across(k).from + across(k).size
          /\ across(k).from \in Int /\ across(k).size \in Int
    BY <1>1, <1>2, <2>1, PartCovers
  <2>. HIDE DEF across
  <2>3. Pip(s, a, n)[k + 1] = Cell(across(k), whole(strip.y, strip.h))
    BY <1>3, <1>5
  <2>4. Contains(Pip(s, a, n)[k + 1], p)
    BY <1>1, <1>2, <2>1, <2>2, <2>3, CellIs DEF Contains
  <2>. QED  BY <1>3, <2>4
<1>. QED  BY <1>4, <1>5

-----------------------------------------------------------------------------
(* The windows.                                                            *)

LEMMA WindowIs ==
  ASSUME SlotsInv, NEW i \in Instances
  PROVE  /\ spec \in Specs /\ area \in Areas /\ count \in 1 .. MaxInstances
         /\ slot_of[i] \in 0 .. count - 1
         /\ Windows[i] = ComputeLayout(spec, area, count)[slot_of[i]]
         /\ Windows[i] \in Rects
<1>1. /\ spec \in Specs /\ area \in Areas /\ count \in 1 .. MaxInstances
      /\ slot_of[i] \in 0 .. count - 1
  BY LayoutAssumption DEF SlotsInv, TypeOK, SlotsCompact, Instances
<1>2. Windows[i] = ComputeLayout(spec, area, count)[slot_of[i]]
  BY DEF Windows
<1>3. spec.kind \in LayoutKinds /\ area \in Rects
  BY <1>1, LayoutAssumption DEF Rects
<1>. DEFINE k == slot_of[i]
<1>4. CASE spec.kind = "Stacked"
  BY <1>1, <1>2, <1>3, <1>4 DEF ComputeLayout
<1>5. CASE spec.kind = "Grid"
  <2>1. Windows[i] = Grid(spec, area, count)[k]
    BY <1>2, <1>5 DEF ComputeLayout
  <2>. QED  BY <1>1, <1>2, <2>1, GridCell
<1>6. CASE spec.kind = "Pip"
  <2>1. Windows[i] = Pip(spec, area, count)[k]
    BY <1>2, <1>6 DEF ComputeLayout
  <2>2. k = 0 => Windows[i] = PipMain(spec, area)
    BY <1>1, <2>1 DEF Pip
  <2>3. k # 0 => k \in 1 .. count - 1
    BY <1>1, LayoutAssumption
  <2>4. k # 0 => Windows[i] \in Rects
    BY <1>1, <2>1, <2>3, ThumbIs
  <2>5. PipMain(spec, area) \in Rects
    BY <1>1, PipIs
  <2>. QED  BY <1>1, <1>2, <2>2, <2>4, <2>5
<1>. QED  BY <1>3, <1>4, <1>5, <1>6 DEF LayoutKinds

LEMMA SlotsDiffer ==
  ASSUME SlotsInv, NEW i \in Instances, NEW j \in Instances, i # j
  PROVE  slot_of[i] # slot_of[j]
  BY DEF SlotsInv, SlotsCompact

LEMMA GridApart ==
  ASSUME SlotsInv, spec.kind = "Grid", NEW i \in Instances,
         slot_of[i] < Rows(spec, count) * Cols(spec, count)
  PROVE  /\ Inside(Windows[i], area)
         /\ \A j \in Instances :
              i # j /\ slot_of[j] < Rows(spec, count) * Cols(spec, count) =>
                Disjoint(Windows[i], Windows[j])
<1>. DEFINE rows == Rows(spec, count)
            cols == Cols(spec, count)
<1>1. /\ spec \in Specs /\ area \in Areas /\ count \in 1 .. MaxInstances
      /\ \A j \in Instances : /\ slot_of[j] \in 0 .. count - 1
                              /\ Windows[j] = Grid(spec, area, count)[slot_of[j]]
  BY WindowIs DEF ComputeLayout
<1>2. cols \in Nat \ {0} /\ rows \in Nat \ {0}
  BY <1>1, GridIs
<1>. HIDE DEF rows, cols
<1>3. ASSUME NEW k \in 0 .. count - 1, k < rows * cols  PROVE k \div cols < rows
  <2>. DEFINE q == k \div cols
              r == k % cols
  <2>1. k \in Int
    BY <1>1, LayoutAssumption
  <2>2. q \in Int /\ r \in 0 .. cols - 1 /\ k = q * cols + r
    BY <1>2, <2>1, DivBounds
  <2>. HIDE DEF q, r
  <2>3. q >= rows => q * cols >= rows * cols
    BY <1>2, <2>2, Products
  <2>4. q * cols \in Int /\ rows * cols \in Int
    BY <1>2, <2>2
  <2>5. ~(q >= rows)
    BY <1>2, <1>3, <2>1, <2>2, <2>3, <2>4
  <2>6. q < rows
    BY <1>2, <2>2, <2>5
  <2>. QED  BY <2>6 DEF q
<1>4. Inside(Windows[i], area)
  BY <1>1, <1>3, GridCell DEF rows, cols
<1>5. ASSUME NEW j \in Instances, i # j, slot_of[j] < rows * cols
      PROVE  Disjoint(Windows[i], Windows[j])
  <2>1. slot_of[i] # slot_of[j]
    BY <1>5, SlotsDiffer
  <2>2. slot_of[i] \div cols < rows /\ slot_of[j] \div cols < rows
    BY <1>1, <1>3, <1>5 DEF rows, cols
  <2>3. Disjoint(Grid(spec, area, count)[slot_of[i]], Grid(spec, area, count)[slot_of[j]])
    BY <1>1, <2>1, <2>2, GridDisjoint DEF rows, cols
  <2>. QED  BY <1>1, <2>3
<1>. QED  BY <1>4, <1>5 DEF rows, cols

LEMMA PipApart ==
  ASSUME SlotsInv, spec.kind = "Pip",
         Thumb(spec, area) < IF Vertical(spec) THEN area.w ELSE area.h,
         NEW i \in Instances
  PROVE  /\ Inside(Windows[i], area)
         /\ \A j \in Instances : i # j => Disjoint(Windows[i], Windows[j])
<1>. DEFINE main == PipMain(spec, area)
            strip == PipStrip(spec, area)
<1>1. /\ spec \in Specs /\ area \in Areas /\ count \in 1 .. MaxInstances /\ count \in Nat
      /\ \A j \in Instances : /\ slot_of[j] \in 0 .. count - 1 /\ Windows[j] \in Rects
                              /\ Windows[j] = Pip(spec, area, count)[slot_of[j]]
  BY WindowIs, LayoutAssumption DEF ComputeLayout
<1>2. /\ main \in Rects /\ strip \in Rects /\ Inside(main, area) /\ Inside(strip, area)
      /\ Vertical(spec) => main.x + main.w <= strip.x \/ strip.x + strip.w <= main.x
      /\ ~Vertical(spec) => main.y + main.h <= strip.y \/ strip.y + strip.h <= main.y
  BY <1>1, PipIs
<1>3. \A j \in Instances : slot_of[j] = 0 => Windows[j] = main
  BY <1>1 DEF Pip
<1>4. \A j \in Instances : slot_of[j] # 0 =>
         slot_of[j] \in 1 .. count - 1 /\ Inside(Windows[j], strip)
  BY <1>1, ThumbIs
<1>5. ASSUME NEW r \in Rects, Inside(r, strip)
      PROVE  Inside(r, area) /\ Disjoint(r, main) /\ Disjoint(main, r)
  <2>1. area \in Rects
    BY <1>1, LayoutAssumption DEF Rects
  <2>. HIDE DEF main, strip
  <2>. QED  BY <1>2, <1>5, <2>1 DEF Inside, Disjoint, Rects
<1>6. Inside(Windows[i], area)
  BY <1>1, <1>2, <1>3, <1>4, <1>5
<1>7. ASSUME NEW j \in Instances, i # j  PROVE Disjoint(Windows[i], Windows[j])
  <2>1. slot_of[i] # slot_of[j]
    BY <1>7, SlotsDiffer
  <2>2. CASE slot_of[i] = 0 \/ slot_of[j] = 0
    BY <1>1, <1>3, <1>4, <1>5, <2>1, <2>2
  <2>3. ASSUME NEW k \in 1 .. count - 1, NEW l \in 1 .. count - 1, k # l
        PROVE  Disjoint(Pip(spec, area, count)[k], Pip(spec, area, count)[l])
    <3>1. k < l \/ l < k
      BY <1>1, <2>3
    <3>2. k < l => Disjoint(Pip(spec, area, count)[k], Pip(spec, area, count)[l])
      BY <1>1, ThumbIs
    <3>3. l < k => Disjoint(Pip(spec, area, count)[l], Pip(spec, area, count)[k])
      BY <1>1, ThumbIs
    <3>4. \A r, q : Disjoint(r, q) => Disjoint(q, r)
      BY DEF Disjoint
    <3>. QED  BY <3>1, <3>2, <3>3, <3>4
  <2>. QED  BY <1>1, <1>4, <2>1, <2>2, <2>3
<1>. QED  BY <1>6, <1>7

LEMMA GridCovers ==
  ASSUME SlotsInv, spec.kind = "Grid", count >= Rows(spec, count) * Cols(spec, count),
         count > 0
  PROVE  Covers(Windows)
<1>. DEFINE rows == Rows(spec, count)
            cols == Cols(spec, count)
            across(c) == Part(area.x, area.w, c, cols)
            down(d) == Part(area.y, area.h, d, rows)
<1>1. /\ spec \in Specs /\ area \in Areas /\ count \in 1 .. MaxInstances /\ count \in Nat
      /\ area.x \in Int /\ area.y \in Int /\ area.w \in Nat /\ area.h \in Nat
  BY LayoutAssumption DEF SlotsInv, TypeOK
<1>2. cols \in Nat \ {0} /\ rows \in Nat \ {0}
  BY <1>1, GridIs
<1>. SUFFICES ASSUME NEW x \in area.x .. area.x + area.w - 1,
                     NEW y \in area.y .. area.y + area.h - 1
              PROVE  \E i \in DOMAIN Windows : Contains(Windows[i], [x |-> x, y |-> y])
  BY DEF Covers
<1>3. PICK c \in 0 .. cols - 1 : across(c).from <= x /\ x < across(c).from + across(c).size
  <2>. DEFINE v == x - area.x
  <2>1. v \in 0 .. area.w - 1 /\ area.x + v = x
    BY <1>1
  <2>. HIDE DEF v
  <2>2. \E j \in 0 .. cols - 1 :
          across(j).from <= area.x + v /\ area.x + v < across(j).from + across(j).size
    BY <1>1, <1>2, <2>1, PartCovers
  <2>. QED  BY <2>1, <2>2
<1>4. PICK d \in 0 .. rows - 1 : down(d).from <= y /\ y < down(d).from + down(d).size
  <2>. DEFINE v == y - area.y
  <2>1. v \in 0 .. area.h - 1 /\ area.y + v = y
    BY <1>1
  <2>. HIDE DEF v
  <2>2. \E j \in 0 .. rows - 1 :
          down(j).from <= area.y + v /\ area.y + v < down(j).from + down(j).size
    BY <1>1, <1>2, <2>1, PartCovers
  <2>. QED  BY <2>1, <2>2
<1>. DEFINE k == d * cols + c
<1>. HIDE DEF rows, cols
<1>5. k \div cols = d /\ k % cols = c
  BY <1>2, <1>3, <1>4, DivIs
<1>6. k \in 0 .. count - 1
  <2>1. 0 * cols <= d * cols /\ d * cols <= (rows - 1) * cols
    BY <1>2, <1>4, Products
  <2>2. 0 * cols = 0 /\ (rows - 1) * cols = rows * cols - cols
    BY <1>2
  <2>3. rows * cols <= count /\ rows * cols \in Int /\ d * cols \in Int
    BY <1>2, <1>4 DEF rows, cols
  <2>. QED  BY <1>1, <1>2, <1>3, <2>1, <2>2, <2>3
<1>7. PICK i \in Instances : slot_of[i] = k
  BY <1>6 DEF SlotsInv, SlotsCompact, Instances
<1>8. Windows[i] = Grid(spec, area, count)[k] /\ i \in DOMAIN Windows
  BY <1>7, WindowIs DEF ComputeLayout, Windows
<1>. HIDE DEF k, across, down
<1>9. Windows[i] = Cell(across(c), down(d)) /\ Windows[i] \in Rects
  <2>1. k \div cols < rows
    BY <1>2, <1>4, <1>5
  <2>2. Windows[i] = Cell(Part(area.x, area.w, k % cols, cols), Part(area.y, area.h, k \div cols, rows))
    BY <1>1, <1>6, <1>8, <2>1, GridCell DEF cols, rows
  <2>. QED  BY <1>5, <1>7, <2>2, WindowIs DEF across, down
<1>10. Contains(Windows[i], [x |-> x, y |-> y])
  BY <1>1, <1>3, <1>4, <1>9, CellIs DEF Contains, Rects
<1>. QED  BY <1>8, <1>10

LEMMA PipCovers ==
  ASSUME SlotsInv, spec.kind = "Pip", count > 1
  PROVE  Covers(Windows)
<1>1. /\ spec \in Specs /\ area \in Areas /\ count \in 1 .. MaxInstances /\ count \in Nat
      /\ \A i \in Instances : Windows[i] = Pip(spec, area, count)[slot_of[i]]
      /\ DOMAIN Windows = Instances
  BY WindowIs, LayoutAssumption DEF SlotsInv, TypeOK, ComputeLayout, Windows
<1>. SUFFICES ASSUME NEW x \in area.x .. area.x + area.w - 1,
                     NEW y \in area.y .. area.y + area.h - 1
              PROVE  \E i \in Instances : Contains(Windows[i], [x |-> x, y |-> y])
  BY <1>1 DEF Covers
<1>. DEFINE p == [x |-> x, y |-> y]
<1>2. Contains(area, p)
  BY DEF Contains
<1>. HIDE DEF p
<1>3. \E k \in 0 .. count - 1 : Contains(Pip(spec, area, count)[k], p)
  <2>1. CASE Contains(PipMain(spec, area), p)
    <3>1. 0 \in 0 .. count - 1 /\ Pip(spec, area, count)[0] = PipMain(spec, area)
      BY <1>1 DEF Pip
    <3>. QED  BY <2>1, <3>1
  <2>2. CASE Contains(PipStrip(spec, area), p)
    <3>1. \A k \in 1 .. count - 1 : k \in 0 .. count - 1
      BY <1>1
    <3>. QED  BY <1>1, <2>2, <3>1, ThumbsCover
  <2>. QED  BY <1>1, <1>2, <2>1, <2>2, PipIs
<1>4. \A k \in 0 .. count - 1 : \E i \in Instances : slot_of[i] = k
  BY DEF SlotsInv, SlotsCompact, Instances
<1>. QED  BY <1>1, <1>3, <1>4 DEF p

(* Whatever the order of promotions and removals, on any screen and for    *)
(* any number of instances: the cells of a grid lie in the work area and   *)
(* do not overlap, and when there is an instance for every cell, no pixel  *)
(* of the screen is left over (compute_layout: "so cells tile the area     *)
(* exactly").                                                              *)
THEOREM GridFillsTheScreen == Spec => []GridTiles
<1>1. SlotsInv => GridTiles
  <2>. SUFFICES ASSUME SlotsInv, spec.kind = "Grid", count > 0  PROVE GridTiles
    BY DEF GridTiles
  <2>. DEFINE cells == Rows(spec, count) * Cols(spec, count)
              placed == {i \in Instances : slot_of[i] < cells}
  <2>1. Tiles([i \in placed |-> Windows[i]])
    BY GridApart DEF Tiles
  <2>2. count >= cells => Covers(Windows)
    BY GridCovers
  <2>. QED  BY <2>1, <2>2 DEF GridTiles
<1>. QED  BY <1>1, SlotsAlways, PTL

(* The same for the main window and the thumbnails of a picture-in-picture *)
(* layout, with the strip on any edge (compute_layout).                    *)
THEOREM PipFillsTheScreen == Spec => []PipTiles
<1>1. SlotsInv => PipTiles
  <2>. DEFINE side == IF Vertical(spec) THEN area.w ELSE area.h
  <2>. SUFFICES ASSUME SlotsInv, spec.kind = "Pip", count > 0, Thumb(spec, area) < side
                PROVE  PipTiles
    BY DEF PipTiles
  <2>1. DOMAIN Windows = Instances
    BY DEF Windows
  <2>2. Tiles(Windows)
    BY <2>1, PipApart DEF Tiles
  <2>. QED  BY <2>2, PipCovers DEF PipTiles
<1>. QED  BY <1>1, SlotsAlways, PTL

(* In a derived grid every instance has a window, as long as there is a    *)
(* pixel for each row and column (derive_grid).                            *)
THEOREM NobodyHidden == Spec => []EveryoneVisible
<1>1. SlotsInv => EveryoneVisible
  <2>. SUFFICES ASSUME SlotsInv, spec.kind = "Grid", spec.rows = 0,
                       DerivedCols(count) <= area.w, DerivedRows(count) <= area.h,
                       NEW i \in Instances
                PROVE  ~Empty(Windows[i])
    BY DEF EveryoneVisible
  <2>1. /\ spec \in Specs /\ area \in Areas /\ count \in 1 .. MaxInstances
        /\ slot_of[i] \in 0 .. count - 1
        /\ Windows[i] = Grid(spec, area, count)[slot_of[i]]
    BY WindowIs DEF ComputeLayout
  <2>2. /\ Cols(spec, count) = DerivedCols(count) /\ Rows(spec, count) = DerivedRows(count)
        /\ slot_of[i] \div Cols(spec, count) < Rows(spec, count)
    BY <2>1, GridIs
  <2>3. ~Empty(Grid(spec, area, count)[slot_of[i]])
    BY <2>1, <2>2, GridCell
  <2>. QED  BY <2>1, <2>3
<1>. QED  BY <1>1, SlotsAlways, PTL

-----------------------------------------------------------------------------
(* The clicks.                                                             *)

LEMMA IntervalsAre ==
  ASSUME SlotsInv, NEW i \in Instances, NEW f \in Intervals(i)
  PROVE  f.from \in Int /\ f.size \in Int
  BY WindowIs DEF Intervals, Rects

(* A mirrored click lands in the window of its target, for any two windows *)
(* of any layout on any screen (normalize, denormalize).                   *)
THEOREM ClickInItsWindow == Spec => []ClickLandsInside
<1>1. SlotsInv => ClickLandsInside
  <2>. SUFFICES ASSUME SlotsInv, NEW i \in Instances, NEW j \in Instances,
                       NEW f \in Intervals(i), NEW t \in Intervals(j), t.size > 0,
                       NEW p \in f.from .. f.from + f.size - 1
                PROVE  Mirrored(f.from, f.size, t.from, t.size, p)
                         \subseteq t.from .. t.from + t.size - 1
    BY DEF ClickLandsInside
  <2>1. f.from \in Int /\ f.size \in Int /\ t.from \in Int /\ t.size \in Nat \ {0}
    BY IntervalsAre
  <2>. QED  BY <2>1, MirroredInside
<1>. QED  BY <1>1, SlotsAlways, PTL

(* Between windows of the same size a mirrored click keeps its place to    *)
(* the pixel, whatever the double in the middle is rounded to.             *)
THEOREM ClickInItsPlace == Spec => []ClickKeepsPlace
<1>1. SlotsInv => ClickKeepsPlace
  <2>. SUFFICES ASSUME SlotsInv, NEW i \in Instances, NEW j \in Instances,
                       NEW f \in Intervals(i), NEW t \in Intervals(j), t.size = f.size,
                       NEW p \in f.from .. f.from + f.size - 1
                PROVE  Mirrored(f.from, f.size, t.from, t.size, p) = {t.from + (p - f.from)}
    BY DEF ClickKeepsPlace
  <2>1. f.from \in Int /\ f.size \in Int /\ t.from \in Int
    BY IntervalsAre
  <2>. QED  BY <2>1, MirroredKept
<1>. QED  BY <1>1, SlotsAlways, PTL

(* On every screen narrower than the range of SendInput's coordinates, two *)
(* pixels never have the same absolute coordinate, and the extremes are    *)
(* the ends of the range: an injected click hits the pixel it was meant    *)
(* for (to_absolute).                                                      *)
THEOREM EveryPixelItsOwn == Spec => []AbsExact
<1>1. TypeOK => AbsExact
  BY LayoutAssumption, AbsIsExact DEF TypeOK, AbsExact
<1>. QED  BY <1>1, TypeCorrect, PTL
=============================================================================

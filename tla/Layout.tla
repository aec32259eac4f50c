------------------------------- MODULE Layout -------------------------------
(***************************************************************************)
(* Where the windows go and where a mirrored click lands: the layout       *)
(* engine (core/include/mm/layout.hpp) and the mapping of mouse            *)
(* coordinates (core/include/mm/geometry.hpp).                             *)
(*                                                                         *)
(* Instance i is placed in the cell of its slot; slot 0 is the master's.   *)
(* The code computes fractions in double and rounds: here they are exact,  *)
(* and where the exact value lies in the middle between two integers the   *)
(* double may fall to either side.                                         *)
(***************************************************************************)
EXTENDS Integers, FiniteSets, FiniteSetsExt

CONSTANTS
  MaxInstances,  (* the most instances a session starts with               *)
  Areas,         (* the work areas of the monitors                         *)
  Specs,         (* the layout descriptors: LayoutSpec                     *)
  AbsMax         (* 65535: the largest absolute coordinate of SendInput    *)

Rect(x, y, w, h) == [x |-> x, y |-> y, w |-> w, h |-> h]
Edges == {"Right", "Bottom", "Left", "Top"}
LayoutKinds == {"Grid", "Stacked", "Pip"}

ASSUME LayoutAssumption ==
  /\ MaxInstances \in 1 .. 32
  /\ \A a \in Areas : a \in [x : Int, y : Int, w : Nat \ {0}, h : Nat \ {0}]
  /\ \A s \in Specs :
       s \in [kind : LayoutKinds, rows : Nat, cols : Nat, thumb : Nat, edge : Edges]
  /\ AbsMax \in Nat \ {0}

VARIABLES
  spec,      (* Session::layout                                            *)
  area,      (* Session::area                                              *)
  count,     (* the number of instances, the size of slot_of_              *)
  slot_of    (* Assignment::slot_of_                                       *)

vars == <<spec, area, count, slot_of>>

-----------------------------------------------------------------------------
(* The layout engine.                                                      *)

(* The k-th of n parts of a length: remainder pixels are distributed.      *)
Part_Equal(origin, length, k, n) ==
  [from |-> origin + (length \div n) * k, size |-> length \div n]
Part(origin, length, k, n) ==
  LET from == (length * k) \div n
      upto == (length * (k + 1)) \div n
  IN  [from |-> origin + from, size |-> upto - from]

Cell(across, down) == Rect(across.from, down.from, across.size, down.size)

(* derive_grid: the smallest near-square grid for n cells.                 *)
DerivedCols(n) == CHOOSE c \in 1 .. n : c * c >= n /\ (c - 1) * (c - 1) < n
DerivedRows_RoundedDown(n) == n \div DerivedCols(n)
DerivedRows(n) == (n + DerivedCols(n) - 1) \div DerivedCols(n)

Rows(s, n) == IF s.rows = 0 \/ s.cols = 0 THEN DerivedRows(n) ELSE s.rows
Cols(s, n) == IF s.rows = 0 \/ s.cols = 0 THEN DerivedCols(n) ELSE s.cols

(* Row by row; the slots that find no cell get no space.                   *)
Grid(s, a, n) ==
  LET rows == Rows(s, n)
      cols == Cols(s, n)
  IN  [i \in 0 .. n - 1 |->
         IF i \div cols >= rows THEN Rect(0, 0, 0, 0)
         ELSE Cell(Part(a.x, a.w, i % cols, cols), Part(a.y, a.h, i \div cols, rows))]

Vertical(s) == s.edge \in {"Right", "Left"}

Thumb(s, a) ==
  IF s.thumb > 0 THEN s.thumb ELSE Max({1, Min({a.w, a.h}) \div 5})

(* The area without the strip of thumbnails, and the strip.                *)
PipMain(s, a) ==
  LET t == Thumb(s, a)
  IN  CASE s.edge = "Right"  -> [a EXCEPT !.w = @ - t]
        [] s.edge = "Left"   -> [a EXCEPT !.x = @ + t, !.w = @ - t]
        [] s.edge = "Bottom" -> [a EXCEPT !.h = @ - t]
        [] s.edge = "Top"    -> [a EXCEPT !.y = @ + t, !.h = @ - t]

PipStrip_AtOrigin(s, a) ==
  IF Vertical(s) THEN [a EXCEPT !.w = Thumb(s, a)] ELSE [a EXCEPT !.h = Thumb(s, a)]
PipStrip(s, a) ==
  LET t == Thumb(s, a)
  IN  CASE s.edge = "Right"  -> [a EXCEPT !.x = @ + a.w - t, !.w = t]
        [] s.edge = "Left"   -> [a EXCEPT !.w = t]
        [] s.edge = "Bottom" -> [a EXCEPT !.y = @ + a.h - t, !.h = t]
        [] s.edge = "Top"    -> [a EXCEPT !.h = t]

Pip(s, a, n) ==
  LET strip == PipStrip(s, a)
      whole(origin, length) == [from |-> origin, size |-> length]
  IN  [i \in 0 .. n - 1 |->
         IF i = 0 THEN PipMain(s, a)
         ELSE IF Vertical(s)
           THEN Cell(whole(strip.x, strip.w), Part(strip.y, strip.h, i - 1, n - 1))
           ELSE Cell(Part(strip.x, strip.w, i - 1, n - 1), whole(strip.y, strip.h))]

(* compute_layout: one rectangle per slot.                                 *)
ComputeLayout(s, a, n) ==
  CASE s.kind = "Stacked" -> [i \in 0 .. n - 1 |-> a]
    [] s.kind = "Grid"    -> Grid(s, a, n)
    [] s.kind = "Pip"     -> Pip(s, a, n)

-----------------------------------------------------------------------------
(* The mapping of coordinates, one axis at a time.                         *)

(* static_cast<int>(num / den + 0.5) in double, for num >= 0.              *)
Rounded(num, den) ==
  LET nearest == (2 * num + den) \div (2 * den)
  IN  {nearest} \union (IF (2 * num + den) % (2 * den) = 0 THEN {nearest - 1} ELSE {})

Clamp(v, low, high) == Max({low, Min({v, high})})

(* denormalize(to, normalize(from, p)): the outcomes for one coordinate of *)
(* a point, between two intervals.                                         *)
Mirrored_NotKept(from, length, to, size, p) ==
  LET den == Max({length, 1})
  IN  {to + r : r \in Rounded(Clamp(p - from, 0, den) * size, den)}
Mirrored_FromZero(from, length, to, size, p) ==
  LET den == Max({length, 1})
      kept(r) == IF size > 0 THEN Min({to + r, to + size - 1}) ELSE to + r
  IN  {kept(r) : r \in Rounded(Clamp(p, 0, den) * size, den)}
Mirrored(from, length, to, size, p) ==
  LET den == Max({length, 1})
      kept(r) == IF size > 0 THEN Min({to + r, to + size - 1}) ELSE to + r
  IN  {kept(r) : r \in Rounded(Clamp(p - from, 0, den) * size, den)}

(* to_absolute, for one coordinate of the virtual screen.                  *)
ToAbsolute_OfExtent(origin, extent, v) ==
  IF extent <= 1 THEN {0} ELSE Rounded(Clamp(v - origin, 0, extent) * AbsMax, extent)
ToAbsolute(origin, extent, v) ==
  IF extent <= 1 THEN {0}
  ELSE Rounded(Clamp(v - origin, 0, extent - 1) * AbsMax, extent - 1)

-----------------------------------------------------------------------------
(* Which instance occupies which slot.                                     *)

Instances == 0 .. count - 1

(* Assignment::master.                                                     *)
Master == CHOOSE i \in Instances : slot_of[i] = 0

TypeOK ==
  /\ spec \in Specs /\ area \in Areas
  /\ count \in 0 .. MaxInstances
  /\ slot_of \in [Instances -> 0 .. MaxInstances - 1]

Init ==
  /\ spec \in Specs /\ area \in Areas
  /\ count \in 1 .. MaxInstances
  /\ slot_of = [i \in Instances |-> i]

(* Assignment::swap ignores an instance that does not exist.               *)
Swap(i, j) ==
  /\ slot_of' = IF {i, j} \subseteq Instances
                  THEN [slot_of EXCEPT ![i] = slot_of[j], ![j] = slot_of[i]]
                  ELSE slot_of
  /\ UNCHANGED <<spec, area, count>>

SetMaster(i) == count > 0 /\ Swap(Master, i)

(* Assignment::erase: the instances after i and the slots after its slot   *)
(* move up.                                                                *)
Erase_SlotsStay(i) ==
  /\ i \in Instances
  /\ count' = count - 1
  /\ slot_of' = [j \in 0 .. count - 2 |-> slot_of[IF j < i THEN j ELSE j + 1]]
  /\ UNCHANGED <<spec, area>>
Erase_EverySlotMoves(i) ==
  /\ i \in Instances
  /\ count' = count - 1
  /\ slot_of' = [j \in 0 .. count - 2 |-> slot_of[IF j < i THEN j ELSE j + 1] - 1]
  /\ UNCHANGED <<spec, area>>
Erase(i) ==
  /\ i \in Instances
  /\ count' = count - 1
  /\ slot_of' =
       [j \in 0 .. count - 2 |->
          LET slot == slot_of[IF j < i THEN j ELSE j + 1]
          IN  IF slot > slot_of[i] THEN slot - 1 ELSE slot]
  /\ UNCHANGED <<spec, area>>

(* The callers may name an instance that does not exist (--master).        *)
Next ==
  \E i \in 0 .. MaxInstances : SetMaster(i) \/ Erase(i)

Spec == Init /\ [][Next]_vars

-----------------------------------------------------------------------------

(* Windows[i] is the place of instance i.                                  *)
Windows == LET cells == ComputeLayout(spec, area, count)
           IN  [i \in Instances |-> cells[slot_of[i]]]

Empty(r) == r.w <= 0 \/ r.h <= 0
Contains(r, p) == p.x \in r.x .. r.x + r.w - 1 /\ p.y \in r.y .. r.y + r.h - 1
Disjoint(r, q) ==
  \/ Empty(r) \/ Empty(q)
  \/ r.x + r.w <= q.x \/ q.x + q.w <= r.x
  \/ r.y + r.h <= q.y \/ q.y + q.h <= r.y
Inside(r, a) ==
  /\ a.x <= r.x /\ r.x + r.w <= a.x + a.w
  /\ a.y <= r.y /\ r.y + r.h <= a.y + a.h
Covers(ws) ==
  \A x \in area.x .. area.x + area.w - 1, y \in area.y .. area.y + area.h - 1 :
    \E i \in DOMAIN ws : Contains(ws[i], [x |-> x, y |-> y])
Tiles(ws) ==
  /\ \A i \in DOMAIN ws : Inside(ws[i], area)
  /\ \A i, j \in DOMAIN ws : i # j => Disjoint(ws[i], ws[j])

(* Whatever order instances are promoted and removed in, the slots stay    *)
(* 0 .. n-1, each taken once: there is always exactly one master, and      *)
(* every instance has a rectangle (Assignment).                            *)
SlotsCompact ==
  /\ {slot_of[i] : i \in Instances} = Instances
  /\ \A i, j \in Instances : slot_of[i] = slot_of[j] => i = j

(* The cells of a grid lie in the work area and do not overlap, and a full *)
(* grid covers it to the last pixel, also when the sides do not divide     *)
(* evenly.                                                                 *)
GridTiles ==
  LET cells == Rows(spec, count) * Cols(spec, count)
      placed == {i \in Instances : slot_of[i] < cells}
  IN  spec.kind = "Grid" /\ count > 0 =>
        /\ Tiles([i \in placed |-> Windows[i]])
        /\ count >= cells => Covers(Windows)

(* The master's part and the thumbnails of a picture-in-picture layout do  *)
(* not overlap, and cover the work area if there is any thumbnail.         *)
PipTiles ==
  LET side == IF Vertical(spec) THEN area.w ELSE area.h
  IN  spec.kind = "Pip" /\ count > 0 /\ Thumb(spec, area) < side =>
        /\ Tiles(Windows)
        /\ count > 1 => Covers(Windows)

(* With a derived grid no instance is left without a window, as long as    *)
(* there is a pixel for each row and column.                               *)
EveryoneVisible ==
  spec.kind = "Grid" /\ spec.rows = 0 /\ count > 0
      /\ DerivedCols(count) <= area.w /\ DerivedRows(count) <= area.h =>
    \A i \in Instances : ~Empty(Windows[i])

(* The interval of a window on an axis, and where a point of the master's  *)
(* interval goes in it.                                                    *)
Intervals(i) == {[from |-> Windows[i].x, size |-> Windows[i].w],
                 [from |-> Windows[i].y, size |-> Windows[i].h]}

(* A click anywhere in one window lands in the client area of the others,  *)
(* whatever their sizes: never on a neighbour.                             *)
ClickLandsInside ==
  \A i, j \in Instances : \A f \in Intervals(i), t \in Intervals(j) :
    t.size > 0 =>
      \A p \in f.from .. f.from + f.size - 1 :
        Mirrored(f.from, f.size, t.from, t.size, p) \subseteq t.from .. t.from + t.size - 1

(* Between windows of the same size a click keeps its place to the pixel.  *)
ClickKeepsPlace ==
  \A i, j \in Instances : \A f \in Intervals(i), t \in Intervals(j) :
    t.size = f.size =>
      \A p \in f.from .. f.from + f.size - 1 :
        Mirrored(f.from, f.size, t.from, t.size, p) = {t.from + (p - f.from)}

(* No two pixels of the screen have the same absolute coordinate, and the  *)
(* first and the last one have the two extremes.                           *)
AbsExact ==
  LET abs(v) == ToAbsolute(area.x, area.w, area.x + v)
  IN  area.w \in 2 .. AbsMax =>
        /\ abs(0) = {0} /\ abs(area.w - 1) = {AbsMax}
        /\ \A u, v \in 0 .. area.w - 1 : u # v => abs(u) \intersect abs(v) = {}

=============================================================================

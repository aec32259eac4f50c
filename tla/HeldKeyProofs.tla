--------------------------- MODULE HeldKeyProofs ---------------------------
(***************************************************************************)
(* For every keyboard, every routing table and every number of instances:  *)
(* each variable of the pipeline stays in its type, and the focus cycles   *)
(* and swaps leave the keys that the user holds held in the client.        *)
(*                                                                         *)
(* Neither TypeOK nor HeldKeysSurvive is inductive.  What a plan presses   *)
(* and where it delivers is in types only because of what the plans of     *)
(* dispatch.hpp contain (Targeted).  HeldInv follows one key through the   *)
(* hook, the ring, the broadcaster and the window: what every copy and     *)
(* every event on its way says of a key that did not change in the middle  *)
(* of a cycle, and that whatever took the key from the client still has    *)
(* to press it (Shown).                                                    *)
(***************************************************************************)
EXTENDS PipelineProofs

-----------------------------------------------------------------------------
(* The list of a set of numbers.                                           *)

(* Every number of S is in the list once: as many are below it as there    *)
(* are places before its own.                                              *)
LEMMA OrderedListsAll ==
  ASSUME NEW S, S \subseteq Int, IsFiniteSet(S)
  PROVE  /\ DOMAIN Ordered(S) = 1 .. Cardinality(S)
         /\ \A i \in DOMAIN Ordered(S) : Ordered(S)[i] \in S
         /\ \A x \in S : \E i \in DOMAIN Ordered(S) : Ordered(S)[i] = x
         /\ \A i, j \in DOMAIN Ordered(S) : Ordered(S)[i] = Ordered(S)[j] => i = j
<1>. DEFINE n == Cardinality(S)
            below(x) == {y \in S : y < x}
            rank == [x \in S |-> Cardinality(below(x))]
            places == 0 .. n - 1
<1>1. n \in Nat
  BY FS_CardinalityType
<1>2. ASSUME NEW x \in S  PROVE IsFiniteSet(below(x)) /\ rank[x] \in Nat
  BY FS_Subset, FS_CardinalityType
<1>3. ASSUME NEW x \in S, NEW T, T \subseteq S, below(x) \subseteq T, x \in T
      PROVE  rank[x] < Cardinality(T)
  <2>1. IsFiniteSet(T) /\ Cardinality(T) \in Nat
    BY <1>3, FS_Subset, FS_CardinalityType
  <2>2. below(x) # T
    BY <1>3
  <2>3. Cardinality(below(x)) <= Cardinality(T) /\ Cardinality(below(x)) # Cardinality(T)
    BY <1>3, <2>1, <2>2, FS_Subset
  <2>4. rank[x] = Cardinality(below(x)) /\ rank[x] \in Nat
    BY <1>2
  <2>. HIDE DEF rank, below
  <2>. QED  BY <2>1, <2>3, <2>4
<1>4. rank \in [S -> places]
  <2>. SUFFICES ASSUME NEW x \in S  PROVE rank[x] \in places
    OBVIOUS
  <2>1. rank[x] < n
    <3>1. below(x) \subseteq S
      OBVIOUS
    <3>. HIDE DEF rank, below
    <3>. QED  BY <1>3, <3>1
  <2>2. rank[x] \in Nat
    BY <1>2
  <2>. HIDE DEF rank, n
  <2>. QED  BY <1>1, <2>1, <2>2
<1>5. ASSUME NEW x \in S, NEW y \in S, rank[x] = rank[y]  PROVE x = y
  <2>1. ASSUME NEW u \in S, NEW v \in S, u < v  PROVE rank[u] < rank[v]
    <3>1. below(u) \subseteq below(v) /\ u \in below(v) /\ below(v) \subseteq S
      <4>1. \A z \in S : z < u => z < v
        BY <2>1
      <4>. QED  BY <2>1, <4>1
    <3>2. rank[v] = Cardinality(below(v))
      OBVIOUS
    <3>. HIDE DEF rank, below
    <3>. QED  BY <1>3, <3>1, <3>2
  <2>2. x < y \/ y < x \/ x = y
    OBVIOUS
  <2>3. rank[x] \in Nat /\ rank[y] \in Nat
    BY <1>2
  <2>. HIDE DEF rank
  <2>. QED  BY <1>5, <2>1, <2>2, <2>3
<1>. HIDE DEF rank
<1>6. rank \in Injection(S, places)
  BY <1>4, <1>5 DEF Injection, IsInjective
<1>7. IsFiniteSet(places) /\ Cardinality(places) = n
  BY <1>1, FS_Interval
<1>8. rank \in Surjection(S, places)
  BY <1>6, <1>7, FS_Injection
<1>. DEFINE list == Ordered(S)
<1>9. DOMAIN list = 1 .. n
  BY DEF Ordered
<1>10. ASSUME NEW i \in 1 .. n  PROVE list[i] \in S /\ rank[list[i]] = i - 1
  <2>1. i - 1 \in places
    BY <1>1
  <2>2. PICK x \in S : rank[x] = i - 1
    BY <1>8, <2>1 DEF Surjection
  <2>3. list[i] = CHOOSE y \in S : Cardinality(below(y)) = i - 1
    BY DEF Ordered
  <2>4. \A y \in S : rank[y] = Cardinality(below(y))
    BY DEF rank
  <2>. HIDE DEF below, list
  <2>. QED  BY <2>2, <2>3, <2>4
<1>. HIDE DEF list, below
<1>11. ASSUME NEW x \in S  PROVE \E i \in 1 .. n : list[i] = x
  <2>1. rank[x] \in places
    BY <1>4
  <2>2. rank[x] + 1 \in 1 .. n /\ (rank[x] + 1) - 1 = rank[x]
    BY <1>1, <2>1
  <2>. QED  BY <1>5, <1>10, <2>2
<1>12. ASSUME NEW i \in 1 .. n, NEW j \in 1 .. n, list[i] = list[j]  PROVE i = j
  BY <1>1, <1>10, <1>12
<1>. QED  BY <1>9, <1>10, <1>11, <1>12 DEF list

-----------------------------------------------------------------------------
(* What is in a plan, in whatever order.                                   *)

Elements(p) == {p[i] : i \in DOMAIN p}

LEMMA ElementsOfNone == Elements(<<>>) = {}
<1>1. DOMAIN <<>> = {}
  OBVIOUS
<1>. QED  BY <1>1 DEF Elements

LEMMA ElementsOfOne ==
  ASSUME NEW a
  PROVE  IsSequence(<<a>>) /\ Elements(<<a>>) = {a}
<1>1. <<a>> \in Seq({a}) /\ DOMAIN <<a>> = {1} /\ <<a>>[1] = a
  OBVIOUS
<1>. QED  BY <1>1 DEF Elements, IsSequence

LEMMA ElementsOfBoth ==
  ASSUME NEW p, IsSequence(p), NEW q, IsSequence(q)
  PROVE  IsSequence(p \o q) /\ Elements(p \o q) = Elements(p) \union Elements(q)
<1>1. PICK S : p \in Seq(S) /\ q \in Seq(S)
  <2>1. PICK S, T : p \in Seq(S) /\ q \in Seq(T)
    BY DEF IsSequence
  <2>2. p \in Seq(S \union T) /\ q \in Seq(S \union T)
    BY <2>1
  <2>. QED  BY <2>2
<1>. DEFINE m == Len(p)
            n == Len(q)
            r == p \o q
<1>2. /\ m \in Nat /\ n \in Nat /\ r \in Seq(S)
      /\ DOMAIN p = 1 .. m /\ DOMAIN q = 1 .. n /\ DOMAIN r = 1 .. m + n
      /\ \A i \in 1 .. m + n : r[i] = IF i <= m THEN p[i] ELSE q[i - m]
  BY <1>1
<1>. HIDE DEF m, n, r
<1>3. ASSUME NEW i \in 1 .. m  PROVE i \in DOMAIN r /\ r[i] = p[i]
  BY <1>2
<1>4. ASSUME NEW i \in 1 .. n  PROVE m + i \in DOMAIN r /\ r[m + i] = q[i]
  <2>1. m + i \in 1 .. m + n /\ ~ (m + i <= m) /\ (m + i) - m = i
    BY <1>2
  <2>. QED  BY <1>2, <2>1
<1>5. ASSUME NEW i \in DOMAIN r
      PROVE  (i \in DOMAIN p /\ r[i] = p[i]) \/ (i - m \in DOMAIN q /\ r[i] = q[i - m])
  BY <1>2
<1>6. Elements(r) = Elements(p) \union Elements(q)
  <2>1. Elements(r) \subseteq Elements(p) \union Elements(q)
    BY <1>5 DEF Elements
  <2>2. Elements(p) \subseteq Elements(r)
    BY <1>2, <1>3 DEF Elements
  <2>3. Elements(q) \subseteq Elements(r)
    BY <1>2, <1>4 DEF Elements
  <2>. QED  BY <2>1, <2>2, <2>3
<1>. QED  BY <1>2, <1>6 DEF IsSequence, r

(* A step is replaced by others.                                           *)
LEMMA ThenElements ==
  ASSUME Shape(acts), acts # <<>>, NEW steps, IsSequence(steps), Then(steps)
  PROVE  /\ Elements(acts) = {Head(acts)} \union Elements(Tail(acts))
         /\ Elements(acts)' = Elements(steps) \union Elements(Tail(acts))
         /\ IsSequence(Tail(acts))
<1>. DEFINE t == Tail(acts)
            n == Len(acts)
<1>1. /\ n \in Nat \ {0} /\ DOMAIN acts = 1 .. n /\ Head(acts) = acts[1]
      /\ IsSequence(t) /\ DOMAIN t = 1 .. n - 1
      /\ \A i \in 1 .. n - 1 : t[i] = acts[i + 1]
  BY Rest
<1>. HIDE DEF t, n
<1>2. ASSUME NEW i \in DOMAIN acts
      PROVE  i = 1 \/ (i - 1 \in DOMAIN t /\ acts[i] = t[i - 1])
  <2>1. i # 1 => i - 1 \in 1 .. n - 1 /\ (i - 1) + 1 = i
    BY <1>1
  <2>. QED  BY <1>1, <2>1
<1>3. ASSUME NEW i \in DOMAIN t  PROVE i + 1 \in DOMAIN acts /\ t[i] = acts[i + 1]
  BY <1>1
<1>4. 1 \in DOMAIN acts
  BY <1>1
<1>5. Elements(acts) = {Head(acts)} \union Elements(t)
  BY <1>1, <1>2, <1>3, <1>4 DEF Elements
<1>6. acts' = steps \o t
  BY DEF Then, t
<1>. DEFINE q == acts'
<1>. HIDE DEF q
<1>7. Elements(q) = Elements(steps) \union Elements(t)
  <2>1. q = steps \o t
    BY <1>6 DEF q
  <2>. QED  BY <1>1, <2>1, ElementsOfBoth
<1>. QED  BY <1>1, <1>5, <1>7 DEF t, q, Elements

-----------------------------------------------------------------------------
(* What the plans of dispatch.hpp contain.                                 *)

DeliverTo(S, strategy) == {Action("Deliver", to, strategy) : to \in S}

LEMMA DeliveriesElements ==
  ASSUME NEW targets, NEW alive, NEW m, NEW strategy,
         NEW S, S = (targets \intersect alive) \ {m}, S \subseteq Int, IsFiniteSet(S)
  PROVE  Elements(Deliveries(targets, alive, m, strategy)) = DeliverTo(S, strategy)
<1>. DEFINE order == Ordered(S)
            d == [i \in DOMAIN order |-> Action("Deliver", order[i], strategy)]
<1>2. /\ \A i \in DOMAIN order : order[i] \in S
      /\ \A x \in S : \E i \in DOMAIN order : order[i] = x
  BY OrderedListsAll
<1>3. Deliveries(targets, alive, m, strategy) = d
  BY DEF Deliveries
<1>. HIDE DEF order
<1>4. Elements(d) = DeliverTo(S, strategy)
  BY <1>2 DEF Elements, DeliverTo
<1>. QED  BY <1>3, <1>4

LEMMA RepairElements ==
  ASSUME NEW held
  PROVE  /\ IsSequence(Repair(held))
         /\ Elements(Repair(held)) =
              {Do("RestoreFocus")} \union (IF held # {} THEN {Do("ReassertHeld")} ELSE {})
<1>1. CASE held = {}
  <2>1. Repair(held) = <<Do("RestoreFocus")>> \o <<>> /\ IsSequence(<<>>)
    <3>1. <<>> \in Seq({})
      OBVIOUS
    <3>. QED  BY <1>1, <3>1 DEF Repair, IsSequence
  <2>. QED  BY <1>1, <2>1, ElementsOfOne, ElementsOfNone, ElementsOfBoth
<1>2. CASE held # {}
  <2>1. Repair(held) = <<Do("RestoreFocus")>> \o <<Do("ReassertHeld")>>
    BY <1>2 DEF Repair
  <2>. QED  BY <1>2, <2>1, ElementsOfOne, ElementsOfBoth
<1>. QED  BY <1>1, <1>2

(* Everything a plan may contain, and what ReassertHeld is there for.      *)
Planned(p, m, held) ==
  \A a \in Elements(p) :
    \/ a.op \in {"RestoreCursor", "ReassertHeld", "SwapMaster"}
    \/ a.op = "Deliver" /\ a.to \in Instances \ {m}
    \/ a.op = "RestoreFocus" /\ (held = {} \/ \E b \in Elements(p) : b.op = "ReassertHeld")

LEMMA PlansArePlanned ==
  ASSUME NEW ev, NEW alive, alive \subseteq Instances, NEW m, NEW held
  PROVE  Planned(Plan(ev, Routes, alive, m, held), m, held)
<1>1. alive \subseteq Int /\ IsFiniteSet(alive)
  <2>1. Instances \subseteq Int /\ IsFiniteSet(Instances)
    BY DesktopAssumption, FS_Interval DEF Instances
  <2>. QED  BY <2>1, FS_Subset
<1>2. Planned(<<>>, m, held)
  BY ElementsOfNone DEF Planned
<1>3. Planned(<<Do("SwapMaster")>>, m, held)
  BY ElementsOfOne DEF Planned, Do, Action
<1>4. ASSUME NEW targets, NEW strategy, NEW d, d = Deliveries(targets, alive, m, strategy)
      PROVE  /\ Planned(d, m, held)
             /\ Planned(d \o Repair(held), m, held)
             /\ Planned(d \o <<Do("RestoreCursor")>> \o Repair(held), m, held)
  <2>1. IsSequence(d) /\ \A a \in Elements(d) : a.op = "Deliver" /\ a.to \in Instances \ {m}
    <3>0. PICK S : S = (targets \intersect alive) \ {m}
      OBVIOUS
    <3>1. IsSequence(d)
      BY <1>1, <1>4, DeliveriesAreDelivered
    <3>4. IsFiniteSet(S) /\ S \subseteq Int
      BY <1>1, <3>0, FS_Subset
    <3>5. Elements(d) = DeliverTo(S, strategy)
      BY <1>4, <3>0, <3>4, DeliveriesElements
    <3>2. \A to \in S : to \in Instances \ {m}
      BY <3>0
    <3>3. \A to : Action("Deliver", to, strategy).op = "Deliver" /\ Action("Deliver", to, strategy).to = to
      BY DEF Action
    <3>. QED  BY <3>1, <3>2, <3>3, <3>5 DEF DeliverTo
  <2>2. \A a \in Elements(Repair(held)) :
          \/ a.op = "ReassertHeld"
          \/ a.op = "RestoreFocus" /\ (held = {} \/ Do("ReassertHeld") \in Elements(Repair(held)))
    BY RepairElements DEF Do, Action
  <2>3. Do("ReassertHeld").op = "ReassertHeld" /\ Do("RestoreCursor").op = "RestoreCursor"
    BY DEF Do, Action
  <2>4. IsSequence(Repair(held))
    BY RepairElements
  <2>5. Elements(d \o Repair(held)) = Elements(d) \union Elements(Repair(held))
    BY <2>1, <2>4, ElementsOfBoth
  <2>6. Elements(d \o <<Do("RestoreCursor")>> \o Repair(held))
          = Elements(d) \union {Do("RestoreCursor")} \union Elements(Repair(held))
    <3>1. /\ IsSequence(d \o <<Do("RestoreCursor")>>)
          /\ Elements(d \o <<Do("RestoreCursor")>>) = Elements(d) \union {Do("RestoreCursor")}
      BY <2>1, ElementsOfOne, ElementsOfBoth
    <3>. QED  BY <2>4, <3>1, ElementsOfBoth
  <2>7. Planned(d, m, held)
    BY <2>1 DEF Planned
  <2>8. Planned(d \o Repair(held), m, held)
    BY <2>1, <2>2, <2>3, <2>5 DEF Planned
  <2>9. Planned(d \o <<Do("RestoreCursor")>> \o Repair(held), m, held)
    BY <2>1, <2>2, <2>3, <2>6 DEF Planned
  <2>. QED  BY <2>7, <2>8, <2>9
<1>5. Planned(PlanKey(ev, Routes, alive, m, held), m, held)
  <2>. DEFINE b == Routes.keys[ev.vk]
              d == Deliveries(b.targets, alive, m, b.strategy)
  <2>1. PlanKey(ev, Routes, alive, m, held) \in {<<>>, <<Do("SwapMaster")>>, d, d \o Repair(held)}
    BY DEF PlanKey
  <2>. HIDE DEF b
  <2>2. Planned(d, m, held) /\ Planned(d \o Repair(held), m, held)
    BY <1>4
  <2>. HIDE DEF d
  <2>. QED  BY <1>2, <1>3, <2>1, <2>2
<1>6. Planned(PlanMouse(ev, Routes, alive, m, held), m, held)
  <2>. DEFINE d == Deliveries(Routes.mouse_targets, alive, m, Routes.mouse_strategy)
  <2>1. PlanMouse(ev, Routes, alive, m, held) \in
          {<<>>, d, d \o <<Do("RestoreCursor")>> \o Repair(held)}
    BY DEF PlanMouse
  <2>2. Planned(d, m, held) /\ Planned(d \o <<Do("RestoreCursor")>> \o Repair(held), m, held)
    BY <1>4
  <2>. HIDE DEF d
  <2>. QED  BY <1>2, <2>1, <2>2
<1>. QED  BY <1>2, <1>5, <1>6 DEF Plan

-----------------------------------------------------------------------------
(* How the rest of a plan changes.                                         *)

Replaced(a) == Then(<<a>>) /\ UNCHANGED <<mkeys, master>>

PlanMoves ==
  \/ UNCHANGED <<acts, current, mkeys, master>>
  \/ Handle
  \/ acts # <<>> /\ Then(<<>>) /\ mkeys' = mkeys /\ (master' = master \/ Settle)
  \/ Doing("Deliver") /\ Replaced(Step("Inject", Head(acts).to))
  \/ Doing("Inject") /\ Replaced(Step("Click", Head(acts).to))
  \/ Doing("SwapMaster") /\ \E next \in Instances : Replaced(Step("Settle", next))
  \/ ReassertHeld

LEMMA PlanMovesOn ==
  ASSUME [Next]_vars
  PROVE  PlanMoves
<1>1. CASE ~ Broadcast
  BY <1>1 DEF Next, UserKey, ForeignKey, UserMouse, UserMove, Hook, Signal, DeliverInput, Disturb,
       LateActivation, UserSwitch, WindowDies, vars, broadcasterVars, PlanMoves
<1>2. CASE Wake \/ Drained \/ Handle \/ ReassertHeld
  BY <1>2 DEF Wake, Drained, PlanMoves
<1>3. CASE DeliverByMessage \/ InjectKey \/ Click \/ RestoreCursor \/ RestoreFocus \/ Press \/ Settle
  BY <1>3 DEF DeliverByMessage, InjectKey, Click, RestoreCursor, RestoreFocus, ReturnToMaster, Press,
       Settle, Doing, PlanMoves
<1>4. CASE DeliverByFocus
  BY <1>4 DEF DeliverByFocus, Deliver, Doing, PlanMoves, Replaced
<1>5. CASE InjectMouse \/ SwapMaster
  BY <1>5 DEF InjectMouse, SwapMaster, Doing, PlanMoves, Replaced
<1>. QED  BY <1>1, <1>2, <1>3, <1>4, <1>5 DEF Broadcast, BroadcasterStep, Execute

(* Where the steps of a plan lead, and that whoever returns re-asserts the *)
(* keys held.                                                              *)
Targeted ==
  /\ \A a \in Elements(acts) :
       /\ a.op \in {"Deliver", "Inject", "Click"} => a.to \in Instances \ {master}
       /\ a.op = "Settle" => a.to \in Instances
       /\ a.op = "Press" => a.to \in mkeys
  /\ Returning => mkeys = {} \/ \E b \in Elements(acts) : b.op = "ReassertHeld"

LEMMA TargetedStep ==
  ASSUME Base, mkeys \subseteq Int, Targeted, [Next]_vars
  PROVE  Targeted'
<1>1. CASE UNCHANGED <<acts, current, mkeys, master>>
  BY <1>1 DEF Targeted, Returning, Elements
<1>2. CASE Handle
  <2>1. PICK ev : acts' = Plan(ev, Routes, live, master, mkeys') /\ master' = master
    BY <1>2 DEF Handle
  <2>2. Planned(acts', master, mkeys')
    BY <2>1, PlansArePlanned DEF Base
  <2>3. Returning' => \E a \in Elements(acts)' : a.op = "RestoreFocus"
    BY DEF Returning, Elements
  <2>. QED  BY <2>1, <2>2, <2>3 DEF Planned, Targeted, Elements
<1>3. ASSUME acts # <<>>, NEW steps, IsSequence(steps), Then(steps), mkeys' = mkeys,
             Elements(acts') # {} => master' = master,
             \A a \in Elements(steps) :
               /\ a.op \in {"Inject", "Click", "Settle", "Press"}
               /\ a.op \in {"Inject", "Click"} => a.to \in Instances \ {master}
               /\ a.op = "Settle" => a.to \in Instances
               /\ a.op = "Press" => a.to \in mkeys,
             Head(acts).op = "ReassertHeld" => ~Returning'
      PROVE  Targeted'
  <2>1. /\ Elements(acts) = {Head(acts)} \union Elements(Tail(acts))
        /\ Elements(acts)' = Elements(steps) \union Elements(Tail(acts))
    BY <1>3, ThenElements DEF Base
  <2>2. ASSUME Returning'  PROVE mkeys' = {} \/ \E b \in Elements(acts)' : b.op = "ReassertHeld"
    <3>1. \E a \in Elements(acts)' : a.op = "RestoreFocus"
      BY <2>2 DEF Returning, Elements
    <3>2. \E a \in Elements(acts) : a.op = "RestoreFocus"
      BY <1>3, <2>1, <3>1
    <3>3. Returning
      BY <3>2 DEF Returning, Elements
    <3>4. CASE mkeys = {}
      BY <1>3, <3>4
    <3>5. CASE \E b \in Elements(acts) : b.op = "ReassertHeld"
      BY <1>3, <2>1, <2>2, <3>5
    <3>. QED  BY <3>3, <3>4, <3>5 DEF Targeted
  <2>3. \A a \in Elements(acts)' :
          /\ a.op \in {"Deliver", "Inject", "Click"} => a.to \in Instances \ {master'}
          /\ a.op = "Settle" => a.to \in Instances
          /\ a.op = "Press" => a.to \in mkeys'
    BY <1>3, <2>1 DEF Targeted, Elements
  <2>. QED  BY <2>2, <2>3 DEF Targeted
<1>4. CASE acts # <<>> /\ Then(<<>>) /\ mkeys' = mkeys /\ (master' = master \/ Settle)
  <2>1. IsSequence(<<>>) /\ Elements(<<>>) = {}
    <3>1. <<>> \in Seq({})
      OBVIOUS
    <3>. QED  BY <3>1, ElementsOfNone DEF IsSequence
  <2>2. Settle => Elements(acts') = {}
    BY SettleGoesOn, ElementsOfNone
  <2>3. Head(acts).op = "ReassertHeld" => ~Returning'
    <3>1. ASSUME Head(acts).op = "ReassertHeld"  PROVE ~Returning
      <4>1. 1 \in DOMAIN acts /\ Reasserts(acts[1]) /\ \A i \in DOMAIN acts : 1 <= i
        BY <1>4, <3>1, Rest DEF Base, Reasserts
      <4>2. \A i \in DOMAIN acts : Reasserts(acts[i])
        BY <4>1 DEF Base, Shape
      <4>. QED  BY <4>2 DEF Returning, Reasserts
    <3>. QED  BY <1>4, <3>1, ThenNone DEF Base
  <2>. QED  BY <1>3, <1>4, <2>1, <2>2, <2>3
<1>5. ASSUME NEW op \in {"Inject", "Click", "Settle"}, NEW to \in Instances,
             op # "Settle" => to # master,
             Head(acts).op # "ReassertHeld", acts # <<>>, Replaced(Step(op, to))
      PROVE  Targeted'
  <2>. DEFINE a == Step(op, to)
  <2>1. a.op = op /\ a.to = to
    BY DEF Step, Action
  <2>2. IsSequence(<<a>>) /\ Elements(<<a>>) = {a}
    BY ElementsOfOne
  <2>3. Then(<<a>>) /\ mkeys' = mkeys /\ master' = master
    BY <1>5 DEF Replaced
  <2>. HIDE DEF a
  <2>. QED  BY <1>3, <1>5, <2>1, <2>2, <2>3
<1>6. CASE Doing("Deliver") /\ Replaced(Step("Inject", Head(acts).to))
  <2>1. acts # <<>> /\ Head(acts).op = "Deliver" /\ Head(acts) \in Elements(acts)
    BY <1>6, Rest DEF Doing, Base, Elements
  <2>2. Head(acts).to \in Instances \ {master}
    BY <2>1 DEF Targeted
  <2>. QED  BY <1>5, <1>6, <2>1, <2>2
<1>7. CASE Doing("Inject") /\ Replaced(Step("Click", Head(acts).to))
  <2>1. acts # <<>> /\ Head(acts).op = "Inject" /\ Head(acts) \in Elements(acts)
    BY <1>7, Rest DEF Doing, Base, Elements
  <2>2. Head(acts).to \in Instances \ {master}
    BY <2>1 DEF Targeted
  <2>. QED  BY <1>5, <1>7, <2>1, <2>2
<1>8. CASE Doing("SwapMaster") /\ \E next \in Instances : Replaced(Step("Settle", next))
  BY <1>5, <1>8 DEF Doing
<1>9. CASE ReassertHeld
  <2>. DEFINE order == Ordered(mkeys)
              steps == [i \in DOMAIN order |-> Step("Press", order[i])]
  <2>1. \A i \in DOMAIN order : order[i] \in mkeys
    BY OrderedListsAll DEF Base
  <2>2. PICK T : order \in Seq(T)
    BY OrderedIsSequence DEF IsSequence, Base
  <2>3. acts # <<>> /\ Then(steps) /\ mkeys' = mkeys /\ master' = master
    BY <1>9 DEF ReassertHeld, Doing
  <2>. HIDE DEF order
  <2>4. IsSequence(steps)
    <3>1. steps \in Seq({steps[i] : i \in DOMAIN order})
      BY <2>2
    <3>. QED  BY <3>1 DEF IsSequence
  <2>5. \A a \in Elements(steps) : a.op = "Press" /\ a.to \in mkeys
    BY <2>1 DEF Elements, Step, Action
  <2>6. ~Returning'
    BY <1>9, ThenPresses DEF Base, Returning, Reasserts
  <2>. HIDE DEF steps
  <2>. QED  BY <1>3, <2>3, <2>4, <2>5, <2>6
<1>. QED  BY <1>1, <1>2, <1>4, <1>6, <1>7, <1>8, <1>9, PlanMovesOn DEF PlanMoves

-----------------------------------------------------------------------------
(* Types.                                                                  *)

LEMMA EventFacts ==
  ASSUME NEW ev \in EventType
  PROVE  /\ IsKey(ev) => ev.vk \in Keys
         /\ ev.at \in Positions /\ ev # NoEvent
         /\ IsKey(ev) \/ IsMouse(ev)
<1>1. NoPoint \in Positions
  BY DesktopAssumption DEF NoPoint, Positions, Windows, Other
<1>. QED  BY <1>1 DEF EventType, NoEvent, KeyEvent, IsKey, IsMouse, KeyKinds, ButtonKinds

LEMMA KeyEventTyped ==
  ASSUME NEW kind \in KeyKinds, NEW k \in Keys
  PROVE  KeyEvent(kind, k) \in EventType
BY DEF KeyEvent, EventType

LEMMA MouseEventTyped ==
  ASSUME NEW kind \in ButtonKinds \union {"Wheel"}, cursor \in Positions
  PROVE  MouseEvent(kind) \in EventType
<1>1. WheelPoint \in Positions
  BY DesktopAssumption, CaptureAssumption DEF WheelPoint, Positions, Windows, Other
<1>. QED  BY <1>1 DEF MouseEvent, EventType, ButtonKinds, Buttons

LEMMA ApplyTyped ==
  ASSUME NEW ev \in EventType, NEW held, NEW S, Keys \subseteq S, held \subseteq S
  PROVE  Apply(held, ev) \subseteq S
BY EventFacts DEF Apply, IsKey, KeyKinds

LEMMA QueueTyped ==
  ASSUME queue \in Seq(EventType), Len(queue) <= RingCap, NEW ev \in EventType,
         queue' = queue \/ (Len(queue) < RingCap /\ queue' = Append(queue, ev))
  PROVE  queue' \in Seq(EventType) /\ Len(queue') <= RingCap
BY CaptureAssumption

LEMMA InputFacts ==
  ASSUME NEW stage, NEW ev, NEW pass
  PROVE  /\ Input(stage, ev, pass).stage = stage
         /\ Input(stage, ev, pass).ev = ev
         /\ Input(stage, ev, pass).pass = pass
         /\ [Input(stage, ev, pass) EXCEPT !.stage = "deliver"] = Input("deliver", ev, pass)
BY DEF Input

(* What is in flight has a stage, an event and a verdict.                  *)
IsInput(input) ==
  \E stage \in {"none", "signal", "deliver"}, pass \in BOOLEAN : \E ev :
    input = Input(stage, ev, pass) /\ (stage # "none" => ev \in EventType)

LEMMA IsInputFacts ==
  ASSUME IsInput(inflight)
  PROVE  /\ inflight.stage \in {"none", "signal", "deliver"}
         /\ inflight.stage # "none" => inflight.ev \in EventType
         /\ inflight.pass \in BOOLEAN
         /\ inflight = Input(inflight.stage, inflight.ev, inflight.pass)
<1>1. PICK stage \in {"none", "signal", "deliver"}, pass \in BOOLEAN :
        \E ev : inflight = Input(stage, ev, pass) /\ (stage # "none" => ev \in EventType)
  BY DEF IsInput
<1>2. PICK ev : inflight = Input(stage, ev, pass) /\ (stage # "none" => ev \in EventType)
  BY <1>1
<1>3. inflight.stage = stage /\ inflight.ev = ev /\ inflight.pass = pass
  BY <1>2, InputFacts
<1>. QED  BY <1>2, <1>3

LEMMA NoInputIsInput == IsInput(NoInput)
BY DEF IsInput, NoInput

LEMMA EventIsInput ==
  ASSUME NEW stage \in {"signal", "deliver"}, NEW ev \in EventType, NEW pass \in BOOLEAN
  PROVE  IsInput(Input(stage, ev, pass))
BY DEF IsInput

(* Signal sends an event on to its window, or forgets it.                  *)
LEMMA SignalFacts ==
  ASSUME IsInput(inflight), Signal
  PROVE  /\ inflight.stage = "signal" /\ inflight.ev \in EventType
         /\ inflight' = IF inflight.pass THEN Input("deliver", inflight.ev, inflight.pass) ELSE NoInput
         /\ IsInput(inflight')
<1>1. inflight.stage = "signal" /\ inflight.ev \in EventType /\ inflight.pass \in BOOLEAN
  BY IsInputFacts DEF Signal
<1>2. inflight' = IF inflight.pass THEN [inflight EXCEPT !.stage = "deliver"] ELSE NoInput
  BY DEF Signal
<1>3. [inflight EXCEPT !.stage = "deliver"] = Input("deliver", inflight.ev, inflight.pass)
  BY IsInputFacts, InputFacts
<1>4. IsInput(inflight')
  BY <1>1, <1>2, <1>3, NoInputIsInput, EventIsInput
<1>. QED  BY <1>1, <1>2, <1>3, <1>4

HookTypeOK ==
  /\ queue \in Seq(EventType) /\ Len(queue) <= RingCap
  /\ wake \in BOOLEAN /\ keys \subseteq Keys /\ lost \subseteq Keys
  /\ IsInput(inflight)

(* The hook thread's part.                                                 *)
LEMMA CaptureTypeStep ==
  ASSUME HookTypeOK, cursor \in Positions, [Next]_vars
  PROVE  HookTypeOK'
<1>1. ASSUME NEW source, NEW kind \in KeyKinds, NEW k \in Keys, KeyInput(source, KeyEvent(kind, k))
      PROVE  HookTypeOK'
  <2>. DEFINE ev == KeyEvent(kind, k)
  <2>1. ev \in EventType /\ ev.vk = k
    BY KeyEventTyped DEF KeyEvent
  <2>2. HookKey(source, ev) /\ wake' = wake
        /\ \/ inflight' = Input("signal", ev, ~Blocked(source, ev))
           \/ inflight' = Input("deliver", ev, TRUE)
           \/ inflight' = NoInput
    BY <1>1 DEF KeyInput
  <2>. HIDE DEF ev
  <2>3. queue' = queue \/ (Len(queue) < RingCap /\ queue' = Append(queue, ev))
    BY <2>2 DEF HookKey, PublishKey
  <2>4. queue' \in Seq(EventType) /\ Len(queue') <= RingCap
    BY <2>1, <2>3, QueueTyped DEF HookTypeOK
  <2>5. keys' \subseteq Keys
    BY <2>1, <2>2, ApplyTyped DEF HookKey, HookTypeOK
  <2>6. lost' \subseteq Keys
    BY <2>1, <2>2 DEF HookKey, PublishKey, HookTypeOK
  <2>7. IsInput(inflight')
    <3>1. (~Blocked(source, ev)) \in BOOLEAN
      OBVIOUS
    <3>. QED  BY <2>1, <2>2, <3>1, NoInputIsInput, EventIsInput
  <2>. QED  BY <2>2, <2>4, <2>5, <2>6, <2>7 DEF HookTypeOK
<1>2. CASE \E kind \in MouseKinds : UserMouse(kind)
  <2>1. PICK kind \in MouseKinds : MouseInput(kind)
    BY <1>2 DEF UserMouse
  <2>2. MouseEvent(kind) \in EventType
    BY MouseEventTyped, PipelineAssumption
  <2>3. queue' \in Seq(EventType) /\ Len(queue') <= RingCap
    BY <2>1, <2>2, QueueTyped DEF MouseInput, HookMouse, HookTypeOK
  <2>. QED  BY <2>1, <2>2, <2>3, EventIsInput DEF MouseInput, HookTypeOK
<1>3. CASE Signal
  BY <1>3, SignalFacts DEF Signal, HookTypeOK
<1>4. CASE DeliverInput
  BY <1>4, NoInputIsInput DEF DeliverInput, HookTypeOK
<1>5. CASE Wake
  BY <1>5 DEF Wake, HookTypeOK
<1>6. CASE Handle
  <2>1. queue' = Tail(queue) /\ queue # <<>>
    BY <1>6 DEF Handle
  <2>2. queue' \in Seq(EventType) /\ Len(queue') <= RingCap
    BY <2>1, CaptureAssumption DEF HookTypeOK
  <2>. QED  BY <1>6, <2>2 DEF Handle, HookTypeOK
<1>7. CASE Execute
  <2>1. \A ev : HookKey("ours", ev) => UNCHANGED <<queue, keys, lost>>
    BY DEF HookKey, Publishes, Ignored
  <2>2. \A ev : HookMouse("ours", ev) => queue' = queue
    BY DEF HookMouse, Ignored
  <2>3. UNCHANGED captureVars
    BY <1>7, <2>1, <2>2 DEF Execute, DeliverByFocus, DeliverByMessage, InjectKey, InjectMouse, Click,
         RestoreCursor, RestoreFocus, ReassertHeld, Press, SwapMaster, Settle, SendKey, captureVars
  <2>. QED  BY <2>3 DEF captureVars, HookTypeOK
<1>8. CASE Drained \/ (\E p \in Points : UserMove(p)) \/ Disturb \/ UNCHANGED vars
  BY <1>8 DEF Drained, UserMove, Disturb, LateActivation, UserSwitch, WindowDies, vars, captureVars, HookTypeOK
<1>9. CASE \E kind \in KeyKinds, k \in Keys : UserKey(kind, k) \/ ForeignKey(kind, k)
  BY <1>1, <1>9 DEF UserKey, ForeignKey
<1>. QED  BY <1>2, <1>3, <1>4, <1>5, <1>6, <1>7, <1>8, <1>9
         DEF Next, Hook, Broadcast, BroadcasterStep

(* The broadcaster's part.                                                 *)
PlanTypeOK ==
  /\ bpc \in {"wait", "drain"}
  /\ current \in EventType \union {NoEvent}
  /\ mkeys \subseteq Keys
  /\ master \in Instances
  /\ failures \in 0 .. MaxCount
  /\ acts # <<>> => bpc = "drain" /\ current # NoEvent

LEMMA BroadcasterTypeStep ==
  ASSUME Base, queue \in Seq(EventType), PlanTypeOK, [Next]_vars
  PROVE  PlanTypeOK'
<1>1. CASE Handle
  <2>1. Head(queue) \in EventType
    BY <1>1 DEF Handle
  <2>2. mkeys' \subseteq Keys
    BY <1>1, <2>1, ApplyTyped DEF Handle, MasterKeys, PlanTypeOK
  <2>. QED  BY <1>1, <2>1, <2>2, EventFacts DEF Handle, PlanTypeOK
<1>2. CASE Wake \/ Drained
  BY <1>2 DEF Wake, Drained, PlanTypeOK
<1>3. CASE Execute
  <2>1. /\ mkeys' = mkeys /\ bpc' = bpc /\ acts # <<>>
        /\ \E steps : Then(steps)
        /\ failures' = failures \/ CountFailure
        /\ master' = master \/ Settle
    <3>1. CASE DeliverByFocus
      BY <3>1 DEF DeliverByFocus, Deliver, Doing
    <3>2. CASE DeliverByMessage \/ InjectKey \/ InjectMouse \/ Click
      BY <3>2 DEF DeliverByMessage, InjectKey, InjectMouse, Click, Doing
    <3>3. CASE RestoreCursor \/ RestoreFocus \/ ReassertHeld \/ Press
      BY <3>3 DEF RestoreCursor, RestoreFocus, ReturnToMaster, ReassertHeld, Press, Doing
    <3>4. CASE SwapMaster \/ Settle
      BY <3>4 DEF SwapMaster, Settle, Doing
    <3>. QED  BY <1>3, <3>1, <3>2, <3>3, <3>4 DEF Execute
  <2>2. current' = IF acts' = <<>> THEN NoEvent ELSE current
    BY <2>1 DEF Then
  <2>3. failures' \in 0 .. MaxCount
    BY <2>1, BroadcasterAssumption DEF CountFailure, PlanTypeOK
  <2>4. master' \in Instances
    BY <2>1, SettleGoesOn DEF PlanTypeOK
  <2>. QED  BY <2>1, <2>2, <2>3, <2>4 DEF PlanTypeOK
<1>4. CASE UNCHANGED broadcasterVars
  BY <1>4 DEF broadcasterVars, PlanTypeOK
<1>. QED  BY <1>1, <1>2, <1>3, <1>4
         DEF Next, UserKey, ForeignKey, UserMouse, UserMove, Hook, Disturb, Broadcast, BroadcasterStep, vars

(* The windows' part.                                                      *)
WindowTypeOK == DesktopTypeOK /\ fgKeys \subseteq Keys

LEMMA BringTyped ==
  ASSUME WindowTypeOK, cursor' = cursor, NEW w \in Instances, BringSucceeds(w) \/ BringFails(w)
  PROVE  WindowTypeOK'
<1>1. CASE BringSucceeds(w)
  BY <1>1 DEF BringSucceeds, Activate, WindowTypeOK, DesktopTypeOK, Windows
<1>2. CASE BringFails(w)
  BY <1>2, DesktopAssumption DEF BringFails, Fault, windowVars, WindowTypeOK, DesktopTypeOK
<1>. QED  BY <1>1, <1>2

LEMMA WindowTypeStep ==
  ASSUME Base, HookTypeOK, PlanTypeOK, Targeted, WindowTypeOK, [Next]_vars
  PROVE  WindowTypeOK'
<1>0. acts # <<>> => /\ Head(acts) \in Elements(acts) /\ current \in EventType
  BY Rest DEF Base, Elements, PlanTypeOK
<1>1. CASE UNCHANGED <<windowVars, cursor>>
  BY <1>1 DEF windowVars, WindowTypeOK, DesktopTypeOK
<1>2. ASSUME NEW p \in Points, UserMove(p)  PROVE WindowTypeOK'
  BY <1>2, DesktopAssumption
     DEF UserMove, windowVars, WindowTypeOK, DesktopTypeOK, Positions, Windows, PlanTypeOK
<1>3. CASE DeliverInput /\ UNCHANGED cursor
  <2>1. inflight.ev \in EventType
    BY <1>3, IsInputFacts DEF DeliverInput, HookTypeOK
  <2>2. fgKeys' \subseteq Keys
    BY <1>3, <2>1, ApplyTyped DEF DeliverInput, KeyReaches, WindowTypeOK
  <2>3. pressed' \subseteq live
    BY <1>3 DEF DeliverInput, ButtonReaches, WindowTypeOK, DesktopTypeOK
  <2>. QED  BY <1>3, <2>2, <2>3 DEF DeliverInput, WindowTypeOK, DesktopTypeOK
<1>4. CASE DeliverByFocus
  <2>1. Head(acts).to \in Instances /\ cursor' = cursor
    BY <1>0, <1>4 DEF DeliverByFocus, Doing, Targeted
  <2>. QED  BY <1>4, <2>1, BringTyped DEF DeliverByFocus, Deliver
<1>5. CASE RestoreFocus
  BY <1>5, BringTyped DEF RestoreFocus, ReturnToMaster, PlanTypeOK
<1>6. CASE Settle
  <2>1. Head(acts).to \in Instances /\ cursor' = cursor
    BY <1>0, <1>6 DEF Settle, Doing, Targeted
  <2>. QED  BY <1>6, <2>1, BringTyped DEF Settle
<1>7. ASSUME NEW ev \in EventType, SendKey(ev),
             UNCHANGED <<fg, pressed, live, late, faults, cursor>>
      PROVE  WindowTypeOK'
  <2>1. fgKeys' \subseteq Keys
    BY <1>7, ApplyTyped DEF SendKey, KeyReaches, WindowTypeOK
  <2>. QED  BY <1>7, <2>1 DEF WindowTypeOK, DesktopTypeOK
<1>8. CASE InjectKey
  <2>1. current \in EventType
    BY <1>0, <1>8 DEF InjectKey, Doing
  <2>. QED  BY <1>7, <1>8, <2>1 DEF InjectKey
<1>9. CASE Press
  <2>1. Head(acts).to \in Keys
    BY <1>0, <1>9 DEF Press, Doing, Targeted, PlanTypeOK
  <2>2. KeyEvent("KeyDown", Head(acts).to) \in EventType
    BY <2>1, KeyEventTyped DEF KeyKinds
  <2>. QED  BY <1>7, <1>9, <2>2 DEF Press
<1>10. CASE InjectMouse \/ RestoreCursor
  <2>1. current.at \in Positions /\ current \in EventType
    BY <1>0, <1>10, EventFacts DEF InjectMouse, RestoreCursor, Doing
  <2>2. cursor' \in Positions
    <3>1. CASE RestoreCursor
      BY <2>1, <3>1 DEF RestoreCursor, MoveCursor
    <3>2. CASE InjectMouse
      <4>1. Head(acts).to \in Windows
        BY <1>0, <3>2 DEF InjectMouse, Doing, Targeted, Windows
      <4>2. cursor' = <<Head(acts).to, current.at[2]>>
        BY <3>2 DEF InjectMouse, MoveCursor, Mirror
      <4>. QED  BY <2>1, <4>1, <4>2 DEF Positions
    <3>. QED  BY <1>10, <3>1, <3>2
  <2>. QED  BY <1>10, <2>2 DEF InjectMouse, RestoreCursor, windowVars, WindowTypeOK, DesktopTypeOK
<1>11. CASE Click
  BY <1>11 DEF Click, ButtonReaches, WindowTypeOK, DesktopTypeOK
<1>12. CASE Disturb
  <2>1. UNCHANGED cursor
    BY <1>12 DEF Disturb, LateActivation, UserSwitch, WindowDies
  <2>2. CASE LateActivation
    BY <2>1, <2>2 DEF LateActivation, Activate, WindowTypeOK, DesktopTypeOK, Windows
  <2>3. CASE UserSwitch
    BY <2>1, <2>3, DesktopAssumption DEF UserSwitch, Activate, Fault, WindowTypeOK, DesktopTypeOK, Windows
  <2>4. CASE \E w \in Instances : WindowDies(w)
    BY <2>1, <2>4, DesktopAssumption DEF WindowDies, Activate, Fault, WindowTypeOK, DesktopTypeOK, Windows
  <2>. QED  BY <1>12, <2>2, <2>3, <2>4 DEF Disturb
<1>13. CASE Broadcast
  BY <1>1, <1>4, <1>5, <1>6, <1>8, <1>9, <1>10, <1>11, <1>13
     DEF Broadcast, BroadcasterStep, Execute, Wake, Drained, Handle, DeliverByMessage, ReassertHeld,
         SwapMaster, desktopVars
<1>14. CASE Hook
  BY <1>1, <1>3, <1>14 DEF Hook, Signal
<1>15. CASE (\E kind \in KeyKinds, k \in Keys : UserKey(kind, k) \/ ForeignKey(kind, k))
            \/ (\E kind \in MouseKinds : UserMouse(kind)) \/ UNCHANGED vars
  BY <1>1, <1>15 DEF UserKey, ForeignKey, UserMouse, vars, desktopVars
<1>. QED  BY <1>2, <1>12, <1>13, <1>14, <1>15 DEF Next

(* The part of the history.                                                *)
HistoryTypeOK ==
  /\ phys \subseteq Keys \union Buttons
  /\ touched \subseteq Keys
  /\ hand \in Positions
  /\ rushed \in BOOLEAN /\ halved \in BOOLEAN

LEMMA HistoryTypeStep ==
  ASSUME PlanTypeOK, HistoryTypeOK, [Next]_vars
  PROVE  HistoryTypeOK'
<1>1. ASSUME NEW kind \in KeyKinds, NEW k \in Keys, UserKey(kind, k) \/ ForeignKey(kind, k)
      PROVE  HistoryTypeOK'
  <2>1. phys' \subseteq Keys \union Buttons
    <3>1. Apply(phys, KeyEvent(kind, k)) \subseteq Keys \union Buttons
      BY KeyEventTyped, ApplyTyped DEF HistoryTypeOK
    <3>. QED  BY <1>1, <3>1 DEF UserKey, ForeignKey, desktopVars, HistoryTypeOK
  <2>2. touched' \subseteq Keys
    BY <1>1 DEF UserKey, ForeignKey, HistoryTypeOK
  <2>3. UNCHANGED <<hand, rushed>>
    BY <1>1 DEF UserKey, ForeignKey
  <2>4. halved' \in BOOLEAN
    BY <1>1 DEF UserKey, ForeignKey
  <2>. QED  BY <2>1, <2>2, <2>3, <2>4 DEF HistoryTypeOK
<1>2. ASSUME NEW kind \in MouseKinds, UserMouse(kind)  PROVE HistoryTypeOK'
  <2>1. phys' \in {phys, phys \union {LButton}, phys \ {LButton}} /\ UNCHANGED <<touched, hand>>
    BY <1>2 DEF UserMouse
  <2>2. rushed' \in BOOLEAN /\ halved' \in BOOLEAN
    BY <1>2 DEF UserMouse
  <2>. QED  BY <2>1, <2>2 DEF HistoryTypeOK, Buttons
<1>3. ASSUME NEW p \in Points, UserMove(p)  PROVE HistoryTypeOK'
  <2>1. cursor' = <<master, p>> /\ hand' = cursor' /\ UNCHANGED <<phys, touched>>
    BY <1>3 DEF UserMove
  <2>2. hand' \in Positions
    BY <2>1, DesktopAssumption DEF PlanTypeOK, Positions, Windows
  <2>3. rushed' \in BOOLEAN /\ halved' \in BOOLEAN
    BY <1>3 DEF UserMove
  <2>. QED  BY <2>1, <2>2, <2>3 DEF HistoryTypeOK
<1>4. CASE Broadcast
  <2>1. UNCHANGED <<phys, hand, rushed, halved>>
    BY <1>4 DEF Broadcast, BroadcasterStep, Wake, Drained, Handle, Execute, DeliverByFocus,
         DeliverByMessage, InjectKey, InjectMouse, Click, RestoreCursor, RestoreFocus, ReassertHeld,
         Press, SwapMaster, Settle, desktopVars
  <2>2. touched' \subseteq touched \union (phys \intersect Keys)
    BY <1>4 DEF Broadcast
  <2>. QED  BY <2>1, <2>2 DEF HistoryTypeOK
<1>5. CASE Hook \/ Disturb \/ UNCHANGED vars
  BY <1>5 DEF Hook, Disturb, LateActivation, UserSwitch, WindowDies, vars, historyVars, desktopVars,
       HistoryTypeOK
<1>. QED  BY <1>1, <1>2, <1>3, <1>4, <1>5 DEF Next

WellTyped ==
  HookTypeOK /\ PlanTypeOK /\ Targeted /\ WindowTypeOK /\ HistoryTypeOK

LEMMA WellTypedInit == Init => WellTyped
<1>. SUFFICES ASSUME Init  PROVE WellTyped
  OBVIOUS
<1>1. HookTypeOK
  <2>1. queue \in Seq(EventType) /\ Len(queue) <= RingCap
    BY CaptureAssumption DEF Init, CaptureInit
  <2>2. IsInput(inflight)
    BY NoInputIsInput DEF Init, CaptureInit
  <2>. QED  BY <2>1, <2>2 DEF Init, CaptureInit, HookTypeOK
<1>2. PlanTypeOK
  <2>1. master \in Instances /\ failures = 0 /\ mkeys = {} /\ acts = <<>>
    BY BaseInit DEF Init, BroadcasterInit, Base
  <2>2. current \in EventType \union {NoEvent} /\ bpc \in {"wait", "drain"}
    BY DEF Init, BroadcasterInit
  <2>. QED  BY <2>1, <2>2, BroadcasterAssumption DEF PlanTypeOK
<1>3. Targeted
  BY BaseInit, ElementsOfNone DEF Targeted, Elements
<1>4. master = 0 /\ master \in Windows /\ fg \in Windows
  BY DesktopAssumption DEF Init, BroadcasterInit, DesktopInit, Windows, Instances
<1>5. cursor \in Positions
  BY <1>4, DesktopAssumption DEF Init, DesktopInit, Positions
<1>6. WindowTypeOK
  BY <1>4, <1>5, DesktopAssumption DEF Init, DesktopInit, WindowTypeOK, DesktopTypeOK
<1>7. HistoryTypeOK
  BY <1>5 DEF Init, HistoryTypeOK
<1>. QED  BY <1>1, <1>2, <1>3, <1>6, <1>7 DEF WellTyped

LEMMA WellTypedStep ==
  ASSUME Base, WellTyped, [Next]_vars
  PROVE  WellTyped'
<1>1. HookTypeOK'
  BY CaptureTypeStep DEF WellTyped, WindowTypeOK, DesktopTypeOK
<1>2. PlanTypeOK'
  BY BroadcasterTypeStep DEF WellTyped, HookTypeOK
<1>3. Targeted'
  <2>1. mkeys \subseteq Int
    BY CaptureAssumption DEF WellTyped, PlanTypeOK
  <2>. QED  BY <2>1, TargetedStep DEF WellTyped
<1>4. WindowTypeOK'
  BY WindowTypeStep DEF WellTyped
<1>5. HistoryTypeOK'
  BY HistoryTypeStep DEF WellTyped
<1>. QED  BY <1>1, <1>2, <1>3, <1>4, <1>5 DEF WellTyped

LEMMA WellTypedAlways == Spec => []WellTyped
BY WellTypedInit, WellTypedStep, BaseAlways, PTL DEF Spec

(* Whatever the keyboard, the routing table, the number of instances and   *)
(* the disturbances: every variable of the three threads stays in its      *)
(* type.  The ring never holds more than its capacity, a plan only names   *)
(* instances that exist and keys the broadcaster believes held, and a      *)
(* plan is executed for an event that is being handled and by a            *)
(* broadcaster that is not waiting.                                        *)
THEOREM PipelineTypeCorrect == Spec => []TypeOK
<1>1. WellTyped => TypeOK
  <2>. SUFFICES ASSUME WellTyped  PROVE TypeOK
    OBVIOUS
  <2>1. CaptureTypeOK
    BY IsInputFacts DEF WellTyped, HookTypeOK, CaptureTypeOK
  <2>2. BroadcasterTypeOK
    <3>1. \A i \in DOMAIN acts :
            /\ acts[i].op \in {"Deliver", "Inject", "Click", "Settle"} => acts[i].to \in Instances
            /\ acts[i].op = "Press" => acts[i].to \in mkeys
      BY DEF WellTyped, Targeted, Elements
    <3>. QED  BY <3>1 DEF WellTyped, PlanTypeOK, BroadcasterTypeOK
  <2>. QED  BY <2>1, <2>2 DEF WellTyped, WindowTypeOK, HistoryTypeOK, TypeOK
<1>. QED  BY <1>1, WellTypedAlways, PTL

-----------------------------------------------------------------------------
(* The keys that did not change while the pipeline was busy.               *)

(* As long as nothing has failed, a delivery injects away from the master. *)
Away == faults = 0 /\ Doing("Inject") => fg # master

LEMMA AwayStep ==
  ASSUME Base, Targeted, Undisturbed, Away, [Next]_vars
  PROVE  Away'
<1>1. CASE IdleStep
  BY <1>1 DEF IdleStep, focusVars, Away, Doing
<1>2. CASE HandleStep
  <2>1. IsSequence(acts') /\ \A i \in DOMAIN acts' : acts'[i].op # "Inject"
    BY <1>2 DEF HandleStep, WholePlan, Shape
  <2>2. acts' # <<>> => Head(acts').op # "Inject"
    <3>. DEFINE q == acts'
    <3>1. PICK S : q \in Seq(S)
      BY <2>1 DEF IsSequence
    <3>2. \A i \in DOMAIN q : q[i].op # "Inject"
      BY <2>1
    <3>. HIDE DEF q
    <3>3. q # <<>> => Head(q).op # "Inject"
      BY <3>1, <3>2
    <3>. QED  BY <3>3 DEF q
  <2>. QED  BY <2>2 DEF Away, Doing
<1>3. CASE PlanStep
  BY <1>3, PlanStepGoesOn DEF Away, Doing
<1>4. CASE DeliverByFocus
  <2>. DEFINE to == Head(acts).to
  <2>1. to \in Instances \ {master} /\ master' = master
    <3>1. Head(acts) \in Elements(acts) /\ Head(acts).op = "Deliver" /\ master' = master
      BY <1>4, Rest DEF DeliverByFocus, Doing, Base, Elements
    <3>. QED  BY <3>1 DEF Targeted
  <2>2. CASE BringSucceeds(to)
    BY <2>1, <2>2 DEF BringSucceeds, Activate, Away
  <2>3. CASE BringFails(to) /\ (acts' # <<>> => Head(acts').op # "Inject")
    BY <2>3 DEF Away, Doing
  <2>4. CASE BringFails(to) /\ Then(<<>>)
    <3>1. acts # <<>>
      BY <1>4 DEF DeliverByFocus, Doing
    <3>. QED  BY <2>3, <2>4, <3>1, ThenNone DEF Base
  <2>. QED  BY <1>4, <2>2, <2>4 DEF DeliverByFocus, Deliver
<1>5. CASE RestoreFocus
  BY <1>5, ReturnGoesOn DEF Away, Doing
<1>6. CASE Settle
  BY <1>6, SettleGoesOn DEF Away, Doing
<1>7. CASE DisturbStep
  <2>1. NoWindow \notin live
    BY DesktopAssumption DEF Base, NoWindow, Instances
  <2>2. faults' # 0
    BY <1>7, <2>1 DEF DisturbStep, Fault, Undisturbed, Base
  <2>. QED  BY <2>2 DEF Away
<1>. QED  BY <1>1, <1>2, <1>3, <1>4, <1>5, <1>6, <1>7, Steps

(* A key that was held before the program started is not one whose event   *)
(* was dropped.                                                            *)
NeverSeen == lost \intersect (phys \ keys) = {}

LEMMA NeverSeenStep ==
  ASSUME ~AcceptForeign, lost \subseteq Keys, NeverSeen, [Next]_vars
  PROVE  NeverSeen'
<1>1. ASSUME NEW source \in {"hardware", "foreign"}, NEW kind \in KeyKinds, NEW k \in Keys,
             KeyStep(source, kind, k)
      PROVE  NeverSeen'
  <2>. DEFINE ev == KeyEvent(kind, k)
  <2>0. ev.kind = kind /\ ev.vk = k
    BY DEF KeyEvent
  <2>1. HookKey(source, ev)
    BY <1>1 DEF KeyStep, KeyInput
  <2>2. CASE source = "hardware"
    <3>1. phys' = Apply(phys, ev) /\ keys' = Apply(keys, ev) /\ lost' \ {k} = lost \ {k}
      BY <1>1, <2>0, <2>1, <2>2 DEF KeyStep, HookKey, Publishes, Changes, Ignored, PublishKey
    <3>2. CASE kind = "KeyDown"
      <4>1. phys' = phys \union {k} /\ keys' = keys \union {k}
        BY <2>0, <3>1, <3>2 DEF Apply
      <4>. QED  BY <3>1, <4>1 DEF NeverSeen
    <3>3. CASE kind = "KeyUp"
      <4>1. phys' = phys \ {k} /\ keys' = keys \ {k}
        BY <2>0, <3>1, <3>3 DEF Apply
      <4>. QED  BY <3>1, <4>1 DEF NeverSeen
    <3>. QED  BY <3>2, <3>3 DEF KeyKinds
  <2>3. CASE source = "foreign"
    BY <1>1, <2>1, <2>3 DEF KeyStep, HookKey, Publishes, Ignored, NeverSeen
  <2>. QED  BY <2>2, <2>3
<1>2. ASSUME NEW kind \in MouseKinds, MouseStep(kind)
      PROVE  NeverSeen'
  <2>1. UNCHANGED <<keys, lost>> /\ phys' \in {phys, phys \union Buttons, phys \ Buttons}
    BY <1>2 DEF MouseStep, MouseInput
  <2>2. lost \intersect Buttons = {}
    BY CaptureAssumption
  <2>. QED  BY <2>1, <2>2 DEF NeverSeen
<1>3. CASE UNCHANGED <<keys, lost, phys>>
  BY <1>3 DEF NeverSeen
<1>4. CASE HookStep /\ UNCHANGED <<bpc, mkeys, phys>>
  BY <1>3, <1>4 DEF HookStep, Signal, DeliverInput
<1>5. CASE Wake \/ Drained \/ Handle
  BY <1>3, <1>5 DEF Wake, Drained, Handle, captureVars, desktopVars
<1>6. CASE OtherStep \/ UNCHANGED vars
  BY <1>3, <1>6 DEF OtherStep, vars, captureVars, desktopVars
<1>. QED  BY <1>1, <1>2, <1>4, <1>5, <1>6, RingSteps

(* An event of key k is on its way to the hook's caller or to a window.    *)
Coming(k) == inflight.stage # "none" /\ IsKey(inflight.ev) /\ inflight.ev.vk = k

(* The rest of the plan presses key k once more.                           *)
ToPress(k) ==
  \E a \in Elements(acts) : (a.op = "Press" /\ a.to = k) \/ (a.op = "ReassertHeld" /\ k \in mkeys)

Recorded(k) == k \notin lost /\ (k \in keys <=> k \in phys)

(* Its last event, if it is still in the ring, is the oldest there.        *)
Foremost(k) == EventsOf(k) # {} => acts = <<>> /\ EventsOf(k) = {1}

Truthful(k) ==
  Coming(k) => /\ inflight.ev.kind = "KeyDown" <=> k \in phys
               /\ ~Swallows(Routes, k) => inflight.pass

Shown(k) ==
  faults = 0 /\ ~Swallows(Routes, k) /\ fg = master /\ ~Coming(k) =>
    (k \in fgKeys \/ ToPress(k) <=> k \in phys)

Steady(k) == Recorded(k) /\ Foremost(k) /\ Truthful(k) /\ Shown(k)

HeldInv ==
  /\ Base /\ WellTyped /\ Undisturbed /\ NoFeedback /\ CopiesAgree
  /\ Away /\ NeverSeen
  /\ \A k \in Keys \ touched : Steady(k)

LEMMA NoInputComes ==
  ASSUME inflight = NoInput, NEW k
  PROVE  ~Coming(k)
<1>1. NoInput.stage = "none"
  BY DEF NoInput, Input
<1>. QED  BY <1>1 DEF Coming

(* What is re-asserted is held.                                            *)
LEMMA ToPressIsHeld ==
  ASSUME HeldInv, NEW k \in Keys \ touched
  PROVE  /\ ToPress(k) => k \in mkeys /\ acts # <<>>
         /\ EventsOf(k) = {} => (k \in mkeys <=> k \in phys)
         /\ acts # <<>> => EventsOf(k) = {}
         /\ ToPress(k) => k \in phys
<1>1. ToPress(k) => k \in mkeys /\ acts # <<>>
  BY ElementsOfNone DEF HeldInv, WellTyped, Targeted, ToPress
<1>2. EventsOf(k) = {} => (k \in mkeys <=> k \in phys)
  BY DEF HeldInv, Steady, Recorded, CopiesAgree, WillBeHeld
<1>3. acts # <<>> => EventsOf(k) = {}
  BY DEF HeldInv, Steady, Foremost
<1>. QED  BY <1>1, <1>2, <1>3

(* A step that leaves all this alone.                                      *)
LEMMA SteadyStays ==
  ASSUME NEW k, Steady(k),
         UNCHANGED <<queue, inflight, acts, mkeys, master, fg, faults>>,
         k \in keys' <=> k \in keys, k \in lost' <=> k \in lost,
         k \in phys' <=> k \in phys, k \in fgKeys' <=> k \in fgKeys
  PROVE  Steady(k)'
BY DEF Steady, Recorded, Foremost, Truthful, Shown, EventsOf, Coming, ToPress, Elements

(* The user presses or releases a key while the pipeline is at rest.       *)
LEMMA QuietChange ==
  ASSUME HeldInv, NEW kind \in KeyKinds, NEW k \in Keys, UserKey(kind, k),
         Quiet, phys' # phys
  PROVE  Steady(k)'
<1>. DEFINE ev == KeyEvent(kind, k)
            pass == ~Blocked("hardware", ev)
<1>0. ev.kind = kind /\ ev.vk = k /\ IsKey(ev)
  BY DEF KeyEvent, IsKey
<1>1. /\ HookKey("hardware", ev) /\ UNCHANGED <<acts, mkeys, master, fg, fgKeys, faults>>
      /\ phys' = Apply(phys, ev) /\ queue = <<>> /\ acts = <<>>
  BY DEF UserKey, KeyInput, Quiet, broadcasterVars, windowVars
<1>2. pass <=> ~Swallows(Routes, k)
  BY <1>0 DEF Blocked, Ignored
<1>3. /\ keys' = Apply(keys, ev)
      /\ Publishes("hardware", ev) <=> keys' # keys
  BY <1>1 DEF HookKey, Publishes, Changes, Ignored
<1>4. k \in phys' <=> kind = "KeyDown"
  BY <1>0, <1>1 DEF Apply, KeyKinds
<1>5. k \in keys' <=> kind = "KeyDown"
  BY <1>0, <1>3 DEF Apply, KeyKinds
<1>6. inflight' = IF Publishes("hardware", ev) THEN Input("signal", ev, pass)
                  ELSE IF pass THEN Input("deliver", ev, TRUE) ELSE NoInput
  BY DEF UserKey, KeyInput
<1>7. CASE Publishes("hardware", ev)
  <2>1. Len(queue) < RingCap /\ queue \in Seq({}) /\ Len(queue) = 0
    BY <1>1, CaptureAssumption
  <2>2. queue' = Append(queue, ev) /\ lost' = lost \ {k}
    BY <1>0, <1>1, <1>7, <2>1 DEF HookKey, PublishKey
  <2>3. queue' = <<ev>>
    BY <1>1, <2>2
  <2>4. DOMAIN queue' = {1} /\ queue'[1] = ev
    BY <2>3
  <2>5. EventsOf(k)' = {1}
    BY <1>0, <2>4 DEF EventsOf, IsKey
  <2>6. inflight'.stage = "signal" /\ inflight'.ev = ev /\ inflight'.pass = pass
    BY <1>6, <1>7, InputFacts
  <2>. QED  BY <1>0, <1>1, <1>2, <1>4, <1>5, <2>2, <2>5, <2>6
           DEF Steady, Recorded, Foremost, Truthful, Shown, Coming
<1>8. CASE ~Publishes("hardware", ev)
  <2>1. UNCHANGED <<queue, keys, lost>>
    BY <1>1, <1>8 DEF HookKey
  <2>2. kind # "KeyDown"
    <3>. SUFFICES ASSUME kind = "KeyDown"  PROVE FALSE
      OBVIOUS
    <3>1. k \in keys /\ keys \subseteq phys
      BY <1>5, <2>1 DEF HeldInv, NoFeedback
    <3>2. phys' = phys \union {k}
      BY <1>0, <1>1 DEF Apply
    <3>. QED  BY <3>1, <3>2
  <2>3. k \notin lost
    <3>1. k \in phys
      BY <2>2 DEF UserKey, KeyKinds
    <3>. QED  BY <1>5, <2>1, <2>2, <3>1 DEF HeldInv, NeverSeen
  <2>4. EventsOf(k)' = {}
    <3>1. DOMAIN <<>> = {}
      OBVIOUS
    <3>. QED  BY <1>1, <2>1, <3>1 DEF EventsOf
  <2>5. CASE pass
    <3>1. inflight'.stage = "deliver" /\ inflight'.ev = ev /\ inflight'.pass = TRUE
      <4>1. inflight' = Input("deliver", ev, TRUE)
        BY <1>6, <1>8, <2>5
      <4>. QED  BY <4>1 DEF Input
    <3>. QED  BY <1>0, <1>4, <1>5, <2>1, <2>3, <2>4, <3>1
             DEF Steady, Recorded, Foremost, Truthful, Shown, Coming
  <2>6. CASE ~pass
    <3>1. inflight'.stage = "none"
      <4>1. inflight' = NoInput
        BY <1>6, <1>8, <2>6
      <4>. QED  BY <4>1 DEF NoInput, Input
    <3>. QED  BY <1>2, <1>4, <1>5, <2>1, <2>3, <2>4, <2>6, <3>1
             DEF Steady, Recorded, Foremost, Truthful, Shown, Coming
  <2>. QED  BY <2>5, <2>6
<1>. QED  BY <1>7, <1>8

(* Key k lets the keys and the mouse of the user, and what other programs  *)
(* inject, go by.                                                          *)
LEMMA InputLeavesSteady ==
  ASSUME ~AcceptForeign, HeldInv, NEW k \in Keys \ touched', k \notin touched => Steady(k),
         \/ \E kind \in KeyKinds, j \in Keys : UserKey(kind, j) \/ ForeignKey(kind, j)
         \/ \E kind \in MouseKinds : UserMouse(kind)
  PROVE  Steady(k)'
<1>1. ASSUME Steady(k), NEW ev \in EventType, ~ (IsKey(ev) /\ ev.vk = k), NEW source,
             inflight = NoInput,
             inflight' = NoInput \/ \E stage, pass : inflight' = Input(stage, ev, pass),
             queue' = queue \/ queue' = Append(queue, ev),
             k \in keys' <=> k \in keys, k \in lost' <=> k \in lost, k \in phys' <=> k \in phys,
             UNCHANGED <<fg, fgKeys, faults, acts, mkeys, master>>
      PROVE  Steady(k)'
  <2>1. EventsOf(k)' = EventsOf(k)
    <3>1. CASE queue' = queue
      BY <3>1 DEF EventsOf
    <3>2. CASE queue' = Append(queue, ev)
      <4>1. IsQueue
        BY DEF HeldInv, WellTyped, HookTypeOK, IsQueue
      <4>. QED  BY <1>1, <3>2, <4>1, AppendFacts DEF EventsOf, IsKey
    <3>. QED  BY <1>1, <3>1, <3>2
  <2>2. ~Coming(k)
    BY <1>1, NoInputComes
  <2>3. ~Coming(k)'
    <3>1. CASE inflight' = NoInput
      BY <3>1 DEF NoInput, Input, Coming
    <3>2. CASE \E stage, pass : inflight' = Input(stage, ev, pass)
      <4>1. inflight'.ev = ev
        BY <3>2 DEF Input
      <4>. QED  BY <1>1, <4>1 DEF Coming
    <3>. QED  BY <1>1, <3>1, <3>2
  <2>. QED  BY <1>1, <2>1, <2>2, <2>3
           DEF Steady, Recorded, Foremost, Truthful, Shown, ToPress, Elements
<1>2. ASSUME NEW kind \in KeyKinds, NEW j \in Keys, j # k, NEW source \in {"hardware", "foreign"},
             KeyInput(source, KeyEvent(kind, j)), Steady(k), k \in phys' <=> k \in phys,
             UNCHANGED <<fg, fgKeys, faults, acts, mkeys, master>>
      PROVE  Steady(k)'
  <2>. DEFINE ev == KeyEvent(kind, j)
  <2>1. ev.vk = j /\ ev.kind = kind /\ ev \in EventType
    BY KeyEventTyped DEF KeyEvent
  <2>2. /\ inflight = NoInput /\ HookKey(source, ev)
        /\ inflight' = NoInput \/ \E stage, pass : inflight' = Input(stage, ev, pass)
    BY <1>2 DEF KeyInput
  <2>. HIDE DEF ev
  <2>3. /\ queue' = queue \/ queue' = Append(queue, ev)
        /\ k \in keys' <=> k \in keys
        /\ k \in lost' <=> k \in lost
    BY <1>2, <2>1, <2>2 DEF HookKey, PublishKey, Apply, KeyKinds
  <2>. QED  BY <1>1, <1>2, <2>1, <2>2, <2>3
<1>3. ASSUME NEW kind \in KeyKinds, NEW j \in Keys, UserKey(kind, j)
      PROVE  Steady(k)'
  <2>0. UNCHANGED <<fg, fgKeys, faults, acts, mkeys, master>>
    BY <1>3 DEF UserKey, windowVars, broadcasterVars
  <2>1. CASE j # k
    <3>1. k \notin touched
      BY <1>3, <2>1 DEF UserKey
    <3>2. k \in phys' <=> k \in phys
      BY <1>3, <2>1 DEF UserKey, KeyEvent, Apply, KeyKinds
    <3>3. KeyInput("hardware", KeyEvent(kind, j))
      BY <1>3 DEF UserKey
    <3>. QED  BY <1>2, <2>0, <2>1, <3>1, <3>2, <3>3
  <2>2. CASE j = k /\ phys' # phys
    <3>1. Quiet
      BY <1>3, <2>2 DEF UserKey
    <3>. QED  BY <1>3, <2>2, <3>1, QuietChange
  <2>3. CASE j = k /\ phys' = phys
    <3>. DEFINE ev == KeyEvent(kind, k)
                pass == ~Blocked("hardware", ev)
    <3>0. ev.kind = kind /\ ev.vk = k
      BY DEF KeyEvent
    <3>1. Steady(k) /\ phys' = Apply(phys, ev) /\ KeyInput("hardware", ev)
      BY <1>3, <2>3 DEF UserKey
    <3>2. kind = "KeyDown" /\ k \in phys
      <4>1. CASE kind = "KeyUp"
        <5>1. k \in phys /\ k \notin phys'
          BY <1>3, <2>3, <3>0, <3>1, <4>1 DEF UserKey, Apply
        <5>. QED  BY <2>3, <5>1
      <4>2. CASE kind = "KeyDown"
        BY <2>3, <3>0, <3>1, <4>2 DEF Apply
      <4>. QED  BY <4>1, <4>2 DEF KeyKinds
    <3>3. k \in keys
      BY <3>1, <3>2 DEF Steady, Recorded
    <3>4. ~Publishes("hardware", ev)
      <4>1. keys \union {k} = keys
        BY <3>3
      <4>. QED  BY <3>0, <3>2, <4>1 DEF Publishes, Changes, Apply
    <3>5. UNCHANGED <<queue, keys, lost>>
      BY <3>1, <3>4 DEF KeyInput, HookKey
    <3>6. pass <=> ~Swallows(Routes, k)
      BY <3>0 DEF Blocked, Ignored
    <3>7. inflight' = IF pass THEN Input("deliver", ev, TRUE) ELSE NoInput
      BY <3>1, <3>4 DEF KeyInput
    <3>8. CASE pass
      <4>1. inflight' = Input("deliver", ev, TRUE)
        BY <3>7, <3>8
      <4>2. inflight'.stage = "deliver" /\ inflight'.ev = ev /\ inflight'.pass = TRUE
        BY <4>1 DEF Input
      <4>. QED  BY <2>0, <2>3, <3>0, <3>1, <3>2, <3>5, <4>2
               DEF Steady, Recorded, Foremost, Truthful, Shown, Coming, IsKey, KeyKinds, EventsOf
    <3>9. CASE ~pass
      <4>1. inflight' = NoInput
        BY <3>7, <3>9
      <4>2. ~Coming(k)'
        BY <4>1 DEF NoInput, Input, Coming
      <4>. QED  BY <2>0, <2>3, <3>1, <3>5, <3>6, <3>9, <4>2
               DEF Steady, Recorded, Foremost, Truthful, Shown, EventsOf
    <3>. QED  BY <3>8, <3>9
  <2>. QED  BY <2>1, <2>2, <2>3
<1>4. ASSUME NEW kind \in KeyKinds, NEW j \in Keys, ForeignKey(kind, j)
      PROVE  Steady(k)'
  <2>1. j # k /\ k \notin touched /\ KeyInput("foreign", KeyEvent(kind, j)) /\ phys' = phys
    BY <1>4 DEF ForeignKey, desktopVars
  <2>2. UNCHANGED <<fg, fgKeys, faults, acts, mkeys, master>>
    BY <1>4 DEF ForeignKey, desktopVars, windowVars, broadcasterVars
  <2>. QED  BY <1>2, <2>1, <2>2
<1>5. ASSUME NEW kind \in MouseKinds, UserMouse(kind)
      PROVE  Steady(k)'
  <2>. DEFINE ev == MouseEvent(kind)
  <2>1. ev \in EventType /\ ~IsKey(ev)
    <3>1. ev \in EventType
      BY MouseEventTyped, PipelineAssumption DEF HeldInv, WellTyped, WindowTypeOK, DesktopTypeOK
    <3>2. ev.kind = kind /\ kind \notin KeyKinds
      BY PipelineAssumption DEF MouseEvent, KeyKinds, ButtonKinds
    <3>. QED  BY <3>1, <3>2 DEF IsKey
  <2>2. /\ inflight = NoInput /\ inflight' = Input("signal", ev, TRUE)
        /\ UNCHANGED <<keys, lost>>
        /\ queue' = queue \/ queue' = Append(queue, ev)
    BY <1>5 DEF UserMouse, MouseInput, HookMouse
  <2>3. k \in phys' <=> k \in phys
    BY <1>5, CaptureAssumption DEF UserMouse, Buttons
  <2>4. UNCHANGED <<fg, fgKeys, faults, acts, mkeys, master>> /\ k \notin touched
    BY <1>5 DEF UserMouse, windowVars, broadcasterVars
  <2>. HIDE DEF ev
  <2>. QED  BY <1>1, <2>1, <2>2, <2>3, <2>4
<1>. QED  BY <1>3, <1>4, <1>5

(* The hook passes the events of key k on, and Windows delivers them to    *)
(* the window in the foreground.                                           *)
LEMMA HookLeavesSteady ==
  ASSUME HeldInv, Hook, NEW k \in Keys \ touched
  PROVE  Steady(k)'
<1>0. Steady(k) /\ IsInput(inflight)
  BY DEF HeldInv, WellTyped, HookTypeOK
<1>1. UNCHANGED <<queue, keys, lost, phys, fg, faults, acts, mkeys, master>>
  BY DEF Hook, Signal, DeliverInput, windowVars, broadcasterVars
<1>2. UNCHANGED EventsOf(k) /\ UNCHANGED ToPress(k)
  BY <1>1 DEF EventsOf, ToPress, Elements
<1>3. CASE Signal
  <2>1. inflight.stage = "signal" /\ fgKeys' = fgKeys
        /\ inflight' = IF inflight.pass THEN Input("deliver", inflight.ev, inflight.pass) ELSE NoInput
    BY <1>0, <1>3, SignalFacts DEF Signal, windowVars
  <2>2. CASE inflight.pass
    <3>1. inflight'.stage = "deliver" /\ inflight'.ev = inflight.ev /\ inflight'.pass = inflight.pass
      BY <2>1, <2>2 DEF Input
    <3>2. Coming(k)' <=> Coming(k)
      BY <2>1, <3>1 DEF Coming
    <3>. QED  BY <1>0, <1>1, <1>2, <2>1, <3>1, <3>2 DEF Steady, Recorded, Foremost, Truthful, Shown
  <2>3. CASE ~inflight.pass
    <3>1. ~Coming(k)'
      BY <2>1, <2>3 DEF Coming, NoInput, Input
    <3>. QED  BY <1>0, <1>1, <1>2, <2>1, <2>3, <3>1 DEF Steady, Recorded, Foremost, Truthful, Shown
  <2>. QED  BY <2>2, <2>3
<1>4. CASE DeliverInput
  <2>1. KeyReaches(inflight.ev) /\ inflight' = NoInput /\ inflight.stage # "none"
    BY <1>4 DEF DeliverInput
  <2>2. ~Coming(k)'
    BY <2>1 DEF Coming, NoInput, Input
  <2>3. fg = master => fgKeys' = Apply(fgKeys, inflight.ev)
    BY <2>1 DEF KeyReaches, HeldInv, Base
  <2>4. CASE Coming(k)
    <3>1. inflight.ev.kind \in KeyKinds /\ inflight.ev.vk = k
      BY <2>4 DEF Coming, IsKey
    <3>2. fg = master => (k \in fgKeys' <=> k \in phys)
      BY <1>0, <2>3, <2>4, <3>1 DEF Steady, Truthful, Apply, KeyKinds
    <3>3. ToPress(k) => k \in phys
      BY ToPressIsHeld
    <3>. QED  BY <1>0, <1>1, <1>2, <2>2, <3>2, <3>3 DEF Steady, Recorded, Foremost, Truthful, Shown
  <2>5. CASE ~Coming(k)
    <3>1. fg = master => (k \in fgKeys' <=> k \in fgKeys)
      BY <2>1, <2>3, <2>5 DEF Coming, IsKey, Apply, KeyKinds
    <3>. QED  BY <1>0, <1>1, <1>2, <2>2, <2>5, <3>1 DEF Steady, Recorded, Foremost, Truthful, Shown
  <2>. QED  BY <2>4, <2>5
<1>. QED  BY <1>3, <1>4 DEF Hook

(* A disturbance is counted.                                               *)
LEMMA DisturbLeavesSteady ==
  ASSUME HeldInv, Disturb, NEW k \in Keys \ touched
  PROVE  Steady(k)'
<1>1. faults' # 0
  <2>1. CASE LateActivation
    <3>1. NoWindow \notin live
      BY DesktopAssumption DEF HeldInv, Base, NoWindow, Instances
    <3>. QED  BY <2>1, <3>1 DEF LateActivation, HeldInv, Undisturbed
  <2>2. CASE UserSwitch \/ \E w \in Instances : WindowDies(w)
    BY <2>2 DEF UserSwitch, WindowDies, Fault, HeldInv, Base
  <2>. QED  BY <2>1, <2>2 DEF Disturb
<1>2. UNCHANGED <<queue, keys, lost, inflight, phys, acts>>
  BY DEF Disturb, LateActivation, UserSwitch, WindowDies, captureVars, broadcasterVars
<1>3. Steady(k)
  BY DEF HeldInv
<1>. QED  BY <1>1, <1>2, <1>3 DEF Steady, Recorded, Foremost, Truthful, Shown, EventsOf, Coming

(* The broadcaster takes the oldest event: it is the last one of key k.    *)
LEMMA HandleLeavesSteady ==
  ASSUME HeldInv, Handle, CopiesAgree', Targeted', NEW k \in Keys \ touched
  PROVE  Steady(k)'
<1>0. Steady(k)
  BY DEF HeldInv
<1>1. /\ UNCHANGED <<keys, lost, inflight, phys, fg, fgKeys, faults, master>>
      /\ acts = <<>> /\ queue # <<>> /\ queue' = Tail(queue)
  BY DEF Handle, desktopVars, windowVars
<1>2. EventsOf(k)' = {}
  <2>1. IsQueue
    BY DEF HeldInv, WellTyped, HookTypeOK, IsQueue
  <2>2. EventsOf(k) \subseteq {1}
    BY <1>0 DEF Steady, Foremost
  <2>3. ASSUME NEW i \in EventsOf(k)'  PROVE FALSE
    <3>1. i \in 1 .. Len(queue) - 1 /\ Len(queue) \in Nat
      BY <1>1, <2>1, <2>3, TailFacts DEF EventsOf
    <3>2. i + 1 \in EventsOf(k)
      BY <1>1, <2>1, <2>3, <3>1, TailFacts DEF EventsOf
    <3>. QED  BY <2>2, <3>1, <3>2
  <2>. QED  BY <2>3
<1>3. k \in mkeys' <=> k \in phys
  BY <1>0, <1>1, <1>2 DEF CopiesAgree, WillBeHeld, Steady, Recorded
<1>4. ToPress(k)' => k \in phys
  BY <1>3 DEF ToPress, Targeted, Elements
<1>5. ~ToPress(k)
  BY <1>1, ToPressIsHeld
<1>6. Coming(k)' <=> Coming(k)
  BY <1>1 DEF Coming
<1>. QED  BY <1>0, <1>1, <1>2, <1>4, <1>5, <1>6 DEF Steady, Recorded, Foremost, Truthful, Shown

(* Key k goes by the steps of a plan.                                      *)
LEMMA ExecuteLeavesSteady ==
  ASSUME HeldInv, Broadcast, Execute, NEW k \in Keys \ touched'
  PROVE  Steady(k)'
<1>1. /\ UNCHANGED <<queue, keys, lost, inflight, phys, mkeys>> /\ acts # <<>>
      /\ master' = master \/ Settle
  BY DEF Execute, DeliverByFocus, DeliverByMessage, InjectKey, InjectMouse, Click, RestoreCursor,
     RestoreFocus, ReassertHeld, Press, SwapMaster, Settle, Doing, captureVars, desktopVars, SendKey,
     HookKey, Publishes, Ignored, HookMouse
<1>2. k \notin touched /\ (Settle => k \notin phys)
  BY DEF Broadcast, Settle
<1>3. Steady(k) /\ EventsOf(k) = {} /\ (k \in mkeys <=> k \in phys) /\ (ToPress(k) => k \in mkeys)
  BY <1>1, <1>2, ToPressIsHeld DEF HeldInv
<1>4. /\ EventsOf(k)' = {} /\ (Coming(k)' <=> Coming(k))
      /\ Recorded(k)' /\ Foremost(k)' /\ Truthful(k)'
  BY <1>1, <1>3 DEF EventsOf, Coming, Steady, Recorded, Foremost, Truthful
<1>5. SUFFICES ASSUME faults' = 0, ~Swallows(Routes, k), fg' = master', ~Coming(k)'
               PROVE  k \in fgKeys' \/ ToPress(k)' <=> k \in phys
  BY <1>1, <1>4 DEF Steady, Shown
<1>6. fg = master /\ faults = 0 => (k \in fgKeys \/ ToPress(k) <=> k \in phys)
  BY <1>3, <1>4, <1>5 DEF Steady, Shown
<1>7. ASSUME NEW steps, IsSequence(steps), Then(steps),
             \A a \in Elements(steps) : a.op \notin {"Press", "ReassertHeld"}
      PROVE  /\ ToPress(k)' => ToPress(k)
             /\ ToPress(k) => \/ ToPress(k)' \/ Head(acts).op = "ReassertHeld"
                              \/ Head(acts).op = "Press" /\ Head(acts).to = k
  <2>1. /\ Elements(acts) = {Head(acts)} \union Elements(Tail(acts))
        /\ Elements(acts)' = Elements(steps) \union Elements(Tail(acts))
    BY <1>1, <1>7, ThenElements DEF HeldInv, Base
  <2>2. ToPress(k)' <=> \E a \in Elements(Tail(acts)) :
                          (a.op = "Press" /\ a.to = k) \/ (a.op = "ReassertHeld" /\ k \in mkeys)
    BY <1>1, <1>7, <2>1 DEF ToPress
  <2>. QED  BY <2>1, <2>2 DEF ToPress
<1>8. IsSequence(<<>>) /\ \A a \in Elements(<<>>) : FALSE
  <2>1. <<>> \in Seq({})
    OBVIOUS
  <2>. QED  BY <2>1, ElementsOfNone DEF IsSequence
<1>9. \A op \in {"Inject", "Click", "Settle"} : \A to :
        IsSequence(<<Step(op, to)>>)
        /\ \A a \in Elements(<<Step(op, to)>>) : a.op \notin {"Press", "ReassertHeld"}
  BY ElementsOfOne DEF Step, Action
<1>10. CASE DeliverByFocus
  <2>. DEFINE to == Head(acts).to
  <2>1. to \in Instances \ {master} /\ master' = master
    <3>1. Head(acts) \in Elements(acts) /\ Head(acts).op = "Deliver" /\ master' = master
      BY <1>10, Rest DEF DeliverByFocus, Doing, HeldInv, Base, Elements
    <3>. QED  BY <3>1 DEF HeldInv, WellTyped, Targeted
  <2>2. CASE BringSucceeds(to)
    BY <1>5, <2>1, <2>2 DEF BringSucceeds, Activate
  <2>3. CASE BringFails(to)
    <3>1. faults = 0 /\ to \in live
      BY <1>5, <2>1, <2>3, Bring DEF HeldInv, Undisturbed
    <3>. QED  BY <1>5, <2>1, <2>3, <3>1, Bring DEF HeldInv
  <2>. QED  BY <1>10, <2>2, <2>3 DEF DeliverByFocus, Deliver
<1>11. CASE InjectKey \/ InjectMouse
  <2>1. Doing("Inject") /\ UNCHANGED <<fg, faults, master>>
    BY <1>11 DEF InjectKey, InjectMouse, windowVars
  <2>. QED  BY <1>5, <2>1 DEF HeldInv, Away
<1>12. ASSUME NEW steps, IsSequence(steps), Then(steps),
              \A a \in Elements(steps) : a.op \notin {"Press", "ReassertHeld"},
              Head(acts).op \notin {"Press", "ReassertHeld"},
              UNCHANGED <<fg, fgKeys, faults, master>>
       PROVE  k \in fgKeys' \/ ToPress(k)' <=> k \in phys
  BY <1>5, <1>6, <1>7, <1>12
<1>13. CASE DeliverByMessage \/ Click \/ RestoreCursor
  <2>1. Then(<<>>) /\ Head(acts).op \in {"Deliver", "Click", "RestoreCursor"}
        /\ UNCHANGED <<fg, fgKeys, faults, master>>
    BY <1>13 DEF DeliverByMessage, Click, RestoreCursor, Doing, desktopVars, windowVars
  <2>. QED  BY <1>8, <1>12, <2>1
<1>14. CASE SwapMaster
  <2>1. PICK next : Then(<<Step("Settle", next)>>)
    BY <1>14 DEF SwapMaster
  <2>2. Head(acts).op = "SwapMaster" /\ UNCHANGED <<fg, fgKeys, faults, master>>
    BY <1>14 DEF SwapMaster, Doing, desktopVars, windowVars
  <2>. QED  BY <1>9, <1>12, <2>1, <2>2
<1>15. CASE RestoreFocus
  <2>1. /\ Head(acts).op = "RestoreFocus" /\ Then(<<>>) /\ master' = master
        /\ BringSucceeds(master) \/ BringFails(master)
    BY <1>15 DEF RestoreFocus, ReturnToMaster, Doing
  <2>2. CASE BringFails(master)
    <3>1. faults = 0 /\ master \in live
      BY <1>5, <2>2, Bring DEF HeldInv, Base, Undisturbed
    <3>. QED  BY <1>5, <2>2, <3>1 DEF BringFails, Fault, HeldInv, Base
  <2>3. CASE BringSucceeds(master) /\ fg = master
    <3>1. UNCHANGED <<fg, fgKeys, faults>>
      BY <2>3 DEF BringSucceeds, Activate
    <3>. QED  BY <1>8, <1>12, <2>1, <3>1
  <2>4. CASE BringSucceeds(master) /\ fg # master
    <3>1. fgKeys' = {}
      BY <2>4 DEF BringSucceeds, Activate
    <3>2. mkeys = {} \/ \E b \in Elements(acts) : b.op = "ReassertHeld"
      <4>1. Returning
        BY <1>1, <2>1, Rest DEF Returning, HeldInv, Base
      <4>. QED  BY <4>1 DEF HeldInv, WellTyped, Targeted
    <3>3. k \in mkeys => ToPress(k)
      BY <3>2 DEF ToPress
    <3>. QED  BY <1>3, <1>7, <1>8, <2>1, <3>1, <3>3
  <2>. QED  BY <2>1, <2>2, <2>3, <2>4
<1>16. CASE ReassertHeld
  <2>. DEFINE order == Ordered(mkeys)
              steps == [i \in DOMAIN order |-> Step("Press", order[i])]
  <2>1. Head(acts).op = "ReassertHeld" /\ Then(steps) /\ UNCHANGED <<fg, fgKeys, faults, master>>
    BY <1>16 DEF ReassertHeld, Doing, desktopVars, windowVars
  <2>2. mkeys \subseteq Int /\ IsFiniteSet(mkeys)
    BY CaptureAssumption DEF HeldInv, WellTyped, PlanTypeOK, Base
  <2>3. /\ \A i \in DOMAIN order : order[i] \in mkeys
        /\ \A x \in mkeys : \E i \in DOMAIN order : order[i] = x
    BY <2>2, OrderedListsAll
  <2>4. IsSequence(steps)
    <3>1. PICK T : order \in Seq(T)
      BY <2>2, OrderedIsSequence DEF IsSequence
    <3>. HIDE DEF order
    <3>2. steps \in Seq({Step("Press", order[i]) : i \in DOMAIN order})
      BY <3>1
    <3>. QED  BY <3>2 DEF IsSequence
  <2>5. \A x : Step("Press", x).op = "Press" /\ Step("Press", x).to = x
    BY DEF Step, Action
  <2>6. k \in mkeys <=> \E a \in Elements(steps) : a.op = "Press" /\ a.to = k
    <3>. HIDE DEF order
    <3>. QED  BY <2>3, <2>5 DEF Elements
  <2>. HIDE DEF steps
  <2>7. /\ Elements(acts) = {Head(acts)} \union Elements(Tail(acts))
        /\ Elements(acts)' = Elements(steps) \union Elements(Tail(acts))
    BY <1>1, <2>1, <2>4, ThenElements DEF HeldInv, Base
  <2>8. k \in mkeys <=> ToPress(k)
    BY <1>3, <2>1, <2>7 DEF ToPress
  <2>9. k \in mkeys => ToPress(k)'
    BY <2>6, <2>7 DEF ToPress
  <2>10. ToPress(k)' => k \in mkeys
    BY <1>1, <2>6, <2>7, <2>8 DEF ToPress
  <2>. QED  BY <1>5, <1>6, <2>1, <2>8, <2>9, <2>10
<1>17. CASE Press
  <2>. DEFINE to == Head(acts).to
  <2>1. /\ Head(acts).op = "Press" /\ Then(<<>>) /\ UNCHANGED <<fg, faults, master>>
        /\ KeyReaches(KeyEvent("KeyDown", to))
    BY <1>17 DEF Press, Doing, SendKey, Blocked, Ignored
  <2>2. to \in mkeys
    <3>1. Head(acts) \in Elements(acts)
      BY <1>1, Rest DEF HeldInv, Base, Elements
    <3>. QED  BY <2>1, <3>1 DEF HeldInv, WellTyped, Targeted
  <2>3. fgKeys' = fgKeys \union {to}
    <3>1. fg \in Instances
      BY <1>5, <2>1 DEF HeldInv, Base
    <3>. QED  BY <2>1, <3>1 DEF KeyReaches, Apply, KeyEvent
  <2>4. fg = master /\ faults = 0
    BY <1>5, <2>1
  <2>. QED  BY <1>3, <1>6, <1>7, <1>8, <2>1, <2>2, <2>3, <2>4
<1>18. CASE Settle
  <2>1. acts' = <<>> /\ master' \in Instances /\ (BringSucceeds(master') \/ BringFails(master'))
    BY <1>18, SettleGoesOn DEF HeldInv
  <2>2. ~ToPress(k)'
    <3>1. Elements(acts') = {}
      BY <2>1, ElementsOfNone
    <3>. QED  BY <3>1 DEF ToPress, Elements
  <2>3. faults = 0 /\ live = Instances
    BY <1>5, <2>1, Bring DEF HeldInv, Undisturbed
  <2>4. fg = master
    <3>1. Swaps(Head(acts)) /\ 1 \in DOMAIN acts /\ Head(acts) = acts[1] /\ acts[1].op = "Settle"
      BY <1>18, Rest DEF Settle, Doing, Swaps, HeldInv, Base
    <3>2. DOMAIN acts = {1}
      BY <3>1 DEF HeldInv, Base, Shape
    <3>3. ~Returning
      BY <3>1, <3>2 DEF Returning
    <3>. QED  BY <2>3, <3>3 DEF HeldInv, Undisturbed
  <2>5. k \notin fgKeys
    BY <1>2, <1>6, <1>18, <2>3, <2>4
  <2>6. k \notin fgKeys'
    <3>1. CASE BringSucceeds(master')
      BY <2>5, <3>1 DEF BringSucceeds, Activate
    <3>2. CASE BringFails(master')
      BY <2>5, <3>2 DEF BringFails, windowVars
    <3>. QED  BY <2>1, <3>1, <3>2
  <2>. QED  BY <1>2, <1>18, <2>2, <2>6
<1>. QED  BY <1>10, <1>11, <1>13, <1>14, <1>15, <1>16, <1>17, <1>18 DEF Execute

LEMMA HeldStep ==
  ASSUME ~AcceptForeign, HeldInv, [Next]_vars
  PROVE  HeldInv'
<1>1. Base' /\ WellTyped' /\ Undisturbed'
  BY BaseStep, WellTypedStep, UndisturbedStep DEF HeldInv
<1>2. NoFeedback' /\ CopiesAgree'
  <2>1. keys \subseteq Keys /\ IsQueue
    BY DEF HeldInv, WellTyped, HookTypeOK, IsQueue
  <2>. QED  BY <2>1, FeedbackStep, CopiesStep DEF HeldInv
<1>3. Away' /\ NeverSeen'
  <2>1. lost \subseteq Keys /\ Targeted
    BY DEF HeldInv, WellTyped, HookTypeOK
  <2>. QED  BY <2>1, AwayStep, NeverSeenStep DEF HeldInv
<1>4. ASSUME NEW k \in Keys \ touched'  PROVE Steady(k)'
  <2>1. k \notin touched => Steady(k)
    BY DEF HeldInv
  <2>2. CASE \/ \E kind \in KeyKinds, j \in Keys : UserKey(kind, j) \/ ForeignKey(kind, j)
             \/ \E kind \in MouseKinds : UserMouse(kind)
    BY <2>1, <2>2, InputLeavesSteady
  <2>3. CASE (\E p \in Points : UserMove(p)) \/ UNCHANGED vars
    <3>1. UNCHANGED <<queue, inflight, acts, mkeys, master, fg, faults, keys, lost, phys, fgKeys, touched>>
      BY <2>3 DEF UserMove, vars, desktopVars, windowVars, captureVars, broadcasterVars, historyVars
    <3>. QED  BY <2>1, <3>1, SteadyStays
  <2>4. CASE Hook \/ Disturb
    <3>1. touched' = touched
      BY <2>4 DEF Hook, Disturb, historyVars
    <3>. QED  BY <2>4, <3>1, HookLeavesSteady, DisturbLeavesSteady
  <2>5. CASE Broadcast /\ (Wake \/ Drained \/ Handle)
    <3>1. k \notin touched
      BY <2>5 DEF Broadcast
    <3>2. CASE Wake \/ Drained
      <4>1. UNCHANGED <<queue, inflight, acts, mkeys, master, fg, faults, keys, lost, phys, fgKeys>>
        BY <3>2 DEF Wake, Drained, desktopVars, windowVars, captureVars
      <4>. QED  BY <2>1, <3>1, <4>1, SteadyStays
    <3>3. CASE Handle
      BY <1>1, <1>2, <3>1, <3>3, HandleLeavesSteady DEF WellTyped
    <3>. QED  BY <2>5, <3>2, <3>3
  <2>6. CASE Broadcast /\ Execute
    BY <2>6, ExecuteLeavesSteady
  <2>. QED  BY <2>2, <2>3, <2>4, <2>5, <2>6 DEF Next, Broadcast, BroadcasterStep
<1>. QED  BY <1>1, <1>2, <1>3, <1>4 DEF HeldInv

(* For every keyboard, routing table, number of instances and sequence of  *)
(* events, when other programs' input is ignored (the default of           *)
(* capture.hpp): once the pipeline is at rest and as long as no activation *)
(* failed, the client in the foreground believes held exactly the keys     *)
(* that the user holds, of those that are not swallowed and did not change *)
(* while the pipeline was busy.  Any number of focus cycles and swaps      *)
(* leave no trace (plan: RestoreFocus, then ReassertHeld).                 *)
THEOREM HeldKeysOutliveCycles == ~AcceptForeign => (Spec => []HeldKeysSurvive)
<1>. SUFFICES ASSUME ~AcceptForeign  PROVE Spec => []HeldKeysSurvive
  OBVIOUS
<1>1. Init => HeldInv
  <2>. SUFFICES ASSUME Init  PROVE HeldInv
    OBVIOUS
  <2>1. /\ Base /\ WellTyped /\ Undisturbed /\ acts = <<>>
    BY BaseInit, WellTypedInit DEF Undisturbed
  <2>2. /\ queue = <<>> /\ DOMAIN <<>> = {} /\ keys = {} /\ mkeys = {} /\ lost = {}
        /\ inflight = NoInput /\ fgKeys = {} /\ touched = phys
    BY DEF Init, CaptureInit, BroadcasterInit, DesktopInit
  <2>3. NoFeedback /\ CopiesAgree /\ NeverSeen /\ Away
    BY <2>1, <2>2 DEF NoFeedback, CopiesAgree, WillBeHeld, EventsOf, NeverSeen, Away, Doing
  <2>4. ASSUME NEW k \in Keys \ touched  PROVE Steady(k)
    <3>1. ~Coming(k) /\ EventsOf(k) = {} /\ ~ToPress(k)
      BY <2>1, <2>2, NoInputComes, ElementsOfNone DEF EventsOf, ToPress
    <3>. QED  BY <2>2, <3>1 DEF Steady, Recorded, Foremost, Truthful, Shown
  <2>. QED  BY <2>1, <2>3, <2>4 DEF HeldInv
<1>2. HeldInv /\ [Next]_vars => HeldInv'
  BY HeldStep
<1>3. HeldInv => HeldKeysSurvive
  <2>. SUFFICES ASSUME HeldInv, Quiet, faults = 0, NEW k \in Keys \ touched, ~Swallows(Routes, k)
                PROVE  k \in fgKeys <=> k \in phys
    BY DEF HeldKeysSurvive
  <2>1. ~Returning /\ ~Coming(k) /\ ~ToPress(k)
    BY NobodyReturns, NoInputComes, ToPressIsHeld DEF HeldInv, Quiet
  <2>2. fg = master
    BY <2>1 DEF HeldInv, Undisturbed
  <2>. QED  BY <2>1, <2>2 DEF HeldInv, Steady, Shown
<1>. QED  BY <1>1, <1>2, <1>3, PTL DEF Spec
=============================================================================

----------------------------- MODULE MouseProofs -----------------------------
(***************************************************************************)
(* For every routing table and every number of windows and points: after   *)
(* a mirrored click the cursor is back where the user's hand had put it,   *)
(* and the two halves of a click reach the same windows.                   *)
(*                                                                         *)
(* The cursor leaves the user's point only in a delivery of a click, and   *)
(* then RestoreCursor is ahead in the plan; it goes to the point the click *)
(* was captured at, which is the user's if no second click was captured    *)
(* while the cursor was away.  Whatever fails, that holds.                 *)
(*                                                                         *)
(* The buttons need more: that the presses and releases in the ring        *)
(* alternate and no key event stands between them (InOrder), so that what  *)
(* one half finds in the mirrors is what the other half left there; that   *)
(* the clicks were made on the master (ClicksOnMaster, CursorKept); and,   *)
(* in the middle of a plan, that the mirrors differ from what they should  *)
(* be only by the targets the rest of the plan still visits                *)
(* (MirrorsFollow).                                                        *)
(***************************************************************************)
EXTENDS HeldKeyProofs

(* RestoreCursor is still to come.                                         *)
Ahead(p) == \E j \in DOMAIN p : p[j].op = "RestoreCursor"

(* Where the rest p of the plan of event ev restores the cursor.           *)
CursorPlan(p, ev) ==
  /\ Ahead(p) => IsMouse(ev)
  /\ IsMouse(ev) =>
       \A i \in DOMAIN p : Leaves(p[i]) => \E j \in DOMAIN p : i < j /\ p[j].op = "RestoreCursor"

(* The clicks that have yet to be mirrored were made where the hand is.    *)
ClicksAtHand ==
  /\ \A i \in DOMAIN queue : IsMouse(queue[i]) => queue[i].at = hand
  /\ acts # <<>> /\ IsMouse(current) => current.at = hand

CursorComesBack ==
  /\ IsQueue
  /\ CursorPlan(acts, current)
  /\ ~rushed => ClicksAtHand /\ (cursor = hand \/ Ahead(acts))

-----------------------------------------------------------------------------
(* The plans that dispatch.hpp makes.                                      *)

LEMMA NothingAhead == ~Ahead(<<>>) /\ \A ev : CursorPlan(<<>>, ev)
<1>1. DOMAIN <<>> = {}
  OBVIOUS
<1>. QED  BY <1>1 DEF Ahead, CursorPlan

LEMMA PlansRestoreCursor ==
  ASSUME NEW ev, NEW alive, IsFiniteSet(alive), NEW m, NEW held
  PROVE  CursorPlan(Plan(ev, Routes, alive, m, held), ev)
<1>1. ASSUME NEW d, IsSequence(d), NEW strategy,
             \A i \in DOMAIN d : d[i].op = "Deliver" /\ d[i].strategy = strategy
      PROVE  /\ ~Ahead(d) /\ ~Ahead(d \o Repair(held))
             /\ strategy # "FocusCycle" => CursorPlan(d, ev)
             /\ IsMouse(ev) => CursorPlan(d \o <<Do("RestoreCursor")>> \o Repair(held), ev)
  <2>1. PICK S : d \in Seq(S)
    BY <1>1 DEF IsSequence
  <2>. DEFINE n == Len(d)
              r == Repair(held)
              R == {Do("RestoreFocus"), Do("ReassertHeld")}
  <2>2. n \in Nat /\ DOMAIN d = 1 .. n
    BY <2>1
  <2>3. r \in Seq(R)
    BY RepairIsSequence
  <2>4. /\ Do("RestoreFocus").op = "RestoreFocus" /\ Do("ReassertHeld").op = "ReassertHeld"
        /\ Do("RestoreCursor").op = "RestoreCursor"
    BY DEF Do, Action
  <2>5. ~Ahead(d) /\ (strategy # "FocusCycle" => CursorPlan(d, ev))
    BY <1>1 DEF Ahead, CursorPlan, Leaves
  <2>. HIDE DEF r
  <2>6. ~Ahead(d \o r)
    <3>. DEFINE D == {d[i] : i \in DOMAIN d}
                p == d \o r
    <3>1. d \in Seq(D)
      BY <2>1
    <3>2. \A x \in D \union R : x.op # "RestoreCursor"
      BY <1>1, <2>4
    <3>. HIDE DEF D, R
    <3>3. d \in Seq(D \union R) /\ r \in Seq(D \union R)
      BY <2>3, <3>1
    <3>4. p \in Seq(D \union R)
      BY <3>3
    <3>. HIDE DEF p
    <3>5. \A i \in DOMAIN p : p[i] \in D \union R
      BY <3>4
    <3>6. ~Ahead(p)
      BY <3>2, <3>5 DEF Ahead
    <3>. QED  BY <3>6 DEF p
  <2>7. IsMouse(ev) => CursorPlan(d \o <<Do("RestoreCursor")>> \o r, ev)
    <3>. DEFINE c == Do("RestoreCursor")
                p == d \o <<c>> \o r
                T == S \union {c} \union R
    <3>1. d \in Seq(T) /\ <<c>> \in Seq(T) /\ r \in Seq(T)
      BY <2>1, <2>3
    <3>. HIDE DEF T, c, n
    <3>2. p[n + 1] = c /\ DOMAIN p = 1 .. n + 1 + Len(r) /\ Len(r) \in Nat
      BY <2>2, <3>1 DEF n
    <3>3. \A i \in 1 .. Len(r) : p[n + 1 + i] = r[i] /\ r[i] \in R
      BY <2>2, <2>3, <3>1 DEF n
    <3>. HIDE DEF p
    <3>4. ASSUME NEW i \in DOMAIN p, Leaves(p[i])  PROVE i < n + 1
      <4>1. \A x \in R \union {c} : ~Leaves(x)
        BY <2>4 DEF Leaves, c
      <4>2. i = n + 1 => ~Leaves(p[i])
        BY <3>2, <4>1
      <4>3. ASSUME i > n + 1  PROVE FALSE
        <5>1. i - (n + 1) \in 1 .. Len(r) /\ n + 1 + (i - (n + 1)) = i
          BY <2>2, <3>2, <4>3
        <5>2. p[i] \in R
          BY <3>3, <5>1
        <5>. QED  BY <3>4, <4>1, <5>2
      <4>. QED  BY <2>2, <3>2, <3>4, <4>2, <4>3
    <3>5. n + 1 \in DOMAIN p /\ p[n + 1].op = "RestoreCursor"
      BY <2>2, <2>4, <3>2 DEF c
    <3>6. IsMouse(ev) => CursorPlan(p, ev)
      BY <3>4, <3>5 DEF CursorPlan
    <3>. QED  BY <3>6 DEF p, c
  <2>. QED  BY <2>5, <2>6, <2>7 DEF r
<1>2. CASE IsKey(ev)
  <2>. DEFINE p == PlanKey(ev, Routes, alive, m, held)
              b == Routes.keys[ev.vk]
              d == Deliveries(b.targets, alive, m, b.strategy)
  <2>1. /\ IsSequence(d)
        /\ \A i \in DOMAIN d : d[i].op = "Deliver" /\ d[i].strategy = b.strategy
    BY DeliveriesAreDelivered
  <2>2. p = <<>> \/ p = <<Do("SwapMaster")>> \/ p = d \o Repair(held) \/ p = d
    BY DEF PlanKey
  <2>3. ~Ahead(<<Do("SwapMaster")>>)
    BY DEF Ahead, Do, Action
  <2>. HIDE DEF d, p
  <2>4. ~Ahead(p)
    <3>1. ~Ahead(d) /\ ~Ahead(d \o Repair(held))
      BY <1>1, <2>1
    <3>. QED  BY <2>2, <2>3, <3>1, NothingAhead
  <2>5. ~IsMouse(ev)
    BY <1>2 DEF IsKey, IsMouse, KeyKinds, ButtonKinds
  <2>6. CursorPlan(p, ev)
    BY <2>4, <2>5 DEF CursorPlan
  <2>7. Plan(ev, Routes, alive, m, held) = p
    BY <1>2, <2>5 DEF Plan, p
  <2>. QED  BY <2>6, <2>7
<1>3. CASE ~IsKey(ev) /\ IsMouse(ev)
  <2>. DEFINE p == PlanMouse(ev, Routes, alive, m, held)
              d == Deliveries(Routes.mouse_targets, alive, m, Routes.mouse_strategy)
  <2>1. /\ IsSequence(d)
        /\ \A i \in DOMAIN d : d[i].op = "Deliver" /\ d[i].strategy = Routes.mouse_strategy
    BY DeliveriesAreDelivered
  <2>2. \/ p = <<>>
        \/ p = d \o <<Do("RestoreCursor")>> \o Repair(held)
        \/ Routes.mouse_strategy # "FocusCycle" /\ p = d
    BY DEF PlanMouse
  <2>. HIDE DEF d, p
  <2>3. /\ Routes.mouse_strategy # "FocusCycle" => CursorPlan(d, ev)
        /\ CursorPlan(d \o <<Do("RestoreCursor")>> \o Repair(held), ev)
    BY <1>1, <1>3, <2>1
  <2>4. CursorPlan(p, ev)
    BY <2>2, <2>3, NothingAhead
  <2>. QED  BY <1>3, <2>4 DEF Plan, p
<1>4. CASE ~IsKey(ev) /\ ~IsMouse(ev)
  BY <1>4, NothingAhead DEF Plan
<1>. QED  BY <1>2, <1>3, <1>4

-----------------------------------------------------------------------------
(* One step of the plan is done.                                           *)

LEMMA CursorThenNone ==
  ASSUME Shape(acts), acts # <<>>, Then(<<>>), CursorPlan(acts, current)
  PROVE  /\ CursorPlan(acts, current)'
         /\ Head(acts).op # "RestoreCursor" => (Ahead(acts)' <=> Ahead(acts))
         /\ acts' # <<>> => current' = current
<1>. DEFINE n == Len(acts)
            q == Tail(acts)
<1>1. /\ n \in Nat \ {0} /\ DOMAIN acts = 1 .. n /\ Head(acts) = acts[1]
      /\ IsSequence(q) /\ DOMAIN q = 1 .. n - 1
      /\ \A i \in 1 .. n - 1 : q[i] = acts[i + 1]
  BY Rest
<1>2. acts' = q
  <2>1. PICK S : q \in Seq(S)
    BY <1>1 DEF IsSequence
  <2>2. acts' = <<>> \o q
    BY DEF Then
  <2>. HIDE DEF q
  <2>. QED  BY <2>1, <2>2
<1>. HIDE DEF n, q
<1>3. \A i \in DOMAIN q : i + 1 \in DOMAIN acts /\ q[i] = acts[i + 1]
  BY <1>1
<1>4. \A i \in DOMAIN acts : i # 1 => i - 1 \in DOMAIN q /\ q[i - 1] = acts[i]
  <2>. TAKE i \in DOMAIN acts
  <2>. HAVE i # 1
  <2>1. i - 1 \in 1 .. n - 1 /\ (i - 1) + 1 = i
    BY <1>1
  <2>. QED  BY <1>1, <2>1
<1>5. Head(acts).op # "RestoreCursor" => (Ahead(q) <=> Ahead(acts))
  BY <1>1, <1>3, <1>4 DEF Ahead
<1>6. q # <<>> => current' = current
  BY <1>2 DEF Then
<1>7. CursorPlan(q, current)
  <2>1. Ahead(q) => IsMouse(current)
    BY <1>3 DEF Ahead, CursorPlan
  <2>2. ASSUME IsMouse(current), NEW i \in DOMAIN q, Leaves(q[i])
        PROVE  \E j \in DOMAIN q : i < j /\ q[j].op = "RestoreCursor"
    <3>1. PICK j \in DOMAIN acts : i + 1 < j /\ acts[j].op = "RestoreCursor"
      BY <1>3, <2>2 DEF CursorPlan
    <3>2. j - 1 \in DOMAIN q /\ q[j - 1] = acts[j] /\ i < j - 1
      BY <1>1, <1>4, <2>2, <3>1
    <3>. QED  BY <3>1, <3>2
  <2>. QED  BY <2>1, <2>2 DEF CursorPlan
<1>8. CursorPlan(q, current')
  <2>1. CASE q = <<>>
    BY <2>1, NothingAhead
  <2>2. CASE q # <<>>
    BY <1>6, <1>7, <2>2
  <2>. QED  BY <2>1, <2>2
<1>. QED  BY <1>2, <1>5, <1>6, <1>8

LEMMA CursorThenOne ==
  ASSUME Shape(acts), acts # <<>>, NEW a, Then(<<a>>),
         \/ a.op \in {"Inject", "Click"} /\ Leaves(Head(acts))
         \/ a.op = "Settle" /\ Head(acts).op = "SwapMaster",
         CursorPlan(acts, current)
  PROVE  /\ CursorPlan(acts, current)'
         /\ Ahead(acts)' <=> Ahead(acts)
         /\ current' = current
         /\ Leaves(Head(acts)) /\ IsMouse(current) => Ahead(acts)
<1>. DEFINE n == Len(acts)
            q == acts'
            t == Tail(acts)
<1>1. /\ n \in Nat \ {0} /\ DOMAIN acts = 1 .. n /\ Head(acts) = acts[1]
      /\ IsSequence(t) /\ DOMAIN t = 1 .. n - 1
      /\ \A i \in 1 .. n - 1 : t[i] = acts[i + 1]
  BY Rest
<1>2. PICK S : t \in Seq(S)
  BY <1>1 DEF IsSequence
<1>3. q = <<a>> \o t
  BY DEF Then
<1>4. t \in Seq(S \union {a}) /\ <<a>> \in Seq(S \union {a}) /\ Len(t) = n - 1
  <2>1. Len(t) = n - 1
    BY <1>1, <1>2
  <2>. HIDE DEF t, n
  <2>. QED  BY <1>2, <2>1
<1>. HIDE DEF t
<1>. HIDE DEF n, q
<1>5. DOMAIN q = 1 .. n /\ q[1] = a /\ q # <<>>
  BY <1>1, <1>3, <1>4
<1>6. ASSUME NEW i \in DOMAIN q, i # 1  PROVE q[i] = acts[i]
  <2>1. i - 1 \in 1 .. n - 1 /\ (i - 1) + 1 = i
    BY <1>1, <1>5, <1>6
  <2>2. q[i] = t[i - 1]
    BY <1>3, <1>4, <1>5, <2>1
  <2>. QED  BY <1>1, <2>1, <2>2
<1>7. DOMAIN q = DOMAIN acts /\ q[1].op # "RestoreCursor" /\ acts[1].op # "RestoreCursor"
      /\ 1 \in DOMAIN acts /\ \A i \in DOMAIN acts : 1 <= i
  BY <1>1, <1>5 DEF Leaves
<1>8. Ahead(q) <=> Ahead(acts)
  BY <1>6, <1>7 DEF Ahead
<1>9. current' = current
  BY <1>5 DEF Then, q
<1>10. Leaves(q[1]) => Leaves(acts[1])
  BY <1>1, <1>5 DEF Leaves
<1>11. ASSUME IsMouse(current), NEW i \in DOMAIN q, Leaves(q[i])
       PROVE  \E j \in DOMAIN q : i < j /\ q[j].op = "RestoreCursor"
  <2>1. PICK j \in DOMAIN acts : i < j /\ acts[j].op = "RestoreCursor"
    BY <1>6, <1>7, <1>10, <1>11 DEF CursorPlan
  <2>2. j # 1
    BY <1>7, <2>1
  <2>. QED  BY <1>6, <1>7, <2>1, <2>2
<1>12. CursorPlan(q, current)
  BY <1>8, <1>11 DEF CursorPlan
<1>13. Leaves(Head(acts)) /\ IsMouse(current) => Ahead(acts)
  BY <1>1, <1>7 DEF CursorPlan, Ahead
<1>. QED  BY <1>8, <1>9, <1>12, <1>13 DEF q

(* Nothing is restored once keys are re-asserted.                          *)
LEMMA CursorThenPresses ==
  ASSUME Base, ReassertHeld
  PROVE  CursorPlan(acts, current)' /\ ~Ahead(acts) /\ ~Ahead(acts)' /\ (acts' # <<>> => current' = current)
<1>1. \A i \in DOMAIN acts' : Reasserts(acts'[i])
  BY ThenPresses DEF Reasserts, Base
<1>2. \A i \in DOMAIN acts : Reasserts(acts[i])
  <2>1. 1 \in DOMAIN acts /\ Reasserts(acts[1]) /\ \A i \in DOMAIN acts : 1 <= i
    BY Rest DEF ReassertHeld, Doing, Reasserts, Base
  <2>. QED  BY <2>1 DEF Shape, Base
<1>3. current' = IF acts' = <<>> THEN NoEvent ELSE current
  BY DEF ReassertHeld, Then
<1>4. ~Ahead(acts) /\ ~Ahead(acts')
  BY <1>1, <1>2 DEF Ahead, Reasserts
<1>5. CursorPlan(acts', current')
  BY <1>1, <1>4 DEF CursorPlan, Leaves, Reasserts
<1>. QED  BY <1>3, <1>4, <1>5

-----------------------------------------------------------------------------
(* The steps, by what they do to the cursor.                               *)

cursorVars == <<acts, current, cursor, hand, rushed>>

(* Neither the cursor nor a click is concerned.                            *)
AsideStep ==
  /\ queue' = queue \/ \E ev : IsKey(ev) /\ queue' = Append(queue, ev)
  /\ UNCHANGED cursorVars

(* A step of the plan that is not RestoreCursor.                           *)
OnwardStep ==
  /\ acts # <<>> /\ ~ Doing("RestoreCursor")
  /\ \/ Then(<<>>) /\ cursor' = cursor
     \/ \E a :
          /\ Then(<<a>>)
          /\ \/ a.op \in {"Inject", "Click"} /\ Leaves(Head(acts))
             \/ a.op = "Settle" /\ Head(acts).op = "SwapMaster"
          /\ cursor' = cursor \/ (Leaves(Head(acts)) /\ IsMouse(current))
     \/ ReassertHeld /\ cursor' = cursor
  /\ UNCHANGED <<queue, hand, rushed>>

LEMMA CursorSteps ==
  ASSUME [Next]_vars
  PROVE  \/ AsideStep \/ (\E kind \in MouseKinds : UserMouse(kind)) \/ (\E p \in Points : UserMove(p))
         \/ (Handle /\ UNCHANGED historyVars) \/ OnwardStep
         \/ (RestoreCursor /\ UNCHANGED historyVars)
<1>1. \A source : \A kind \in KeyKinds, k \in Keys :
        HookKey(source, KeyEvent(kind, k)) =>
          queue' = queue \/ \E ev : IsKey(ev) /\ queue' = Append(queue, ev)
  BY DEF HookKey, PublishKey, KeyEvent, IsKey
<1>2. \A ev : HookKey("ours", ev) => queue' = queue
  BY DEF HookKey, Publishes, Ignored
<1>3. CASE \E kind \in KeyKinds, k \in Keys : UserKey(kind, k) \/ ForeignKey(kind, k)
  <2>1. PICK kind \in KeyKinds, k \in Keys : UserKey(kind, k) \/ ForeignKey(kind, k)
    BY <1>3
  <2>2. UNCHANGED cursorVars
    BY <2>1 DEF UserKey, ForeignKey, cursorVars, broadcasterVars, desktopVars
  <2>3. \E source : HookKey(source, KeyEvent(kind, k))
    BY <2>1 DEF UserKey, ForeignKey, KeyInput
  <2>. QED  BY <1>1, <2>2, <2>3 DEF AsideStep
<1>4. CASE Hook
  BY <1>4 DEF Hook, Signal, DeliverInput, AsideStep, cursorVars, broadcasterVars, historyVars
<1>5. CASE Disturb \/ UNCHANGED vars
  BY <1>5 DEF Disturb, LateActivation, UserSwitch, WindowDies, AsideStep, cursorVars, captureVars,
       broadcasterVars, historyVars, vars, desktopVars
<1>6. CASE (Wake \/ Drained) /\ UNCHANGED <<hand, rushed>>
  BY <1>6 DEF Wake, Drained, AsideStep, cursorVars, captureVars, desktopVars
<1>7. CASE (DeliverByMessage \/ RestoreFocus \/ Settle) /\ UNCHANGED <<hand, rushed>>
  BY <1>7 DEF DeliverByMessage, RestoreFocus, ReturnToMaster, Settle, Doing, OnwardStep,
       captureVars, desktopVars
<1>8. CASE (InjectKey \/ Press) /\ UNCHANGED <<hand, rushed>>
  BY <1>2, <1>8 DEF InjectKey, Press, SendKey, Doing, OnwardStep
<1>9. CASE Click /\ UNCHANGED <<hand, rushed>>
  <2>1. queue' = queue
    BY <1>9 DEF Click, HookMouse, Ignored
  <2>. QED  BY <1>9, <2>1 DEF Click, Doing, OnwardStep
<1>10. CASE DeliverByFocus /\ UNCHANGED <<hand, rushed>>
  <2>1. Then(<<>>) \/ Then(<<Step("Inject", Head(acts).to)>>)
    BY <1>10 DEF DeliverByFocus, Deliver
  <2>2. Step("Inject", Head(acts).to).op = "Inject" /\ Leaves(Head(acts))
    BY <1>10 DEF DeliverByFocus, Doing, Leaves, Step, Action
  <2>. QED  BY <1>10, <2>1, <2>2 DEF DeliverByFocus, Doing, OnwardStep, captureVars
<1>11. CASE InjectMouse /\ UNCHANGED <<hand, rushed>>
  <2>1. Then(<<Step("Click", Head(acts).to)>>) /\ IsMouse(current)
    BY <1>11 DEF InjectMouse
  <2>2. Step("Click", Head(acts).to).op = "Click" /\ Leaves(Head(acts))
    BY <1>11 DEF InjectMouse, Doing, Leaves, Step, Action
  <2>. QED  BY <1>11, <2>1, <2>2 DEF InjectMouse, Doing, OnwardStep, captureVars
<1>12. CASE SwapMaster /\ UNCHANGED <<hand, rushed>>
  <2>1. PICK next : Then(<<Step("Settle", next)>>)
    BY <1>12 DEF SwapMaster
  <2>2. Step("Settle", next).op = "Settle"
    BY DEF Step, Action
  <2>. QED  BY <1>12, <2>1, <2>2 DEF SwapMaster, Doing, OnwardStep, captureVars, desktopVars
<1>13. CASE ReassertHeld /\ UNCHANGED <<hand, rushed>>
  BY <1>13 DEF ReassertHeld, Doing, OnwardStep, captureVars, desktopVars
<1>14. CASE Broadcast
  <2>1. UNCHANGED <<hand, rushed, halved>> /\ BroadcasterStep
    BY <1>14 DEF Broadcast
  <2>. QED  BY <1>6, <1>7, <1>8, <1>9, <1>10, <1>11, <1>12, <1>13, <1>14, <2>1
           DEF BroadcasterStep, Execute, Broadcast, Doing, Handle, RestoreCursor, historyVars
<1>. QED  BY <1>3, <1>4, <1>5, <1>14 DEF Next

-----------------------------------------------------------------------------

LEMMA CursorStep ==
  ASSUME MouseKinds \subseteq ButtonKinds, Base, CursorComesBack, [Next]_vars
  PROVE  CursorComesBack'
<1>1. CASE AsideStep
  <2>1. UNCHANGED <<acts, current, cursor, hand, rushed>>
    BY <1>1 DEF AsideStep, cursorVars
  <2>2. CASE queue' = queue
    BY <2>1, <2>2 DEF CursorComesBack, ClicksAtHand, IsQueue
  <2>3. ASSUME NEW ev, IsKey(ev), queue' = Append(queue, ev)  PROVE CursorComesBack'
    <3>1. ~IsMouse(ev)
      BY <2>3 DEF IsKey, IsMouse, KeyKinds, ButtonKinds
    <3>2. IsQueue' /\ \A i \in DOMAIN queue' :
                       (i \in DOMAIN queue /\ queue'[i] = queue[i]) \/ queue'[i] = ev
      BY <2>3, AppendFacts DEF CursorComesBack
    <3>3. ClicksAtHand => ClicksAtHand'
      BY <2>1, <3>1, <3>2 DEF ClicksAtHand
    <3>. QED  BY <2>1, <3>2, <3>3 DEF CursorComesBack
  <2>. QED  BY <1>1, <2>2, <2>3 DEF AsideStep
<1>2. ASSUME NEW kind \in MouseKinds, UserMouse(kind)  PROVE CursorComesBack'
  <2>. DEFINE ev == MouseEvent(kind)
  <2>1. /\ UNCHANGED <<acts, current, cursor, hand>> /\ rushed' = (rushed \/ ~Quiet)
        /\ queue' = queue \/ queue' = Append(queue, ev)
    BY <1>2 DEF UserMouse, MouseInput, HookMouse, broadcasterVars
  <2>2. ev.at = cursor
    BY <1>2 DEF MouseEvent, ButtonKinds
  <2>3. IsQueue' /\ \A i \in DOMAIN queue' :
                       (i \in DOMAIN queue /\ queue'[i] = queue[i]) \/ queue'[i] = ev
    <3>. HIDE DEF ev
    <3>1. CASE queue' = queue
      BY <3>1 DEF CursorComesBack, IsQueue
    <3>2. CASE queue' = Append(queue, ev)
      BY <3>2, AppendFacts DEF CursorComesBack
    <3>. QED  BY <2>1, <3>1, <3>2
  <2>4. ASSUME ~rushed'  PROVE ClicksAtHand' /\ (cursor = hand \/ Ahead(acts))'
    <3>1. acts = <<>> /\ ~rushed
      BY <2>1, <2>4 DEF Quiet
    <3>2. cursor = hand /\ ClicksAtHand
      BY <3>1, NothingAhead DEF CursorComesBack
    <3>. QED  BY <2>1, <2>2, <2>3, <3>1, <3>2 DEF ClicksAtHand
  <2>. QED  BY <2>1, <2>3, <2>4 DEF CursorComesBack
<1>3. ASSUME NEW p \in Points, UserMove(p)  PROVE CursorComesBack'
  <2>1. UNCHANGED <<acts, current, queue>> /\ hand' = cursor' /\ rushed' = ~Quiet
    BY <1>3 DEF UserMove, captureVars, broadcasterVars
  <2>2. ~rushed' => acts' = <<>> /\ DOMAIN queue' = {}
    <3>1. DOMAIN <<>> = {}
      OBVIOUS
    <3>. QED  BY <2>1, <3>1 DEF Quiet
  <2>3. ~rushed' => ClicksAtHand'
    BY <2>2 DEF ClicksAtHand
  <2>. QED  BY <2>1, <2>3 DEF CursorComesBack, IsQueue
<1>4. CASE Handle /\ UNCHANGED historyVars
  <2>. DEFINE ev == Head(queue)
  <2>1. /\ acts = <<>> /\ queue # <<>> /\ queue' = Tail(queue) /\ UNCHANGED <<cursor, hand, rushed>>
        /\ acts' = Plan(ev, Routes, live, master, MasterKeys(ev))
        /\ current' = IF acts' = <<>> THEN NoEvent ELSE ev
    BY <1>4 DEF Handle, desktopVars, historyVars
  <2>2. IsFiniteSet(live)
    <3>1. IsFiniteSet(Instances)
      BY DesktopAssumption, FS_Interval DEF Instances
    <3>. QED  BY <3>1, FS_Subset DEF Base
  <2>3. /\ IsQueue' /\ 1 \in DOMAIN queue /\ ev = queue[1]
        /\ \A i \in DOMAIN queue' : i + 1 \in DOMAIN queue /\ queue'[i] = queue[i + 1]
    BY <2>1, TailFacts DEF CursorComesBack
  <2>. HIDE DEF ev
  <2>4. CursorPlan(acts', ev)
    BY <2>1, <2>2, PlansRestoreCursor
  <2>5. CursorPlan(acts', current')
    BY <2>1, <2>4, NothingAhead
  <2>6. ~rushed => cursor = hand /\ ClicksAtHand
    BY <2>1, NothingAhead DEF CursorComesBack
  <2>7. ~rushed => ClicksAtHand'
    BY <2>1, <2>3, <2>6 DEF ClicksAtHand
  <2>. QED  BY <2>1, <2>3, <2>5, <2>6, <2>7 DEF CursorComesBack
<1>5. CASE OnwardStep
  <2>1. acts # <<>> /\ Head(acts).op # "RestoreCursor" /\ UNCHANGED <<queue, hand, rushed>>
    BY <1>5 DEF OnwardStep, Doing
  <2>2. /\ CursorPlan(acts, current)'
        /\ cursor = hand \/ Ahead(acts) => (cursor = hand \/ Ahead(acts))'
        /\ acts' # <<>> => current' = current
    <3>1. CASE Then(<<>>) /\ cursor' = cursor
      BY <2>1, <3>1, CursorThenNone DEF Base, CursorComesBack
    <3>2. ASSUME NEW a, Then(<<a>>),
                 \/ a.op \in {"Inject", "Click"} /\ Leaves(Head(acts))
                 \/ a.op = "Settle" /\ Head(acts).op = "SwapMaster",
                 cursor' = cursor \/ (Leaves(Head(acts)) /\ IsMouse(current))
          PROVE  /\ CursorPlan(acts, current)'
                 /\ cursor = hand \/ Ahead(acts) => (cursor = hand \/ Ahead(acts))'
                 /\ acts' # <<>> => current' = current
      <4>1. Shape(acts) /\ CursorPlan(acts, current)
        BY DEF Base, CursorComesBack
      <4>2. /\ CursorPlan(acts, current)' /\ (Ahead(acts)' <=> Ahead(acts)) /\ current' = current
            /\ Leaves(Head(acts)) /\ IsMouse(current) => Ahead(acts)
        BY <2>1, <3>2, <4>1, CursorThenOne
      <4>. QED  BY <2>1, <3>2, <4>2
    <3>3. CASE ReassertHeld /\ cursor' = cursor
      BY <2>1, <3>3, CursorThenPresses
    <3>. QED  BY <1>5, <3>1, <3>2, <3>3 DEF OnwardStep
  <2>3. ClicksAtHand => ClicksAtHand'
    BY <2>1, <2>2 DEF ClicksAtHand
  <2>. QED  BY <2>1, <2>2, <2>3 DEF CursorComesBack, IsQueue
<1>6. CASE RestoreCursor /\ UNCHANGED historyVars
  <2>1. /\ acts # <<>> /\ Head(acts).op = "RestoreCursor" /\ Then(<<>>)
        /\ cursor' = current.at /\ UNCHANGED <<queue, hand, rushed>>
    BY <1>6 DEF RestoreCursor, Doing, MoveCursor, captureVars, historyVars
  <2>2. CursorPlan(acts, current)' /\ (acts' # <<>> => current' = current)
    BY <2>1, CursorThenNone DEF Base, CursorComesBack
  <2>3. Ahead(acts) /\ IsMouse(current)
    <3>1. 1 \in DOMAIN acts /\ Head(acts) = acts[1]
      BY <2>1, Rest DEF Base
    <3>2. Ahead(acts)
      BY <2>1, <3>1 DEF Ahead
    <3>. QED  BY <3>2 DEF CursorComesBack, CursorPlan
  <2>4. ~rushed => ClicksAtHand /\ cursor' = hand
    BY <2>1, <2>3 DEF CursorComesBack, ClicksAtHand
  <2>5. ClicksAtHand => ClicksAtHand'
    BY <2>1, <2>2 DEF ClicksAtHand
  <2>. QED  BY <2>1, <2>2, <2>4, <2>5 DEF CursorComesBack, IsQueue
<1>. QED  BY <1>1, <1>2, <1>3, <1>4, <1>5, <1>6, CursorSteps

(* If the user uses buttons and not the wheel, and neither moves nor       *)
(* clicks while a click is being mirrored, the cursor is where the hand    *)
(* put it between any two events: for every table and every number of      *)
(* windows, keys and points, whatever activation fails or comes late, and  *)
(* whoever dies.                                                           *)
THEOREM CursorIsBack == MouseKinds \subseteq ButtonKinds => (Spec => []CursorReturned)
<1>. SUFFICES ASSUME MouseKinds \subseteq ButtonKinds  PROVE Spec => []CursorReturned
  OBVIOUS
<1>1. Init => CursorComesBack
  <2>. SUFFICES ASSUME Init  PROVE CursorComesBack
    OBVIOUS
  <2>1. queue = <<>> /\ acts = <<>> /\ cursor = hand
    BY DEF Init, CaptureInit, BroadcasterInit
  <2>2. queue \in Seq({}) /\ DOMAIN queue = {}
    BY <2>1
  <2>. QED  BY <2>1, <2>2, NothingAhead DEF CursorComesBack, IsQueue, ClicksAtHand
<1>2. Base /\ CursorComesBack /\ [Next]_vars => CursorComesBack'
  BY CursorStep
<1>3. CursorComesBack => CursorReturned
  BY NothingAhead DEF CursorComesBack, CursorReturned
<1>. QED  BY <1>1, <1>2, <1>3, BaseAlways, PTL DEF Spec

-----------------------------------------------------------------------------
(* The presses and releases that the broadcaster has yet to handle.        *)

MouseAt == {i \in DOMAIN queue : IsMouse(queue[i])}

(* The button is down when the i-th queued event is handled: the next      *)
(* event of the button is its release or, if there is none, the user still *)
(* holds it.                                                               *)
HeldBefore(i) ==
  \/ (\A j \in MouseAt : j < i) /\ LButton \in phys
  \/ \E j \in MouseAt : /\ i <= j /\ \A l \in MouseAt : i <= l => j <= l
                        /\ queue[j].kind = "MouseUp"

(* Presses and releases alternate, and no key changes in between.          *)
InOrder ==
  \A i \in DOMAIN queue :
    /\ IsKey(queue[i]) => ~HeldBefore(i)
    /\ IsMouse(queue[i]) => (HeldBefore(i + 1) <=> queue[i].kind = "MouseDown")

LEMMA KeyArrives ==
  ASSUME IsQueue, InOrder, NEW ev, IsKey(ev), queue' = Append(queue, ev),
         LButton \notin phys, LButton \notin phys'
  PROVE  InOrder' /\ \A i : HeldBefore(i)' <=> HeldBefore(i)
<1>. DEFINE n == Len(queue)
<1>1. /\ n \in Nat /\ DOMAIN queue = 1 .. n /\ DOMAIN queue' = 1 .. n + 1
      /\ queue'[n + 1] = ev /\ \A i \in 1 .. n : queue'[i] = queue[i]
  BY AppendFacts
<1>. HIDE DEF n
<1>2. ~IsMouse(ev)
  BY DEF IsKey, IsMouse, KeyKinds, ButtonKinds
<1>3. MouseAt' = MouseAt /\ MouseAt \subseteq 1 .. n /\ \A j \in MouseAt : queue'[j] = queue[j]
  BY <1>1, <1>2 DEF MouseAt
<1>4. ASSUME NEW i  PROVE HeldBefore(i)' <=> HeldBefore(i)
  BY <1>3 DEF HeldBefore
<1>5. ~HeldBefore(n + 1)
  BY <1>1, <1>3 DEF HeldBefore
<1>6. ASSUME NEW i \in DOMAIN queue'
      PROVE  /\ IsKey(queue'[i]) => ~HeldBefore(i)
             /\ IsMouse(queue'[i]) => (HeldBefore(i + 1) <=> queue'[i].kind = "MouseDown")
  <2>1. CASE i = n + 1
    BY <1>1, <1>2, <1>5, <2>1
  <2>2. CASE i \in 1 .. n
    BY <1>1, <2>2 DEF InOrder
  <2>. QED  BY <1>1, <2>1, <2>2
<1>7. InOrder'
  BY <1>4, <1>6 DEF InOrder
<1>. QED  BY <1>4, <1>7

LEMMA ButtonArrives ==
  ASSUME IsQueue, InOrder, NEW ev, ev.kind \in ButtonKinds, queue' = Append(queue, ev),
         ev.kind = "MouseDown" <=> LButton \notin phys,
         ev.kind = "MouseDown" <=> LButton \in phys'
  PROVE  InOrder' /\ \A i \in 1 .. Len(queue) + 1 : HeldBefore(i)' <=> HeldBefore(i)
<1>0. PICK n : n = Len(queue)
  OBVIOUS
<1>1. /\ n \in Nat /\ DOMAIN queue = 1 .. n /\ DOMAIN queue' = 1 .. n + 1
      /\ queue'[n + 1] = ev /\ \A i \in 1 .. n : queue'[i] = queue[i]
  BY <1>0, AppendFacts
<1>2. IsMouse(ev) /\ ~IsKey(ev) /\ (ev.kind = "MouseUp" <=> ev.kind # "MouseDown")
  BY DEF IsKey, IsMouse, KeyKinds, ButtonKinds
<1>3. /\ MouseAt' = MouseAt \union {n + 1} /\ MouseAt \subseteq 1 .. n
      /\ \A j \in MouseAt : queue'[j] = queue[j]
  BY <1>1, <1>2 DEF MouseAt
<1>4. ASSUME NEW i \in 1 .. n + 1  PROVE HeldBefore(i)' <=> HeldBefore(i)
  <2>1. \A j \in MouseAt : j \in Nat /\ j < n + 1 /\ i <= n + 1
    BY <1>1, <1>3
  <2>2. CASE \A j \in MouseAt : j < i
    <3>1. HeldBefore(i) <=> LButton \in phys
      BY <1>1, <2>1, <2>2 DEF HeldBefore
    <3>2. HeldBefore(i)' <=> ev.kind = "MouseUp"
      BY <1>1, <1>3, <2>1, <2>2 DEF HeldBefore
    <3>. QED  BY <1>2, <3>1, <3>2
  <2>3. CASE \E j \in MouseAt : ~ (j < i)
    <3>1. HeldBefore(i) <=> \E j \in MouseAt : /\ i <= j /\ \A l \in MouseAt : i <= l => j <= l
                                               /\ queue[j].kind = "MouseUp"
      BY <2>3 DEF HeldBefore
    <3>2. HeldBefore(i)' <=> \E j \in MouseAt' : /\ i <= j /\ \A l \in MouseAt' : i <= l => j <= l
                                                 /\ queue'[j].kind = "MouseUp"
      BY <1>3, <2>3 DEF HeldBefore
    <3>3. \A j \in MouseAt' : (\A l \in MouseAt' : i <= l => j <= l) => j # n + 1
      BY <1>1, <1>3, <2>1, <2>3
    <3>. QED  BY <1>1, <1>3, <2>1, <3>1, <3>2, <3>3
  <2>. QED  BY <2>2, <2>3
<1>5. HeldBefore(n + 2)' <=> ev.kind = "MouseDown"
  <2>1. \A j \in MouseAt' : j < n + 2 /\ ~ (n + 2 <= j)
    BY <1>1, <1>3
  <2>2. HeldBefore(n + 2)' <=> LButton \in phys'
    BY <2>1 DEF HeldBefore
  <2>. QED  BY <2>2
<1>6. ASSUME NEW i \in DOMAIN queue'
      PROVE  /\ IsKey(queue'[i]) => ~HeldBefore(i)'
             /\ IsMouse(queue'[i]) => (HeldBefore(i + 1)' <=> queue'[i].kind = "MouseDown")
  <2>1. CASE i = n + 1
    <3>1. i + 1 = n + 2
      BY <1>1, <2>1
    <3>. QED  BY <1>1, <1>2, <1>5, <2>1, <3>1
  <2>2. CASE i \in 1 .. n
    <3>1. i \in 1 .. n + 1 /\ i + 1 \in 1 .. n + 1
      BY <1>1, <2>2
    <3>2. (HeldBefore(i)' <=> HeldBefore(i)) /\ (HeldBefore(i + 1)' <=> HeldBefore(i + 1))
      BY <1>4, <3>1
    <3>3. queue'[i] = queue[i] /\ i \in DOMAIN queue
      BY <1>1, <2>2
    <3>4. /\ IsKey(queue[i]) => ~HeldBefore(i)
          /\ IsMouse(queue[i]) => (HeldBefore(i + 1) <=> queue[i].kind = "MouseDown")
      BY <3>3 DEF InOrder
    <3>. QED  BY <3>2, <3>3, <3>4
  <2>. QED  BY <1>1, <2>1, <2>2
<1>7. InOrder'
  BY <1>6 DEF InOrder
<1>. QED  BY <1>0, <1>4, <1>7

LEMMA EventTaken ==
  ASSUME IsQueue, InOrder, queue # <<>>, queue' = Tail(queue), phys' = phys
  PROVE  /\ InOrder'
         /\ IsKey(Head(queue)) => ~HeldBefore(1) /\ ~HeldBefore(1)'
         /\ IsMouse(Head(queue)) /\ Head(queue).kind \in ButtonKinds =>
              /\ HeldBefore(1) <=> Head(queue).kind = "MouseUp"
              /\ HeldBefore(1)' <=> Head(queue).kind = "MouseDown"
<1>. DEFINE n == Len(queue)
<1>1. /\ n \in Nat \ {0} /\ DOMAIN queue = 1 .. n /\ DOMAIN queue' = 1 .. n - 1
      /\ Head(queue) = queue[1] /\ \A i \in 1 .. n - 1 : queue'[i] = queue[i + 1]
  BY TailFacts
<1>. HIDE DEF n
<1>2. /\ MouseAt \subseteq 1 .. n /\ MouseAt' \subseteq 1 .. n - 1
      /\ \A j \in 1 .. n - 1 : j \in MouseAt' <=> j + 1 \in MouseAt
  BY <1>1 DEF MouseAt
<1>3. \A j \in MouseAt : j = 1 \/ (j - 1 \in MouseAt' /\ j - 1 \in 1 .. n - 1 /\ queue[j] = queue'[j - 1])
  <2>. SUFFICES ASSUME NEW j \in MouseAt, j # 1
                PROVE  j - 1 \in MouseAt' /\ j - 1 \in 1 .. n - 1 /\ queue[j] = queue'[j - 1]
    OBVIOUS
  <2>1. j - 1 \in 1 .. n - 1 /\ (j - 1) + 1 = j
    BY <1>1, <1>2
  <2>. QED  BY <1>1, <1>2, <2>1
<1>4. ASSUME NEW i \in Nat \ {0}  PROVE HeldBefore(i)' <=> HeldBefore(i + 1)
  <2>1. (\A j \in MouseAt' : j < i) <=> (\A j \in MouseAt : j < i + 1)
    BY <1>1, <1>2, <1>3
  <2>2. ASSUME NEW j \in MouseAt'
        PROVE  (\A l \in MouseAt' : i <= l => j <= l) <=> (\A l \in MouseAt : i + 1 <= l => j + 1 <= l)
    BY <1>1, <1>2, <1>3
  <2>3. \A j \in MouseAt' : j + 1 \in MouseAt /\ queue'[j] = queue[j + 1] /\ (i <= j <=> i + 1 <= j + 1)
    BY <1>1, <1>2
  <2>4. \A j \in MouseAt : i + 1 <= j => j - 1 \in MouseAt' /\ (j - 1) + 1 = j
    BY <1>1, <1>2, <1>3
  <2>. DEFINE Next1(j) == /\ i <= j /\ \A l \in MouseAt' : i <= l => j <= l
                          /\ queue'[j].kind = "MouseUp"
              Next2(j) == /\ i + 1 <= j /\ \A l \in MouseAt : i + 1 <= l => j <= l
                          /\ queue[j].kind = "MouseUp"
  <2>5. \A j \in MouseAt' : Next1(j) <=> Next2(j + 1)
    BY <2>2, <2>3
  <2>6. (\E j \in MouseAt' : Next1(j)) <=> \E j \in MouseAt : Next2(j)
    <3>1. ASSUME NEW j \in MouseAt', Next1(j)  PROVE \E x \in MouseAt : Next2(x)
      BY <2>3, <2>5, <3>1
    <3>2. ASSUME NEW j \in MouseAt, Next2(j)  PROVE \E x \in MouseAt' : Next1(x)
      <4>1. i + 1 <= j
        BY <3>2
      <4>2. j - 1 \in MouseAt' /\ (j - 1) + 1 = j
        BY <2>4, <4>1
      <4>. HIDE DEF Next1, Next2
      <4>. QED  BY <2>5, <3>2, <4>2
    <3>. QED  BY <3>1, <3>2
  <2>. QED  BY <2>1, <2>6 DEF HeldBefore
<1>5. ASSUME NEW i \in DOMAIN queue'
      PROVE  /\ IsKey(queue'[i]) => ~HeldBefore(i)'
             /\ IsMouse(queue'[i]) => (HeldBefore(i + 1)' <=> queue'[i].kind = "MouseDown")
  <2>1. i \in Nat \ {0} /\ i + 1 \in Nat \ {0} /\ i + 1 \in DOMAIN queue /\ queue'[i] = queue[i + 1]
    BY <1>1
  <2>. QED  BY <1>4, <2>1 DEF InOrder
<1>6. InOrder'
  BY <1>5 DEF InOrder
<1>7. HeldBefore(1)' <=> HeldBefore(2)
  <2>1. 1 \in Nat \ {0} /\ 1 + 1 = 2
    OBVIOUS
  <2>. QED  BY <1>4, <2>1
<1>8. 1 \in DOMAIN queue /\ 1 + 1 = 2
  BY <1>1
<1>9. ASSUME IsKey(queue[1])  PROVE ~HeldBefore(1) /\ ~HeldBefore(1)'
  <2>1. 1 \notin MouseAt
    BY <1>9 DEF MouseAt, IsKey, IsMouse, KeyKinds, ButtonKinds
  <2>2. \A j \in MouseAt : j \in Nat /\ (1 <= j <=> 2 <= j) /\ (j < 1 <=> j < 2)
    BY <1>2, <2>1
  <2>3. HeldBefore(1) <=> HeldBefore(2)
    BY <2>2 DEF HeldBefore
  <2>. QED  BY <1>7, <1>8, <1>9, <2>3 DEF InOrder
<1>10. ASSUME IsMouse(queue[1]), queue[1].kind \in ButtonKinds
       PROVE  /\ HeldBefore(1) <=> queue[1].kind = "MouseUp"
              /\ HeldBefore(1)' <=> queue[1].kind = "MouseDown"
  <2>1. 1 \in MouseAt /\ \A j \in MouseAt : 1 <= j /\ ~ (j < 1) /\ (j <= 1 => j = 1)
    BY <1>2, <1>8, <1>10 DEF MouseAt
  <2>2. HeldBefore(1) <=> queue[1].kind = "MouseUp"
    BY <2>1 DEF HeldBefore
  <2>. QED  BY <1>7, <1>8, <1>10, <2>2 DEF InOrder
<1>. QED  BY <1>1, <1>6, <1>9, <1>10

-----------------------------------------------------------------------------
(* The instances that the rest of a plan still visits.                     *)

TargetsIn(p) == {a.to : a \in {x \in Elements(p) : Leaves(x)}}
Left == TargetsIn(acts)

LEMMA NothingLeft == TargetsIn(<<>>) = {}
BY ElementsOfNone DEF TargetsIn

LEMMA ThenLeft ==
  ASSUME Base, acts # <<>>, NEW steps, IsSequence(steps), Then(steps)
  PROVE  /\ Left' = TargetsIn(steps) \union TargetsIn(Tail(acts))
         /\ Left = (IF Leaves(Head(acts)) THEN {Head(acts).to} ELSE {}) \union TargetsIn(Tail(acts))
         /\ Ahead(acts') <=> \/ \E a \in Elements(steps) : a.op = "RestoreCursor"
                             \/ Ahead(Tail(acts))
         /\ Ahead(acts) <=> Head(acts).op = "RestoreCursor" \/ Ahead(Tail(acts))
<1>1. /\ Elements(acts) = {Head(acts)} \union Elements(Tail(acts))
      /\ Elements(acts') = Elements(steps) \union Elements(Tail(acts))
  BY ThenElements DEF Base, Elements
<1>2. \A p : Ahead(p) <=> \E a \in Elements(p) : a.op = "RestoreCursor"
  BY DEF Ahead, Elements
<1>3. Left' = TargetsIn(steps) \union TargetsIn(Tail(acts))
  <2>1. Left' = TargetsIn(acts')
    BY DEF Left, TargetsIn, Elements
  <2>. QED  BY <1>1, <2>1 DEF TargetsIn
<1>4. Left = (IF Leaves(Head(acts)) THEN {Head(acts).to} ELSE {}) \union TargetsIn(Tail(acts))
  BY <1>1 DEF Left, TargetsIn
<1>. QED  BY <1>1, <1>2, <1>3, <1>4

(* What is mirrored while the keys `held` are held.                        *)
MirroredTo(held, m) ==
  (IF Routes.mouse_strategy = "FocusCycle" /\ Routes.mouse_modifier_vk \in held \union {NoKey}
     THEN Routes.mouse_targets ELSE {}) \ {m}

(* The plan of a click visits exactly the instances it has to.             *)
LEMMA ClickVisits ==
  ASSUME Routes.mouse_targets \subseteq Instances, NEW ev, IsMouse(ev), NEW m, NEW held
  PROVE  TargetsIn(Plan(ev, Routes, Instances, m, held)) = MirroredTo(held, m)
<1>. DEFINE T == Routes.mouse_targets
            S == (T \intersect Instances) \ {m}
            strategy == Routes.mouse_strategy
            d == Deliveries(T, Instances, m, strategy)
            p == Plan(ev, Routes, Instances, m, held)
            held1 == Routes.mouse_modifier_vk \in held \union {NoKey}
<1>1. Instances \subseteq Int /\ IsFiniteSet(Instances)
  BY DesktopAssumption, FS_Interval DEF Instances
<1>2. S \subseteq Int /\ IsFiniteSet(S)
  BY <1>1, FS_Subset
<1>3. Elements(d) = DeliverTo(S, strategy)
  BY <1>2, DeliveriesElements
<1>4. IsSequence(d)
  BY <1>1, DeliveriesAreDelivered
<1>5. S = T \ {m}
  OBVIOUS
<1>6. p = IF ~held1 THEN <<>>
          ELSE IF d # <<>> /\ strategy = "FocusCycle" THEN d \o <<Do("RestoreCursor")>> \o Repair(held)
          ELSE d
  BY DEF Plan, PlanMouse, IsMouse, IsKey, KeyKinds, ButtonKinds
<1>7. \A to : /\ Action("Deliver", to, strategy).op = "Deliver"
              /\ Action("Deliver", to, strategy).to = to
              /\ Action("Deliver", to, strategy).strategy = strategy
  BY DEF Action
<1>. HIDE DEF d, p, S, strategy
<1>8. TargetsIn(d) = IF strategy = "FocusCycle" THEN S ELSE {}
  BY <1>3, <1>7 DEF TargetsIn, DeliverTo, Leaves
<1>9. TargetsIn(d \o <<Do("RestoreCursor")>> \o Repair(held)) = TargetsIn(d)
  <2>1. /\ IsSequence(d \o <<Do("RestoreCursor")>>)
        /\ Elements(d \o <<Do("RestoreCursor")>>) = Elements(d) \union {Do("RestoreCursor")}
    BY <1>4, ElementsOfOne, ElementsOfBoth
  <2>2. IsSequence(Repair(held)) /\ Elements(Repair(held)) \subseteq {Do("RestoreFocus"), Do("ReassertHeld")}
    BY RepairElements
  <2>3. \A op \in {"RestoreCursor", "RestoreFocus", "ReassertHeld"} : ~Leaves(Do(op))
    BY DEF Do, Action, Leaves
  <2>4. Elements(d \o <<Do("RestoreCursor")>> \o Repair(held))
          = Elements(d) \union {Do("RestoreCursor")} \union Elements(Repair(held))
    BY <2>1, <2>2, ElementsOfBoth
  <2>. QED  BY <2>2, <2>3, <2>4 DEF TargetsIn
<1>10. d = <<>> => TargetsIn(d) = {}
  BY NothingLeft
<1>. QED  BY <1>5, <1>6, <1>8, <1>9, <1>10, NothingLeft DEF MirroredTo, p, strategy

-----------------------------------------------------------------------------
(* The two halves of every click reach the same windows.                   *)

(* Buttons only, one master, and targets that exist.                       *)
PlainClicks ==
  /\ MouseKinds \subseteq ButtonKinds
  /\ Routes.swap_hotkey_vk = NoKey
  /\ Routes.mouse_targets \subseteq Instances

OnMaster(ev) == ev.kind \in ButtonKinds /\ ev.at[1] = master
Pending == inflight.stage # "none" /\ IsMouse(inflight.ev)

(* The user's hand is always on the master.                                *)
ClicksOnMaster ==
  /\ \A i \in MouseAt : OnMaster(queue[i])
  /\ IsMouse(current) => OnMaster(current)
  /\ Pending => OnMaster(inflight.ev)

(* The cursor is there too, or comes back.                                 *)
CursorKept ==
  /\ cursor[1] = master \/ Ahead(acts)
  /\ Doing("Click") => IsMouse(current) /\ cursor[1] = Head(acts).to

(* The master has the button as the user does, or the event is on its way. *)
MasterFollows ==
  IF Pending THEN inflight.pass /\ (inflight.ev.kind = "MouseDown" <=> LButton \in phys)
             ELSE master \in pressed <=> LButton \in phys

Mirrored == MirroredTo(mkeys, master)

(* Its mirrors have what the last handled event says, or the plan of that  *)
(* event still visits them.                                                *)
MirrorsFollow ==
  IF IsMouse(current)
    THEN /\ HeldBefore(1) <=> current.kind = "MouseDown"
         /\ Left \subseteq Mirrored
         /\ current.kind = "MouseDown" =>
              Mirrored \ Left \subseteq pressed /\ pressed \ {master} \subseteq Mirrored
         /\ current.kind = "MouseUp" => pressed \ {master} \subseteq Left
    ELSE pressed \ {master} = IF HeldBefore(1) THEN Mirrored ELSE {}

ButtonsFollow == InOrder /\ ClicksOnMaster /\ CursorKept /\ MasterFollows /\ MirrorsFollow

ButtonInv ==
  /\ Base /\ WellTyped /\ Undisturbed /\ CursorComesBack
  /\ acts = <<>> => current = NoEvent
  /\ faults = 0 /\ ~halved => ButtonsFollow

LEMMA NoEventIsNoClick == ~IsMouse(NoEvent)
BY DEF NoEvent, KeyEvent, IsMouse, ButtonKinds

LEMMA MastersStay ==
  ASSUME PlainClicks, Base, [Next]_vars
  PROVE  master' = master /\ ~Settle /\ ~SwapMaster
<1>1. ~Settle
  BY SettleGoesOn DEF PlainClicks
<1>2. ~SwapMaster
  <2>. SUFFICES ASSUME SwapMaster  PROVE FALSE
    OBVIOUS
  <2>1. acts # <<>> /\ Swaps(Head(acts)) /\ 1 \in DOMAIN acts /\ Head(acts) = acts[1]
    BY Rest DEF SwapMaster, Doing, Swaps, Base
  <2>. QED  BY <2>1 DEF Base, Shape, PlainClicks
<1>3. PlanMoves
  BY PlanMovesOn
<1>. QED  BY <1>1, <1>2, <1>3 DEF PlanMoves, Handle, Replaced, ReassertHeld

(* A key event in the hook.                                                *)
LEMMA KeyPassesBy ==
  ASSUME ButtonInv, ButtonsFollow, NEW source, NEW kind \in KeyKinds, NEW k \in Keys,
         KeyInput(source, KeyEvent(kind, k)),
         UNCHANGED <<windowVars, cursor, broadcasterVars>>,
         LButton \in phys' <=> LButton \in phys,
         LButton \in phys => keys' = keys
  PROVE  ButtonsFollow'
<1>. DEFINE ev == KeyEvent(kind, k)
<1>1. IsKey(ev) /\ ~IsMouse(ev)
  BY DEF KeyEvent, IsKey, IsMouse, KeyKinds, ButtonKinds
<1>2. /\ inflight = NoInput /\ HookKey(source, ev)
      /\ inflight' = NoInput \/ \E stage, pass : inflight' = Input(stage, ev, pass)
  BY DEF KeyInput
<1>. HIDE DEF ev
<1>3. ~Pending /\ ~Pending'
  <2>1. NoInput.stage = "none" /\ \A stage, pass : Input(stage, ev, pass).ev = ev
    BY DEF NoInput, Input
  <2>. QED  BY <1>1, <1>2, <2>1 DEF Pending
<1>4. queue' = queue \/ (queue' = Append(queue, ev) /\ keys' # keys)
  BY <1>2 DEF HookKey, PublishKey, Publishes, Changes
<1>5. /\ InOrder' /\ (HeldBefore(1)' <=> HeldBefore(1))
      /\ \A i \in MouseAt' : i \in MouseAt /\ queue'[i] = queue[i]
  <2>1. CASE queue' = queue
    BY <2>1 DEF ButtonsFollow, InOrder, HeldBefore, MouseAt
  <2>2. CASE queue' = Append(queue, ev) /\ keys' # keys
    <3>1. IsQueue
      BY DEF ButtonInv, CursorComesBack
    <3>2. InOrder' /\ (HeldBefore(1)' <=> HeldBefore(1))
      BY <1>1, <2>2, <3>1, KeyArrives DEF ButtonsFollow
    <3>3. \A i \in MouseAt' : i \in MouseAt /\ queue'[i] = queue[i]
      BY <1>1, <2>2, <3>1, AppendFacts DEF MouseAt
    <3>. QED  BY <3>2, <3>3
  <2>. QED  BY <1>4, <2>1, <2>2
<1>6. UNCHANGED <<acts, current, mkeys, master, pressed, cursor>>
  BY DEF windowVars, broadcasterVars
<1>7. ClicksOnMaster'
  BY <1>3, <1>5, <1>6 DEF ButtonsFollow, ClicksOnMaster, OnMaster
<1>8. CursorKept' /\ MasterFollows'
  BY <1>3, <1>6 DEF ButtonsFollow, CursorKept, MasterFollows, Doing
<1>9. Left' = Left /\ Mirrored' = Mirrored
  BY <1>6 DEF Left, TargetsIn, Elements, Mirrored
<1>10. MirrorsFollow'
  BY <1>5, <1>6, <1>9 DEF ButtonsFollow, MirrorsFollow
<1>. QED  BY <1>5, <1>7, <1>8, <1>10 DEF ButtonsFollow

(* A press or a release in the hook, while no click is being mirrored.     *)
LEMMA ButtonComesIn ==
  ASSUME PlainClicks, ButtonInv, ButtonsFollow, NEW kind \in MouseKinds, UserMouse(kind),
         ~IsMouse(current), queue' # queue
  PROVE  ButtonsFollow'
<1>0. PICK ev : ev = MouseEvent(kind)
  OBVIOUS
<1>1. kind \in ButtonKinds /\ ev.kind = kind /\ ev.at = cursor /\ IsMouse(ev)
  BY <1>0 DEF PlainClicks, MouseEvent, ButtonKinds, IsMouse
<1>2. inflight = NoInput /\ inflight' = Input("signal", ev, TRUE) /\ queue' = Append(queue, ev)
  BY <1>0 DEF UserMouse, MouseInput, HookMouse
<1>3. /\ kind = "MouseDown" <=> LButton \notin phys
      /\ kind = "MouseDown" <=> LButton \in phys'
  BY <1>1 DEF UserMouse, ButtonKinds
<1>4. IsQueue
  BY DEF ButtonInv, CursorComesBack
<1>5. InOrder' /\ (HeldBefore(1)' <=> HeldBefore(1))
  <2>1. Len(queue) \in Nat
    BY <1>2, <1>4, AppendFacts
  <2>2. 1 \in 1 .. Len(queue) + 1
    BY <2>1
  <2>. QED  BY <1>1, <1>2, <1>3, <1>4, <2>2, ButtonArrives DEF ButtonsFollow
<1>6. UNCHANGED <<acts, current, mkeys, master, pressed, cursor>>
  BY DEF UserMouse, windowVars, broadcasterVars
<1>7. cursor[1] = master /\ ~Doing("Click")
  <2>1. ~Ahead(acts)
    BY DEF ButtonInv, CursorComesBack, CursorPlan
  <2>. QED  BY <2>1 DEF ButtonsFollow, CursorKept
<1>8. OnMaster(ev)' /\ Pending' /\ inflight'.ev = ev /\ inflight'.pass
  BY <1>1, <1>2, <1>6, <1>7 DEF OnMaster, Pending, Input
<1>9. \A i \in MouseAt' : queue'[i] = ev \/ (i \in MouseAt /\ queue'[i] = queue[i])
  BY <1>2, <1>4, AppendFacts DEF MouseAt
<1>10. ClicksOnMaster'
  BY <1>6, <1>8, <1>9 DEF ButtonsFollow, ClicksOnMaster, OnMaster
<1>11. CursorKept' /\ MasterFollows'
  BY <1>1, <1>3, <1>6, <1>7, <1>8 DEF CursorKept, MasterFollows, Doing
<1>12. Left' = Left /\ Mirrored' = Mirrored
  BY <1>6 DEF Left, TargetsIn, Elements, Mirrored
<1>13. MirrorsFollow'
  BY <1>5, <1>6, <1>12 DEF ButtonsFollow, MirrorsFollow
<1>. QED  BY <1>5, <1>10, <1>11, <1>13 DEF ButtonsFollow

(* Nothing in the hook or the windows changes that a click depends on.     *)
LEMMA ButtonsStay ==
  ASSUME ButtonsFollow,
         UNCHANGED <<queue, phys, inflight, acts, current, mkeys, master, pressed, cursor>>
  PROVE  ButtonsFollow'
<1>1. InOrder' /\ (HeldBefore(1)' <=> HeldBefore(1)) /\ MouseAt' = MouseAt
  BY DEF ButtonsFollow, InOrder, HeldBefore, MouseAt
<1>2. ClicksOnMaster'
  BY <1>1 DEF ButtonsFollow, ClicksOnMaster, OnMaster, Pending
<1>3. CursorKept' /\ MasterFollows'
  BY DEF ButtonsFollow, CursorKept, MasterFollows, Doing, Pending, Ahead
<1>4. Left' = Left /\ Mirrored' = Mirrored
  BY DEF Left, TargetsIn, Elements, Mirrored
<1>5. MirrorsFollow'
  BY <1>1, <1>4 DEF ButtonsFollow, MirrorsFollow
<1>. QED  BY <1>1, <1>2, <1>3, <1>5 DEF ButtonsFollow

(* The hand moves while no click is being mirrored.                        *)
LEMMA HandMoves ==
  ASSUME ButtonInv, ButtonsFollow, NEW p \in Points, UserMove(p), ~IsMouse(current)
  PROVE  ButtonsFollow'
<1>1. UNCHANGED <<queue, phys, inflight, acts, current, mkeys, master, pressed>>
  BY DEF UserMove, windowVars, captureVars, broadcasterVars
<1>2. InOrder' /\ (HeldBefore(1)' <=> HeldBefore(1)) /\ MouseAt' = MouseAt
  BY <1>1 DEF ButtonsFollow, InOrder, HeldBefore, MouseAt
<1>3. ClicksOnMaster'
  BY <1>1, <1>2 DEF ButtonsFollow, ClicksOnMaster, OnMaster, Pending
<1>4. cursor'[1] = master /\ ~Doing("Click")
  BY DEF UserMove, ButtonsFollow, CursorKept
<1>5. CursorKept' /\ MasterFollows'
  BY <1>1, <1>4 DEF ButtonsFollow, CursorKept, MasterFollows, Doing, Pending, Ahead
<1>6. Left' = Left /\ Mirrored' = Mirrored
  BY <1>1 DEF Left, TargetsIn, Elements, Mirrored
<1>7. MirrorsFollow'
  BY <1>1, <1>2, <1>6 DEF ButtonsFollow, MirrorsFollow
<1>. QED  BY <1>2, <1>3, <1>5, <1>7 DEF ButtonsFollow

(* The hook lets an event go on to its window: a click is the master's.    *)
LEMMA HookLeavesButtons ==
  ASSUME ButtonInv, ButtonsFollow, faults = 0, Hook
  PROVE  ButtonsFollow'
<1>1. UNCHANGED <<queue, phys, acts, current, mkeys, master, cursor>>
  BY DEF Hook, Signal, DeliverInput, broadcasterVars
<1>2. InOrder' /\ (HeldBefore(1)' <=> HeldBefore(1)) /\ MouseAt' = MouseAt
  BY <1>1 DEF ButtonsFollow, InOrder, HeldBefore, MouseAt
<1>3. CursorKept'
  BY <1>1 DEF ButtonsFollow, CursorKept, Doing, Ahead
<1>4. Left' = Left /\ Mirrored' = Mirrored
  BY <1>1 DEF Left, TargetsIn, Elements, Mirrored
<1>5. IsInput(inflight)
  BY DEF ButtonInv, WellTyped, HookTypeOK
<1>6. CASE Signal
  <2>1. /\ inflight.stage # "none" /\ pressed' = pressed
        /\ inflight' = IF inflight.pass THEN Input("deliver", inflight.ev, inflight.pass) ELSE NoInput
    BY <1>5, <1>6, SignalFacts DEF Signal, windowVars
  <2>2. NoInput.stage = "none"
    BY DEF NoInput, Input
  <2>3. /\ Pending => Pending' /\ inflight'.ev = inflight.ev /\ inflight'.pass
        /\ Pending' => Pending
    <3>1. Pending => inflight.pass
      BY DEF ButtonsFollow, MasterFollows
    <3>2. ASSUME inflight.pass
          PROVE  inflight'.stage # "none" /\ inflight'.ev = inflight.ev /\ inflight'.pass
      BY <2>1, <3>2 DEF Input
    <3>3. CASE inflight.pass
      BY <2>1, <3>2, <3>3 DEF Pending
    <3>4. CASE ~inflight.pass
      BY <2>1, <2>2, <3>1, <3>4 DEF Pending
    <3>. QED  BY <3>3, <3>4
  <2>4. ClicksOnMaster' /\ MasterFollows'
    BY <1>1, <1>2, <2>1, <2>3 DEF ButtonsFollow, ClicksOnMaster, OnMaster, MasterFollows
  <2>5. MirrorsFollow'
    BY <1>1, <1>2, <1>4, <2>1 DEF ButtonsFollow, MirrorsFollow
  <2>. QED  BY <1>2, <1>3, <2>4, <2>5 DEF ButtonsFollow
<1>7. CASE DeliverInput
  <2>1. /\ inflight.stage = "deliver" /\ inflight' = NoInput
        /\ ButtonReaches(inflight.ev, inflight.ev.at[1])
    BY <1>7 DEF DeliverInput
  <2>2. ~Pending'
    BY <2>1 DEF Pending, NoInput, Input
  <2>3. ClicksOnMaster'
    BY <1>1, <1>2, <2>2 DEF ButtonsFollow, ClicksOnMaster, OnMaster
  <2>4. /\ pressed' \ {master} = pressed \ {master}
        /\ master \in pressed' <=> LButton \in phys
    <3>1. CASE Pending
      <4>1. inflight.ev.kind \in ButtonKinds /\ inflight.ev.at[1] = master
        BY <3>1 DEF ButtonsFollow, ClicksOnMaster, OnMaster
      <4>2. inflight.ev.kind = "MouseDown" <=> LButton \in phys
        BY <3>1 DEF ButtonsFollow, MasterFollows
      <4>3. master \in live
        BY DEF ButtonInv, Base, Undisturbed
      <4>. QED  BY <2>1, <4>1, <4>2, <4>3 DEF ButtonReaches, ButtonKinds
    <3>2. CASE ~Pending
      <4>1. pressed' = pressed
        BY <2>1, <3>2 DEF Pending, IsMouse, ButtonReaches, ButtonKinds
      <4>. QED  BY <3>2, <4>1 DEF ButtonsFollow, MasterFollows
    <3>. QED  BY <3>1, <3>2
  <2>5. MasterFollows'
    BY <1>1, <2>2, <2>4 DEF MasterFollows
  <2>6. Mirrored \intersect {master} = {}
    BY DEF Mirrored, MirroredTo
  <2>7. MirrorsFollow'
    <3>1. MirrorsFollow
      BY DEF ButtonsFollow
    <3>2. Mirrored \ Left \subseteq pressed' <=> Mirrored \ Left \subseteq pressed
      BY <2>4, <2>6
    <3>. QED  BY <1>1, <1>2, <1>4, <2>4, <3>1, <3>2 DEF MirrorsFollow
  <2>. QED  BY <1>2, <1>3, <2>3, <2>5, <2>7 DEF ButtonsFollow
<1>. QED  BY <1>6, <1>7 DEF Hook

(* A plan that dispatch.hpp has just made does not begin with a click.     *)
LEMMA NoClickYet ==
  ASSUME NEW ev, NEW alive, IsFiniteSet(alive), NEW m, NEW held,
         acts' = Plan(ev, Routes, alive, m, held)
  PROVE  ~Doing("Click")'
<1>. DEFINE q == acts'
<1>1. IsSequence(q) /\ \A i \in DOMAIN q : q[i].op # "Click"
  BY PlansAreWhole DEF WholePlan, Shape
<1>2. PICK S : q \in Seq(S)
  BY <1>1 DEF IsSequence
<1>. HIDE DEF q
<1>3. q # <<>> => Head(q).op # "Click"
  BY <1>1, <1>2
<1>. QED  BY <1>3 DEF q, Doing

(* The broadcaster takes an event: its plan visits all the mirrors that    *)
(* have to hear of it.                                                     *)
LEMMA HandleTurnsToMirrors ==
  ASSUME PlainClicks, ButtonInv, ButtonsFollow, faults = 0, Handle
  PROVE  ButtonsFollow'
<1>0. PICK ev : ev = Head(queue)
  OBVIOUS
<1>1. /\ acts = <<>> /\ queue # <<>> /\ queue' = Tail(queue)
      /\ acts' = Plan(ev, Routes, live, master, mkeys') /\ mkeys' = Apply(mkeys, ev)
      /\ current' = IF acts' = <<>> THEN NoEvent ELSE ev
      /\ UNCHANGED <<phys, inflight, master, pressed, cursor>>
  BY <1>0 DEF Handle, MasterKeys, desktopVars, windowVars
<1>2. IsQueue /\ live = Instances /\ IsFiniteSet(live)
  BY DesktopAssumption, FS_Interval DEF ButtonInv, CursorComesBack, Undisturbed, Instances
<1>3. /\ 1 \in DOMAIN queue /\ ev = queue[1]
      /\ \A i \in DOMAIN queue' : i + 1 \in DOMAIN queue /\ queue'[i] = queue[i + 1]
  BY <1>0, <1>1, <1>2, TailFacts
<1>4. IsKey(ev) \/ IsMouse(ev)
  <2>1. ev \in EventType
    BY <1>3 DEF ButtonInv, WellTyped, HookTypeOK
  <2>. QED  BY <2>1, EventFacts
<1>5. IsMouse(ev) => OnMaster(ev)
  BY <1>3 DEF ButtonsFollow, ClicksOnMaster, MouseAt
<1>6. /\ InOrder'
      /\ IsKey(ev) => ~HeldBefore(1) /\ ~HeldBefore(1)'
      /\ IsMouse(ev) => /\ HeldBefore(1) <=> ev.kind = "MouseUp"
                        /\ HeldBefore(1)' <=> ev.kind = "MouseDown"
  BY <1>0, <1>1, <1>2, <1>5, EventTaken DEF ButtonsFollow, OnMaster
<1>7. ClicksOnMaster'
  <2>1. \A i \in MouseAt' : OnMaster(queue'[i])
    BY <1>3 DEF MouseAt, ButtonsFollow, ClicksOnMaster
  <2>. QED  BY <1>1, <1>5, <2>1, NoEventIsNoClick
            DEF ButtonsFollow, ClicksOnMaster, OnMaster, Pending
<1>8. CursorKept'
  <2>1. cursor[1] = master
    BY <1>1, NothingAhead DEF ButtonsFollow, CursorKept
  <2>. QED  BY <1>1, <1>2, <2>1, NoClickYet DEF CursorKept
<1>9. MasterFollows'
  BY <1>1 DEF ButtonsFollow, MasterFollows, Pending
<1>10. pressed \ {master} = IF HeldBefore(1) THEN Mirrored ELSE {}
  <2>1. ~IsMouse(current)
    BY <1>1, NoEventIsNoClick DEF ButtonInv
  <2>. QED  BY <2>1 DEF ButtonsFollow, MirrorsFollow
<1>11. CASE IsKey(ev)
  <2>1. ~IsMouse(current')
    BY <1>1, <1>11, NoEventIsNoClick DEF IsKey, IsMouse, KeyKinds, ButtonKinds
  <2>2. MirrorsFollow'
    BY <1>1, <1>6, <1>10, <1>11, <2>1 DEF MirrorsFollow
  <2>. QED  BY <1>6, <1>7, <1>8, <1>9, <2>2 DEF ButtonsFollow
<1>12. CASE IsMouse(ev)
  <2>1. ev.kind \in ButtonKinds
    BY <1>5, <1>12 DEF OnMaster
  <2>2. mkeys' = mkeys /\ Mirrored' = Mirrored
    BY <1>1, <2>1 DEF Apply, ButtonKinds, Mirrored
  <2>3. TargetsIn(Plan(ev, Routes, Instances, master, mkeys)) = Mirrored
    BY <1>12, ClickVisits DEF PlainClicks, Mirrored
  <2>4. Left' = TargetsIn(acts')
    BY DEF Left, TargetsIn, Elements
  <2>5. Left' = Mirrored
    BY <1>1, <1>2, <2>2, <2>3, <2>4
  <2>6. CASE acts' = <<>>
    <3>1. Mirrored = {} /\ current' = NoEvent
      BY <1>1, <2>4, <2>5, <2>6, NothingLeft
    <3>2. MirrorsFollow'
      BY <1>1, <1>10, <2>2, <3>1, NoEventIsNoClick DEF MirrorsFollow
    <3>. QED  BY <1>6, <1>7, <1>8, <1>9, <3>2 DEF ButtonsFollow
  <2>7. CASE acts' # <<>>
    <3>1. current' = ev
      BY <1>1, <2>7
    <3>2. MirrorsFollow'
      BY <1>1, <1>6, <1>10, <1>12, <2>1, <2>2, <2>5, <3>1 DEF MirrorsFollow, ButtonKinds
    <3>. QED  BY <1>6, <1>7, <1>8, <1>9, <3>2 DEF ButtonsFollow
  <2>. QED  BY <2>6, <2>7
<1>. QED  BY <1>4, <1>11, <1>12

-----------------------------------------------------------------------------
(* The steps of a plan, by what they mean for a click.                     *)

LEMMA NoStep == IsSequence(<<>>) /\ TargetsIn(<<>>) = {} /\ \A a \in Elements(<<>>) : FALSE
<1>1. <<>> \in Seq({})
  OBVIOUS
<1>. QED  BY <1>1, NothingLeft, ElementsOfNone DEF IsSequence

LEMMA OneStep ==
  ASSUME NEW op \in {"Inject", "Click"}, NEW to
  PROVE  /\ IsSequence(<<Step(op, to)>>) /\ TargetsIn(<<Step(op, to)>>) = {to}
         /\ \A a \in Elements(<<Step(op, to)>>) : a.op # "RestoreCursor"
         /\ Step(op, to).op = op /\ Step(op, to).to = to
<1>. DEFINE a == Step(op, to)
<1>1. a.op = op /\ a.to = to
  BY DEF Step, Action
<1>2. IsSequence(<<a>>) /\ Elements(<<a>>) = {a}
  BY ElementsOfOne
<1>. HIDE DEF a
<1>3. TargetsIn(<<a>>) = {to}
  BY <1>1, <1>2 DEF TargetsIn, Leaves
<1>4. \A b \in Elements(<<a>>) : b.op # "RestoreCursor"
  BY <1>1, <1>2
<1>. QED  BY <1>1, <1>2, <1>3, <1>4 DEF a

(* Nothing that a step of a plan does puts an event into the ring.         *)
LEMMA OnlyThePlanMoves ==
  ASSUME Base, Execute, ~Settle
  PROVE  /\ acts # <<>> /\ UNCHANGED <<queue, phys, inflight, mkeys, master>>
         /\ current' = IF acts' = <<>> THEN NoEvent ELSE current
<1>1. \A ev : HookKey("ours", ev) => queue' = queue
  BY DEF HookKey, Publishes, Ignored
<1>2. \A ev : HookMouse("ours", ev) => queue' = queue
  BY DEF HookMouse, Ignored
<1>3. CASE DeliverByFocus
  BY <1>3 DEF DeliverByFocus, Deliver, Doing, captureVars, Then
<1>4. CASE DeliverByMessage \/ RestoreFocus \/ ReassertHeld \/ SwapMaster
  BY <1>4 DEF DeliverByMessage, RestoreFocus, ReturnToMaster, ReassertHeld, SwapMaster, Doing,
       captureVars, desktopVars, Then
<1>5. CASE InjectKey \/ Press
  BY <1>1, <1>5 DEF InjectKey, Press, SendKey, Doing, Then
<1>6. CASE InjectMouse \/ RestoreCursor
  BY <1>6 DEF InjectMouse, RestoreCursor, Doing, captureVars, Then
<1>7. CASE Click
  BY <1>2, <1>7 DEF Click, Doing, Then
<1>. QED  BY <1>3, <1>4, <1>5, <1>6, <1>7 DEF Execute

(* What is not a step of a click leaves the cursor and the buttons alone.  *)
LEMMA OtherSteps ==
  ASSUME Base, WellTyped, Undisturbed, Execute, ~Settle, ~SwapMaster, faults = 0, faults' = 0,
         ~Click, ~InjectMouse, ~RestoreCursor
  PROVE  /\ UNCHANGED <<cursor, pressed>> /\ ~Doing("Click")'
         /\ Ahead(acts') <=> Ahead(acts)
         /\ IsMouse(current) => Left' = Left
<1>1. acts # <<>> /\ Shape(acts)
  BY OnlyThePlanMoves DEF Base
<1>2. ASSUME Then(<<>>), Head(acts).op # "RestoreCursor", ~Leaves(Head(acts)) \/ ~IsMouse(current)
      PROVE  /\ ~Doing("Click")' /\ (Ahead(acts') <=> Ahead(acts))
             /\ IsMouse(current) => Left' = Left
  <2>1. ~Doing("Click")'
    BY <1>1, <1>2, ThenNone DEF Doing
  <2>. QED  BY <1>1, <1>2, <2>1, NoStep, ThenLeft
<1>3. CASE DeliverByFocus
  <2>. DEFINE to == Head(acts).to
              a == Step("Inject", to)
  <2>1. UNCHANGED cursor /\ Head(acts).op = "Deliver" /\ Leaves(Head(acts)) /\ Deliver(to)
    BY <1>3 DEF DeliverByFocus, Doing, Leaves
  <2>2. to \in live
    <3>1. Head(acts) \in Elements(acts)
      BY <1>1, Rest DEF Elements
    <3>. QED  BY <2>1, <3>1 DEF WellTyped, Targeted, Undisturbed
  <2>3. BringSucceeds(to) /\ Then(<<a>>)
    BY <2>1, <2>2 DEF Deliver, BringFails, Fault
  <2>4. pressed' = pressed
    BY <2>3 DEF BringSucceeds
  <2>5. /\ IsSequence(<<a>>) /\ TargetsIn(<<a>>) = {to} /\ a.op = "Inject"
        /\ \A b \in Elements(<<a>>) : b.op # "RestoreCursor"
    BY OneStep
  <2>. HIDE DEF a
  <2>6. Head(acts') = a
    BY <1>1, <2>1, <2>3, <2>5, ThenOne
  <2>. QED  BY <1>1, <2>1, <2>3, <2>4, <2>5, <2>6, ThenLeft DEF Doing
<1>4. CASE DeliverByMessage
  <2>1. Then(<<>>) /\ ~Leaves(Head(acts)) /\ Head(acts).op = "Deliver" /\ UNCHANGED <<cursor, pressed>>
    BY <1>4 DEF DeliverByMessage, Doing, Leaves, desktopVars, windowVars
  <2>. QED  BY <1>2, <2>1
<1>5. CASE InjectKey
  <2>1. Then(<<>>) /\ ~IsMouse(current) /\ Head(acts).op = "Inject" /\ UNCHANGED <<cursor, pressed>>
    BY <1>5 DEF InjectKey, Doing, IsKey, IsMouse, KeyKinds, ButtonKinds
  <2>. QED  BY <1>2, <2>1
<1>6. CASE RestoreFocus
  <2>1. /\ Then(<<>>) /\ Head(acts).op = "RestoreFocus" /\ cursor' = cursor
        /\ BringSucceeds(master) \/ BringFails(master)
    BY <1>6 DEF RestoreFocus, ReturnToMaster, Doing
  <2>2. pressed' = pressed /\ ~Leaves(Head(acts))
    BY <2>1 DEF BringSucceeds, BringFails, windowVars, Leaves
  <2>. QED  BY <1>2, <2>1, <2>2
<1>7. CASE ReassertHeld
  <2>1. UNCHANGED <<cursor, pressed>>
    BY <1>7 DEF ReassertHeld, desktopVars, windowVars
  <2>2. /\ \A x \in Elements(acts') : Reasserts(x)
        /\ \A x \in Elements(acts) : Reasserts(x)
    <3>1. \A i \in DOMAIN acts' : Reasserts(acts'[i])
      BY <1>7, ThenPresses DEF Reasserts, Base
    <3>2. 1 \in DOMAIN acts /\ Reasserts(acts[1]) /\ \A i \in DOMAIN acts : 1 <= i
      BY <1>1, <1>7, Rest DEF ReassertHeld, Doing, Reasserts
    <3>3. \A i \in DOMAIN acts : Reasserts(acts[i])
      BY <1>1, <3>2 DEF Shape
    <3>. QED  BY <3>1, <3>3 DEF Elements
  <2>3. Left' = {} /\ Left = {}
    <3>1. Left' = TargetsIn(acts')
      BY DEF Left, TargetsIn, Elements
    <3>. QED  BY <2>2, <3>1 DEF Left, TargetsIn, Leaves, Reasserts
  <2>4. ~Ahead(acts) /\ ~Ahead(acts')
    BY <2>2 DEF Ahead, Elements, Reasserts
  <2>5. ~Doing("Click")'
    <3>. DEFINE q == acts'
    <3>1. PICK S : q \in Seq(S)
      BY <1>7, ThenPresses DEF Base, Shape, IsSequence
    <3>2. \A i \in DOMAIN q : q[i].op # "Click"
      BY <2>2 DEF Elements, Reasserts
    <3>. HIDE DEF q
    <3>3. q # <<>> => Head(q).op # "Click"
      BY <3>1, <3>2
    <3>. QED  BY <3>3 DEF q, Doing
  <2>. QED  BY <2>1, <2>3, <2>4, <2>5
<1>8. CASE Press
  <2>1. Then(<<>>) /\ ~Leaves(Head(acts)) /\ Head(acts).op = "Press" /\ UNCHANGED <<cursor, pressed>>
    BY <1>8 DEF Press, Doing, Leaves
  <2>. QED  BY <1>2, <2>1
<1>. QED  BY <1>3, <1>4, <1>5, <1>6, <1>7, <1>8 DEF Execute

(* One step of a plan: what it takes from the plan the buttons show.       *)
LEMMA PlanMirrors ==
  ASSUME ButtonInv, ButtonsFollow, faults = 0, faults' = 0, Execute, ~Settle, ~SwapMaster
  PROVE  ButtonsFollow'
<1>1. /\ acts # <<>> /\ UNCHANGED <<queue, phys, inflight, mkeys, master>>
      /\ current' = IF acts' = <<>> THEN NoEvent ELSE current
  BY OnlyThePlanMoves DEF ButtonInv
<1>2. InOrder' /\ (HeldBefore(1)' <=> HeldBefore(1)) /\ MouseAt' = MouseAt
  BY <1>1 DEF ButtonsFollow, InOrder, HeldBefore, MouseAt
<1>3. ClicksOnMaster'
  BY <1>1, <1>2, NoEventIsNoClick DEF ButtonsFollow, ClicksOnMaster, OnMaster, Pending
<1>4. Mirrored' = Mirrored /\ master \notin Mirrored
  BY <1>1 DEF Mirrored, MirroredTo
<1>5. ASSUME IsMouse(current), master \in pressed' <=> master \in pressed, Left' \subseteq Left,
             current.kind = "MouseDown" =>
               Mirrored \ Left' \subseteq pressed' /\ pressed' \ {master} \subseteq Mirrored,
             current.kind = "MouseUp" => pressed' \ {master} \subseteq Left'
      PROVE  MasterFollows' /\ MirrorsFollow'
  <2>1. MasterFollows'
    BY <1>1, <1>5 DEF ButtonsFollow, MasterFollows, Pending
  <2>2. /\ current.kind \in ButtonKinds /\ Left' \subseteq Mirrored
        /\ HeldBefore(1) <=> current.kind = "MouseDown"
    BY <1>5 DEF ButtonsFollow, ClicksOnMaster, OnMaster, MirrorsFollow
  <2>3. CASE acts' # <<>>
    <3>1. MirrorsFollow'
      BY <1>1, <1>2, <1>4, <1>5, <2>2, <2>3 DEF MirrorsFollow
    <3>. QED  BY <2>1, <3>1
  <2>4. CASE acts' = <<>>
    <3>1. Left' = TargetsIn(acts')
      BY DEF Left, TargetsIn, Elements
    <3>2. Left' = {} /\ ~IsMouse(current')
      BY <1>1, <2>4, <3>1, NothingLeft, NoEventIsNoClick
    <3>3. pressed' \ {master} = IF HeldBefore(1) THEN Mirrored ELSE {}
      BY <1>4, <1>5, <2>2, <3>2 DEF ButtonKinds
    <3>4. MirrorsFollow'
      BY <1>1, <1>2, <1>4, <3>2, <3>3 DEF MirrorsFollow
    <3>. QED  BY <2>1, <3>4
  <2>. QED  BY <2>1, <2>3, <2>4
<1>6. ASSUME pressed' = pressed, IsMouse(current) => Left' = Left
      PROVE  MasterFollows' /\ MirrorsFollow'
  <2>1. CASE IsMouse(current)
    <3>1. /\ current.kind = "MouseDown" =>
               Mirrored \ Left \subseteq pressed /\ pressed \ {master} \subseteq Mirrored
          /\ current.kind = "MouseUp" => pressed \ {master} \subseteq Left
      BY <2>1 DEF ButtonsFollow, MirrorsFollow
    <3>. QED  BY <1>5, <1>6, <2>1, <3>1
  <2>2. CASE ~IsMouse(current)
    <3>1. ~IsMouse(current')
      BY <1>1, <2>2, NoEventIsNoClick
    <3>2. MirrorsFollow'
      BY <1>1, <1>2, <1>4, <1>6, <2>2, <3>1 DEF ButtonsFollow, MirrorsFollow
    <3>3. MasterFollows'
      BY <1>1, <1>6 DEF ButtonsFollow, MasterFollows, Pending
    <3>. QED  BY <3>2, <3>3
  <2>. QED  BY <2>1, <2>2
<1>7. ASSUME UNCHANGED <<cursor, pressed>>, ~Doing("Click")', Ahead(acts') <=> Ahead(acts),
             IsMouse(current) => Left' = Left
      PROVE  ButtonsFollow'
  <2>1. CursorKept'
    BY <1>1, <1>7 DEF ButtonsFollow, CursorKept
  <2>. QED  BY <1>2, <1>3, <1>6, <1>7, <2>1 DEF ButtonsFollow
<1>8. CASE ~Click /\ ~InjectMouse /\ ~RestoreCursor
  BY <1>7, <1>8, OtherSteps DEF ButtonInv
<1>9. CASE InjectMouse
  <2>. DEFINE to == Head(acts).to
              a == Step("Click", to)
  <2>1. /\ IsMouse(current) /\ Head(acts).op = "Inject" /\ Leaves(Head(acts)) /\ Then(<<a>>)
        /\ cursor' = <<to, current.at[2]>> /\ pressed' = pressed
    BY <1>9 DEF InjectMouse, Doing, Leaves, MoveCursor, Mirror, windowVars
  <2>2. /\ IsSequence(<<a>>) /\ TargetsIn(<<a>>) = {to} /\ a.op = "Click" /\ a.to = to
        /\ \A b \in Elements(<<a>>) : b.op # "RestoreCursor"
    BY OneStep
  <2>3. Shape(acts) /\ CursorPlan(acts, current)
    BY DEF ButtonInv, Base, CursorComesBack
  <2>. HIDE DEF a
  <2>4. acts' # <<>> /\ Head(acts') = a
    BY <1>1, <2>1, <2>2, <2>3, ThenOne
  <2>5. Ahead(acts')
    <3>1. (Ahead(acts)' <=> Ahead(acts)) /\ Ahead(acts)
      BY <1>1, <2>1, <2>2, <2>3, CursorThenOne
    <3>. QED  BY <3>1 DEF Ahead
  <2>6. Left' = Left
    BY <1>1, <2>1, <2>2, ThenLeft DEF ButtonInv
  <2>7. CursorKept'
    <3>1. cursor'[1] = to
      BY <2>1
    <3>. QED  BY <1>1, <2>1, <2>2, <2>4, <2>5, <3>1 DEF CursorKept
  <2>. QED  BY <1>2, <1>3, <1>6, <2>1, <2>6, <2>7 DEF ButtonsFollow
<1>10. CASE Click
  <2>. DEFINE to == Head(acts).to
              rest == TargetsIn(Tail(acts))
  <2>1. /\ Head(acts).op = "Click" /\ Leaves(Head(acts)) /\ Then(<<>>)
        /\ cursor' = cursor /\ ButtonReaches(current, cursor[1])
    BY <1>10 DEF Click, Doing, Leaves
  <2>2. IsMouse(current) /\ current.kind \in ButtonKinds /\ cursor[1] = to
    BY <1>10 DEF ButtonsFollow, CursorKept, ClicksOnMaster, OnMaster, Click
  <2>3. to \in live /\ to # master
    <3>1. Head(acts) \in Elements(acts)
      BY <1>1, Rest DEF ButtonInv, Base, Elements
    <3>2. to \in Instances \ {master} /\ live = Instances
      BY <2>1, <3>1 DEF ButtonInv, WellTyped, Targeted, Undisturbed
    <3>. QED  BY <3>2
  <2>4. Left' = rest /\ Left = {to} \union rest /\ (Ahead(acts') <=> Ahead(acts))
    BY <1>1, <2>1, NoStep, ThenLeft DEF ButtonInv
  <2>. HIDE DEF to, rest
  <2>5. CursorKept'
    <3>1. ~Doing("Click")'
      BY <1>1, <2>1, ThenNone DEF ButtonInv, Base, Doing
    <3>. QED  BY <1>1, <2>1, <2>4, <3>1 DEF ButtonsFollow, CursorKept
  <2>6. /\ Left \subseteq Mirrored
        /\ current.kind = "MouseDown" =>
             Mirrored \ Left \subseteq pressed /\ pressed \ {master} \subseteq Mirrored
        /\ current.kind = "MouseUp" => pressed \ {master} \subseteq Left
    BY <2>2 DEF ButtonsFollow, MirrorsFollow
  <2>7. CASE current.kind = "MouseDown"
    <3>1. pressed' = pressed \union {to} /\ current.kind # "MouseUp"
      BY <2>1, <2>2, <2>3, <2>7 DEF ButtonReaches
    <3>2. MasterFollows' /\ MirrorsFollow'
      BY <1>5, <2>2, <2>3, <2>4, <2>6, <2>7, <3>1
    <3>. QED  BY <1>2, <1>3, <2>5, <3>2 DEF ButtonsFollow
  <2>8. CASE current.kind = "MouseUp"
    <3>1. pressed' = pressed \ {to} /\ current.kind # "MouseDown"
      BY <2>1, <2>2, <2>8 DEF ButtonReaches
    <3>2. MasterFollows' /\ MirrorsFollow'
      BY <1>5, <2>2, <2>3, <2>4, <2>6, <2>8, <3>1
    <3>. QED  BY <1>2, <1>3, <2>5, <3>2 DEF ButtonsFollow
  <2>. QED  BY <2>2, <2>7, <2>8 DEF ButtonKinds
<1>11. CASE RestoreCursor
  <2>1. /\ Head(acts).op = "RestoreCursor" /\ ~Leaves(Head(acts)) /\ Then(<<>>)
        /\ cursor' = current.at /\ pressed' = pressed
    BY <1>11 DEF RestoreCursor, Doing, MoveCursor, Leaves, windowVars
  <2>2. IsMouse(current)
    <3>1. 1 \in DOMAIN acts /\ Head(acts) = acts[1]
      BY <1>1, Rest DEF ButtonInv, Base
    <3>2. Ahead(acts)
      BY <2>1, <3>1 DEF Ahead
    <3>. QED  BY <3>2 DEF ButtonInv, CursorComesBack, CursorPlan
  <2>3. cursor'[1] = master
    BY <2>1, <2>2 DEF ButtonsFollow, ClicksOnMaster, OnMaster
  <2>4. CursorKept'
    <3>1. ~Doing("Click")'
      BY <1>1, <2>1, ThenNone DEF ButtonInv, Base, Doing
    <3>. QED  BY <1>1, <2>3, <3>1 DEF CursorKept
  <2>5. Left' = Left
    BY <1>1, <2>1, NoStep, ThenLeft DEF ButtonInv
  <2>. QED  BY <1>2, <1>3, <1>6, <2>1, <2>4, <2>5 DEF ButtonsFollow
<1>. QED  BY <1>8, <1>9, <1>10, <1>11

(* Without a plan there is no event being handled.                         *)
LEMMA IdleBetweenPlans ==
  ASSUME acts = <<>> => current = NoEvent, [Next]_vars
  PROVE  acts' = <<>> => current' = NoEvent
<1>1. CASE UNCHANGED <<acts, current>>
  BY <1>1
<1>2. CASE Handle
  BY <1>2 DEF Handle
<1>3. ASSUME NEW steps, Then(steps)  PROVE acts' = <<>> => current' = NoEvent
  BY <1>3 DEF Then
<1>4. CASE ~Broadcast
  BY <1>1, <1>4 DEF Next, UserKey, ForeignKey, UserMouse, UserMove, Hook, Disturb, vars, broadcasterVars
<1>5. CASE Wake \/ Drained
  BY <1>1, <1>5 DEF Wake, Drained
<1>6. CASE Execute
  BY <1>3, <1>6 DEF Execute, DeliverByFocus, Deliver, DeliverByMessage, InjectKey, InjectMouse, Click,
     RestoreCursor, RestoreFocus, ReturnToMaster, ReassertHeld, Press, SwapMaster, Settle
<1>. QED  BY <1>2, <1>4, <1>5, <1>6 DEF Broadcast, BroadcasterStep

(* No disturbance is undone.                                               *)
LEMMA FaultsStay ==
  ASSUME Base, Undisturbed, [Next]_vars, faults' = 0
  PROVE  faults = 0 /\ ~Disturb
<1>1. ~Disturb
  <2>1. NoWindow \notin live
    BY DesktopAssumption DEF Base, NoWindow, Instances
  <2>2. ~LateActivation
    BY <2>1 DEF LateActivation, Undisturbed
  <2>3. \A kind : ~Fault(kind)
    BY DEF Fault, Base
  <2>. QED  BY <2>2, <2>3 DEF Disturb, UserSwitch, WindowDies
<1>2. CASE IdleStep \/ HandleStep \/ PlanStep
  BY <1>1, <1>2 DEF IdleStep, HandleStep, PlanStep, focusVars
<1>3. CASE DeliverByFocus
  BY <1>1, <1>3, DeliverGoesOn, Bring
<1>4. CASE RestoreFocus
  BY <1>1, <1>4, ReturnGoesOn, Bring
<1>5. CASE Settle
  BY <1>1, <1>5, SettleGoesOn, Bring
<1>6. ~DisturbStep \/ faults = 0
  BY DEF DisturbStep, Fault, Base
<1>. QED  BY <1>1, <1>2, <1>3, <1>4, <1>5, <1>6, Steps

LEMMA ButtonStep ==
  ASSUME PlainClicks, ButtonInv, [Next]_vars
  PROVE  ButtonInv'
<1>1. Base' /\ WellTyped' /\ Undisturbed' /\ CursorComesBack'
  BY BaseStep, WellTypedStep, UndisturbedStep, CursorStep DEF ButtonInv, PlainClicks
<1>2. acts' = <<>> => current' = NoEvent
  BY IdleBetweenPlans DEF ButtonInv
<1>3. SUFFICES ASSUME faults' = 0, ~halved'  PROVE ButtonsFollow'
  BY <1>1, <1>2 DEF ButtonInv
<1>4. ~Settle /\ ~SwapMaster
  BY MastersStay DEF ButtonInv
<1>5. faults = 0 /\ ~Disturb
  BY <1>3, FaultsStay DEF ButtonInv
<1>6. ASSUME ~halved  PROVE ButtonsFollow
  BY <1>5, <1>6 DEF ButtonInv
<1>7. ASSUME NEW kind \in KeyKinds, NEW k \in Keys, UserKey(kind, k) \/ ForeignKey(kind, k)
      PROVE  ButtonsFollow'
  <2>1. PICK source : KeyInput(source, KeyEvent(kind, k))
    BY <1>7 DEF UserKey, ForeignKey
  <2>2. /\ UNCHANGED <<windowVars, cursor, broadcasterVars>>
        /\ ~halved /\ (LButton \in phys => keys' = keys)
    BY <1>3, <1>7 DEF UserKey, ForeignKey, desktopVars
  <2>3. LButton \in phys' <=> LButton \in phys
    <3>1. k # LButton
      BY CaptureAssumption DEF Buttons
    <3>2. phys' = phys \/ phys' = Apply(phys, KeyEvent(kind, k))
      BY <1>7 DEF UserKey, ForeignKey, desktopVars
    <3>. QED  BY <3>1, <3>2 DEF Apply, KeyEvent
  <2>. QED  BY <1>6, <2>1, <2>2, <2>3, KeyPassesBy
<1>8. ASSUME NEW kind \in MouseKinds, UserMouse(kind)  PROVE ButtonsFollow'
  <2>1. ~halved /\ ~IsMouse(current) /\ queue' # queue
    BY <1>3, <1>8 DEF UserMouse
  <2>. QED  BY <1>6, <1>8, <2>1, ButtonComesIn
<1>9. ASSUME NEW p \in Points, UserMove(p)  PROVE ButtonsFollow'
  <2>1. ~halved /\ ~IsMouse(current)
    BY <1>3, <1>9 DEF UserMove
  <2>. QED  BY <1>6, <1>9, <2>1, HandMoves
<1>10. CASE Hook
  BY <1>3, <1>5, <1>6, <1>10, HookLeavesButtons DEF Hook, historyVars
<1>11. CASE Broadcast
  <2>1. ButtonsFollow
    BY <1>3, <1>6, <1>11 DEF Broadcast
  <2>2. CASE Wake \/ Drained
    BY <2>1, <2>2, ButtonsStay DEF Wake, Drained, desktopVars, windowVars, captureVars
  <2>. QED  BY <1>3, <1>4, <1>5, <1>11, <2>1, <2>2, HandleTurnsToMirrors, PlanMirrors
           DEF Broadcast, BroadcasterStep
<1>12. CASE UNCHANGED vars
  <2>1. ButtonsFollow
    BY <1>3, <1>6, <1>12 DEF vars, historyVars
  <2>. QED  BY <1>12, <2>1, ButtonsStay
            DEF vars, desktopVars, windowVars, captureVars, broadcasterVars
<1>. QED  BY <1>5, <1>7, <1>8, <1>9, <1>10, <1>11, <1>12 DEF Next

(* For every number of instances and points, every keyboard, every         *)
(* modifier and every set of mirrors (in a table without a swap hotkey,    *)
(* whose mouse targets are instances), and a user who uses the button and  *)
(* not the wheel: once the pipeline is at rest and no activation failed,   *)
(* the button is down in the master and in the mirrors the modifier asks   *)
(* for if the user holds it, and in no window otherwise.  Each half of a   *)
(* click is a focus cycle of its own that moves the cursor and waits       *)
(* before it clicks (deliver); excluded are the clicks the code does not   *)
(* treat evenly (`halved`).                                                *)
THEOREM BothHalvesReachTheMirrors == PlainClicks => (Spec => []ButtonsMirrored)
<1>. SUFFICES ASSUME PlainClicks  PROVE Spec => []ButtonsMirrored
  OBVIOUS
<1>1. Init => ButtonInv
  <2>. SUFFICES ASSUME Init  PROVE ButtonInv
    OBVIOUS
  <2>1. Base /\ WellTyped /\ Undisturbed
    BY BaseInit, WellTypedInit DEF Undisturbed
  <2>2. /\ queue = <<>> /\ acts = <<>> /\ current = NoEvent /\ inflight = NoInput
        /\ pressed = {} /\ master = 0 /\ cursor = hand /\ cursor[1] = 0 /\ LButton \notin phys
    BY CaptureAssumption DEF Init, CaptureInit, BroadcasterInit, DesktopInit, Buttons
  <2>3. queue \in Seq({}) /\ DOMAIN queue = {} /\ MouseAt = {}
    <3>1. <<>> \in Seq({}) /\ DOMAIN <<>> = {}
      OBVIOUS
    <3>. QED  BY <2>2, <3>1 DEF MouseAt
  <2>4. CursorComesBack
    BY <2>2, <2>3, NothingAhead DEF CursorComesBack, IsQueue, ClicksAtHand
  <2>5. ~Pending /\ ~IsMouse(current) /\ ~HeldBefore(1)
    BY <2>2, <2>3, NoEventIsNoClick DEF Pending, NoInput, Input, HeldBefore
  <2>6. ButtonsFollow
    BY <2>2, <2>3, <2>5
       DEF ButtonsFollow, InOrder, ClicksOnMaster, CursorKept, MasterFollows, MirrorsFollow, Doing
  <2>. QED  BY <2>1, <2>2, <2>4, <2>6 DEF ButtonInv
<1>2. ButtonInv /\ [Next]_vars => ButtonInv'
  BY ButtonStep
<1>3. ButtonInv => ButtonsMirrored
  <2>. SUFFICES ASSUME ButtonInv, Quiet, faults = 0, ~halved
                PROVE  pressed = IF LButton \in phys THEN {master} \union MouseTargets ELSE {}
    BY DEF ButtonsMirrored
  <2>1. ButtonsFollow /\ current = NoEvent /\ MouseAt = {}
    <3>1. DOMAIN <<>> = {}
      OBVIOUS
    <3>. QED  BY <3>1 DEF ButtonInv, Quiet, MouseAt
  <2>2. ~Pending /\ ~IsMouse(current) /\ (HeldBefore(1) <=> LButton \in phys)
    BY <2>1, NoEventIsNoClick DEF Quiet, Pending, NoInput, Input, HeldBefore
  <2>3. master \in pressed <=> LButton \in phys
    BY <2>1, <2>2 DEF ButtonsFollow, MasterFollows
  <2>4. pressed \ {master} = IF LButton \in phys THEN MouseTargets \ {master} ELSE {}
    BY <2>1, <2>2 DEF ButtonsFollow, MirrorsFollow, Mirrored, MirroredTo, MouseTargets
  <2>. QED  BY <2>3, <2>4
<1>. QED  BY <1>1, <1>2, <1>3, PTL DEF Spec
=============================================================================

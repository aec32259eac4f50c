--------------------------- MODULE PipelineProofs ---------------------------
(***************************************************************************)
(* For every routing table, every number of windows and keys, and whatever *)
(* fails: the broadcaster does not sleep over an event, the two copies of  *)
(* the keyboard agree up to the ring and the events it refused, and what   *)
(* the program injects is not taken for the user's; the user is back on    *)
(* the master after every plan, a delivery injects nothing into another    *)
(* window than its target, and no failure to return goes uncounted.        *)
(***************************************************************************)
EXTENDS Pipeline, FiniteSetTheorems, TLAPS

-----------------------------------------------------------------------------
(* What a step does to the ring, the wake-up and the two copies.           *)

KeyStep(source, kind, k) ==
  /\ KeyInput(source, KeyEvent(kind, k))
  /\ UNCHANGED <<bpc, mkeys>>
  /\ IF source = "hardware" THEN phys' = Apply(phys, KeyEvent(kind, k)) ELSE phys' = phys

MouseStep(kind) ==
  /\ MouseInput(kind)
  /\ UNCHANGED <<bpc, mkeys>>
  /\ phys' \in {phys, phys \union Buttons, phys \ Buttons}

HookStep == Signal \/ DeliverInput

OtherStep == UNCHANGED <<queue, wake, keys, inflight, lost, bpc, mkeys, phys>>

LEMMA RingSteps ==
  ASSUME Next
  PROVE  \/ \E source \in {"hardware", "foreign"}, kind \in KeyKinds, k \in Keys :
              KeyStep(source, kind, k)
         \/ \E kind \in MouseKinds : MouseStep(kind)
         \/ HookStep /\ UNCHANGED <<bpc, mkeys, phys>>
         \/ Wake \/ Drained \/ Handle
         \/ OtherStep
<1>1. CASE \E kind \in KeyKinds, k \in Keys : UserKey(kind, k) \/ ForeignKey(kind, k)
  BY <1>1 DEF UserKey, ForeignKey, KeyStep, broadcasterVars, desktopVars
<1>2. CASE \E kind \in MouseKinds : UserMouse(kind)
  <2>1. PICK kind \in MouseKinds : UserMouse(kind)
    BY <1>2
  <2>2. phys' \in {phys, phys \union Buttons, phys \ Buttons}
    BY <2>1 DEF UserMouse, Buttons
  <2>. QED  BY <2>1, <2>2 DEF UserMouse, MouseStep, broadcasterVars
<1>3. CASE \E p \in Points : UserMove(p)
  BY <1>3 DEF UserMove, captureVars, broadcasterVars, OtherStep
<1>4. CASE Hook
  BY <1>4 DEF Hook, HookStep, broadcasterVars
<1>5. CASE Broadcast
  <2>1. CASE Wake \/ Drained \/ Handle
    BY <2>1
  <2>2. CASE Execute
    BY <2>2 DEF Execute, DeliverByFocus, DeliverByMessage, InjectKey, InjectMouse, Click,
         RestoreCursor, RestoreFocus, ReassertHeld, Press, SwapMaster, Settle, captureVars,
         desktopVars, SendKey, HookKey, Publishes, Ignored, HookMouse, OtherStep
  <2>. QED  BY <1>5, <2>1, <2>2 DEF Broadcast, BroadcasterStep
<1>6. CASE Disturb
  BY <1>6 DEF Disturb, LateActivation, UserSwitch, WindowDies, captureVars, broadcasterVars, OtherStep
<1>. QED  BY <1>1, <1>2, <1>3, <1>4, <1>5, <1>6 DEF Next

-----------------------------------------------------------------------------
(* The wake-up.                                                            *)

LEMMA WakeupStep ==
  ASSUME NoLostWakeup, [Next]_vars
  PROVE  NoLostWakeup'
<1>1. CASE \E source \in {"hardware", "foreign"}, kind \in KeyKinds, k \in Keys :
             KeyStep(source, kind, k)
  BY <1>1 DEF KeyStep, KeyInput, HookKey, Input, NoInput, NoLostWakeup
<1>2. CASE \E kind \in MouseKinds : MouseStep(kind)
  BY <1>2 DEF MouseStep, MouseInput, Input, NoLostWakeup
<1>3. CASE HookStep /\ UNCHANGED <<bpc, mkeys, phys>>
  BY <1>3 DEF HookStep, Signal, DeliverInput, NoLostWakeup
<1>4. CASE Wake \/ Drained \/ Handle
  BY <1>4 DEF Wake, Drained, Handle, captureVars, NoLostWakeup
<1>5. CASE OtherStep \/ UNCHANGED vars
  BY <1>5 DEF OtherStep, vars, captureVars, broadcasterVars, NoLostWakeup
<1>. QED  BY <1>1, <1>2, <1>3, <1>4, <1>5, RingSteps

(* However many events are queued while the broadcaster is on its way into *)
(* the wait, it is woken up for them.                                      *)
THEOREM Woken == Spec => []NoLostWakeup
<1>1. Init => NoLostWakeup
  BY DEF Init, CaptureInit, NoLostWakeup
<1>. QED  BY <1>1, WakeupStep, PTL DEF Spec

-----------------------------------------------------------------------------
(* The user's keys.                                                        *)

LEMMA FeedbackStep ==
  ASSUME ~AcceptForeign, keys \subseteq Keys, NoFeedback, [Next]_vars
  PROVE  keys' \subseteq Keys /\ NoFeedback'
<1>1. ASSUME NEW source \in {"hardware", "foreign"}, NEW kind \in KeyKinds, NEW k \in Keys,
             KeyStep(source, kind, k)
      PROVE  keys' \subseteq Keys /\ NoFeedback'
  <2>. DEFINE ev == KeyEvent(kind, k)
  <2>1. Apply(keys, ev) \subseteq Keys
    BY DEF Apply, KeyEvent, KeyKinds
  <2>2. Apply(keys, ev) \subseteq Apply(phys, ev)
    BY DEF Apply, KeyEvent, NoFeedback
  <2>3. CASE source = "hardware"
    <3>1. keys' = Apply(keys, ev)
      BY <1>1, <2>3 DEF KeyStep, KeyInput, HookKey, Publishes, Ignored, Changes
    <3>2. phys' = Apply(phys, ev)
      BY <1>1, <2>3 DEF KeyStep
    <3>. QED  BY <2>1, <2>2, <3>1, <3>2 DEF NoFeedback
  <2>4. CASE source = "foreign"
    BY <1>1, <2>4 DEF KeyStep, KeyInput, HookKey, Publishes, Ignored, NoFeedback
  <2>. QED  BY <2>3, <2>4
<1>2. CASE \E kind \in MouseKinds : MouseStep(kind)
  BY <1>2, CaptureAssumption DEF MouseStep, MouseInput, NoFeedback
<1>3. CASE HookStep /\ UNCHANGED <<bpc, mkeys, phys>>
  BY <1>3 DEF HookStep, Signal, DeliverInput, NoFeedback
<1>4. CASE Wake \/ Drained \/ Handle
  BY <1>4 DEF Wake, Drained, Handle, captureVars, desktopVars, NoFeedback
<1>5. CASE OtherStep \/ UNCHANGED vars
  BY <1>5 DEF OtherStep, vars, captureVars, desktopVars, NoFeedback
<1>. QED  BY <1>1, <1>2, <1>3, <1>4, <1>5, RingSteps

(* Unless the input of other programs is accepted, the hook believes held  *)
(* only what the user holds, whatever the program injects and whenever.    *)
THEOREM OnlyTheUsersKeys == ~AcceptForeign => (Spec => []NoFeedback)
<1>. SUFFICES ASSUME ~AcceptForeign  PROVE Spec => []NoFeedback
  OBVIOUS
<1>. DEFINE Inv == keys \subseteq Keys /\ NoFeedback
<1>1. Init => Inv
  BY DEF Init, CaptureInit, NoFeedback
<1>2. Inv /\ [Next]_vars => Inv'
  BY FeedbackStep
<1>3. Inv => NoFeedback
  OBVIOUS
<1>. QED  BY <1>1, <1>2, <1>3, PTL DEF Spec

-----------------------------------------------------------------------------
(* The two copies of the keyboard.                                         *)

(* The queue as the code sees it: a finite sequence.                       *)
IsQueue == \E S : queue \in Seq(S)

LEMMA AppendFacts ==
  ASSUME IsQueue, NEW ev, queue' = Append(queue, ev)
  PROVE  /\ IsQueue'
         /\ Len(queue) \in Nat /\ DOMAIN queue = 1 .. Len(queue)
         /\ DOMAIN queue' = 1 .. Len(queue) + 1
         /\ queue'[Len(queue) + 1] = ev
         /\ \A i \in 1 .. Len(queue) : queue'[i] = queue[i]
<1>1. PICK S : queue \in Seq(S)
  BY DEF IsQueue
<1>2. queue \in Seq(S \union {ev})
  BY <1>1
<1>3. queue' \in Seq(S \union {ev})
  BY <1>2
<1>. QED  BY <1>2, <1>3 DEF IsQueue

LEMMA TailFacts ==
  ASSUME IsQueue, queue # <<>>, queue' = Tail(queue)
  PROVE  /\ IsQueue'
         /\ Len(queue) \in Nat \ {0} /\ DOMAIN queue = 1 .. Len(queue)
         /\ DOMAIN queue' = 1 .. Len(queue) - 1
         /\ Head(queue) = queue[1]
         /\ \A i \in 1 .. Len(queue) - 1 : queue'[i] = queue[i + 1]
<1>1. PICK S : queue \in Seq(S)
  BY DEF IsQueue
<1>. QED  BY <1>1 DEF IsQueue

(* A new event of key k decides, an event of another key or of the mouse   *)
(* changes nothing for k.                                                  *)
LEMMA AppendDecides ==
  ASSUME IsQueue, NEW ev, queue' = Append(queue, ev), mkeys' = mkeys, NEW k
  PROVE  IF ev.kind \in KeyKinds /\ ev.vk = k
           THEN WillBeHeld(k)' <=> ev.kind = "KeyDown"
           ELSE WillBeHeld(k)' <=> WillBeHeld(k)
<1>. DEFINE n == Len(queue)
<1>0. n \in Nat /\ EventsOf(k) \subseteq 1 .. n
  BY AppendFacts DEF EventsOf
<1>1. CASE ev.kind \in KeyKinds /\ ev.vk = k
  <2>1. EventsOf(k)' = EventsOf(k) \union {n + 1}
    BY <1>1, AppendFacts DEF EventsOf
  <2>2. queue'[n + 1] = ev
    BY AppendFacts
  <2>. HIDE DEF n
  <2>3. \A j \in EventsOf(k)' : j <= n + 1
    BY <1>0, <2>1
  <2>4. ASSUME NEW i \in EventsOf(k)', \A j \in EventsOf(k)' : j <= i
        PROVE  i = n + 1
    <3>1. n + 1 <= i /\ i <= n + 1
      BY <2>1, <2>3, <2>4
    <3>2. i \in Nat
      BY <1>0, <2>1
    <3>. QED  BY <1>0, <3>1, <3>2
  <2>. QED  BY <1>1, <2>1, <2>2, <2>3, <2>4 DEF WillBeHeld
<1>2. CASE ~ (ev.kind \in KeyKinds /\ ev.vk = k)
  <2>1. EventsOf(k)' = EventsOf(k)
    BY <1>2, AppendFacts DEF EventsOf
  <2>2. \A i \in EventsOf(k) : queue'[i] = queue[i]
    BY <1>0, AppendFacts
  <2>. QED  BY <1>2, <2>1, <2>2 DEF WillBeHeld
<1>. QED  BY <1>1, <1>2

(* handle() takes the oldest event into master_keys_: what the broadcaster *)
(* will believe in the end stays as it was.                                *)
LEMMA TailKeeps ==
  ASSUME IsQueue, queue # <<>>, queue' = Tail(queue),
         mkeys' = Apply(mkeys, Head(queue)), NEW k
  PROVE  WillBeHeld(k)' <=> WillBeHeld(k)
<1>. DEFINE n == Len(queue)
<1>1. n \in Nat \ {0} /\ EventsOf(k) \subseteq 1 .. n /\ EventsOf(k)' \subseteq 1 .. n - 1
  BY TailFacts DEF EventsOf
<1>2. \A i \in 1 .. n - 1 : i \in EventsOf(k)' <=> i + 1 \in EventsOf(k)
  BY TailFacts DEF EventsOf
<1>3. \A i \in EventsOf(k)' : queue'[i] = queue[i + 1]
  BY <1>1, TailFacts
<1>4. IF 1 \in EventsOf(k) THEN k \in mkeys' <=> queue[1].kind = "KeyDown"
                           ELSE k \in mkeys' <=> k \in mkeys
  BY TailFacts DEF EventsOf, Apply, KeyKinds
<1>. HIDE DEF n
<1>5. CASE EventsOf(k)' = {}
  <2>1. EventsOf(k) \subseteq {1}
    <3>. SUFFICES ASSUME NEW i \in EventsOf(k), i # 1  PROVE FALSE
      OBVIOUS
    <3>1. i - 1 \in 1 .. n - 1 /\ (i - 1) + 1 = i
      BY <1>1
    <3>. QED  BY <1>2, <1>5, <3>1
  <2>2. CASE EventsOf(k) = {}
    BY <1>4, <1>5, <2>2 DEF WillBeHeld
  <2>3. CASE EventsOf(k) = {1}
    BY <1>4, <1>5, <2>3 DEF WillBeHeld
  <2>. QED  BY <2>1, <2>2, <2>3
<1>6. CASE EventsOf(k)' # {}
  <2>1. EventsOf(k) # {} /\ \A i \in EventsOf(k) : (\A j \in EventsOf(k) : j <= i) => i # 1
    BY <1>1, <1>2, <1>6
  <2>2. ASSUME WillBeHeld(k)  PROVE WillBeHeld(k)'
    <3>1. PICK i \in EventsOf(k) : queue[i].kind = "KeyDown" /\ \A j \in EventsOf(k) : j <= i
      BY <2>1, <2>2 DEF WillBeHeld
    <3>2. i - 1 \in 1 .. n - 1 /\ (i - 1) + 1 = i
      BY <1>1, <2>1, <3>1
    <3>3. i - 1 \in EventsOf(k)' /\ queue'[i - 1] = queue[i]
      BY <1>2, <1>3, <3>2
    <3>4. \A j \in EventsOf(k)' : j <= i - 1
      BY <1>1, <1>2, <3>1
    <3>. QED  BY <3>1, <3>3, <3>4 DEF WillBeHeld
  <2>3. ASSUME WillBeHeld(k)'  PROVE WillBeHeld(k)
    <3>1. PICK i \in EventsOf(k)' : queue'[i].kind = "KeyDown" /\ \A j \in EventsOf(k)' : j <= i
      BY <1>6, <2>3 DEF WillBeHeld
    <3>2. i + 1 \in EventsOf(k) /\ queue[i + 1].kind = "KeyDown"
      BY <1>1, <1>2, <1>3, <3>1
    <3>3. ASSUME NEW j \in EventsOf(k)  PROVE j <= i + 1
      <4>1. CASE j = 1
        BY <1>1, <4>1
      <4>2. CASE j # 1
        <5>1. j - 1 \in 1 .. n - 1 /\ (j - 1) + 1 = j
          BY <1>1, <4>2
        <5>. QED  BY <1>1, <1>2, <3>1, <5>1
      <4>. QED  BY <4>1, <4>2
    <3>. QED  BY <3>2, <3>3 DEF WillBeHeld
  <2>. QED  BY <2>2, <2>3
<1>. QED  BY <1>5, <1>6

LEMMA CopiesStep ==
  ASSUME IsQueue, CopiesAgree, [Next]_vars
  PROVE  IsQueue' /\ CopiesAgree'
<1>1. ASSUME NEW source \in {"hardware", "foreign"}, NEW kind \in KeyKinds, NEW k \in Keys,
             KeyStep(source, kind, k)
      PROVE  IsQueue' /\ CopiesAgree'
  <2>. DEFINE ev == KeyEvent(kind, k)
  <2>0. ev.kind \in KeyKinds /\ ev.kind = kind /\ ev.vk = k
    BY DEF KeyEvent
  <2>1. CASE Publishes(source, ev) /\ Len(queue) < RingCap
    <3>1. queue' = Append(queue, ev) /\ keys' = Apply(keys, ev) /\ lost' = lost \ {k} /\ mkeys' = mkeys
      BY <1>1, <2>0, <2>1 DEF KeyStep, KeyInput, HookKey, PublishKey
    <3>2. ASSUME NEW x \in Keys \ lost'  PROVE x \in keys' <=> WillBeHeld(x)'
      <4>1. CASE x = k
        BY <2>0, <3>1, <4>1, AppendDecides DEF Apply, KeyKinds
      <4>2. CASE x # k
        <5>1. x \in keys' <=> x \in keys
          BY <2>0, <3>1, <4>2 DEF Apply, KeyKinds
        <5>2. WillBeHeld(x)' <=> WillBeHeld(x)
          BY <2>0, <3>1, <4>2, AppendDecides
        <5>. QED  BY <3>1, <4>2, <5>1, <5>2 DEF CopiesAgree
      <4>. QED  BY <4>1, <4>2
    <3>3. IsQueue'
      BY <3>1, AppendFacts
    <3>. QED  BY <3>2, <3>3 DEF CopiesAgree
  <2>2. CASE Publishes(source, ev) /\ ~ (Len(queue) < RingCap)
    <3>1. queue' = queue /\ keys' = Apply(keys, ev) /\ lost' = lost \union {k} /\ mkeys' = mkeys
      BY <1>1, <2>0, <2>2 DEF KeyStep, KeyInput, HookKey, PublishKey
    <3>2. \A x \in Keys \ lost' : x \in keys' <=> x \in keys
      BY <2>0, <3>1 DEF Apply, KeyKinds
    <3>. QED  BY <3>1, <3>2 DEF CopiesAgree, WillBeHeld, EventsOf, IsQueue
  <2>3. CASE ~Publishes(source, ev)
    BY <1>1, <2>3 DEF KeyStep, KeyInput, HookKey, CopiesAgree, WillBeHeld, EventsOf, IsQueue
  <2>. QED  BY <2>1, <2>2, <2>3
<1>2. ASSUME NEW kind \in MouseKinds, MouseStep(kind)
      PROVE  IsQueue' /\ CopiesAgree'
  <2>1. MouseEvent(kind).kind \notin KeyKinds
    BY PipelineAssumption DEF MouseEvent, KeyKinds, ButtonKinds
  <2>2. UNCHANGED <<keys, lost, mkeys>>
    BY <1>2 DEF MouseStep, MouseInput
  <2>3. CASE queue' = queue
    BY <2>2, <2>3 DEF CopiesAgree, WillBeHeld, EventsOf, IsQueue
  <2>4. CASE queue' = Append(queue, MouseEvent(kind))
    BY <2>1, <2>2, <2>4, AppendFacts, AppendDecides DEF CopiesAgree
  <2>. QED  BY <1>2, <2>3, <2>4 DEF MouseStep, MouseInput, HookMouse
<1>3. CASE HookStep /\ UNCHANGED <<bpc, mkeys, phys>>
  BY <1>3 DEF HookStep, Signal, DeliverInput, CopiesAgree, WillBeHeld, EventsOf, IsQueue
<1>4. CASE Wake \/ Drained
  BY <1>4 DEF Wake, Drained, captureVars, CopiesAgree, WillBeHeld, EventsOf, IsQueue
<1>5. CASE Handle
  BY <1>5, TailFacts, TailKeeps DEF Handle, MasterKeys, CopiesAgree
<1>6. CASE OtherStep \/ UNCHANGED vars
  BY <1>6 DEF OtherStep, vars, captureVars, broadcasterVars, CopiesAgree, WillBeHeld, EventsOf, IsQueue
<1>. QED  BY <1>1, <1>2, <1>3, <1>4, <1>5, <1>6, RingSteps

(* For every capacity of the ring and every number of keys: a dropped      *)
(* transition of a key never outlives the next one of the same key, and it *)
(* never touches another key.                                              *)
THEOREM TheCopiesAgree == Spec => []CopiesAgree
<1>. DEFINE Inv == IsQueue /\ CopiesAgree
<1>1. Init => Inv
  <2>. SUFFICES ASSUME Init  PROVE Inv
    OBVIOUS
  <2>1. queue = <<>> /\ keys = {} /\ mkeys = {}
    BY DEF Init, CaptureInit, BroadcasterInit
  <2>2. queue \in Seq({}) /\ DOMAIN queue = {}
    BY <2>1
  <2>. QED  BY <2>1, <2>2 DEF IsQueue, CopiesAgree, WillBeHeld, EventsOf
<1>2. Inv /\ [Next]_vars => Inv'
  BY CopiesStep
<1>3. Inv => CopiesAgree
  OBVIOUS
<1>. QED  BY <1>1, <1>2, <1>3, PTL DEF Spec

-----------------------------------------------------------------------------
(* The focus.                                                              *)
(*                                                                         *)
(* What is shown of it rests on the shape of the plan that is left at      *)
(* every moment of its execution: who has left the master comes back       *)
(* (RestoreFocus is ahead), nobody leaves it once keys are re-asserted,    *)
(* and a swap is alone in its plan.                                        *)

IsSequence(s) == \E S : s \in Seq(S)

(* The steps that leave the master.                                        *)
Leaves(a) ==
  \/ a.op = "Deliver" /\ a.strategy = "FocusCycle"
  \/ a.op \in {"Inject", "Click"}

Reasserts(a) == a.op \in {"ReassertHeld", "Press"}
Swaps(a) == a.op \in {"SwapMaster", "Settle"}

(* What the rest p of a plan looks like.                                   *)
Shape(p) ==
  /\ IsSequence(p)
  /\ \A i \in DOMAIN p : p[i].op \in {"Inject", "Click"} => i = 1
  /\ \A i \in DOMAIN p : Leaves(p[i]) => \E j \in DOMAIN p : i < j /\ p[j].op = "RestoreFocus"
  /\ \A i \in DOMAIN p : Reasserts(p[i]) => \A j \in DOMAIN p : i <= j => Reasserts(p[j])
  /\ \A i \in DOMAIN p : p[i].op = "ReassertHeld" => \A j \in DOMAIN p : j <= i
  /\ \A i \in DOMAIN p : Swaps(p[i]) => DOMAIN p = {1} /\ Routes.swap_hotkey_vk # NoKey
  /\ \A i \in DOMAIN p : p[i].op = "Settle" => p[i].to \in Instances

(* A plan as dispatch.hpp makes it, no step of which is replaced yet.      *)
WholePlan(p) ==
  /\ Shape(p)
  /\ \A i \in DOMAIN p : p[i].op \notin {"Inject", "Click"}

Returning == \E j \in DOMAIN acts : acts[j].op = "RestoreFocus"

-----------------------------------------------------------------------------
(* The plans that dispatch.hpp makes.                                      *)

LEMMA OrderedIsSequence ==
  ASSUME NEW S, IsFiniteSet(S)
  PROVE  IsSequence(Ordered(S))
<1>. DEFINE n == Cardinality(S)
            at(i) == CHOOSE x \in S : Cardinality({y \in S : y < x}) = i - 1
            T == {at(i) : i \in 1 .. n}
<1>1. n \in Nat
  BY FS_CardinalityType
<1>2. \A i \in 1 .. n : at(i) \in T
  OBVIOUS
<1>3. Ordered(S) = [i \in 1 .. n |-> at(i)]
  BY DEF Ordered
<1>. HIDE DEF n, at, T
<1>4. [i \in 1 .. n |-> at(i)] \in Seq(T)
  BY <1>1, <1>2
<1>. QED  BY <1>3, <1>4 DEF IsSequence

LEMMA DeliveriesAreDelivered ==
  ASSUME NEW targets, NEW alive, IsFiniteSet(alive), NEW m, NEW strategy
  PROVE  LET d == Deliveries(targets, alive, m, strategy)
         IN  /\ IsSequence(d)
             /\ \A i \in DOMAIN d : d[i].op = "Deliver" /\ d[i].strategy = strategy
<1>. DEFINE order == Ordered((targets \intersect alive) \ {m})
            d == [i \in DOMAIN order |-> Action("Deliver", order[i], strategy)]
<1>1. IsFiniteSet((targets \intersect alive) \ {m})
  BY FS_Subset
<1>2. PICK T : order \in Seq(T)
  BY <1>1, OrderedIsSequence DEF IsSequence
<1>. HIDE DEF order
<1>3. d \in Seq({d[i] : i \in DOMAIN order}) /\ DOMAIN d = DOMAIN order
  BY <1>2
<1>4. \A i \in DOMAIN d : d[i].op = "Deliver" /\ d[i].strategy = strategy
  BY DEF Action
<1>. QED  BY <1>3, <1>4 DEF Deliveries, IsSequence, order

LEMMA RepairIsSequence ==
  ASSUME NEW T, Do("RestoreFocus") \in T, Do("ReassertHeld") \in T, NEW held
  PROVE  Repair(held) \in Seq(T)
<1>1. \A a, b \in T : <<a>> \o <<b>> \in Seq(T) /\ <<a>> \o <<>> \in Seq(T)
  <2>1. \A a \in T : <<a>> \in Seq(T)
    OBVIOUS
  <2>2. <<>> \in Seq(T)
    OBVIOUS
  <2>. QED  BY <2>1, <2>2
<1>2. CASE held = {}
  BY <1>1, <1>2 DEF Repair
<1>3. CASE held # {}
  BY <1>1, <1>3 DEF Repair
<1>. QED  BY <1>2, <1>3

(* A plan is: the deliveries; after those of a focus cycle, the way back.  *)
LEMMA PlansAreWhole ==
  ASSUME NEW ev, NEW alive, IsFiniteSet(alive), NEW m, NEW held
  PROVE  WholePlan(Plan(ev, Routes, alive, m, held))
<1>1. WholePlan(<<>>)
  <2>1. <<>> \in Seq({}) /\ DOMAIN <<>> = {}
    OBVIOUS
  <2>. QED  BY <2>1 DEF WholePlan, Shape, IsSequence
<1>2. ASSUME Routes.swap_hotkey_vk # NoKey  PROVE WholePlan(<<Do("SwapMaster")>>)
  <2>. DEFINE p == <<Do("SwapMaster")>>
  <2>1. p \in Seq({Do("SwapMaster")}) /\ DOMAIN p = {1} /\ p[1].op = "SwapMaster"
    BY DEF Do, Action
  <2>. HIDE DEF p
  <2>2. WholePlan(p)
    BY <1>2, <2>1 DEF WholePlan, Shape, IsSequence, Leaves, Reasserts, Swaps
  <2>. QED  BY <2>2 DEF p
<1>3. ASSUME NEW d, IsSequence(d), NEW strategy,
             \A i \in DOMAIN d : d[i].op = "Deliver" /\ d[i].strategy = strategy
      PROVE  /\ strategy # "FocusCycle" \/ d = <<>> => WholePlan(d)
             /\ WholePlan(d \o Repair(held))
             /\ WholePlan(d \o <<Do("RestoreCursor")>> \o Repair(held))
  <2>1. PICK S : d \in Seq(S)
    BY <1>3 DEF IsSequence
  <2>. DEFINE n == Len(d)
  <2>2. n \in Nat /\ DOMAIN d = 1 .. n
    BY <2>1
  <2>3. strategy # "FocusCycle" \/ d = <<>> => WholePlan(d)
    BY <1>1, <1>3 DEF WholePlan, Shape, Leaves, Reasserts, Swaps
  <2>4. ASSUME NEW p, IsSequence(p), NEW k \in {n + 1, n + 2}, NEW l \in {k, k + 1},
               DOMAIN p = 1 .. l,
               \A i \in 1 .. n : p[i] = d[i],
               \A i \in n + 1 .. k - 1 : p[i].op = "RestoreCursor",
               p[k].op = "RestoreFocus",
               \A i \in k + 1 .. l : p[i].op = "ReassertHeld"
        PROVE  WholePlan(p)
    <3>1. \A i \in DOMAIN p : Leaves(p[i]) => i < k
      BY <2>2, <2>4 DEF Leaves
    <3>2. \A i \in DOMAIN p : p[i].op \in {"Deliver", "RestoreCursor", "RestoreFocus", "ReassertHeld"}
      BY <1>3, <2>2, <2>4
    <3>3. \A i \in DOMAIN p : Reasserts(p[i]) => i = l /\ l = k + 1
      BY <1>3, <2>2, <2>4 DEF Reasserts
    <3>4. k \in DOMAIN p
      BY <2>2, <2>4
    <3>5. \A i \in DOMAIN p : Reasserts(p[i]) => \A j \in DOMAIN p : i <= j => Reasserts(p[j])
      BY <2>2, <2>4, <3>3
    <3>6. \A i \in DOMAIN p : p[i].op = "ReassertHeld" => \A j \in DOMAIN p : j <= i
      BY <2>2, <2>4, <3>3 DEF Reasserts
    <3>. QED  BY <2>4, <3>1, <3>2, <3>4, <3>5, <3>6 DEF WholePlan, Shape, Swaps
  <2>5. WholePlan(d \o Repair(held))
    <3>. DEFINE p == d \o Repair(held)
                l == IF held # {} THEN n + 2 ELSE n + 1
                T == S \union {Do("RestoreFocus"), Do("ReassertHeld")}
    <3>1. p \in Seq(T)
      <4>1. d \in Seq(T)
        BY <2>1
      <4>2. Repair(held) \in Seq(T)
        BY RepairIsSequence
      <4>. QED  BY <4>1, <4>2
    <3>2. DOMAIN p = 1 .. l
      BY <2>1 DEF Repair
    <3>3. \A i \in 1 .. n : p[i] = d[i]
      BY <2>1 DEF Repair
    <3>4. p[n + 1] = Do("RestoreFocus") /\ (l = n + 2 => p[n + 2] = Do("ReassertHeld"))
      BY <2>1 DEF Repair
    <3>5. Do("RestoreFocus").op = "RestoreFocus" /\ Do("ReassertHeld").op = "ReassertHeld"
      BY DEF Do, Action
    <3>. HIDE DEF p
    <3>6. \A i \in n + 1 + 1 .. l : i = n + 2
      BY <2>2
    <3>7. WholePlan(p)
      BY <2>2, <2>4, <3>1, <3>2, <3>3, <3>4, <3>5, <3>6 DEF IsSequence
    <3>. QED  BY <3>7 DEF p
  <2>6. WholePlan(d \o <<Do("RestoreCursor")>> \o Repair(held))
    <3>. DEFINE p == d \o <<Do("RestoreCursor")>> \o Repair(held)
                l == IF held # {} THEN n + 3 ELSE n + 2
                T == S \union {Do("RestoreCursor"), Do("RestoreFocus"), Do("ReassertHeld")}
    <3>1. p \in Seq(T)
      <4>1. d \in Seq(T)
        BY <2>1
      <4>2. Repair(held) \in Seq(T) /\ <<Do("RestoreCursor")>> \in Seq(T)
        BY RepairIsSequence
      <4>3. d \o <<Do("RestoreCursor")>> \in Seq(T)
        BY <4>1, <4>2
      <4>. QED  BY <4>2, <4>3
    <3>2. DOMAIN p = 1 .. l
      BY <2>1 DEF Repair
    <3>3. \A i \in 1 .. n : p[i] = d[i]
      BY <2>1 DEF Repair
    <3>4. /\ p[n + 1] = Do("RestoreCursor") /\ p[n + 2] = Do("RestoreFocus")
          /\ l = n + 3 => p[n + 3] = Do("ReassertHeld")
      BY <2>1 DEF Repair
    <3>5. /\ Do("RestoreCursor").op = "RestoreCursor" /\ Do("RestoreFocus").op = "RestoreFocus"
          /\ Do("ReassertHeld").op = "ReassertHeld"
      BY DEF Do, Action
    <3>. HIDE DEF p
    <3>6. \A i \in n + 2 + 1 .. l : i = n + 3
      BY <2>2
    <3>7. WholePlan(p)
      BY <2>2, <2>4, <3>1, <3>2, <3>3, <3>4, <3>5, <3>6 DEF IsSequence
    <3>. QED  BY <3>7 DEF p
  <2>. QED  BY <2>3, <2>5, <2>6
<1>4. WholePlan(PlanKey(ev, Routes, alive, m, held))
  <2>. DEFINE b == Routes.keys[ev.vk]
              d == Deliveries(b.targets, alive, m, b.strategy)
  <2>1. /\ IsSequence(d)
        /\ \A i \in DOMAIN d : d[i].op = "Deliver" /\ d[i].strategy = b.strategy
    BY DeliveriesAreDelivered
  <2>2. \/ PlanKey(ev, Routes, alive, m, held) = <<>>
        \/ Routes.swap_hotkey_vk # NoKey /\ PlanKey(ev, Routes, alive, m, held) = <<Do("SwapMaster")>>
        \/ PlanKey(ev, Routes, alive, m, held) = d \o Repair(held)
        \/ (b.strategy # "FocusCycle" \/ d = <<>>) /\ PlanKey(ev, Routes, alive, m, held) = d
    BY DEF PlanKey
  <2>. HIDE DEF d
  <2>3. (b.strategy # "FocusCycle" \/ d = <<>> => WholePlan(d)) /\ WholePlan(d \o Repair(held))
    BY <1>3, <2>1
  <2>. QED  BY <1>1, <1>2, <2>2, <2>3
<1>5. WholePlan(PlanMouse(ev, Routes, alive, m, held))
  <2>. DEFINE d == Deliveries(Routes.mouse_targets, alive, m, Routes.mouse_strategy)
              p == PlanMouse(ev, Routes, alive, m, held)
  <2>1. /\ IsSequence(d)
        /\ \A i \in DOMAIN d : d[i].op = "Deliver" /\ d[i].strategy = Routes.mouse_strategy
    BY DeliveriesAreDelivered
  <2>2. \/ p = <<>>
        \/ p = d \o <<Do("RestoreCursor")>> \o Repair(held)
        \/ (Routes.mouse_strategy # "FocusCycle" \/ d = <<>>) /\ p = d
    BY DEF PlanMouse
  <2>. HIDE DEF d, p
  <2>3. /\ Routes.mouse_strategy # "FocusCycle" \/ d = <<>> => WholePlan(d)
        /\ WholePlan(d \o <<Do("RestoreCursor")>> \o Repair(held))
    BY <1>3, <2>1
  <2>4. WholePlan(p)
    BY <1>1, <2>2, <2>3
  <2>. QED  BY <2>4 DEF p
<1>. QED  BY <1>1, <1>4, <1>5 DEF Plan

-----------------------------------------------------------------------------
(* One step of the plan is done: what is left has the shape again.         *)

LEMMA Rest ==
  ASSUME Shape(acts), acts # <<>>
  PROVE  LET n == Len(acts)
         IN  /\ n \in Nat \ {0} /\ DOMAIN acts = 1 .. n /\ Head(acts) = acts[1]
             /\ IsSequence(Tail(acts)) /\ DOMAIN Tail(acts) = 1 .. n - 1
             /\ \A i \in 1 .. n - 1 : Tail(acts)[i] = acts[i + 1]
<1>1. PICK S : acts \in Seq(S)
  BY DEF Shape, IsSequence
<1>. QED  BY <1>1 DEF IsSequence

LEMMA ThenNone ==
  ASSUME Shape(acts), acts # <<>>, Then(<<>>)
  PROVE  /\ Shape(acts)'
         /\ Head(acts).op # "RestoreFocus" => (Returning' <=> Returning)
         /\ acts' # <<>> => Head(acts').op \notin {"Inject", "Click"}
         /\ Swaps(Head(acts)) => acts' = <<>>
<1>. DEFINE n == Len(acts)
            q == Tail(acts)
<1>1. /\ n \in Nat \ {0} /\ DOMAIN acts = 1 .. n /\ Head(acts) = acts[1]
      /\ IsSequence(q) /\ DOMAIN q = 1 .. n - 1
      /\ \A i \in 1 .. n - 1 : q[i] = acts[i + 1]
  BY Rest
<1>2. acts' = q
  <2>1. PICK S : q \in Seq(S)
    BY <1>1 DEF IsSequence
  <2>2. acts' = <<>> \o q
    BY DEF Then
  <2>. HIDE DEF q
  <2>. QED  BY <2>1, <2>2
<1>3. PICK S : q \in Seq(S)
  BY <1>1 DEF IsSequence
<1>4. q # <<>> => Head(q) = q[1] /\ 1 \in DOMAIN q
  <2>. HIDE DEF q
  <2>. QED  BY <1>3
<1>5. q = <<>> \/ n # 1
  <2>. HIDE DEF q, n
  <2>. QED  BY <1>1, <1>3
<1>. HIDE DEF n, q
<1>6. \A i \in DOMAIN q : i + 1 \in DOMAIN acts /\ q[i] = acts[i + 1] /\ i \in Nat \ {0}
  BY <1>1
<1>7. \A i \in DOMAIN acts : i # 1 => i - 1 \in DOMAIN q /\ q[i - 1] = acts[i]
  <2>. TAKE i \in DOMAIN acts
  <2>. HAVE i # 1
  <2>1. i - 1 \in 1 .. n - 1 /\ (i - 1) + 1 = i
    BY <1>1
  <2>. QED  BY <1>1, <2>1
<1>8. \A i \in DOMAIN q : q[i].op \notin {"Inject", "Click"}
  BY <1>6 DEF Shape
<1>9. \A i \in DOMAIN q : Leaves(q[i]) => \E j \in DOMAIN q : i < j /\ q[j].op = "RestoreFocus"
  <2>. TAKE i \in DOMAIN q
  <2>. HAVE Leaves(q[i])
  <2>1. PICK j \in DOMAIN acts : i + 1 < j /\ acts[j].op = "RestoreFocus"
    BY <1>6 DEF Shape
  <2>2. j - 1 \in DOMAIN q /\ q[j - 1] = acts[j] /\ i < j - 1
    BY <1>1, <1>6, <1>7, <2>1
  <2>. QED  BY <2>1, <2>2
<1>10. \A i \in DOMAIN q : Reasserts(q[i]) => \A j \in DOMAIN q : i <= j => Reasserts(q[j])
  <2>. TAKE i \in DOMAIN q
  <2>. HAVE Reasserts(q[i])
  <2>. TAKE j \in DOMAIN q
  <2>. HAVE i <= j
  <2>1. i + 1 <= j + 1
    BY <1>6
  <2>. QED  BY <1>6, <2>1 DEF Shape
<1>11. \A i \in DOMAIN q : ~Swaps(q[i])
  <2>. SUFFICES ASSUME NEW i \in DOMAIN q, Swaps(q[i])  PROVE FALSE
    OBVIOUS
  <2>1. i + 1 \in DOMAIN acts /\ DOMAIN acts = {1} /\ i \in Nat \ {0}
    BY <1>6 DEF Shape
  <2>. QED  BY <2>1
<1>15. \A i \in DOMAIN q : q[i].op = "ReassertHeld" => \A j \in DOMAIN q : j <= i
  <2>. TAKE i \in DOMAIN q
  <2>. HAVE q[i].op = "ReassertHeld"
  <2>. TAKE j \in DOMAIN q
  <2>1. j + 1 <= i + 1
    BY <1>6 DEF Shape
  <2>. QED  BY <1>6, <2>1
<1>12. Shape(q)
  BY <1>1, <1>8, <1>9, <1>10, <1>11, <1>15 DEF Shape, Swaps
<1>13. acts[1].op # "RestoreFocus" => (Returning' <=> Returning)
  BY <1>2, <1>6, <1>7 DEF Returning
<1>14. Swaps(acts[1]) => q = <<>>
  <2>. HAVE Swaps(acts[1])
  <2>1. DOMAIN acts = {1}
    BY <1>1 DEF Shape
  <2>2. n = 1
    BY <1>1, <2>1
  <2>. QED  BY <1>5, <2>2
<1>. QED  BY <1>1, <1>2, <1>4, <1>8, <1>12, <1>13, <1>14

LEMMA ThenOne ==
  ASSUME Shape(acts), acts # <<>>, NEW a, Then(<<a>>),
         \/ a.op \in {"Inject", "Click"} /\ Leaves(Head(acts))
         \/ a.op = "Settle" /\ a.to \in Instances /\ Head(acts).op = "SwapMaster"
  PROVE  /\ Shape(acts)' /\ acts' # <<>> /\ Head(acts') = a
         /\ Head(acts).op # "RestoreFocus" => (Returning' <=> Returning)
<1>. DEFINE n == Len(acts)
            q == acts'
<1>1. /\ n \in Nat \ {0} /\ DOMAIN acts = 1 .. n /\ Head(acts) = acts[1]
      /\ IsSequence(Tail(acts)) /\ DOMAIN Tail(acts) = 1 .. n - 1
      /\ \A i \in 1 .. n - 1 : Tail(acts)[i] = acts[i + 1]
  BY Rest
<1>2. /\ IsSequence(q) /\ DOMAIN q = 1 .. n /\ q[1] = a /\ q # <<>> /\ Head(q) = a
      /\ \A i \in 2 .. n : q[i] = acts[i]
  <2>1. PICK S : Tail(acts) \in Seq(S)
    BY <1>1 DEF IsSequence
  <2>. DEFINE t == Tail(acts)
  <2>2. q = <<a>> \o t
    BY DEF Then
  <2>. HIDE DEF t
  <2>3. t \in Seq(S \union {a}) /\ <<a>> \in Seq(S \union {a})
    BY <2>1 DEF t
  <2>4. Len(t) = n - 1
    BY <1>1, <2>1 DEF t
  <2>. HIDE DEF n, q
  <2>5. q \in Seq(S \union {a}) /\ DOMAIN q = 1 .. n
    BY <1>1, <2>2, <2>3, <2>4
  <2>6. q[1] = a /\ q # <<>> /\ Head(q) = a
    BY <2>2, <2>3
  <2>7. ASSUME NEW i \in 2 .. n  PROVE q[i] = acts[i]
    <3>1. i - 1 \in 1 .. n - 1 /\ (i - 1) + 1 = i
      BY <1>1
    <3>2. q[i] = t[i - 1]
      BY <1>1, <2>2, <2>3, <2>4
    <3>. QED  BY <1>1, <3>1, <3>2 DEF t
  <2>. QED  BY <2>5, <2>6, <2>7 DEF IsSequence
<1>. HIDE DEF n, q
<1>3. \A i \in DOMAIN q : i # 1 => q[i] = acts[i] /\ i \in DOMAIN acts
  BY <1>1, <1>2
<1>4. 1 \in DOMAIN q /\ 1 \in DOMAIN acts /\ DOMAIN q = DOMAIN acts /\ acts[1].op # "RestoreFocus"
  BY <1>1, <1>2 DEF Leaves
<1>5. \A i \in DOMAIN q : q[i].op \in {"Inject", "Click"} => i = 1
  BY <1>3 DEF Shape
<1>6. \A i \in DOMAIN q : Leaves(q[i]) => \E j \in DOMAIN q : i < j /\ q[j].op = "RestoreFocus"
  <2>. TAKE i \in DOMAIN q
  <2>. HAVE Leaves(q[i])
  <2>1. PICK j \in DOMAIN acts : i < j /\ acts[j].op = "RestoreFocus"
    BY <1>1, <1>2, <1>3, <1>4 DEF Shape, Leaves
  <2>. QED  BY <1>3, <1>4, <2>1
<1>7. \A i \in DOMAIN q : Reasserts(q[i]) => \A j \in DOMAIN q : i <= j => Reasserts(q[j])
  <2>. TAKE i \in DOMAIN q
  <2>. HAVE Reasserts(q[i])
  <2>. TAKE j \in DOMAIN q
  <2>. HAVE i <= j
  <2>1. i # 1 /\ j # 1
    BY <1>1, <1>2 DEF Reasserts
  <2>. QED  BY <1>3, <2>1 DEF Shape
<1>8. \A i \in DOMAIN q : Swaps(q[i]) => DOMAIN q = {1} /\ Routes.swap_hotkey_vk # NoKey
  BY <1>1, <1>2, <1>3, <1>4 DEF Shape, Swaps
<1>9. \A i \in DOMAIN q : q[i].op = "Settle" => q[i].to \in Instances
  BY <1>2, <1>3 DEF Shape
<1>12. \A i \in DOMAIN q : q[i].op = "ReassertHeld" => \A j \in DOMAIN q : j <= i
  <2>. TAKE i \in DOMAIN q
  <2>. HAVE q[i].op = "ReassertHeld"
  <2>1. i # 1
    BY <1>2
  <2>. QED  BY <1>3, <1>4, <2>1 DEF Shape
<1>10. Shape(q)
  BY <1>2, <1>5, <1>6, <1>7, <1>8, <1>9, <1>12 DEF Shape
<1>11. Returning' <=> Returning
  BY <1>2, <1>3, <1>4 DEF Returning, q, Leaves
<1>. QED  BY <1>2, <1>10, <1>11 DEF q

LEMMA ThenPresses ==
  ASSUME Shape(acts), ReassertHeld, IsFiniteSet(mkeys)
  PROVE  /\ Shape(acts)' /\ \A i \in DOMAIN acts' : acts'[i].op = "Press"
         /\ Len(acts) = 1 /\ ToReassert /\ Len(acts)' = Cardinality(mkeys)
<1>. DEFINE n == Len(acts)
            t == Tail(acts)
            order == Ordered(mkeys)
            s == [i \in DOMAIN order |-> Step("Press", order[i])]
            q == acts'
<1>1. /\ n \in Nat \ {0} /\ DOMAIN acts = 1 .. n /\ Head(acts) = acts[1]
      /\ IsSequence(t) /\ DOMAIN t = 1 .. n - 1
      /\ \A i \in 1 .. n - 1 : t[i] = acts[i + 1]
  BY Rest DEF ReassertHeld, Doing
<1>2. q = s \o t
  BY DEF ReassertHeld, Then
<1>3. PICK S : t \in Seq(S)
  BY <1>1 DEF IsSequence
<1>4. PICK T : order \in Seq(T)
  BY OrderedIsSequence DEF IsSequence
<1>. HIDE DEF order
<1>5. /\ s \in Seq({s[i] : i \in DOMAIN order}) /\ DOMAIN s = DOMAIN order
      /\ \A i \in DOMAIN s : s[i].op = "Press"
  BY <1>4 DEF Step, Action
<1>6. n = 1 /\ ToReassert /\ t = <<>>
  <2>1. acts[1].op = "ReassertHeld" /\ 1 \in DOMAIN acts
    BY <1>1 DEF ReassertHeld, Doing
  <2>2. \A j \in DOMAIN acts : j <= 1
    BY <2>1 DEF Shape
  <2>3. n = 1 /\ DOMAIN t = {}
    <3>1. n \in Nat \ {0} /\ DOMAIN acts = 1 .. n /\ DOMAIN t = 1 .. n - 1
      BY <1>1
    <3>. HIDE DEF n, t
    <3>2. n \in DOMAIN acts
      BY <3>1
    <3>3. n = 1
      BY <2>2, <3>1, <3>2
    <3>. QED  BY <3>1, <3>3
  <2>4. t = <<>>
    <3>. HIDE DEF t
    <3>. QED  BY <1>3, <2>3
  <2>. QED  BY <2>1, <2>3, <2>4 DEF ToReassert
<1>7. DOMAIN s = 1 .. Cardinality(mkeys)
  BY <1>5 DEF order, Ordered
<1>. HIDE DEF s, t
<1>8. q = s
  BY <1>2, <1>5, <1>6
<1>10. Cardinality(mkeys) \in Nat
  BY FS_CardinalityType
<1>11. Len(s) = Cardinality(mkeys)
  BY <1>5, <1>7, <1>10
<1>. HIDE DEF q
<1>9. Shape(q)
  BY <1>5, <1>8 DEF Shape, IsSequence, Reasserts, Leaves, Swaps
<1>. QED  BY <1>5, <1>6, <1>8, <1>9, <1>11 DEF q, n

-----------------------------------------------------------------------------
(* The invariant that every run keeps, and what a step does to the focus.  *)

Base ==
  /\ IsFiniteSet(mkeys)
  /\ live \subseteq Instances /\ master \in Instances
  /\ faults \in Nat /\ failures \in Nat
  /\ Shape(acts)

focusVars == <<fg, live, late, faults>>

(* A step outside the plan.                                                *)
IdleStep == UNCHANGED <<focusVars, acts, mkeys, master, failures>>

HandleStep ==
  /\ acts = <<>> /\ WholePlan(acts)' /\ IsFiniteSet(mkeys')
  /\ UNCHANGED <<focusVars, master, failures>>

(* A step is replaced by the one that follows it.                          *)
Successor(a) ==
  /\ Then(<<a>>)
  /\ \/ a.op = "Click" /\ Leaves(Head(acts))
     \/ a.op = "Settle" /\ a.to \in Instances /\ Head(acts).op = "SwapMaster"

(* A step of the plan that leaves the focus alone.                         *)
PlanStep ==
  /\ acts # <<>> /\ ~ Doing("RestoreFocus") /\ ~ Doing("Settle")
  /\ \/ Then(<<>>) /\ ~ Doing("SwapMaster")
     \/ \E a : Successor(a)
     \/ ReassertHeld
  /\ UNCHANGED <<focusVars, mkeys, master, failures>>

DisturbStep ==
  /\ \/ late \in live /\ Activate(late) /\ late' = NoWindow /\ UNCHANGED <<live, faults>>
     \/ Fault("switch") /\ (\E w \in Windows : Activate(w)) /\ UNCHANGED <<live, late>>
     \/ /\ Fault("die") /\ live' \subseteq live
        /\ late' \in {late, NoWindow} /\ fg' \in {fg, Other}
  /\ UNCHANGED <<acts, mkeys, master, failures>>

LEMMA Steps ==
  ASSUME Base, [Next]_vars
  PROVE  IdleStep \/ HandleStep \/ PlanStep \/ DeliverByFocus \/ RestoreFocus \/ Settle \/ DisturbStep
<1>1. CASE \E kind \in KeyKinds, k \in Keys : UserKey(kind, k) \/ ForeignKey(kind, k)
  BY <1>1 DEF UserKey, ForeignKey, broadcasterVars, desktopVars, windowVars, IdleStep, focusVars
<1>2. CASE \E kind \in MouseKinds : UserMouse(kind)
  BY <1>2 DEF UserMouse, broadcasterVars, windowVars, IdleStep, focusVars
<1>3. CASE \E p \in Points : UserMove(p)
  BY <1>3 DEF UserMove, broadcasterVars, windowVars, IdleStep, focusVars
<1>4. CASE Hook
  BY <1>4 DEF Hook, Signal, DeliverInput, broadcasterVars, windowVars, IdleStep, focusVars
<1>5. CASE Wake \/ Drained \/ UNCHANGED vars
  BY <1>5 DEF Wake, Drained, vars, desktopVars, windowVars, broadcasterVars, IdleStep, focusVars
<1>6. CASE Handle
  <2>1. PICK ev : mkeys' = Apply(mkeys, ev) /\ acts' = Plan(ev, Routes, live, master, Apply(mkeys, ev))
    BY <1>6 DEF Handle, MasterKeys
  <2>2. IsFiniteSet(live)
    <3>1. IsFiniteSet(Instances)
      BY DesktopAssumption, FS_Interval DEF Instances
    <3>. QED  BY <3>1, FS_Subset DEF Base
  <2>3. IsFiniteSet(mkeys')
    BY <2>1, FS_AddElement, FS_RemoveElement DEF Base, Apply
  <2>4. WholePlan(acts)'
    BY <2>1, <2>2, PlansAreWhole
  <2>. QED  BY <1>6, <2>3, <2>4 DEF Handle, HandleStep, desktopVars, windowVars, focusVars
<1>7. CASE DeliverByMessage \/ InjectKey \/ Click \/ RestoreCursor \/ Press
  BY <1>7 DEF DeliverByMessage, InjectKey, Click, RestoreCursor, Press, Doing, PlanStep, desktopVars,
       windowVars, focusVars
<1>8. CASE InjectMouse
  <2>. DEFINE a == Step("Click", Head(acts).to)
  <2>1. a.op = "Click" /\ Then(<<a>>) /\ Leaves(Head(acts))
    BY <1>8 DEF InjectMouse, Doing, Leaves, Step, Action
  <2>. HIDE DEF a
  <2>2. Successor(a)
    BY <2>1 DEF Successor
  <2>. QED  BY <1>8, <2>2 DEF InjectMouse, Doing, PlanStep, windowVars, focusVars
<1>9. CASE SwapMaster
  <2>1. PICK next \in Instances : Then(<<Step("Settle", next)>>)
    BY <1>9 DEF SwapMaster
  <2>. DEFINE a == Step("Settle", next)
  <2>2. a.op = "Settle" /\ a.to \in Instances /\ Then(<<a>>)
    BY <2>1 DEF Step, Action
  <2>. HIDE DEF a
  <2>3. Successor(a)
    BY <1>9, <2>2 DEF SwapMaster, Doing, Successor
  <2>. QED  BY <1>9, <2>3 DEF SwapMaster, Doing, PlanStep, desktopVars, windowVars, focusVars
<1>10. CASE ReassertHeld
  BY <1>10 DEF ReassertHeld, Doing, PlanStep, desktopVars, windowVars, focusVars
<1>11. CASE Disturb
  BY <1>11 DEF Disturb, LateActivation, UserSwitch, WindowDies, Activate, DisturbStep,
       broadcasterVars, Windows, Base
<1>. QED  BY <1>1, <1>2, <1>3, <1>4, <1>5, <1>6, <1>7, <1>8, <1>9, <1>10, <1>11
         DEF Next, Broadcast, BroadcasterStep, Execute

(* What bring_to_foreground may do.                                        *)
LEMMA Bring ==
  ASSUME Base, NEW w, BringSucceeds(w) \/ BringFails(w)
  PROVE  /\ live' = live /\ faults' \in Nat /\ (faults' = 0 => faults = 0)
         /\ \/ fg' = w /\ late' = late
            \/ fg' = fg /\ BringFails(w) /\ (w \in live => faults' # 0)
         /\ "late" \notin FaultKinds => late' = late
<1>1. CASE BringSucceeds(w)
  BY <1>1 DEF BringSucceeds, Activate, Base
<1>2. CASE BringFails(w)
  BY <1>2 DEF BringFails, windowVars, Fault, Base
<1>. QED  BY <1>1, <1>2

LEMMA CountFailureCounts ==
  ASSUME Base, CountFailure
  PROVE  failures' \in Nat \ {0}
BY BroadcasterAssumption DEF Base, CountFailure

(* How the four kinds of steps of a plan go on.                            *)
LEMMA PlanStepGoesOn ==
  ASSUME Base, PlanStep
  PROVE  /\ Shape(acts)' /\ (Returning' <=> Returning)
         /\ acts' # <<>> => Head(acts').op # "Inject"
<1>1. CASE Then(<<>>)
  BY <1>1, ThenNone DEF PlanStep, Doing, Base
<1>2. ASSUME NEW a, Successor(a)
      PROVE  /\ Shape(acts)' /\ (Returning' <=> Returning)
             /\ acts' # <<>> => Head(acts').op # "Inject"
  <2>1. Then(<<a>>) /\ a.op \in {"Click", "Settle"}
    BY <1>2 DEF Successor
  <2>. QED  BY <1>2, <2>1, ThenOne DEF Successor, PlanStep, Doing, Base
<1>3. CASE ReassertHeld
  <2>1. Shape(acts)' /\ \A i \in DOMAIN acts' : acts'[i].op = "Press"
    BY <1>3, ThenPresses DEF Base
  <2>2. ~Returning'
    BY <2>1 DEF Returning
  <2>3. ~Returning
    <3>1. 1 \in DOMAIN acts /\ Reasserts(acts[1]) /\ \A i \in DOMAIN acts : 1 <= i
      BY <1>3, Rest DEF ReassertHeld, Doing, Reasserts, Base
    <3>2. \A i \in DOMAIN acts : Reasserts(acts[i])
      BY <3>1 DEF Shape, Base
    <3>. QED  BY <3>2 DEF Returning, Reasserts
  <2>4. acts' # <<>> => Head(acts').op # "Inject"
    <3>. DEFINE q == acts'
    <3>1. PICK S : q \in Seq(S)
      BY <2>1 DEF Shape, IsSequence
    <3>2. \A i \in DOMAIN q : q[i].op # "Inject"
      BY <2>1
    <3>. HIDE DEF q
    <3>3. q # <<>> => Head(q).op # "Inject"
      BY <3>1, <3>2
    <3>. QED  BY <3>3 DEF q
  <2>. QED  BY <2>1, <2>2, <2>3, <2>4
<1>. QED  BY <1>1, <1>2, <1>3 DEF PlanStep

LEMMA DeliverGoesOn ==
  ASSUME Base, DeliverByFocus
  PROVE  /\ Shape(acts)' /\ Returning /\ Returning'
         /\ \E to : \/ /\ BringSucceeds(to) /\ failures' = failures
                       /\ acts' # <<>> /\ Head(acts') = Step("Inject", to)
                    \/ /\ BringFails(to) /\ failures' \in Nat \ {0}
                       /\ acts' # <<>> => Head(acts').op # "Inject"
<1>. DEFINE to == Head(acts).to
<1>1. acts # <<>> /\ Leaves(Head(acts)) /\ Head(acts).op = "Deliver"
  BY DEF DeliverByFocus, Doing, Leaves
<1>2. Returning
  BY <1>1, Rest DEF Base, Shape, Returning
<1>3. CASE BringSucceeds(to) /\ Then(<<Step("Inject", to)>>) /\ failures' = failures
  <2>1. Step("Inject", to).op = "Inject"
    BY DEF Step, Action
  <2>. QED  BY <1>1, <1>2, <1>3, <2>1, ThenOne DEF Base
<1>4. CASE BringFails(to) /\ Then(<<>>) /\ CountFailure
  BY <1>1, <1>2, <1>4, ThenNone, CountFailureCounts DEF Base
<1>. QED  BY <1>3, <1>4 DEF DeliverByFocus, Deliver

LEMMA ReturnGoesOn ==
  ASSUME Base, RestoreFocus
  PROVE  /\ Shape(acts)'
         /\ acts' # <<>> => Head(acts').op # "Inject"
         /\ \/ BringSucceeds(master) /\ failures' = failures
            \/ BringFails(master) /\ failures' \in Nat \ {0}
<1>1. acts # <<>> /\ Then(<<>>)
  BY DEF RestoreFocus, Doing, ReturnToMaster
<1>. QED  BY <1>1, ThenNone, CountFailureCounts DEF Base, RestoreFocus, ReturnToMaster

LEMMA SettleGoesOn ==
  ASSUME Base, Settle
  PROVE  /\ acts' = <<>> /\ Shape(acts)' /\ ~Returning'
         /\ master' \in Instances
         /\ BringSucceeds(master') \/ BringFails(master')
         /\ Routes.swap_hotkey_vk # NoKey
<1>1. acts # <<>> /\ Head(acts).op = "Settle" /\ Then(<<>>) /\ master' = Head(acts).to
  BY DEF Settle, Doing
<1>2. Swaps(Head(acts)) /\ 1 \in DOMAIN acts /\ Head(acts) = acts[1]
  BY <1>1, Rest DEF Base, Swaps
<1>3. master' \in Instances /\ Routes.swap_hotkey_vk # NoKey
  BY <1>1, <1>2 DEF Base, Shape
<1>4. acts' = <<>> /\ Shape(acts)'
  BY <1>1, <1>2, ThenNone DEF Base
<1>5. ~Returning'
  <2>1. DOMAIN <<>> = {}
    OBVIOUS
  <2>. QED  BY <1>4, <2>1 DEF Returning
<1>. QED  BY <1>1, <1>3, <1>4, <1>5 DEF Settle

LEMMA BaseStep ==
  ASSUME Base, [Next]_vars
  PROVE  Base'
<1>1. CASE IdleStep
  BY <1>1 DEF IdleStep, focusVars, Base
<1>2. CASE HandleStep
  BY <1>2 DEF HandleStep, WholePlan, focusVars, Base
<1>3. CASE PlanStep
  <2>1. UNCHANGED <<live, faults, mkeys, master, failures>>
    BY <1>3 DEF PlanStep, focusVars
  <2>. QED  BY <1>3, <2>1, PlanStepGoesOn DEF Base
<1>4. CASE DeliverByFocus
  <2>1. mkeys' = mkeys /\ master' = master
    BY <1>4 DEF DeliverByFocus
  <2>2. Shape(acts)' /\ failures' \in Nat
    BY <1>4, DeliverGoesOn DEF Base
  <2>3. live' = live /\ faults' \in Nat
    BY <1>4, DeliverGoesOn, Bring
  <2>. QED  BY <2>1, <2>2, <2>3 DEF Base
<1>5. CASE RestoreFocus
  <2>1. mkeys' = mkeys /\ master' = master
    BY <1>5 DEF RestoreFocus
  <2>2. Shape(acts)' /\ failures' \in Nat
    BY <1>5, ReturnGoesOn DEF Base
  <2>3. live' = live /\ faults' \in Nat
    BY <1>5, ReturnGoesOn, Bring
  <2>. QED  BY <2>1, <2>2, <2>3 DEF Base
<1>6. CASE Settle
  <2>1. mkeys' = mkeys /\ failures' = failures
    BY <1>6 DEF Settle
  <2>2. live' = live /\ faults' \in Nat
    BY <1>6, SettleGoesOn, Bring
  <2>. QED  BY <1>6, <2>1, <2>2, SettleGoesOn DEF Base
<1>7. CASE DisturbStep
  BY <1>7 DEF DisturbStep, Fault, Base
<1>. QED  BY <1>1, <1>2, <1>3, <1>4, <1>5, <1>6, <1>7, Steps

LEMMA BaseInit ==
  ASSUME Init
  PROVE  /\ Base /\ acts = <<>> /\ ~Returning
         /\ fg = master /\ live = Instances /\ late = NoWindow
<1>1. acts = <<>> /\ <<>> \in Seq({}) /\ DOMAIN <<>> = {}
  BY DEF Init, BroadcasterInit
<1>2. Shape(acts) /\ ~Returning
  BY <1>1 DEF Shape, IsSequence, Returning
<1>3. IsFiniteSet(mkeys)
  BY FS_EmptySet DEF Init, BroadcasterInit
<1>. QED  BY <1>1, <1>2, <1>3, DesktopAssumption
         DEF Init, BroadcasterInit, DesktopInit, Base, Instances

LEMMA BaseAlways == Spec => []Base
<1>1. Init => Base
  BY BaseInit
<1>. QED  BY <1>1, BaseStep, PTL DEF Spec

-----------------------------------------------------------------------------
(* The user is back on the master.                                         *)

(* As long as nothing has failed, whoever is not on the master returns.    *)
Undisturbed ==
  faults = 0 => live = Instances /\ late = NoWindow /\ (fg = master \/ Returning)

LEMMA UndisturbedStep ==
  ASSUME Base, Undisturbed, [Next]_vars
  PROVE  Undisturbed'
<1>1. CASE IdleStep
  BY <1>1 DEF IdleStep, focusVars, Undisturbed, Returning
<1>2. CASE HandleStep
  <2>1. ~Returning
    <3>1. DOMAIN <<>> = {}
      OBVIOUS
    <3>. QED  BY <1>2, <3>1 DEF HandleStep, Returning
  <2>. QED  BY <1>2, <2>1 DEF HandleStep, focusVars, Undisturbed
<1>3. CASE PlanStep
  <2>1. UNCHANGED <<fg, live, late, faults, master>>
    BY <1>3 DEF PlanStep, focusVars
  <2>. QED  BY <1>3, <2>1, PlanStepGoesOn DEF Undisturbed
<1>4. CASE DeliverByFocus
  <2>1. Returning' /\ \E to : BringSucceeds(to) \/ BringFails(to)
    BY <1>4, DeliverGoesOn
  <2>2. CASE faults' = 0
    <3>1. faults = 0 /\ live' = live
      BY <2>1, <2>2, Bring
    <3>2. late' = late
      BY <1>4, <2>2, <3>1 DEF DeliverByFocus, Deliver, BringSucceeds, BringFails, windowVars, Fault, Base
    <3>. QED  BY <2>1, <3>1, <3>2 DEF Undisturbed
  <2>. QED  BY <2>2 DEF Undisturbed
<1>5. CASE RestoreFocus
  <2>1. BringSucceeds(master) \/ BringFails(master)
    BY <1>5, ReturnGoesOn
  <2>2. master' = master
    BY <1>5 DEF RestoreFocus
  <2>. QED  BY <2>1, <2>2, Bring DEF Undisturbed, Base
<1>6. CASE Settle
  <2>1. BringSucceeds(master') \/ BringFails(master')
    BY <1>6, SettleGoesOn
  <2>2. master' \in Instances
    BY <1>6, SettleGoesOn
  <2>. QED  BY <2>1, <2>2, Bring DEF Undisturbed
<1>7. CASE DisturbStep
  <2>1. NoWindow \notin live
    BY DesktopAssumption DEF Base, NoWindow, Instances
  <2>. QED  BY <1>7, <2>1 DEF DisturbStep, Fault, Undisturbed, Base
<1>. QED  BY <1>1, <1>2, <1>3, <1>4, <1>5, <1>6, <1>7, Steps

(* When the plan is done or only re-asserts keys, nobody has to return.    *)
LEMMA NobodyReturns ==
  ASSUME Base, acts = <<>> \/ Doing("Press")
  PROVE  ~Returning
<1>1. CASE acts = <<>>
  <2>1. DOMAIN <<>> = {}
    OBVIOUS
  <2>. QED  BY <1>1, <2>1 DEF Returning
<1>2. CASE Doing("Press")
  <2>1. 1 \in DOMAIN acts /\ Reasserts(acts[1]) /\ \A i \in DOMAIN acts : 1 <= i
    BY <1>2, Rest DEF Doing, Reasserts, Base
  <2>2. \A i \in DOMAIN acts : Reasserts(acts[i])
    BY <2>1 DEF Shape, Base
  <2>. QED  BY <2>2 DEF Returning, Reasserts
<1>. QED  BY <1>1, <1>2

(* For every routing table and every number of instances: as long as no    *)
(* activation failed, the user is on the master between two events and     *)
(* while held keys are re-asserted, after any number of cycles and swaps.  *)
THEOREM BackOnTheMaster == Spec => []FocusReturned
<1>1. Init => Undisturbed
  BY BaseInit DEF Undisturbed
<1>2. Base /\ Undisturbed /\ [Next]_vars => Undisturbed'
  BY UndisturbedStep
<1>3. Base /\ Undisturbed => FocusReturned
  BY NobodyReturns DEF Undisturbed, FocusReturned
<1>. QED  BY <1>1, <1>2, <1>3, BaseAlways, PTL DEF Spec

-----------------------------------------------------------------------------
(* Plans come to their end.                                                *)

LEMMA Stages ==
  ASSUME NEW a
  PROVE  StageOf(a) \in 0 .. 2
BY DEF StageOf

LEMMA ExecuteMoves ==
  ASSUME Execute
  PROVE  /\ acts # <<>> /\ mkeys' = mkeys
         /\ \/ Then(<<>>)
            \/ \E a : /\ Then(<<a>>) /\ a.op # "ReassertHeld"
                      /\ StageOf(a) < StageOf(Head(acts))
            \/ ReassertHeld
<1>1. CASE DeliverByMessage \/ InjectKey \/ Click \/ RestoreCursor \/ RestoreFocus \/ Press \/ Settle
  BY <1>1 DEF DeliverByMessage, InjectKey, Click, RestoreCursor, RestoreFocus, ReturnToMaster,
       Press, Settle, Doing
<1>2. CASE ReassertHeld
  BY <1>2 DEF ReassertHeld, Doing
<1>3. CASE DeliverByFocus
  <2>. DEFINE a == Step("Inject", Head(acts).to)
  <2>1. a.op = "Inject" /\ Head(acts).op = "Deliver"
    BY <1>3 DEF DeliverByFocus, Doing, Step, Action
  <2>2. StageOf(a) = 1 /\ StageOf(Head(acts)) = 2
    BY <2>1 DEF StageOf
  <2>3. acts # <<>> /\ mkeys' = mkeys /\ (Then(<<>>) \/ Then(<<a>>))
    BY <1>3 DEF DeliverByFocus, Deliver, Doing
  <2>. HIDE DEF a
  <2>. QED  BY <2>1, <2>2, <2>3
<1>4. CASE InjectMouse
  <2>. DEFINE a == Step("Click", Head(acts).to)
  <2>1. a.op = "Click" /\ Head(acts).op = "Inject"
    BY <1>4 DEF InjectMouse, Doing, Step, Action
  <2>2. StageOf(a) = 0 /\ StageOf(Head(acts)) = 1
    BY <2>1 DEF StageOf
  <2>3. acts # <<>> /\ mkeys' = mkeys /\ Then(<<a>>)
    BY <1>4 DEF InjectMouse, Doing
  <2>. HIDE DEF a
  <2>. QED  BY <2>1, <2>2, <2>3
<1>5. CASE SwapMaster
  <2>1. PICK next \in Instances : Then(<<Step("Settle", next)>>)
    BY <1>5 DEF SwapMaster
  <2>. DEFINE a == Step("Settle", next)
  <2>2. a.op = "Settle" /\ Head(acts).op = "SwapMaster"
    BY <1>5 DEF SwapMaster, Doing, Step, Action
  <2>3. StageOf(a) = 0 /\ StageOf(Head(acts)) = 1
    BY <2>2 DEF StageOf
  <2>4. acts # <<>> /\ mkeys' = mkeys /\ Then(<<a>>)
    BY <1>5, <2>1 DEF SwapMaster, Doing
  <2>. HIDE DEF a
  <2>. QED  BY <2>2, <2>3, <2>4
<1>. QED  BY <1>1, <1>2, <1>3, <1>4, <1>5 DEF Execute

(* How many steps are left after one is dropped or replaced by another.    *)
LEMMA StepsLeft ==
  ASSUME Shape(acts), acts # <<>>
  PROVE  /\ Then(<<>>) => Len(acts)' = Len(acts) - 1 /\ (ToReassert' => ToReassert)
         /\ \A a : Then(<<a>>) /\ a.op # "ReassertHeld" =>
              /\ Len(acts)' = Len(acts) /\ acts' # <<>> /\ Head(acts') = a
              /\ ToReassert' => ToReassert
<1>. DEFINE n == Len(acts)
            t == Tail(acts)
<1>1. /\ n \in Nat \ {0} /\ DOMAIN acts = 1 .. n
      /\ IsSequence(t) /\ DOMAIN t = 1 .. n - 1
      /\ \A i \in 1 .. n - 1 : t[i] = acts[i + 1]
  BY Rest
<1>2. PICK S : t \in Seq(S)
  BY <1>1 DEF IsSequence
<1>. HIDE DEF n, t
<1>3. Len(t) = n - 1
  BY <1>1, <1>2
<1>4. \A i \in DOMAIN t : i + 1 \in DOMAIN acts /\ t[i] = acts[i + 1]
  BY <1>1
<1>5. ASSUME Then(<<>>)  PROVE Len(acts)' = n - 1 /\ (ToReassert' => ToReassert)
  <2>1. acts' = t
    <3>1. acts' = <<>> \o t
      BY <1>5 DEF Then, t
    <3>. QED  BY <1>2, <3>1
  <2>. QED  BY <1>3, <1>4, <2>1 DEF ToReassert
<1>6. ASSUME NEW a, Then(<<a>>), a.op # "ReassertHeld"
      PROVE  /\ Len(acts)' = n /\ acts' # <<>> /\ Head(acts') = a
             /\ ToReassert' => ToReassert
  <2>. DEFINE q == acts'
  <2>1. q = <<a>> \o t
    BY <1>6 DEF Then, t
  <2>2. t \in Seq(S \union {a}) /\ <<a>> \in Seq(S \union {a})
    BY <1>2
  <2>. HIDE DEF q
  <2>3. Len(q) = n /\ DOMAIN q = 1 .. n /\ q # <<>> /\ Head(q) = a /\ q[1] = a
    BY <1>1, <1>3, <2>1, <2>2
  <2>4. ASSUME NEW i \in DOMAIN q, i # 1  PROVE i \in DOMAIN acts /\ q[i] = acts[i]
    <3>1. i - 1 \in 1 .. n - 1 /\ (i - 1) + 1 = i
      BY <1>1, <2>3, <2>4
    <3>2. q[i] = t[i - 1]
      BY <1>1, <1>3, <2>1, <2>2, <2>3, <2>4, <3>1
    <3>. QED  BY <1>1, <2>3, <3>1, <3>2
  <2>5. ToReassert' => ToReassert
    <3>. SUFFICES ASSUME NEW i \in DOMAIN q, q[i].op = "ReassertHeld"  PROVE ToReassert
      BY DEF ToReassert, q
    <3>1. i # 1
      BY <1>6, <2>3
    <3>. QED  BY <2>4, <3>1 DEF ToReassert
  <2>. QED  BY <2>3, <2>5 DEF q
<1>. QED  BY <1>5, <1>6 DEF n

LEMMA ExecuteShortens ==
  ASSUME Base, Execute
  PROVE  Work' < Work
<1>. DEFINE n == Len(acts)
            c == Cardinality(mkeys)
            r == IF ToReassert THEN c ELSE 0
            s == IF acts = <<>> THEN 0 ELSE StageOf(Head(acts))
<1>1. acts # <<>> /\ mkeys' = mkeys /\ Shape(acts) /\ IsFiniteSet(mkeys)
  BY ExecuteMoves DEF Base
<1>2. Work = 3 * (n + r) + s /\ Work' = 3 * (n' + r') + s'
  BY DEF Work
<1>3. n \in Nat \ {0} /\ c \in Nat /\ c' = c
  BY <1>1, Rest, FS_CardinalityType
<1>4. s \in 0 .. 2 /\ s' \in 0 .. 2 /\ s = StageOf(Head(acts))
  <2>1. s' = IF acts' = <<>> THEN 0 ELSE StageOf(Head(acts'))
    BY DEF StageOf
  <2>. QED  BY <1>1, <2>1, Stages
<1>5. r \in Nat /\ r' \in Nat /\ ((ToReassert' => ToReassert) => r' <= r)
  <2>. HIDE DEF c
  <2>. QED  BY <1>3
<1>6. CASE Then(<<>>)
  <2>1. n' = n - 1 /\ r' <= r
    BY <1>1, <1>5, <1>6, StepsLeft
  <2>. HIDE DEF n, r, s
  <2>. QED  BY <1>2, <1>3, <1>4, <1>5, <2>1
<1>7. ASSUME NEW a, Then(<<a>>), a.op # "ReassertHeld", StageOf(a) < StageOf(Head(acts))
      PROVE  Work' < Work
  <2>1. n' = n /\ r' <= r /\ acts' # <<>> /\ Head(acts') = a
    BY <1>1, <1>5, <1>7, StepsLeft
  <2>2. s' = StageOf(a)
    BY <2>1 DEF StageOf
  <2>3. s' < s
    BY <1>4, <1>7, <2>2
  <2>. HIDE DEF n, r, s
  <2>. QED  BY <1>2, <1>3, <1>4, <1>5, <2>1, <2>3
<1>8. CASE ReassertHeld
  <2>1. n = 1 /\ r = c /\ n' = c
    BY <1>1, <1>3, <1>8, ThenPresses
  <2>2. r' = 0
    BY <1>1, <1>8, ThenPresses DEF ToReassert
  <2>. HIDE DEF n, r, s, c
  <2>. QED  BY <1>2, <1>3, <1>4, <2>1, <2>2
<1>. QED  BY <1>6, <1>7, <1>8, ExecuteMoves

LEMMA NobodyElsePlans ==
  ASSUME [Next]_vars, ~Execute
  PROVE  acts = <<>> \/ UNCHANGED acts
<1>1. CASE Broadcast
  BY <1>1 DEF Broadcast, BroadcasterStep, Wake, Drained, Handle
<1>2. CASE ~Broadcast
  BY <1>2 DEF Next, UserKey, ForeignKey, UserMouse, UserMove, Hook, Disturb, broadcasterVars, vars
<1>. QED  BY <1>1, <1>2

(* For every routing table, every number of targets and of held keys, and  *)
(* however many activations fail: each step of a plan leaves less to do,   *)
(* so that no plan can keep the broadcaster from the events behind it.     *)
THEOREM EveryStepCounts == Spec => PlansShorten
<1>1. Base /\ [Next]_vars => [IF Execute THEN Work' < Work ELSE acts = <<>> \/ UNCHANGED acts]_vars
  BY ExecuteShortens, NobodyElsePlans
<1>. QED  BY <1>1, BaseAlways, PTL DEF Spec, PlansShorten

-----------------------------------------------------------------------------
(* Deliveries hit their targets.                                           *)

Aimed == late = NoWindow /\ InjectHitsTarget

LEMMA AimedStep ==
  ASSUME FaultKinds \subseteq {"fail"}, Base, Aimed, [Next]_vars
  PROVE  Aimed'
<1>1. CASE IdleStep
  BY <1>1 DEF IdleStep, focusVars, Aimed, InjectHitsTarget, Doing
<1>2. CASE HandleStep
  <2>1. acts' # <<>> => Head(acts').op # "Inject"
    <3>. DEFINE q == acts'
    <3>1. PICK S : q \in Seq(S)
      BY <1>2 DEF HandleStep, WholePlan, Shape, IsSequence
    <3>2. \A i \in DOMAIN q : q[i].op # "Inject"
      BY <1>2 DEF HandleStep, WholePlan
    <3>. HIDE DEF q
    <3>3. q # <<>> => Head(q).op # "Inject"
      BY <3>1, <3>2
    <3>. QED  BY <3>3 DEF q
  <2>. QED  BY <1>2, <2>1 DEF HandleStep, focusVars, Aimed, InjectHitsTarget, Doing
<1>3. CASE PlanStep
  <2>1. late' = late
    BY <1>3 DEF PlanStep, focusVars
  <2>. QED  BY <1>3, <2>1, PlanStepGoesOn DEF Aimed, InjectHitsTarget, Doing
<1>4. CASE DeliverByFocus
  <2>1. CASE \E to : BringSucceeds(to) /\ Head(acts') = Step("Inject", to)
    BY <2>1 DEF BringSucceeds, Activate, Step, Action, Aimed, InjectHitsTarget, Doing
  <2>2. CASE \E to : BringFails(to) /\ (acts' # <<>> => Head(acts').op # "Inject")
    <3>1. late' = late
      BY <2>2, Bring
    <3>. QED  BY <2>2, <3>1 DEF Aimed, InjectHitsTarget, Doing
  <2>. QED  BY <1>4, <2>1, <2>2, DeliverGoesOn
<1>5. CASE RestoreFocus
  <2>1. late' = late
    BY <1>5, ReturnGoesOn, Bring
  <2>. QED  BY <1>5, <2>1, ReturnGoesOn DEF Aimed, InjectHitsTarget, Doing
<1>6. CASE Settle
  <2>1. late' = late
    BY <1>6, SettleGoesOn, Bring
  <2>. QED  BY <1>6, <2>1, SettleGoesOn DEF Aimed, InjectHitsTarget, Doing
<1>7. CASE DisturbStep
  <2>1. NoWindow \notin live
    BY DesktopAssumption DEF Base, NoWindow, Instances
  <2>. QED  BY <1>7, <2>1 DEF DisturbStep, Fault, Aimed
<1>. QED  BY <1>1, <1>2, <1>3, <1>4, <1>5, <1>6, <1>7, Steps

(* However many activations fail, a delivery injects only into its target, *)
(* if nobody but the program changes the foreground.                       *)
THEOREM NothingElseIsHit == FaultKinds \subseteq {"fail"} => (Spec => []InjectHitsTarget)
<1>. SUFFICES ASSUME FaultKinds \subseteq {"fail"}  PROVE Spec => []InjectHitsTarget
  OBVIOUS
<1>1. Init => Aimed
  BY BaseInit DEF Aimed, InjectHitsTarget, Doing
<1>2. Base /\ Aimed /\ [Next]_vars => Aimed'
  BY AimedStep
<1>3. Aimed => InjectHitsTarget
  BY DEF Aimed
<1>. QED  BY <1>1, <1>2, <1>3, BaseAlways, PTL DEF Spec

-----------------------------------------------------------------------------
(* A failure to return is counted.                                         *)

Accounted ==
  /\ late = NoWindow
  /\ fg \in Instances \ {master} => failures > 0 \/ Returning

LEMMA AccountedStep ==
  ASSUME FaultKinds \subseteq {"fail", "die"}, Routes.swap_hotkey_vk = NoKey,
         Base, Accounted, [Next]_vars
  PROVE  Accounted'
<1>1. CASE IdleStep
  BY <1>1 DEF IdleStep, focusVars, Accounted, Returning
<1>2. CASE HandleStep
  <2>1. ~Returning
    <3>1. DOMAIN <<>> = {}
      OBVIOUS
    <3>. QED  BY <1>2, <3>1 DEF HandleStep, Returning
  <2>. QED  BY <1>2, <2>1 DEF HandleStep, focusVars, Accounted
<1>3. CASE PlanStep
  <2>1. UNCHANGED <<fg, late, master, failures>>
    BY <1>3 DEF PlanStep, focusVars
  <2>. QED  BY <1>3, <2>1, PlanStepGoesOn DEF Accounted
<1>4. CASE DeliverByFocus
  <2>1. Returning' /\ \E to : BringSucceeds(to) \/ BringFails(to)
    BY <1>4, DeliverGoesOn
  <2>2. late' = late
    BY <2>1, Bring
  <2>. QED  BY <2>1, <2>2 DEF Accounted
<1>5. CASE RestoreFocus
  <2>1. late' = late /\ master' = master
    BY <1>5, ReturnGoesOn, Bring DEF RestoreFocus
  <2>2. fg' = master \/ failures' > 0
    <3>1. CASE BringSucceeds(master)
      BY <3>1 DEF BringSucceeds, Activate
    <3>2. CASE failures' \in Nat \ {0}
      BY <3>2
    <3>. QED  BY <1>5, <3>1, <3>2, ReturnGoesOn
  <2>. QED  BY <2>1, <2>2 DEF Accounted
<1>6. CASE Settle
  BY <1>6, SettleGoesOn
<1>7. CASE DisturbStep
  <2>1. NoWindow \notin live /\ Other \notin Instances
    BY DesktopAssumption DEF Base, NoWindow, Other, Instances
  <2>. QED  BY <1>7, <2>1 DEF DisturbStep, Fault, Accounted, Returning
<1>. QED  BY <1>1, <1>2, <1>3, <1>4, <1>5, <1>6, <1>7, Steps

(* Without a swap hotkey, a client other than the master is in the         *)
(* foreground between two events only after a failure that was counted,    *)
(* also when clients die in the middle of a cycle.                         *)
THEOREM StrandedOnlyIfCounted ==
  FaultKinds \subseteq {"fail", "die"} /\ Routes.swap_hotkey_vk = NoKey =>
    (Spec => []StrandedIsCounted)
<1>. SUFFICES ASSUME FaultKinds \subseteq {"fail", "die"}, Routes.swap_hotkey_vk = NoKey
              PROVE  Spec => []StrandedIsCounted
  OBVIOUS
<1>1. Init => Accounted
  BY BaseInit DEF Accounted
<1>2. Base /\ Accounted /\ [Next]_vars => Accounted'
  BY AccountedStep
<1>3. Base /\ Accounted => StrandedIsCounted
  BY NobodyReturns DEF Accounted, StrandedIsCounted
<1>. QED  BY <1>1, <1>2, <1>3, BaseAlways, PTL DEF Spec
=============================================================================

--------------------------- MODULE SpscRingProofs ---------------------------
(***************************************************************************)
(* The ring is type correct, its counters stay in order and its two        *)
(* threads never race for a slot, for every capacity and every width of    *)
(* the counters.                                                           *)
(*                                                                         *)
(* NoSlotRace and TypeOK are not inductive.  The inductive invariant adds  *)
(* the order of the counters and of what each thread has seen of the       *)
(* other's, and the contents of the published slots.                       *)
(*                                                                         *)
(* Each access to memory of SpscRing is a step of EventQueue or changes    *)
(* nothing that EventQueue shows.                                          *)
(***************************************************************************)
EXTENDS SpscRing, SequenceTheorems, TLAPS

IInv == TypeOK /\ CountersInOrder /\ PublishedWritten

-----------------------------------------------------------------------------
(* Arithmetic of the counters.                                             *)

(* Wrapping a number that is at most one lap away from 0 .. w - 1.         *)
LEMMA WrapOnce ==
  ASSUME NEW w \in Nat, w > 0, NEW a \in Int, -w <= a, a < 2 * w
  PROVE  a % w = IF a < 0 THEN a + w ELSE IF a < w THEN a ELSE a - w
<1>1. CASE a < 0  BY <1>1
<1>2. CASE 0 <= a /\ a < w  BY <1>2
<1>3. CASE w <= a  BY <1>3
<1>4. QED  BY <1>1, <1>2, <1>3

(* The counters have at least two laps of at least two slots.              *)
LEMMA WrapBound == Wrap \in Nat /\ Wrap >= 2 * Capacity /\ Wrap >= 4
<1>1. Capacity \in Nat /\ Laps \in Nat /\ Capacity >= 2 /\ Laps >= 2
  BY CapacityAssumption, LapsAssumption
<1>2. Capacity * Laps \in Nat  BY <1>1
<1>3. Capacity * Laps >= 2 * Capacity  BY <1>1
<1>4. QED  BY <1>1, <1>2, <1>3 DEF Wrap

(* head + 1 in the arithmetic of the counters.                             *)
LEMMA IncCases ==
  ASSUME NEW i \in Index
  PROVE  Inc(i) \in Index /\ Inc(i) = IF i = Wrap - 1 THEN 0 ELSE i + 1
<1>1. CASE i = Wrap - 1
  <2>1. Wrap % Wrap = 0  BY WrapBound
  <2>2. QED  BY <1>1, <2>1, WrapBound DEF Inc, Index
<1>2. CASE i # Wrap - 1
  <2>1. i + 1 \in 0 .. Wrap - 1  BY <1>2, WrapBound DEF Index
  <2>2. (i + 1) % Wrap = i + 1  BY <2>1, WrapBound
  <2>3. QED  BY <1>2, <2>1, <2>2 DEF Inc, Index
<1>3. QED  BY <1>1, <1>2

(* head - tail in the arithmetic of the counters.                          *)
LEMMA DistCases ==
  ASSUME NEW h \in Index, NEW t \in Index
  PROVE  Dist(h, t) \in Index /\ Dist(h, t) = IF h < t THEN h - t + Wrap ELSE h - t
<1>1. h - t \in Int /\ -Wrap <= h - t /\ h - t < Wrap  BY WrapBound DEF Index
<1>2. (h - t) % Wrap = IF h - t < 0 THEN h - t + Wrap ELSE h - t
  BY <1>1, WrapBound, WrapOnce
<1>3. QED  BY <1>1, <1>2, WrapBound DEF Dist, Index

(* Only equal counters have distance 0.                                    *)
LEMMA DistZero ==
  ASSUME NEW h \in Index, NEW t \in Index
  PROVE  Dist(h, t) \in Nat /\ (Dist(h, t) = 0 <=> h = t)
<1>1. Dist(h, t) = IF h < t THEN h - t + Wrap ELSE h - t  BY DistCases
<1>2. QED  BY <1>1, WrapBound DEF Index

(* Advancing the head adds one to the distance unless it closes the lap.   *)
LEMMA DistIncHead ==
  ASSUME NEW h \in Index, NEW t \in Index, Dist(h, t) < Wrap - 1
  PROVE  Dist(Inc(h), t) = Dist(h, t) + 1
<1>1. Inc(h) \in Index /\ Inc(h) = IF h = Wrap - 1 THEN 0 ELSE h + 1  BY IncCases
<1>2. Dist(Inc(h), t) = IF Inc(h) < t THEN Inc(h) - t + Wrap ELSE Inc(h) - t
  BY <1>1, DistCases
<1>3. Dist(h, t) = IF h < t THEN h - t + Wrap ELSE h - t  BY DistCases
<1> HIDE DEF Dist, Inc
<1>4. QED  BY <1>1, <1>2, <1>3, WrapBound DEF Index

(* Advancing the tail takes one from the distance if there is any.         *)
LEMMA DistIncTail ==
  ASSUME NEW h \in Index, NEW t \in Index, Dist(h, t) > 0
  PROVE  Dist(h, Inc(t)) = Dist(h, t) - 1
<1>1. Inc(t) \in Index /\ Inc(t) = IF t = Wrap - 1 THEN 0 ELSE t + 1  BY IncCases
<1>2. Dist(h, Inc(t)) = IF h < Inc(t) THEN h - Inc(t) + Wrap ELSE h - Inc(t)
  BY <1>1, DistCases
<1>3. Dist(h, t) = IF h < t THEN h - t + Wrap ELSE h - t  BY DistCases
<1>4. QED  BY <1>1, <1>2, <1>3, WrapBound DEF Index

(* A counter i loaded from between m and h lies between t and h when m     *)
(* does, and no closer to t than m.                                        *)
LEMMA DistBetween ==
  ASSUME NEW h \in Index, NEW m \in Index, NEW t \in Index, NEW i \in Index,
         Dist(h, t) = Dist(h, m) + Dist(m, t), Dist(h, i) <= Dist(h, m)
  PROVE  Dist(h, t) = Dist(h, i) + Dist(i, t) /\ Dist(i, t) >= Dist(m, t)
<1>1. /\ Dist(h, t) = IF h < t THEN h - t + Wrap ELSE h - t
      /\ Dist(h, m) = IF h < m THEN h - m + Wrap ELSE h - m
      /\ Dist(m, t) = IF m < t THEN m - t + Wrap ELSE m - t
      /\ Dist(h, i) = IF h < i THEN h - i + Wrap ELSE h - i
      /\ Dist(i, t) = IF i < t THEN i - t + Wrap ELSE i - t
  BY DistCases
<1>2. QED  BY <1>1, WrapBound DEF Index

(* A counter i loaded from between m and t lies between them and h when t  *)
(* and m do, and no further from h than t.                                 *)
LEMMA DistThrough ==
  ASSUME NEW h \in Index, NEW m \in Index, NEW t \in Index, NEW i \in Index,
         Dist(h, t) = Dist(h, m) + Dist(m, t), Dist(m, i) <= Dist(m, t)
  PROVE  Dist(h, i) = Dist(h, m) + Dist(m, i) /\ Dist(h, i) <= Dist(h, t)
<1>1. /\ Dist(h, t) = IF h < t THEN h - t + Wrap ELSE h - t
      /\ Dist(h, m) = IF h < m THEN h - m + Wrap ELSE h - m
      /\ Dist(m, t) = IF m < t THEN m - t + Wrap ELSE m - t
      /\ Dist(h, i) = IF h < i THEN h - i + Wrap ELSE h - i
      /\ Dist(m, i) = IF m < i THEN m - i + Wrap ELSE m - i
  BY DistCases
<1>2. QED  BY <1>1, WrapBound DEF Index

(* Different counters are at different distances from the tail.            *)
LEMMA DistInjective ==
  ASSUME NEW h \in Index, NEW t \in Index, NEW i \in Index, i # h
  PROVE  Dist(i, t) # Dist(h, t)
<1>1. /\ Dist(h, t) = IF h < t THEN h - t + Wrap ELSE h - t
      /\ Dist(i, t) = IF i < t THEN i - t + Wrap ELSE i - t
  BY DistCases
<1>2. QED  BY <1>1, WrapBound DEF Index

(* i & kMask is a slot.                                                    *)
LEMMA SlotType == ASSUME NEW i \in Index PROVE Slot(i) \in Slots
BY CapacityAssumption, WrapBound DEF Slot, Slots, Index

(* Counters less than a lap apart name different slots.                    *)
LEMMA SlotsDiffer ==
  ASSUME NEW h \in Index, NEW t \in Index, 0 < Dist(h, t), Dist(h, t) < Capacity
  PROVE  Slot(h) # Slot(t)
<1> DEFINE qh == h \div Capacity
           qt == t \div Capacity
<1>1. Capacity \in Nat /\ Capacity >= 2 /\ Laps \in Nat /\ Laps >= 2
  BY CapacityAssumption, LapsAssumption
<1>2. h \in Nat /\ t \in Nat  BY WrapBound DEF Index
<1>3. qh \in Int /\ qt \in Int /\ Slot(h) \in Int /\ Slot(t) \in Int
  BY <1>1, <1>2 DEF Slot
<1>4. h = Capacity * qh + Slot(h) /\ t = Capacity * qt + Slot(t)
  BY <1>1, <1>2 DEF Slot
<1>5. SUFFICES ASSUME Slot(h) = Slot(t) PROVE FALSE
  OBVIOUS
<1> HIDE DEF qh, qt
<1>6. h - t = Capacity * (qh - qt)
  <2>1. h - t = Capacity * qh - Capacity * qt  BY <1>1, <1>2, <1>3, <1>4, <1>5
  <2>2. Capacity * (qh - qt) = Capacity * qh - Capacity * qt  BY <1>1, <1>3
  <2>3. QED  BY <2>1, <2>2
<1>7. PICK q \in Int : Dist(h, t) = Capacity * q
  <2>1. CASE h < t
    <3>1. Dist(h, t) = Capacity * (qh - qt) + Capacity * Laps
      BY <2>1, <1>6, DistCases DEF Wrap
    <3>2. Capacity * (qh - qt) + Capacity * Laps = Capacity * (qh - qt + Laps)
      BY <1>1, <1>3
    <3>3. qh - qt + Laps \in Int  BY <1>1, <1>3
    <3>4. QED  BY <3>1, <3>2, <3>3
  <2>2. CASE ~(h < t)
    <3>1. Dist(h, t) = Capacity * (qh - qt)  BY <2>2, <1>6, DistCases
    <3>2. qh - qt \in Int  BY <1>3
    <3>3. QED  BY <3>1, <3>2
  <2>3. QED  BY <2>1, <2>2
<1>8. 0 < Capacity * q /\ Capacity * q < Capacity  BY <1>7
<1>9. CASE q <= 0
  <2>1. Capacity * q <= 0  BY <1>1, <1>9
  <2>2. QED  BY <2>1, <1>8, <1>1
<1>10. CASE q >= 1
  <2>1. Capacity * q >= Capacity  BY <1>1, <1>10
  <2>2. QED  BY <2>1, <1>8, <1>1
<1>11. QED  BY <1>9, <1>10

-----------------------------------------------------------------------------
(* The invariant holds initially.                                          *)
LEMMA InitInv == Init => IInv
<1> SUFFICES ASSUME Init PROVE IInv
  OBVIOUS
<1>1. 0 \in Index /\ Dist(0, 0) = 0
  <2>1. 0 \in Index  BY WrapBound DEF Index
  <2>2. QED  BY <2>1, DistCases
<1>2. TypeOK  BY <1>1 DEF Init, TypeOK
<1>3. CountersInOrder
  BY <1>1, CapacityAssumption DEF Init, CountersInOrder
<1>4. PublishedWritten
  <2>1. ASSUME NEW i \in Index PROVE ~(Dist(i, tail) < Dist(head, tail))
    BY <1>1, DistCases DEF Init, Index
  <2>2. QED  BY <2>1 DEF Init, PublishedWritten
<1>5. QED  BY <1>2, <1>3, <1>4 DEF IInv

(* The distances between the counters are natural numbers.                 *)
DistsNat ==
  /\ Dist(head, pview) \in Nat /\ Dist(head, tail) \in Nat
  /\ Dist(tail, pview) \in Nat /\ Dist(head, cview) \in Nat
  /\ Dist(cview, tail) \in Nat

LEMMA DistNatural == TypeOK => DistsNat
BY DistZero DEF TypeOK, DistsNat

(* What the producer may load as tail_ is between what it has seen and the *)
(* current value.                                                          *)
LEMMA LoadInOrder ==
  ASSUME NEW view \in Index, NEW cur \in Index, NEW i \in Loadable(view, cur)
  PROVE  i \in Index /\ Dist(cur, i) <= Dist(cur, view)
BY DEF Loadable

(* A step of the producer preserves the invariant.                         *)
LEMMA ProduceInv == IInv /\ Produce => IInv'
<1> SUFFICES ASSUME IInv, Produce PROVE IInv'
  OBVIOUS
<1> USE DEF IInv, consumerVars
<1>1. CASE PushFull
  <2>1. PICK t \in Loadable(pview, tail) : Full(head, t) /\ pview' = t
    BY <1>1 DEF PushFull
  <2>2. t \in Index /\ Dist(tail, t) <= Dist(tail, pview)
    BY <2>1, LoadInOrder DEF TypeOK
  <2>3. dropped' \in Index
    BY <1>1, WrapBound DEF PushFull, TypeOK, Index
  <2>4. TypeOK'
    BY <1>1, <2>1, <2>2, <2>3 DEF PushFull, TypeOK
  <2>5. CountersInOrder'
    <3>1. Dist(head, t) = Dist(head, tail) + Dist(tail, t) /\ Dist(head, t) <= Dist(head, pview)
      BY <2>2, DistThrough DEF TypeOK, CountersInOrder
    <3>2. Dist(head, t) \in Nat /\ Dist(head, pview) \in Nat
      BY <2>2, DistZero DEF TypeOK
    <3>3. QED
      BY <1>1, <2>1, <3>1, <3>2, CapacityAssumption DEF PushFull, CountersInOrder
  <2>6. PublishedWritten'
    BY <1>1 DEF PushFull, PublishedWritten
  <2>7. QED  BY <2>4, <2>5, <2>6
<1>2. ASSUME NEW e \in Event, PushBegin(e) PROVE IInv'
  <2>1. PICK t \in Loadable(pview, tail) : ~Full(head, t) /\ pview' = t
    BY <1>2 DEF PushBegin
  <2>2. t \in Index /\ Dist(tail, t) <= Dist(tail, pview)
    BY <2>1, LoadInOrder DEF TypeOK
  <2>3. TypeOK'
    BY <1>2, <2>1, <2>2 DEF PushBegin, TypeOK
  <2>4. CountersInOrder'
    <3>1. Dist(head, t) = Dist(head, tail) + Dist(tail, t) /\ Dist(head, t) <= Dist(head, pview)
      BY <2>2, DistThrough DEF TypeOK, CountersInOrder
    <3>2. Dist(head, t) \in Nat /\ Dist(head, pview) \in Nat
      BY <2>2, DistZero DEF TypeOK
    <3>3. QED
      BY <1>2, <2>1, <3>1, <3>2, CapacityAssumption DEF PushBegin, CountersInOrder, Full
  <2>5. PublishedWritten'
    BY <1>2 DEF PushBegin, PublishedWritten
  <2>6. QED  BY <2>3, <2>4, <2>5
<1>3. CASE PushWrite
  <2>1. Slot(head) \in Slots  BY SlotType DEF TypeOK
  <2>2. TypeOK'
    BY <1>3, <2>1 DEF PushWrite, TypeOK
  <2>3. CountersInOrder'
    BY <1>3 DEF PushWrite, CountersInOrder
  <2>4. PublishedWritten'
    <3>1. pval \in Event /\ buf' = [buf EXCEPT ![Slot(head)] = pval]
      BY <1>3 DEF PushWrite, TypeOK
    <3>2. ASSUME NEW i \in Index, Dist(i, tail) < Dist(head, tail)
          PROVE  buf'[Slot(i)] \in Event
      BY <3>1, <3>2, SlotType DEF TypeOK, PublishedWritten
    <3>3. buf'[Slot(head)] = pval
      BY <3>1, <2>1 DEF TypeOK
    <3>4. QED  BY <1>3, <3>2, <3>3 DEF PushWrite, PublishedWritten
  <2>5. QED  BY <2>2, <2>3, <2>4
<1>4. CASE PushPublish
  <2>1. head' = Inc(head) /\ head' \in Index
    BY <1>4, IncCases DEF PushPublish, TypeOK
  <2>2. TypeOK'
    BY <1>4, <2>1 DEF PushPublish, TypeOK
  <2>3. /\ Dist(head', pview) = Dist(head, pview) + 1
        /\ Dist(head', tail) = Dist(head, tail) + 1
        /\ Dist(head', cview) = Dist(head, cview) + 1
    <3>1. DistsNat  BY DistNatural
    <3>2. Dist(head, pview) < Capacity
      BY <1>4 DEF PushPublish, CountersInOrder
    <3>3. /\ Dist(head, pview) < Wrap - 1
          /\ Dist(head, tail) < Wrap - 1
          /\ Dist(head, cview) < Wrap - 1
      BY <3>1, <3>2, WrapBound, CapacityAssumption DEF CountersInOrder, DistsNat
    <3>4. QED  BY <2>1, <3>3, DistIncHead DEF TypeOK
  <2>4. CountersInOrder'
    <3>1. DistsNat  BY DistNatural
    <3>2. QED
      BY <1>4, <2>3, <3>1, CapacityAssumption DEF PushPublish, CountersInOrder, DistsNat
  <2>5. PublishedWritten'
    <3>1. ASSUME NEW i \in Index, Dist(i, tail) < Dist(head', tail)
          PROVE  buf[Slot(i)] \in Event
      <4>1. CASE i = head
        BY <1>4, <4>1 DEF PushPublish, TypeOK, PublishedWritten
      <4>2. CASE i # head
        <5>1. Dist(i, tail) # Dist(head, tail)
          BY <4>2, DistInjective DEF TypeOK
        <5>2. Dist(i, tail) < Dist(head, tail)
          BY <3>1, <5>1, <2>3, DistZero DEF TypeOK
        <5>3. QED  BY <5>2 DEF PublishedWritten
      <4>3. QED  BY <4>1, <4>2
    <3>2. QED  BY <1>4, <3>1 DEF PushPublish, PublishedWritten
  <2>6. QED  BY <2>2, <2>4, <2>5
<1>5. QED  BY <1>1, <1>2, <1>3, <1>4 DEF Produce

(* A step of the consumer preserves the invariant.                         *)
LEMMA ConsumeInv == IInv /\ Consume => IInv'
<1> SUFFICES ASSUME IInv, Consume PROVE IInv'
  OBVIOUS
<1> USE DEF IInv, producerVars
<1>1. CASE PopEmpty
  <2>1. PICK h \in Loadable(cview, head) : Empty(h, tail) /\ cview' = h
    BY <1>1 DEF PopEmpty
  <2>2. h \in Index /\ Dist(head, h) <= Dist(head, cview)
    BY <2>1, LoadInOrder DEF TypeOK
  <2>3. TypeOK'
    BY <1>1, <2>1, <2>2 DEF PopEmpty, TypeOK
  <2>4. CountersInOrder'
    <3>1. Dist(head, tail) = Dist(head, h) + Dist(h, tail)
      BY <2>2, DistBetween DEF TypeOK, CountersInOrder
    <3>2. Dist(h, tail) \in Nat /\ (Dist(h, tail) = 0 <=> h = tail)
      BY <2>2, DistZero DEF TypeOK
    <3>3. QED
      BY <1>1, <2>1, <3>1, <3>2 DEF PopEmpty, CountersInOrder
  <2>5. PublishedWritten'
    BY <1>1 DEF PopEmpty, PublishedWritten
  <2>6. QED  BY <2>3, <2>4, <2>5
<1>2. CASE PopBegin
  <2>1. PICK h \in Loadable(cview, head) : ~Empty(h, tail) /\ cview' = h
    BY <1>2 DEF PopBegin
  <2>2. h \in Index /\ Dist(head, h) <= Dist(head, cview)
    BY <2>1, LoadInOrder DEF TypeOK
  <2>3. TypeOK'
    BY <1>2, <2>1, <2>2 DEF PopBegin, TypeOK
  <2>4. CountersInOrder'
    <3>1. Dist(head, tail) = Dist(head, h) + Dist(h, tail)
      BY <2>2, DistBetween DEF TypeOK, CountersInOrder
    <3>2. Dist(h, tail) \in Nat /\ (Dist(h, tail) = 0 <=> h = tail)
      BY <2>2, DistZero DEF TypeOK
    <3>3. QED
      BY <1>2, <2>1, <3>1, <3>2 DEF PopBegin, CountersInOrder, Empty
  <2>5. PublishedWritten'
    BY <1>2 DEF PopBegin, PublishedWritten
  <2>6. QED  BY <2>3, <2>4, <2>5
<1>3. CASE PopRead
  <2>1. Dist(tail, tail) < Dist(head, tail)
    BY <1>3, DistCases DEF PopRead, TypeOK, CountersInOrder, Index
  <2>2. buf[Slot(tail)] \in Event
    BY <2>1 DEF TypeOK, PublishedWritten
  <2>3. TypeOK'
    BY <1>3, <2>2 DEF PopRead, TypeOK
  <2>4. CountersInOrder'
    BY <1>3 DEF PopRead, CountersInOrder
  <2>5. PublishedWritten'
    BY <1>3 DEF PopRead, PublishedWritten
  <2>6. QED  BY <2>3, <2>4, <2>5
<1>4. CASE PopRelease
  <2>1. tail' = Inc(tail) /\ tail' \in Index
    BY <1>4, IncCases DEF PopRelease, TypeOK
  <2>2. TypeOK'
    BY <1>4, <2>1 DEF PopRelease, TypeOK
  <2>3. /\ Dist(head, tail') = Dist(head, tail) - 1
        /\ Dist(cview, tail') = Dist(cview, tail) - 1
        /\ Dist(tail', pview) = Dist(tail, pview) + 1
    <3>1. DistsNat  BY DistNatural
    <3>2. Dist(cview, tail) > 0 /\ Dist(head, tail) > 0
      BY <1>4, <3>1 DEF PopRelease, CountersInOrder, DistsNat
    <3>3. Dist(tail, pview) < Wrap - 1
      BY <3>1, WrapBound, CapacityAssumption DEF CountersInOrder, DistsNat
    <3>4. QED  BY <2>1, <3>2, <3>3, DistIncHead, DistIncTail DEF TypeOK
  <2>4. CountersInOrder'
    <3>1. DistsNat  BY DistNatural
    <3>2. QED
      BY <1>4, <2>3, <3>1, CapacityAssumption DEF PopRelease, CountersInOrder, DistsNat
  <2>5. PublishedWritten'
    <3>1. ASSUME NEW i \in Index, Dist(i, tail') < Dist(head, tail')
          PROVE  buf[Slot(i)] \in Event
      <4>1. Dist(i, tail) < Dist(head, tail)
        <5>1. Dist(i, tail) \in Nat /\ Dist(head, tail) \in Nat
          BY DistZero DEF TypeOK
        <5>2. CASE Dist(i, tail) = 0
          BY <1>4, <5>1, <5>2, <2>3, DistZero DEF PopRelease, TypeOK, CountersInOrder
        <5>3. CASE Dist(i, tail) > 0
          <6>1. Dist(i, tail') = Dist(i, tail) - 1
            BY <2>1, <5>3, DistIncTail DEF TypeOK
          <6>2. QED  BY <3>1, <2>3, <5>1, <6>1
        <5>4. QED  BY <5>1, <5>2, <5>3
      <4>2. QED  BY <4>1 DEF PublishedWritten
    <3>2. QED  BY <1>4, <3>1 DEF PopRelease, PublishedWritten
  <2>6. QED  BY <2>2, <2>4, <2>5
<1>5. QED  BY <1>1, <1>2, <1>3, <1>4 DEF Consume

(* The inductive invariant of the ring.                                    *)
THEOREM RingInvariant == Spec => []IInv
<1>1. Init => IInv  BY InitInv
<1>2. IInv /\ [Next]_vars => IInv'
  <2>1. IInv /\ UNCHANGED vars => IInv'
    BY DEF IInv, TypeOK, CountersInOrder, PublishedWritten, vars, producerVars, consumerVars
  <2>2. QED  BY <2>1, ProduceInv, ConsumeInv DEF Next
<1>3. QED  BY <1>1, <1>2, PTL DEF Spec

(* pop only ever returns events that were pushed, and every counter stays  *)
(* within the width of size_t.                                             *)
THEOREM RingTypeCorrect == Spec => []TypeOK
<1>1. IInv => TypeOK  BY DEF IInv
<1>2. QED  BY <1>1, RingInvariant, PTL

(* The order of head_, tail_ and of the values the threads loaded survives *)
(* every interleaving, every stale load and every wrap of the counters.    *)
THEOREM RingCountersInOrder == Spec => []CountersInOrder
<1>1. IInv => CountersInOrder  BY DEF IInv
<1>2. QED  BY <1>1, RingInvariant, PTL

(* A published slot is a written slot: head_ never runs ahead of buf_.     *)
THEOREM RingPublishedWritten == Spec => []PublishedWritten
<1>1. IInv => PublishedWritten  BY DEF IInv
<1>2. QED  BY <1>1, RingInvariant, PTL

(* The plain accesses of push and pop to the slots never race.             *)
THEOREM RingNoSlotRace == Spec => []NoSlotRace
<1>1. IInv => NoSlotRace
  <2> SUFFICES ASSUME IInv, ppc = "write", cpc = "read" PROVE Slot(head) # Slot(tail)
    BY DEF NoSlotRace
  <2>1. 0 < Dist(head, tail) /\ Dist(head, tail) < Capacity
    <3>1. DistsNat  BY DistNatural DEF IInv
    <3>2. QED  BY <3>1, CapacityAssumption DEF IInv, CountersInOrder, DistsNat
  <2>2. QED  BY <2>1, SlotsDiffer DEF IInv, TypeOK
<1>2. QED  BY <1>1, RingInvariant, PTL

-----------------------------------------------------------------------------
(* The ring implements the queue of EventQueue.  The queue are the slots   *)
(* from tail_ to head_.  Writing a slot does not change it, as the slot    *)
(* written is not yet among them; what a pop returns is its first element, *)
(* as the producer stays away from the slot that was read until tail_ has  *)
(* moved on.                                                               *)

(* The counter of the i-th event of the queue.                             *)
Place(i) == (tail + i - 1) % Wrap

(* The slots from tail_ to head_.                                          *)
Content == [i \in 1 .. Dist(head, tail) |-> buf[Slot(Place(i))]]

(* What the consumer has read is still in its slot.                        *)
ReadIsFirst == cpc = "release" => cval = buf[Slot(tail)]

RInv == IInv /\ ReadIsFirst

-----------------------------------------------------------------------------
(* Counting from tail_ to head_.                                           *)

LEMMA PlaceCases ==
  ASSUME NEW t \in Index, NEW n \in Nat, n < Wrap
  PROVE  (t + n) % Wrap \in Index /\ (t + n) % Wrap = IF t + n < Wrap THEN t + n ELSE t + n - Wrap
<1>. DEFINE a == t + n
<1>1. a \in Int /\ 0 <= a /\ a < 2 * Wrap /\ Wrap \in Nat /\ Wrap > 0
  BY WrapBound DEF Index
<1>. HIDE DEF a
<1>2. a % Wrap = IF a < Wrap THEN a ELSE a - Wrap
  <2>1. CASE a < Wrap
    BY <1>1, <2>1
  <2>2. CASE ~(a < Wrap)
    BY <1>1, <2>2
  <2>. QED  BY <2>1, <2>2
<1>3. a % Wrap \in Index
  BY <1>1, <1>2 DEF Index
<1>4. (t + n) % Wrap \in Index
  BY <1>3 DEF a
<1>5. (t + n) % Wrap = IF t + n < Wrap THEN t + n ELSE t + n - Wrap
  BY <1>1, <1>2, WrapBound DEF a, Index
<1>. QED  BY <1>4, <1>5

LEMMA PlaceInside ==
  ASSUME NEW h \in Index, NEW t \in Index, NEW n \in Nat, n <= Dist(h, t)
  PROVE  Dist(h, (t + n) % Wrap) = Dist(h, t) - n
<1>. DEFINE p == (t + n) % Wrap
<1>1. Dist(h, t) \in Index /\ Dist(h, t) = IF h < t THEN h - t + Wrap ELSE h - t
  BY DistCases
<1>2. p \in Index /\ p = IF t + n < Wrap THEN t + n ELSE t + n - Wrap
  BY <1>1, WrapBound, PlaceCases DEF Index
<1>3. Dist(h, p) = IF h < p THEN h - p + Wrap ELSE h - p
  BY <1>2, DistCases
<1>. HIDE DEF p
<1>. QED  BY <1>1, <1>2, <1>3, WrapBound DEF Index, p

(* The first place is tail_, the one after the last is head_.              *)
LEMMA PlaceEnds ==
  ASSUME TypeOK
  PROVE  Place(1) = tail /\ Place(Dist(head, tail) + 1) = head
<1>1. Dist(head, tail) \in Index
      /\ Dist(head, tail) = IF head < tail THEN head - tail + Wrap ELSE head - tail
  BY DistCases DEF TypeOK
<1>2. tail + 1 - 1 = tail /\ tail + (Dist(head, tail) + 1) - 1 = tail + Dist(head, tail)
  BY <1>1 DEF TypeOK, Index
<1>3. tail % Wrap = tail
  <2>1. tail \in 0 .. Wrap - 1
    BY DEF TypeOK, Index
  <2>. QED  BY <2>1, WrapBound
<1>4. (tail + Dist(head, tail)) % Wrap = head
  <2>. DEFINE d == Dist(head, tail)
  <2>1. d \in Nat /\ d < Wrap
    BY <1>1, WrapBound DEF Index
  <2>. HIDE DEF d
  <2>2. (tail + d) % Wrap = IF tail + d < Wrap THEN tail + d ELSE tail + d - Wrap
    BY <2>1, PlaceCases DEF TypeOK
  <2>3. d = IF head < tail THEN head - tail + Wrap ELSE head - tail
    BY <1>1 DEF d
  <2>4. (tail + d) % Wrap = head
    BY <2>2, <2>3, WrapBound DEF TypeOK, Index
  <2>. QED  BY <2>4 DEF d
<1>. QED  BY <1>2, <1>3, <1>4 DEF Place

LEMMA PlacesBetween ==
  ASSUME TypeOK, NEW i \in 1 .. Dist(head, tail)
  PROVE  /\ Place(i) \in Index
         /\ Dist(head, Place(i)) > 0 /\ Dist(head, Place(i)) <= Dist(head, tail)
<1>1. Dist(head, tail) \in Index
  BY DistCases DEF TypeOK
<1>2. i - 1 \in Nat /\ i - 1 < Dist(head, tail) /\ tail + i - 1 = tail + (i - 1)
  BY <1>1 DEF TypeOK, Index
<1>3. Place(i) \in Index
  BY <1>1, <1>2, PlaceCases, WrapBound DEF Place, TypeOK, Index
<1>4. Dist(head, Place(i)) = Dist(head, tail) - (i - 1)
  <2>. DEFINE n == i - 1
  <2>1. n \in Nat /\ n <= Dist(head, tail) /\ tail + i - 1 = tail + n
    BY <1>1, <1>2 DEF Index
  <2>. HIDE DEF n
  <2>2. Dist(head, (tail + n) % Wrap) = Dist(head, tail) - n
    BY <2>1, PlaceInside DEF TypeOK
  <2>3. Place(i) = (tail + n) % Wrap
    BY <2>1 DEF Place
  <2>. QED  BY <2>2, <2>3 DEF n
<1>. QED  BY <1>1, <1>2, <1>3, <1>4 DEF Index

LEMMA ContentIsSequence ==
  ASSUME TypeOK
  PROVE  Content \in Seq(Event \union {NoEvent}) /\ Len(Content) = Dist(head, tail)
<1>1. Dist(head, tail) \in Nat
  BY DistZero DEF TypeOK
<1>2. \A i \in 1 .. Dist(head, tail) : buf[Slot(Place(i))] \in Event \union {NoEvent}
  BY PlacesBetween, SlotType DEF TypeOK
<1>. QED  BY <1>1, <1>2 DEF Content

LEMMA AppendIsFunction ==
  ASSUME NEW S, NEW s \in Seq(S), NEW e \in S
  PROVE  Append(s, e) = [i \in 1 .. Len(s) + 1 |-> IF i <= Len(s) THEN s[i] ELSE e]
<1>. DEFINE f == [i \in 1 .. Len(s) + 1 |-> IF i <= Len(s) THEN s[i] ELSE e]
<1>1. Len(s) + 1 \in Nat /\ \A i \in 1 .. Len(s) + 1 : f[i] \in S
  OBVIOUS
<1>2. f \in Seq(S) /\ Len(f) = Len(s) + 1
  BY <1>1
<1>3. \A i \in 1 .. Len(f) : f[i] = Append(s, e)[i]
  BY <1>2, AppendProperties
<1>. HIDE DEF f
<1>4. f = Append(s, e)
  BY <1>2, <1>3, AppendProperties, SeqEqual
<1>. QED  BY <1>4 DEF f

LEMMA TailIsFunction ==
  ASSUME NEW S, NEW s \in Seq(S), s # <<>>
  PROVE  Tail(s) = [i \in 1 .. Len(s) - 1 |-> s[i + 1]]
<1>. DEFINE f == [i \in 1 .. Len(s) - 1 |-> s[i + 1]]
<1>1. Len(s) - 1 \in Nat /\ \A i \in 1 .. Len(s) - 1 : s[i + 1] \in S
  OBVIOUS
<1>2. f \in Seq(S) /\ Len(f) = Len(s) - 1
  BY <1>1
<1>3. \A i \in 1 .. Len(f) : f[i] = Tail(s)[i]
  BY <1>2, HeadTailProperties
<1>. HIDE DEF f
<1>4. f = Tail(s)
  BY <1>2, <1>3, HeadTailProperties, SeqEqual
<1>. QED  BY <1>4 DEF f

-----------------------------------------------------------------------------
(* What a step does to the slots from tail_ to head_.                      *)

(* The slot being written is not among them.                               *)
LEMMA WriteIsOutside ==
  ASSUME IInv, PushWrite
  PROVE  Content' = Content /\ (cpc # "idle" => buf'[Slot(tail)] = buf[Slot(tail)])
<1>1. TypeOK /\ CountersInOrder /\ Dist(head, tail) \in Nat /\ Dist(tail, pview) \in Nat
  BY DistZero DEF IInv, TypeOK
<1>2. Dist(head, tail) < Capacity
  BY <1>1, CapacityAssumption DEF PushWrite, CountersInOrder
<1>3. \A i \in 1 .. Dist(head, tail) : Slot(Place(i)) # Slot(head) /\ Slot(Place(i)) \in Slots
  <2>. TAKE i \in 1 .. Dist(head, tail)
  <2>1. Place(i) \in Index /\ 0 < Dist(head, Place(i)) /\ Dist(head, Place(i)) <= Dist(head, tail)
    BY <1>1, PlacesBetween
  <2>2. Dist(head, Place(i)) \in Nat
    BY <1>1, <2>1, DistZero DEF TypeOK
  <2>3. Dist(head, Place(i)) < Capacity
    BY <1>1, <1>2, <2>1, <2>2, CapacityAssumption
  <2>. QED  BY <1>1, <2>1, <2>3, SlotsDiffer, SlotType DEF TypeOK
<1>4. \A i \in 1 .. Dist(head, tail) : buf'[Slot(Place(i))] = buf[Slot(Place(i))]
  BY <1>1, <1>3 DEF PushWrite, TypeOK
<1>5. head' = head /\ tail' = tail
  BY DEF PushWrite, consumerVars
<1>6. Content' = Content
  BY <1>4, <1>5 DEF Content, Place
<1>7. ASSUME cpc # "idle" PROVE buf'[Slot(tail)] = buf[Slot(tail)]
  <2>1. Dist(cview, tail) > 0 /\ Dist(head, tail) = Dist(head, cview) + Dist(cview, tail)
    BY <1>1, <1>7 DEF CountersInOrder
  <2>2. Dist(cview, tail) \in Nat /\ Dist(head, cview) \in Nat
    BY <1>1, DistZero DEF TypeOK
  <2>3. 1 \in 1 .. Dist(head, tail)
    BY <1>1, <2>1, <2>2
  <2>. QED  BY <1>1, <1>4, <2>3, PlaceEnds
<1>. QED  BY <1>6, <1>7

LEMMA PublishAppends ==
  ASSUME IInv, PushPublish
  PROVE  /\ Content' = Append(Content, pval)
         /\ pval \in Event
         /\ Len(Content) + Dist(tail, pview) < Capacity
         /\ Dist(tail, pview)' = Dist(tail, pview)
<1>1. TypeOK /\ CountersInOrder /\ PublishedWritten
  BY DEF IInv
<1>2. Dist(head, tail) \in Nat /\ Dist(tail, pview) \in Nat
      /\ Dist(head, tail) + Dist(tail, pview) < Capacity
  BY <1>1, DistZero DEF TypeOK, CountersInOrder, PushPublish
<1>3. head' = Inc(head) /\ tail' = tail /\ buf' = buf /\ pview' = pview
  BY DEF PushPublish, consumerVars
<1>4. Dist(head', tail') = Dist(head, tail) + 1
  BY <1>1, <1>2, <1>3, DistIncHead, WrapBound, CapacityAssumption DEF TypeOK
<1>5. buf[Slot(Place(Dist(head, tail) + 1))] = pval /\ pval \in Event
  BY <1>1, PlaceEnds DEF PushPublish, PublishedWritten, TypeOK
<1>6. Content' = [i \in 1 .. Dist(head, tail) + 1 |-> buf[Slot(Place(i))]]
  BY <1>3, <1>4 DEF Content, Place
<1>7. Append(Content, pval)
        = [i \in 1 .. Dist(head, tail) + 1 |->
             IF i <= Dist(head, tail) THEN Content[i] ELSE pval]
  <2>1. pval \in Event \union {NoEvent}
    BY <1>5
  <2>. QED  BY <1>1, <2>1, ContentIsSequence, AppendIsFunction
<1>8. \A i \in 1 .. Dist(head, tail) : Content[i] = buf[Slot(Place(i))]
  BY DEF Content
<1>9. \A i \in 1 .. Dist(head, tail) + 1 :
        buf[Slot(Place(i))] = IF i <= Dist(head, tail) THEN Content[i] ELSE pval
  BY <1>2, <1>5, <1>8
<1>10. Content' = Append(Content, pval)
  BY <1>6, <1>7, <1>9
<1>. QED  BY <1>1, <1>2, <1>3, <1>5, <1>10, ContentIsSequence

LEMMA ReleaseTakesFirst ==
  ASSUME RInv, PopRelease
  PROVE  /\ Content # <<>>
         /\ got' = Head(Content)
         /\ Content' = Tail(Content)
         /\ Dist(tail, pview)' = Dist(tail, pview) + 1
<1>1. TypeOK /\ CountersInOrder /\ cval = buf[Slot(tail)]
  BY DEF RInv, IInv, ReadIsFirst, PopRelease
<1>2. tail' = Inc(tail) /\ head' = head /\ buf' = buf /\ pview' = pview /\ got' = cval
  BY DEF PopRelease, producerVars
<1>3. /\ Dist(head, tail) \in Nat /\ Dist(head, tail) > 0
      /\ Dist(tail, pview) \in Nat /\ Dist(tail, pview) < Wrap - 1
  <2>1. /\ Dist(head, tail) \in Nat /\ Dist(tail, pview) \in Nat
        /\ Dist(head, cview) \in Nat /\ Dist(cview, tail) \in Nat
    BY <1>1, DistZero DEF TypeOK
  <2>2. Dist(cview, tail) > 0
    BY <1>1 DEF CountersInOrder, PopRelease
  <2>. QED  BY <1>1, <2>1, <2>2, WrapBound, CapacityAssumption DEF CountersInOrder
<1>4. Dist(head', tail') = Dist(head, tail) - 1 /\ Dist(tail', pview') = Dist(tail, pview) + 1
  BY <1>1, <1>2, <1>3, DistIncTail, DistIncHead DEF TypeOK
<1>5. Content[1] = buf[Slot(tail)] /\ Len(Content) = Dist(head, tail)
      /\ Content \in Seq(Event \union {NoEvent})
  <2>1. 1 \in 1 .. Dist(head, tail)
    BY <1>3
  <2>. QED  BY <1>1, <2>1, PlaceEnds, ContentIsSequence DEF Content
<1>6. \A i \in 1 .. Dist(head, tail) - 1 : (tail' + i - 1) % Wrap = Place(i + 1)
  <2>. TAKE i \in 1 .. Dist(head, tail) - 1
  <2>1. Dist(head, tail) < Wrap /\ tail \in Index /\ Inc(tail) \in Index
        /\ Inc(tail) = IF tail = Wrap - 1 THEN 0 ELSE tail + 1
    <3>1. Dist(head, tail) \in Index /\ tail \in Index
      BY <1>1, DistCases DEF TypeOK
    <3>. QED  BY <3>1, IncCases, WrapBound DEF Index
  <2>2. i \in Nat /\ i < Wrap /\ i - 1 \in Nat /\ i - 1 < Wrap
    BY <1>3, <2>1, WrapBound
  <2>3. (tail + i) % Wrap = IF tail + i < Wrap THEN tail + i ELSE tail + i - Wrap
    BY <2>1, <2>2, PlaceCases
  <2>4. (Inc(tail) + (i - 1)) % Wrap
          = IF Inc(tail) + (i - 1) < Wrap THEN Inc(tail) + (i - 1)
            ELSE Inc(tail) + (i - 1) - Wrap
    BY <2>1, <2>2, PlaceCases
  <2>5. (tail + i) % Wrap = (Inc(tail) + (i - 1)) % Wrap
    BY <2>1, <2>2, <2>3, <2>4, WrapBound DEF Index
  <2>6. tail' + i - 1 = Inc(tail) + (i - 1) /\ tail + (i + 1) - 1 = tail + i
    BY <1>2, <2>1, <2>2, WrapBound DEF Index
  <2>. QED  BY <2>5, <2>6 DEF Place
<1>7. Content' = [i \in 1 .. Dist(head, tail) - 1 |-> buf[Slot(Place(i + 1))]]
  BY <1>2, <1>4, <1>6 DEF Content, Place
<1>8. \A i \in 1 .. Dist(head, tail) - 1 : Content[i + 1] = buf[Slot(Place(i + 1))]
  BY <1>3 DEF Content
<1>9. Tail(Content) = [i \in 1 .. Dist(head, tail) - 1 |-> Content[i + 1]]
  <2>1. Content # <<>>
    BY <1>3, <1>5
  <2>. QED  BY <1>5, <2>1, TailIsFunction
<1>10. Content' = Tail(Content)
  BY <1>7, <1>8, <1>9
<1>. QED  BY <1>1, <1>2, <1>3, <1>4, <1>5, <1>10

-----------------------------------------------------------------------------

LEMMA ReadStaysFirst == RInv /\ [Next]_vars => RInv'
<1>. SUFFICES ASSUME RInv, [Next]_vars PROVE RInv'
  OBVIOUS
<1>1. IInv'
  <2>1. IInv /\ UNCHANGED vars => IInv'
    BY DEF IInv, TypeOK, CountersInOrder, PublishedWritten, vars, producerVars, consumerVars
  <2>. QED  BY <2>1, ProduceInv, ConsumeInv DEF RInv, Next
<1>2. ReadIsFirst'
  <2>1. CASE PushWrite
    BY <2>1, WriteIsOutside DEF RInv, ReadIsFirst, PushWrite, consumerVars
  <2>2. CASE Produce /\ ~PushWrite
    <3>1. UNCHANGED <<buf, consumerVars>>
      BY <2>2 DEF Produce, PushFull, PushBegin, PushPublish
    <3>. QED  BY <3>1 DEF RInv, ReadIsFirst, consumerVars
  <2>3. CASE Consume
    BY <2>3 DEF Consume, PopEmpty, PopBegin, PopRead, PopRelease, RInv, ReadIsFirst
  <2>4. CASE UNCHANGED vars
    BY <2>4 DEF RInv, ReadIsFirst, vars, consumerVars
  <2>. QED  BY <2>1, <2>2, <2>3, <2>4 DEF Next
<1>. QED  BY <1>1, <1>2 DEF RInv

(* What a load of tail_ may show, counted in pops the producer has not     *)
(* noticed.                                                                *)
LEMMA LoadNotices ==
  ASSUME IInv, NEW t \in Loadable(pview, tail)
  PROVE  /\ t \in Index
         /\ Dist(tail, t) \in 0 .. Dist(tail, pview)
         /\ Dist(head, t) = Dist(head, tail) + Dist(tail, t)
         /\ Dist(head, t) <= Capacity
<1>1. TypeOK /\ CountersInOrder
  BY DEF IInv
<1>2. t \in Index /\ Dist(tail, t) <= Dist(tail, pview)
  BY DEF Loadable
<1>3. /\ Dist(tail, t) \in Nat /\ Dist(tail, pview) \in Nat
      /\ Dist(head, t) \in Nat /\ Dist(head, pview) \in Nat
  BY <1>1, <1>2, DistZero DEF TypeOK
<1>4. Dist(head, t) = Dist(head, tail) + Dist(tail, t) /\ Dist(head, t) <= Dist(head, pview)
  BY <1>1, <1>2, DistThrough DEF TypeOK, CountersInOrder
<1>. QED  BY <1>1, <1>2, <1>3, <1>4, CapacityAssumption DEF CountersInOrder

(* Each access to memory is a step of the abstract queue or is not seen.   *)
LEMMA EachStep == RInv /\ [Next]_vars => [Queue!Next]_(Queue!vars)
<1>. SUFFICES ASSUME RInv, [Next]_vars PROVE [Queue!Next]_(Queue!vars)
  OBVIOUS
<1>. USE DEF Queue!Next, Queue!vars
<1>1. IInv /\ TypeOK /\ Len(Content) = Dist(head, tail)
  BY ContentIsSequence DEF RInv, IInv
<1>2. CASE PushFull
  <2>1. PICK t \in Loadable(pview, tail) : Full(head, t) /\ pview' = t
    BY <1>2 DEF PushFull
  <2>2. UNCHANGED <<head, tail, buf, got>> /\ dropped' = (dropped + 1) % Wrap
    BY <1>2 DEF PushFull, consumerVars
  <2>3. Content' = Content /\ Dist(tail, pview)' = Dist(tail, t)
    BY <2>1, <2>2 DEF Content, Place
  <2>4. Dist(tail, t) \in 0 .. Dist(tail, pview) /\ Len(Content) + Dist(tail, t) = Capacity
    BY <1>1, <2>1, LoadNotices DEF Full
  <2>5. Queue!Refuse
    BY <2>2, <2>3, <2>4 DEF Queue!Refuse, Content, Place
  <2>. QED  BY <2>5
<1>3. ASSUME NEW e \in Event, PushBegin(e) PROVE Queue!Observe
  <2>1. PICK t \in Loadable(pview, tail) : ~Full(head, t) /\ pview' = t
    BY <1>3 DEF PushBegin
  <2>2. UNCHANGED <<head, tail, buf, got, dropped>>
    BY <1>3 DEF PushBegin, consumerVars
  <2>3. Content' = Content /\ Dist(tail, pview)' = Dist(tail, t)
    BY <2>1, <2>2 DEF Content, Place
  <2>4. Dist(tail, t) \in 0 .. Dist(tail, pview) /\ Len(Content) + Dist(tail, t) < Capacity
    <3>1. Dist(head, t) \in Nat
      BY <1>1, LoadNotices, DistZero DEF TypeOK
    <3>. QED  BY <1>1, <2>1, <3>1, LoadNotices, CapacityAssumption DEF Full
  <2>. QED  BY <2>2, <2>3, <2>4 DEF Queue!Observe, Content, Place
<1>4. CASE PushWrite
  <2>1. UNCHANGED <<tail, pview, dropped, got>> /\ Content' = Content
    BY <1>1, <1>4, WriteIsOutside DEF PushWrite, consumerVars
  <2>. QED  BY <2>1 DEF Content, Place
<1>5. CASE PushPublish
  <2>1. UNCHANGED <<dropped, got>>
    BY <1>5 DEF PushPublish, consumerVars
  <2>2. Queue!Push(pval) /\ pval \in Event
    BY <1>1, <1>5, <2>1, PublishAppends DEF Queue!Push, Content, Place
  <2>. QED  BY <2>2
<1>6. CASE PopEmpty \/ PopBegin \/ PopRead \/ UNCHANGED vars
  <2>1. UNCHANGED <<head, tail, buf, pview, dropped, got>>
    BY <1>6 DEF PopEmpty, PopBegin, PopRead, vars, producerVars, consumerVars
  <2>. QED  BY <2>1
<1>7. CASE PopRelease
  <2>1. UNCHANGED dropped
    BY <1>7 DEF PopRelease, producerVars
  <2>2. Queue!Pop
    BY <1>7, <2>1, ReleaseTakesFirst DEF Queue!Pop, Content, Place
  <2>. QED  BY <2>2
<1>. QED  BY <1>2, <1>3, <1>4, <1>5, <1>6, <1>7 DEF Next, Produce, Consume

(* The ring, access by access and with stale loads, is a bounded queue:    *)
(* nothing that was accepted is lost, duplicated, reordered or corrupted,  *)
(* and a push is refused only when every place the producer knows of is    *)
(* taken.                                                                  *)
THEOREM RingIsAQueue == Spec => Queue!Spec
<1>1. Init => RInv /\ Queue!Init
  <2>. SUFFICES ASSUME Init PROVE RInv /\ Queue!Init
    OBVIOUS
  <2>1. IInv
    BY InitInv
  <2>2. Dist(head, tail) = 0 /\ Dist(tail, pview) = 0
    BY <2>1, DistZero DEF Init, IInv, TypeOK
  <2>3. Content = <<>>
    BY <2>2 DEF Content
  <2>. QED  BY <2>1, <2>2, <2>3 DEF Init, RInv, ReadIsFirst, Queue!Init, Content, Place
<1>. QED  BY <1>1, ReadStaysFirst, EachStep, PTL DEF Spec, Queue!Spec

=============================================================================

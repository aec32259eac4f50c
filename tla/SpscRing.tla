------------------------------ MODULE SpscRing ------------------------------
(***************************************************************************)
(* The lock-free single-producer single-consumer ring of                   *)
(* core/include/mm/spsc_ring.hpp, one action per access to memory that the *)
(* two threads share.  The producer is the hook thread (Capture::publish), *)
(* the consumer the broadcaster thread (Broadcaster::run).                 *)
(*                                                                         *)
(* head_ and tail_ are size_t counters that run freely and wrap at 2^w.    *)
(* Here they wrap at Capacity * Laps: all the code needs of 2^w is that    *)
(* the capacity, a power of two, divides it and is smaller.                *)
(*                                                                         *)
(* A thread reads its own counter exactly and the other thread's through   *)
(* an acquire load, which may return any value between the one it returned *)
(* last and the current one (coherence).  The slots are plain memory: an   *)
(* access that overlaps the other thread's access to the same slot would   *)
(* be a data race.                                                         *)
(***************************************************************************)
EXTENDS Integers, Sequences

CONSTANTS
  Event,     (* the values that are queued                                 *)
  Capacity,  (* SpscRing's template parameter                              *)
  Laps,      (* 2^w / Capacity                                             *)
  NoEvent    (* the value-initialised element of buf_                      *)

ASSUME CapacityAssumption == Capacity \in Nat /\ Capacity >= 2
ASSUME LapsAssumption == Laps \in Nat /\ Laps >= 2
ASSUME NoEventAssumption == NoEvent \notin Event

VARIABLES
  head,      (* head_: the number of events published, modulo Wrap         *)
  tail,      (* tail_: the number of events consumed, modulo Wrap          *)
  buf,       (* buf_                                                       *)
  dropped,   (* dropped_                                                   *)
  ppc,       (* what the producer does next                                *)
  pval,      (* the argument of push                                       *)
  pview,     (* the value of tail_ the producer has loaded last            *)
  cpc,       (* what the consumer does next                                *)
  cval,      (* the value the consumer has copied out of its slot          *)
  cview,     (* the value of head_ the consumer has loaded last            *)
  got        (* the event the last successful pop has returned             *)

producerVars == <<head, dropped, ppc, pval, pview>>
consumerVars == <<tail, cpc, cval, cview, got>>
vars == <<producerVars, consumerVars, buf>>

-----------------------------------------------------------------------------

Wrap == Capacity * Laps
Index == 0 .. Wrap - 1
Slots == 0 .. Capacity - 1

(* i + 1 and h - t in the arithmetic of size_t.                            *)
Inc_NoWrap(i) == i + 1
Inc(i) == (i + 1) % Wrap
Dist(h, t) == (h - t) % Wrap

(* i & kMask.                                                              *)
Slot(i) == i % Capacity

Full_OffByOne(h, t) == Dist(h, t) = Capacity + 1
Full(h, t) == Dist(h, t) = Capacity

Empty_Never(h, t) == FALSE
Empty(h, t) == h = t

(* What an acquire load of the other thread's counter may return: a value  *)
(* that counter has had since `view`, up to its current value.             *)
Loadable(view, current) == {i \in Index : Dist(current, i) <= Dist(current, view)}

-----------------------------------------------------------------------------

Init ==
  /\ head = 0
  /\ tail = 0
  /\ buf = [s \in Slots |-> NoEvent]
  /\ dropped = 0
  /\ ppc = "idle"
  /\ pval = NoEvent
  /\ pview = 0
  /\ cpc = "idle"
  /\ cval = NoEvent
  /\ cview = 0
  /\ got = NoEvent

(* push loads tail_ and finds the ring full: it counts a drop.             *)
PushFull ==
  /\ ppc = "idle"
  /\ \E t \in Loadable(pview, tail) : Full(head, t) /\ pview' = t
  /\ dropped' = (dropped + 1) % Wrap
  /\ UNCHANGED <<head, ppc, pval, buf, consumerVars>>

(* push loads tail_ and finds a free slot.                                 *)
PushBegin(e) ==
  /\ ppc = "idle"
  /\ \E t \in Loadable(pview, tail) : ~Full(head, t) /\ pview' = t
  /\ pval' = e
  /\ ppc' = "write"
  /\ UNCHANGED <<head, dropped, buf, consumerVars>>

(* push copies the event into its slot ...                                 *)
PushWrite ==
  /\ ppc = "write"
  /\ buf' = [buf EXCEPT ![Slot(head)] = pval]
  /\ ppc' = "publish"
  /\ UNCHANGED <<head, dropped, pval, pview, consumerVars>>

(* ... and stores head_ with release semantics.                            *)
PushPublish_BeforeWrite ==
  /\ ppc = "write"
  /\ head' = Inc(head)
  /\ ppc' = "idle"
  /\ UNCHANGED <<dropped, pval, pview, buf, consumerVars>>
PushPublish ==
  /\ ppc = "publish"
  /\ head' = Inc(head)
  /\ ppc' = "idle"
  /\ UNCHANGED <<dropped, pval, pview, buf, consumerVars>>

(* pop loads head_ and finds nothing new.                                  *)
PopEmpty ==
  /\ cpc = "idle"
  /\ \E h \in Loadable(cview, head) : Empty(h, tail) /\ cview' = h
  /\ UNCHANGED <<tail, cpc, cval, got, buf, producerVars>>

(* pop loads head_ and finds an event.                                     *)
PopBegin ==
  /\ cpc = "idle"
  /\ \E h \in Loadable(cview, head) : ~Empty(h, tail) /\ cview' = h
  /\ cpc' = "read"
  /\ UNCHANGED <<tail, cval, got, buf, producerVars>>

(* pop copies the event out of its slot ...                                *)
PopRead ==
  /\ cpc = "read"
  /\ cval' = buf[Slot(tail)]
  /\ cpc' = "release"
  /\ UNCHANGED <<tail, cview, got, buf, producerVars>>

(* ... and stores tail_ with release semantics.                            *)
PopRelease_BeforeRead ==
  /\ cpc = "read"
  /\ tail' = Inc(tail)
  /\ cpc' = "idle"
  /\ got' = cval
  /\ UNCHANGED <<cval, cview, buf, producerVars>>
PopRelease ==
  /\ cpc = "release"
  /\ tail' = Inc(tail)
  /\ got' = cval
  /\ cpc' = "idle"
  /\ UNCHANGED <<cval, cview, buf, producerVars>>

Produce == PushFull \/ (\E e \in Event : PushBegin(e)) \/ PushWrite \/ PushPublish
Consume == PopEmpty \/ PopBegin \/ PopRead \/ PopRelease
Next == Produce \/ Consume

Spec == Init /\ [][Next]_vars

(* The broadcaster keeps calling pop, and a store becomes visible to the   *)
(* other thread in finite time.  Nobody has to push.                       *)
FairSpec ==
  /\ Spec
  /\ WF_vars(PopBegin)
  /\ WF_vars(PopRead)
  /\ WF_vars(PopRelease)

-----------------------------------------------------------------------------

(* Every variable has its type.  In particular what pop is about to return *)
(* is an event that was pushed, never a slot that was not written.         *)
TypeOK ==
  /\ head \in Index
  /\ tail \in Index
  /\ buf \in [Slots -> Event \union {NoEvent}]
  /\ dropped \in Index
  /\ ppc \in {"idle", "write", "publish"}
  /\ pval \in Event \union {NoEvent}
  /\ ppc # "idle" => pval \in Event
  /\ pview \in Index
  /\ cpc \in {"idle", "read", "release"}
  /\ cval \in Event \union {NoEvent}
  /\ cpc = "release" => cval \in Event
  /\ cview \in Index
  /\ got \in Event \union {NoEvent}

(* The counters stay in order across every wrap: what the producer has     *)
(* seen of tail_ is behind tail_, tail_ is behind what the consumer has    *)
(* seen of head_, that is behind head_, and head_ is at most Capacity      *)
(* ahead of the tail_ the producer has seen.  The full check of push and   *)
(* the empty check of pop rest on it.                                      *)
CountersInOrder ==
  /\ Dist(head, pview) = Dist(head, tail) + Dist(tail, pview)
  /\ Dist(head, tail) = Dist(head, cview) + Dist(cview, tail)
  /\ Dist(head, pview) <= Capacity
  /\ ppc # "idle" => Dist(head, pview) < Capacity
  /\ cpc # "idle" => Dist(cview, tail) > 0

(* The two threads never access the same slot at the same time: the plain  *)
(* accesses buf_[head & kMask] = value and out = buf_[tail & kMask] do not *)
(* race.                                                                   *)
NoSlotRace == ~(ppc = "write" /\ cpc = "read" /\ Slot(head) = Slot(tail))

(* The slots of the published events hold events, and the slot about to be *)
(* published holds the argument of push.                                   *)
PublishedWritten ==
  /\ \A i \in Index : Dist(i, tail) < Dist(head, tail) => buf[Slot(i)] \in Event
  /\ ppc = "publish" => buf[Slot(head)] = pval

(* The ring is a bounded FIFO queue without blocking: no event is lost     *)
(* once accepted, duplicated, reordered or corrupted, a push is refused    *)
(* only when every place the producer knows of is taken, and an accepted   *)
(* event is eventually popped.                                             *)
Queue == INSTANCE EventQueue WITH
           queue  <- [i \in 1 .. Dist(head, tail) |-> buf[Slot((tail + i - 1) % Wrap)]],
           unseen <- Dist(tail, pview)

RefinesQueue == Queue!FairSpec

=============================================================================

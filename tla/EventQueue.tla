----------------------------- MODULE EventQueue -----------------------------
(***************************************************************************)
(* What the capture thread and the broadcaster may assume of the ring      *)
(* between them (core/include/mm/spsc_ring.hpp): a bounded FIFO queue that *)
(* never blocks its producer.                                              *)
(*                                                                         *)
(* The producer learns late that the consumer has freed a place: `unseen`  *)
(* counts the pops it has not noticed yet, and each of them still takes a  *)
(* place from the producer's point of view.  A push may therefore be       *)
(* refused although the queue has room, and that is the only way a refusal *)
(* may be unjustified.                                                     *)
(***************************************************************************)
EXTENDS Naturals, Sequences

CONSTANTS
  Event,     (* the values that are queued                                 *)
  Capacity,  (* the number of places                                       *)
  Wrap,      (* counters are kept modulo Wrap                              *)
  NoEvent    (* what a variable of type Event holds before any pop         *)

VARIABLES
  queue,     (* the events accepted and not popped yet                     *)
  unseen,    (* the pops the producer has not noticed                      *)
  dropped,   (* the number of refused pushes, modulo Wrap                  *)
  got        (* the event the last pop returned                            *)

vars == <<queue, unseen, dropped, got>>

Init ==
  /\ queue = <<>>
  /\ unseen = 0
  /\ dropped = 0
  /\ got = NoEvent

(* The producer notices some of the pops, and finds a free place.          *)
Observe ==
  /\ unseen' \in 0 .. unseen
  /\ Len(queue) + unseen' < Capacity
  /\ UNCHANGED <<queue, dropped, got>>

Push(e) ==
  /\ Len(queue) + unseen < Capacity
  /\ queue' = Append(queue, e)
  /\ UNCHANGED <<unseen, dropped, got>>

(* No place is known to be free: the event is counted and forgotten.       *)
Refuse ==
  /\ unseen' \in 0 .. unseen
  /\ Len(queue) + unseen' = Capacity
  /\ dropped' = (dropped + 1) % Wrap
  /\ UNCHANGED <<queue, got>>

Pop ==
  /\ queue # <<>>
  /\ got' = Head(queue)
  /\ queue' = Tail(queue)
  /\ unseen' = unseen + 1
  /\ UNCHANGED dropped

Next ==
  \/ Observe
  \/ \E e \in Event : Push(e)
  \/ Refuse
  \/ Pop

Spec == Init /\ [][Next]_vars

(* A consumer that keeps calling pop gets every accepted event.            *)
FairSpec == Spec /\ WF_vars(Pop)

=============================================================================

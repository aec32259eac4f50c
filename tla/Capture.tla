------------------------------- MODULE Capture -------------------------------
(***************************************************************************)
(* The hook thread: core/src/win/capture.cpp.                              *)
(*                                                                         *)
(* Windows calls the low-level hooks for one event at a time, before the   *)
(* event reaches the foreground window.  The hook drops what the program   *)
(* injected itself, tracks the held keys, publishes each transition to     *)
(* the ring, signals the broadcaster and says whether the key is blocked.  *)
(* The ring is the bounded queue of EventQueue, here without its late      *)
(* view of the consumer.                                                   *)
(***************************************************************************)
EXTENDS Desktop, Dispatch

CONSTANTS
  Keys,            (* the keys of the keyboard that matter                 *)
  Routes,          (* the routing table; the hook blocks what it swallows  *)
  RingCap,         (* the capacity of the ring                             *)
  AcceptForeign,   (* accept_foreign_                                      *)
  WheelDelta       (* the deltas a wheel event carries instead of a point  *)

LButton == 1   (* kVkLButton *)
Buttons == {LButton}

ASSUME CaptureAssumption ==
  /\ Keys \subseteq Nat \ ({NoKey} \union Buttons)
  /\ RingCap \in Nat /\ RingCap >= 2
  /\ AcceptForeign \in BOOLEAN
  /\ WheelDelta \in Nat

VARIABLES
  queue,      (* the ring                                                  *)
  wake,       (* the auto-reset event wake_                                *)
  keys,       (* keys_: the keys the hook believes held                    *)
  inflight,   (* the event the hook handles or Windows has yet to deliver  *)
  lost        (* history: the keys whose last transition was dropped       *)

captureVars == <<queue, wake, keys, inflight, lost>>

NoPoint == <<Other, 0>>
KeyEvent(kind, vk) == [kind |-> kind, vk |-> vk, at |-> NoPoint]
NoEvent == KeyEvent("None", NoKey)

WheelPoint == <<Other, WheelDelta>>

Input(stage, ev, pass) == [stage |-> stage, ev |-> ev, pass |-> pass]
NoInput == Input("none", NoEvent, FALSE)

EventType ==
  [kind : KeyKinds, vk : Keys, at : {NoPoint}]
    \union [kind : ButtonKinds \union {"Wheel"}, vk : Buttons \union {NoKey}, at : Positions]

CaptureTypeOK ==
  /\ queue \in Seq(EventType) /\ Len(queue) <= RingCap
  /\ wake \in BOOLEAN
  /\ keys \subseteq Keys
  /\ inflight.stage \in {"none", "signal", "deliver"}
  /\ inflight.stage # "none" => inflight.ev \in EventType
  /\ inflight.pass \in BOOLEAN
  /\ lost \subseteq Keys

CaptureInit ==
  /\ queue = <<>>
  /\ wake = FALSE
  /\ keys = {}
  /\ inflight = NoInput
  /\ lost = {}

-----------------------------------------------------------------------------

(* What on_key and on_mouse ignore: the program's own output, and other    *)
(* programs' unless asked for.                                             *)
Ignored_OursToo(source) == source = "foreign" /\ ~AcceptForeign
Ignored(source) == source = "ours" \/ (source = "foreign" /\ ~AcceptForeign)

(* publish without the SetEvent: the ring refuses an event when full.      *)
PublishKey_NoCheck(ev) == queue' = Append(queue, ev) /\ lost' = lost \ {ev.vk}
PublishKey(ev) ==
  IF Len(queue) < RingCap
    THEN queue' = Append(queue, ev) /\ lost' = lost \ {ev.vk}
    ELSE queue' = queue /\ lost' = lost \union {ev.vk}

Publishes(source, ev) == ~Ignored(source) /\ Changes(keys, ev)
Blocked(source, ev) == ~Ignored(source) /\ Swallows(Routes, ev.vk)

(* on_key tracks and publishes a transition, and nothing else.             *)
HookKey(source, ev) ==
  IF Publishes(source, ev)
    THEN keys' = Apply(keys, ev) /\ PublishKey(ev)
    ELSE UNCHANGED <<queue, keys, lost>>

(* A key event of the keyboard or of another program enters the hook.      *)
KeyInput(source, ev) ==
  /\ inflight = NoInput
  /\ inflight' =
       LET pass == ~Blocked(source, ev)
       IN  IF Publishes(source, ev) THEN Input("signal", ev, pass)
           ELSE IF pass THEN Input("deliver", ev, TRUE)
           ELSE NoInput
  /\ HookKey(source, ev)
  /\ UNCHANGED wake

(* on_mouse replaces the coordinates of a wheel event by its deltas.       *)
MouseEvent(kind) ==
  IF kind = "Wheel" THEN [kind |-> kind, vk |-> NoKey, at |-> WheelPoint]
                    ELSE [kind |-> kind, vk |-> LButton, at |-> cursor]

(* on_mouse publishes every button and wheel event it does not ignore.     *)
HookMouse(source, ev) ==
  queue' = IF ~Ignored(source) /\ Len(queue) < RingCap THEN Append(queue, ev) ELSE queue

(* A button or wheel event of the user enters the hook, which never blocks *)
(* it.                                                                     *)
MouseInput(kind) ==
  /\ inflight = NoInput
  /\ HookMouse("hardware", MouseEvent(kind))
  /\ inflight' = Input("signal", MouseEvent(kind), TRUE)
  /\ UNCHANGED <<keys, lost, wake>>

(* publish ends with SetEvent, after the push; the hook returns.           *)
Signal_Forgotten ==
  /\ inflight.stage = "signal"
  /\ inflight' = IF inflight.pass THEN [inflight EXCEPT !.stage = "deliver"] ELSE NoInput
  /\ UNCHANGED <<queue, keys, lost, wake, windowVars>>
Signal ==
  /\ inflight.stage = "signal"
  /\ wake' = TRUE
  /\ inflight' = IF inflight.pass THEN [inflight EXCEPT !.stage = "deliver"] ELSE NoInput
  /\ UNCHANGED <<queue, keys, lost, windowVars>>

(* Windows hands a key to the window that is in the foreground now, and a  *)
(* button to the window where it was pressed or released.                  *)
DeliverInput ==
  /\ inflight.stage = "deliver"
  /\ KeyReaches(inflight.ev)
  /\ ButtonReaches(inflight.ev, inflight.ev.at[1])
  /\ inflight' = NoInput
  /\ UNCHANGED <<queue, wake, keys, lost, fg, live, late, faults>>

=============================================================================

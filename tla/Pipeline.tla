------------------------------ MODULE Pipeline ------------------------------
(***************************************************************************)
(* The input pipeline: the user, Windows, the hook thread and the          *)
(* broadcaster thread together.                                            *)
(*                                                                         *)
(* Four history variables record what the properties speak about:          *)
(* `touched`, the keys whose physical state changed while the pipeline was *)
(* busy (or that something other than the user's keyboard changed), and    *)
(* `hand`, the position where the user's own hand put the cursor, with     *)
(* `rushed`, whether the user has used the mouse since while the pipeline  *)
(* was busy; and `halved`, whether some click did not have its press and   *)
(* its release treated alike: a key changed between the two, one of them   *)
(* found the ring full, or the user's hand was on the mouse while a click  *)
(* was being mirrored.                                                     *)
(***************************************************************************)
EXTENDS Broadcaster

CONSTANTS
  Sources,     (* where key events come from besides the program itself    *)
  MouseKinds   (* the kinds of mouse event the user makes                  *)

ASSUME PipelineAssumption ==
  /\ Sources \subseteq {"hardware", "foreign"}
  /\ MouseKinds \subseteq ButtonKinds \union {"Wheel"}

VARIABLES touched, hand, rushed, halved

historyVars == <<touched, hand, rushed, halved>>
vars == <<desktopVars, captureVars, broadcasterVars, historyVars>>

(* Nothing is queued, executed or on its way: the pipeline is at rest.     *)
Quiet == queue = <<>> /\ acts = <<>> /\ inflight = NoInput

TypeOK ==
  /\ DesktopTypeOK
  /\ CaptureTypeOK
  /\ BroadcasterTypeOK
  /\ phys \subseteq Keys \union Buttons
  /\ fgKeys \subseteq Keys
  /\ touched \subseteq Keys
  /\ hand \in Positions
  /\ {rushed, halved} \subseteq BOOLEAN

(* The user may hold keys before the program starts.                       *)
Init ==
  /\ DesktopInit(0) /\ phys \in SUBSET Keys
  /\ CaptureInit
  /\ BroadcasterInit
  /\ touched = phys
  /\ hand = cursor
  /\ rushed = FALSE
  /\ halved = FALSE

-----------------------------------------------------------------------------

(* The user presses, holds down (auto-repeat) or releases a key.           *)
UserKey(kind, k) ==
  /\ kind = "KeyUp" => k \in phys
  /\ KeyInput("hardware", KeyEvent(kind, k))
  /\ phys' = Apply(phys, KeyEvent(kind, k))
  /\ touched' = IF phys' = phys THEN touched
                ELSE IF Quiet THEN touched \ {k} ELSE touched \union {k}
  /\ halved' = (halved \/ (LButton \in phys /\ keys' # keys))
  /\ UNCHANGED <<windowVars, cursor, broadcasterVars, hand, rushed>>

(* Another program injects a key event.                                    *)
ForeignKey(kind, k) ==
  /\ "foreign" \in Sources
  /\ KeyInput("foreign", KeyEvent(kind, k))
  /\ touched' = touched \union {k}
  /\ halved' = (halved \/ (LButton \in phys /\ keys' # keys))
  /\ UNCHANGED <<desktopVars, broadcasterVars, hand, rushed>>

(* The user presses or releases the button, or turns the wheel.            *)
UserMouse(kind) ==
  /\ kind = "MouseDown" => LButton \notin phys
  /\ kind = "MouseUp" => LButton \in phys
  /\ MouseInput(kind)
  /\ phys' = CASE kind = "MouseDown" -> phys \union {LButton}
               [] kind = "MouseUp"   -> phys \ {LButton}
               [] OTHER              -> phys
  /\ rushed' = (rushed \/ ~Quiet)
  /\ halved' = (halved \/ IsMouse(current) \/ queue' = queue)
  /\ UNCHANGED <<windowVars, cursor, broadcasterVars, touched, hand>>

(* The user moves the mouse: on_mouse returns at once, as capture_moves_   *)
(* is off.                                                                 *)
UserMove(p) ==
  /\ inflight = NoInput
  /\ cursor' = <<master, p>> /\ cursor' # cursor
  /\ hand' = cursor'
  /\ rushed' = ~Quiet
  /\ halved' = (halved \/ IsMouse(current))
  /\ UNCHANGED <<phys, windowVars, captureVars, broadcasterVars, touched>>

Hook ==
  /\ Signal \/ DeliverInput
  /\ UNCHANGED <<phys, cursor, broadcasterVars, historyVars>>

(* What the broadcaster does.  A swap moves the keys held at that moment   *)
(* to a client that has not seen them.                                     *)
Broadcast ==
  /\ BroadcasterStep
  /\ touched' = IF Doing("Settle") THEN touched \union (phys \intersect Keys) ELSE touched
  /\ UNCHANGED <<hand, rushed, halved>>

Disturb ==
  /\ \/ LateActivation
     \/ UserSwitch
     \/ \E w \in Instances : WindowDies(w)
  /\ UNCHANGED <<captureVars, broadcasterVars, historyVars>>

Next ==
  \/ \E kind \in KeyKinds, k \in Keys : UserKey(kind, k) \/ ForeignKey(kind, k)
  \/ \E kind \in MouseKinds : UserMouse(kind)
  \/ \E p \in Points : UserMove(p)
  \/ Hook
  \/ Broadcast
  \/ Disturb

Spec == Init /\ [][Next]_vars

(* The broadcaster wakes up every 20 ms at the latest, and the hook thread *)
(* and Windows finish what they have begun; the user may stop at any time. *)
(* SendInput waits for the hook thread, which serves its callers in order: *)
(* however fast the user types, an injection gets its turn.                *)
FairSpec == Spec /\ WF_vars(Hook) /\ SF_vars(Broadcast)

-----------------------------------------------------------------------------
(* Properties that hold.                                                   *)

(* What the broadcaster will believe of key k once it has handled the      *)
(* whole queue: the last queued event of k, if any, decides.               *)
EventsOf(k) == {i \in DOMAIN queue : queue[i].kind \in KeyKinds /\ queue[i].vk = k}
WillBeHeld(k) ==
  \/ EventsOf(k) = {} /\ k \in mkeys
  \/ \E i \in EventsOf(k) : queue[i].kind = "KeyDown" /\ \A j \in EventsOf(k) : j <= i

(* The two copies of the keyboard, keys_ of the hook and master_keys_ of   *)
(* the broadcaster, agree up to the events in the ring for every key whose *)
(* last transition was not dropped: a drop never outlives the next         *)
(* transition of the same key, whatever happens to other keys.             *)
CopiesAgree == \A k \in Keys \ lost : (k \in keys) <=> WillBeHeld(k)

(* The hook believes held only keys the user holds: nothing the program or *)
(* another program injects is taken for the user's, so nothing that is     *)
(* re-asserted can be captured and mirrored again (on_key, kInjectMagic).  *)
NoFeedback == keys \subseteq phys

(* A delivery injects its key or click only while its target is in the     *)
(* foreground, also after an earlier target could not be activated         *)
(* (deliver: "injecting now would hit whatever is foreground instead").    *)
InjectHitsTarget == Doing("Inject") => fg = Head(acts).to

(* Provided no activation failed, the user is on the master between two    *)
(* events, and the held keys are re-asserted there: also after a swap, and *)
(* after events that were delivered to several instances (plan:            *)
(* RestoreFocus before ReassertHeld).                                      *)
FocusReturned == (acts = <<>> \/ Doing("Press")) /\ faults = 0 => fg = master

(* When the pipeline is at rest, the foreground client believes held       *)
(* exactly the keys the user holds, for every key that is not swallowed    *)
(* and whose own transition did not happen in the middle of a cycle: the   *)
(* focus cycles of other keys leave no trace (plan: ReassertHeld).         *)
HeldKeysSurvive ==
  Quiet /\ faults = 0 =>
    \A k \in Keys \ touched :
      ~Swallows(Routes, k) => (k \in fgKeys <=> k \in phys)

(* The broadcaster never waits with an event in the ring and no wake-up    *)
(* set or about to be set (publish: push before SetEvent).                 *)
NoLostWakeup == bpc = "wait" /\ queue # <<>> => wake \/ inflight.stage = "signal"

(* If an instance other than the master is in the foreground between two   *)
(* events, the failure that left it there has been counted.  Without a     *)
(* swap hotkey: the result of the swap's activation is not counted.        *)
StrandedIsCounted ==
  acts = <<>> /\ fg \in Instances \ {master} => failures > 0

(* Between two events the cursor is where the user's hand put it, if the   *)
(* user did not move or click while the pipeline was busy (plan:           *)
(* RestoreCursor).                                                         *)
CursorReturned == acts = <<>> /\ ~rushed => cursor = hand

(* When the pipeline is at rest, a button the user has released is         *)
(* released in every window, and one the user holds is pressed in the      *)
(* master and, if the modifier is held, in all its targets: the two halves *)
(* of a click, each a focus cycle of its own, reach the same windows, and  *)
(* no cursor movement of one click spoils the next (deliver: move, wait,   *)
(* click).  Excluded are the clicks the code treats unevenly (`halved`).   *)
MouseTargets ==
  IF Routes.mouse_strategy = "FocusCycle" /\ Routes.mouse_modifier_vk \in mkeys \union {NoKey}
    THEN Routes.mouse_targets
    ELSE {}
ButtonsMirrored ==
  Quiet /\ faults = 0 /\ ~halved =>
    pressed = IF LButton \in phys THEN {master} \union MouseTargets ELSE {}

(* An upper bound on the steps that are left of a plan: three for each of  *)
(* its actions (bring_to_foreground, the move and the click of a           *)
(* delivery) and for each key that is still to be re-asserted, less those  *)
(* that the first action has behind it.                                    *)
StageOf(a) ==
  CASE a.op = "Deliver"                  -> 2
    [] a.op \in {"Inject", "SwapMaster"} -> 1
    [] OTHER                             -> 0
ToReassert == \E i \in DOMAIN acts : acts[i].op = "ReassertHeld"
Work ==
  LET left == Len(acts) + IF ToReassert THEN Cardinality(mkeys) ELSE 0
  IN  3 * left + IF acts = <<>> THEN 0 ELSE StageOf(Head(acts))

(* Whatever fails, each step of a plan leaves less of it to do, and nobody *)
(* but the broadcaster touches the plan meanwhile: no failed activation is *)
(* retried and no step is put back (deliver, execute).                     *)
PlansShorten == [][IF Execute THEN Work' < Work ELSE acts = <<>> \/ UNCHANGED acts]_vars

(* A key whose state stays the same and whose last transition was not      *)
(* dropped is eventually known to the broadcaster for good.                *)
CopiesConverge ==
  \A k \in Keys :
    /\ <>[](k \in keys /\ k \notin lost) => <>[](k \in mkeys)
    /\ <>[](k \notin keys /\ k \notin lost) => <>[](k \notin mkeys)

(* Whatever fails, the broadcaster comes to the end of every plan.         *)
PlansEnd == []<>(acts = <<>>)

-----------------------------------------------------------------------------
(* What the comments and documents of the code promise and the code does   *)
(* not keep.                                                               *)

(* key_state.hpp, dispatch.hpp: the keys re-asserted on the master are the *)
(* keys that are physically held.                                          *)
ReassertsPhysicalKeys == Quiet => fgKeys \subseteq phys

(* dispatch.hpp: RestoreCursor puts the cursor back where the master had   *)
(* it.  The user only ever points into the master's window, so at rest the *)
(* cursor is there.                                                        *)
CursorOnMaster == Quiet => cursor[1] = master

(* capture.hpp, routing.hpp: the master never sees a hotkey.               *)
HotkeysHidden == \A k \in fgKeys : ~Swallows(Routes, k)

=============================================================================

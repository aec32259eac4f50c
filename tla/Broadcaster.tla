----------------------------- MODULE Broadcaster -----------------------------
(***************************************************************************)
(* The broadcaster thread: core/src/win/broadcaster.cpp, with the swap     *)
(* callback of core/tools/mm_core.cpp it runs.                             *)
(*                                                                         *)
(* The thread waits for the wake event or 20 ms, drains the ring, turns    *)
(* each event into a plan and executes the plan action by action.  An      *)
(* action of the plan that itself makes several calls whose order matters  *)
(* is replaced by its steps: a delivery by bring_to_foreground and then    *)
(* an injection, ReassertHeld by one injection per held key.               *)
(* The strings `op` of the steps:                                          *)
(*   Deliver, RestoreFocus, RestoreCursor, ReassertHeld, SwapMaster        *)
(*            the actions of plan()                                        *)
(*   Inject   send_key, or the move of the mouse, of a delivery to `to`    *)
(*   Click    the button or wheel event that follows the move              *)
(*   Press    send_key down of the held key `to`                           *)
(*   Settle   bring_to_foreground of the new master and refresh_config     *)
(***************************************************************************)
EXTENDS Capture

CONSTANT MaxCount   (* bound on the counter of focus failures              *)

ASSUME BroadcasterAssumption == MaxCount \in Nat \ {0}

VARIABLES
  bpc,       (* "wait" in WaitForSingleObject, "drain" in the inner loop   *)
  current,   (* the event being handled, NoEvent between events            *)
  acts,      (* the steps of its plan that are left                        *)
  mkeys,     (* master_keys_                                               *)
  master,    (* master_                                                    *)
  failures   (* stats_.focus_failures, saturating at MaxCount              *)

broadcasterVars == <<bpc, current, acts, mkeys, master, failures>>

Step(op, to) == Action(op, to, "FocusCycle")

BroadcasterTypeOK ==
  /\ bpc \in {"wait", "drain"}
  /\ current \in EventType \union {NoEvent}
  /\ \A i \in DOMAIN acts :
       /\ acts[i].op \in {"Deliver", "Inject", "Click", "Settle"} => acts[i].to \in Instances
       /\ acts[i].op = "Press" => acts[i].to \in mkeys
  /\ mkeys \subseteq Keys
  /\ master \in Instances
  /\ failures \in 0 .. MaxCount
  /\ acts # <<>> => bpc = "drain" /\ current # NoEvent

BroadcasterInit ==
  /\ bpc = "wait"
  /\ current = NoEvent
  /\ acts = <<>>
  /\ mkeys = {}
  /\ master = 0
  /\ failures = 0

-----------------------------------------------------------------------------

(* The wait ends with the event, which resets it, or after 20 ms.          *)
Wake ==
  /\ bpc = "wait"
  /\ bpc' = "drain"
  /\ wake' = FALSE
  /\ UNCHANGED <<desktopVars, queue, keys, inflight, lost>>
  /\ UNCHANGED <<current, acts, mkeys, master, failures>>

(* pop fails: the drain is over.                                           *)
Drained ==
  /\ bpc = "drain" /\ acts = <<>> /\ queue = <<>>
  /\ bpc' = "wait"
  /\ UNCHANGED <<desktopVars, captureVars>>
  /\ UNCHANGED <<current, acts, mkeys, master, failures>>

(* handle(): the held keys are updated before the plan is made.            *)
MasterKeys_Late(ev) == mkeys
MasterKeys(ev) == Apply(mkeys, ev)

Handle ==
  /\ bpc = "drain" /\ acts = <<>> /\ queue # <<>>
  /\ LET ev == Head(queue)
         todo == Plan(ev, Routes, live, master, MasterKeys(ev))
     IN  /\ mkeys' = MasterKeys(ev)
         /\ acts' = todo
         /\ current' = IF todo = <<>> THEN NoEvent ELSE ev
  /\ queue' = Tail(queue)
  /\ UNCHANGED <<desktopVars, wake, keys, inflight, lost>>
  /\ UNCHANGED <<bpc, master, failures>>

-----------------------------------------------------------------------------
(* Executing the plan.                                                     *)

Doing(op) == acts # <<>> /\ Head(acts).op = op

(* The first step is done and `steps` come before the others.              *)
Then(steps) ==
  /\ acts' = steps \o Tail(acts)
  /\ current' = IF acts' = <<>> THEN NoEvent ELSE current

CountFailure == failures' = IF failures < MaxCount THEN failures + 1 ELSE failures

(* deliver(), FocusCycle: nothing is injected unless the target is in the  *)
(* foreground.                                                             *)
Deliver_Anyway(to) ==
  \/ /\ BringSucceeds(to)
     /\ Then(<<Step("Inject", to)>>)
     /\ UNCHANGED failures
  \/ /\ BringFails(to)
     /\ Then(<<Step("Inject", to)>>)
     /\ CountFailure
Deliver(to) ==
  \/ /\ BringSucceeds(to)
     /\ Then(<<Step("Inject", to)>>)
     /\ UNCHANGED failures
  \/ /\ BringFails(to)
     /\ Then(<<>>)
     /\ CountFailure

DeliverByFocus ==
  /\ Doing("Deliver") /\ Head(acts).strategy = "FocusCycle"
  /\ Deliver(Head(acts).to)
  /\ UNCHANGED <<phys, cursor, captureVars, bpc, mkeys, master>>

(* deliver(), WindowMessage: the message is posted without a change of     *)
(* focus, and the client ignores it for its held keys.                     *)
DeliverByMessage ==
  /\ Doing("Deliver") /\ Head(acts).strategy = "WindowMessage"
  /\ Then(<<>>)
  /\ UNCHANGED <<desktopVars, captureVars, bpc, mkeys, master, failures>>

(* SendInput returns after the event, marked as ours, has passed the hook, *)
(* whose thread has to be free.                                            *)
HookFree == inflight.stage # "signal"

(* SendInput of a key: it reaches the foreground window.                   *)
SendKey(ev) ==
  /\ HookFree
  /\ HookKey("ours", ev)
  /\ IF Blocked("ours", ev) THEN UNCHANGED fgKeys ELSE KeyReaches(ev)
  /\ UNCHANGED <<wake, inflight>>

InjectKey ==
  /\ Doing("Inject") /\ IsKey(current)
  /\ SendKey(current)
  /\ Then(<<>>)
  /\ UNCHANGED <<phys, fg, pressed, live, late, faults, cursor, bpc, mkeys, master, failures>>

(* SendInput of a move of the mouse.                                       *)
MoveCursor(p) == HookFree /\ cursor' = p

(* denormalize(target, normalize(master, p)): the same place in the        *)
(* target's client area.                                                   *)
Mirror(to, p) == <<to, p[2]>>

(* The cursor is put over the same place of the target...                  *)
InjectMouse_Unmapped ==
  /\ Doing("Inject") /\ IsMouse(current)
  /\ MoveCursor(current.at)
  /\ Then(<<Step("Click", Head(acts).to)>>)
  /\ UNCHANGED <<phys, windowVars, captureVars, bpc, mkeys, master, failures>>
InjectMouse ==
  /\ Doing("Inject") /\ IsMouse(current)
  /\ MoveCursor(Mirror(Head(acts).to, current.at))
  /\ Then(<<Step("Click", Head(acts).to)>>)
  /\ UNCHANGED <<phys, windowVars, captureVars, bpc, mkeys, master, failures>>

(* ... and, after click_settle_ms, the button or the wheel is injected     *)
(* wherever the cursor is by then.  The event passes the hook as well.     *)
Click ==
  /\ Doing("Click") /\ HookFree
  /\ HookMouse("ours", MouseEvent(current.kind))
  /\ ButtonReaches(current, cursor[1])
  /\ Then(<<>>)
  /\ UNCHANGED <<phys, cursor, fg, fgKeys, live, late, faults, wake, keys, inflight, lost>>
  /\ UNCHANGED <<bpc, mkeys, master, failures>>

RestoreCursor ==
  /\ Doing("RestoreCursor")
  /\ MoveCursor(current.at)
  /\ Then(<<>>)
  /\ UNCHANGED <<phys, windowVars, captureVars, bpc, mkeys, master, failures>>

(* A failure to return to the master is counted and the plan goes on.      *)
ReturnToMaster_Uncounted ==
  /\ Then(<<>>)
  /\ BringSucceeds(master) \/ BringFails(master)
  /\ UNCHANGED failures
ReturnToMaster_Retries ==
  \/ BringSucceeds(master) /\ Then(<<>>) /\ UNCHANGED failures
  \/ BringFails(master) /\ UNCHANGED <<acts, current>> /\ CountFailure
ReturnToMaster ==
  /\ Then(<<>>)
  /\ \/ BringSucceeds(master) /\ UNCHANGED failures
     \/ BringFails(master) /\ CountFailure

RestoreFocus ==
  /\ Doing("RestoreFocus")
  /\ ReturnToMaster
  /\ UNCHANGED <<phys, cursor, captureVars, bpc, mkeys, master>>

(* reassert_held(): the keys of master_keys_ in the order of their codes.  *)
ReassertHeld ==
  /\ Doing("ReassertHeld")
  /\ LET order == Ordered(mkeys)
     IN  Then([i \in DOMAIN order |-> Step("Press", order[i])])
  /\ UNCHANGED <<desktopVars, captureVars, bpc, mkeys, master, failures>>

Press ==
  /\ Doing("Press")
  /\ SendKey(KeyEvent("KeyDown", Head(acts).to))
  /\ Then(<<>>)
  /\ UNCHANGED <<phys, fg, pressed, live, late, faults, cursor, bpc, mkeys, master, failures>>

-----------------------------------------------------------------------------
(* The swap callback: the next instance not known to have exited, counting *)
(* from the master, becomes the master.  The watchdog may not have noticed *)
(* every death yet.                                                        *)
NextMaster(next, exited) ==
  LET after(i) == (master + i) % N
  IN  \E i \in 1 .. N :
        /\ next = after(i)
        /\ next \notin exited \/ i = N
        /\ \A j \in 1 .. i - 1 : after(j) \in exited

SwapMaster ==
  /\ Doing("SwapMaster")
  /\ \E exited \in SUBSET (Instances \ live), next \in Instances :
       NextMaster(next, exited) /\ Then(<<Step("Settle", next)>>)
  /\ UNCHANGED <<desktopVars, captureVars, bpc, mkeys, master, failures>>

(* The callback ends with bring_to_foreground, whose result it ignores;    *)
(* refresh_config then makes the new master this thread's master.          *)
Settle_KeepsMaster ==
  /\ Doing("Settle")
  /\ LET next == Head(acts).to
     IN  (BringSucceeds(next) \/ BringFails(next))
  /\ Then(<<>>)
  /\ UNCHANGED <<phys, cursor, captureVars, bpc, mkeys, master, failures>>
Settle ==
  /\ Doing("Settle")
  /\ LET next == Head(acts).to
     IN  (BringSucceeds(next) \/ BringFails(next)) /\ master' = next
  /\ Then(<<>>)
  /\ UNCHANGED <<phys, cursor, captureVars, bpc, mkeys, failures>>

Execute ==
  \/ DeliverByFocus \/ DeliverByMessage
  \/ InjectKey \/ InjectMouse \/ Click
  \/ RestoreCursor \/ RestoreFocus
  \/ ReassertHeld \/ Press
  \/ SwapMaster \/ Settle

BroadcasterStep == Wake \/ Drained \/ Handle \/ Execute

=============================================================================

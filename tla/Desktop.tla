------------------------------- MODULE Desktop -------------------------------
(***************************************************************************)
(* The part of Windows and of the game clients the pipeline acts upon,     *)
(* modelled from how the code uses it.                                     *)
(*                                                                         *)
(* One window is in the foreground and receives the keyboard.  A client    *)
(* forgets every held key when it loses the foreground                     *)
(* (docs/M0-FINDINGS.md), so only the foreground window holds any.  What   *)
(* it does with a held button is not measured: `pressed` keeps, for every  *)
(* window, whether its last button event was a press.                      *)
(* bring_to_foreground (core/src/win/focus.cpp) may fail, and an           *)
(* activation it has given up waiting for may still land later.  Windows   *)
(* may die, and the user may switch to another window.  These disturbances *)
(* are counted in `faults` and bounded by MaxFaults.                       *)
(***************************************************************************)
EXTENDS InputEvents, FiniteSets

CONSTANTS
  N,          (* the number of instances                                   *)
  Points,     (* positions inside a client area the user points at         *)
  FaultKinds, (* which disturbances happen: a subset of AllFaults          *)
  MaxFaults   (* bound on the number of disturbances                       *)

AllFaults == {"fail", "late", "switch", "die"}

ASSUME DesktopAssumption ==
  /\ N \in Nat /\ N >= 1
  /\ Points \subseteq Nat /\ Points # {}
  /\ FaultKinds \subseteq AllFaults
  /\ MaxFaults \in Nat

Instances == 0 .. N - 1
Other == N           (* a window that belongs to no instance               *)
NoWindow == N + 1
Windows == Instances \union {Other}

(* A cursor position is a point in the client area of a window.            *)
Positions == Windows \X Nat

VARIABLES
  phys,    (* the keys and the button the user physically holds            *)
  fg,      (* the foreground window                                        *)
  fgKeys,  (* the keys the foreground client believes held                 *)
  pressed, (* the instances whose last button event was a press            *)
  cursor,  (* the position of the cursor                                   *)
  live,    (* the instances whose window exists                            *)
  late,    (* the window of an abandoned activation, or NoWindow           *)
  faults   (* the number of disturbances so far                            *)

windowVars == <<fg, fgKeys, pressed, live, late, faults>>
desktopVars == <<phys, windowVars, cursor>>

DesktopTypeOK ==
  /\ fg \in Windows
  /\ cursor \in Positions
  /\ pressed \subseteq live
  /\ live \subseteq Instances
  /\ late \in Instances \union {NoWindow}
  /\ faults \in 0 .. MaxFaults

(* All windows exist, and the master has just been brought to the          *)
(* foreground.                                                             *)
DesktopInit(master) ==
  /\ fg = master
  /\ fgKeys = {}
  /\ pressed = {}
  /\ cursor \in {master} \X Points
  /\ live = Instances
  /\ late = NoWindow
  /\ faults = 0

-----------------------------------------------------------------------------

Fault(kind) == kind \in FaultKinds /\ faults < MaxFaults /\ faults' = faults + 1

(* A window that comes to the foreground starts without held keys.         *)
Activate(w) ==
  /\ fg' = w
  /\ fgKeys' = IF fg = w THEN fgKeys ELSE {}

(* bring_to_foreground returns true: the window already was in the         *)
(* foreground or one of the two attempts put it there in time.             *)
BringSucceeds(w) ==
  /\ w \in live
  /\ Activate(w)
  /\ UNCHANGED <<pressed, live, late, faults>>

(* bring_to_foreground returns false: the window is dead, or both attempts *)
(* timed out; then an activation may still be on its way.                  *)
BringFails(w) ==
  \/ /\ w \notin live
     /\ UNCHANGED windowVars
  \/ /\ w \in live /\ fg # w
     /\ Fault("fail")
     /\ late' \in {late} \union (IF "late" \in FaultKinds THEN {w} ELSE {})
     /\ UNCHANGED <<fg, fgKeys, pressed, live>>

(* An activation that bring_to_foreground has given up on lands.           *)
LateActivation ==
  /\ late \in live
  /\ Activate(late)
  /\ late' = NoWindow
  /\ UNCHANGED <<phys, cursor, pressed, live, faults>>

(* The user switches to another window.                                    *)
UserSwitch ==
  /\ Fault("switch")
  /\ \E w \in (live \union {Other}) \ {fg} : Activate(w)
  /\ UNCHANGED <<phys, cursor, pressed, live, late>>

(* A client dies; its window goes with it.                                 *)
WindowDies(w) ==
  /\ w \in live
  /\ Fault("die")
  /\ live' = live \ {w}
  /\ pressed' = pressed \ {w}
  /\ IF fg = w THEN Activate(Other) ELSE UNCHANGED <<fg, fgKeys>>
  /\ late' = IF late = w THEN NoWindow ELSE late
  /\ UNCHANGED <<phys, cursor>>

(* A key event reaches the foreground window.                              *)
KeyReaches(ev) == fgKeys' = IF fg \in Instances THEN Apply(fgKeys, ev) ELSE fgKeys

(* A button event reaches window w, which need not be the foreground one.  *)
ButtonReaches(ev, w) ==
  pressed' = CASE ev.kind = "MouseDown" -> pressed \union ({w} \intersect live)
               [] ev.kind = "MouseUp"   -> pressed \ {w}
               [] OTHER                 -> pressed

=============================================================================

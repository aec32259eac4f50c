----------------------------- MODULE InputEvents -----------------------------
(***************************************************************************)
(* Input events and the set of held keys: core/include/mm/input_event.hpp  *)
(* and core/include/mm/key_state.hpp.                                      *)
(*                                                                         *)
(* A virtual key is a natural number.  An event keeps its kind, its key or *)
(* button and its two coordinates x and y, here one point `at`; the time   *)
(* stamp, the scan code and the flags play no part in any decision.        *)
(* KeyState is the set of the keys that are down: held_ is its             *)
(* cardinality.                                                            *)
(***************************************************************************)
EXTENDS Naturals

KeyKinds == {"KeyDown", "KeyUp"}
ButtonKinds == {"MouseDown", "MouseUp"}

IsKey(ev) == ev.kind \in KeyKinds
IsMouse(ev) == ev.kind \in ButtonKinds \union {"Wheel"}

(* KeyState::apply: a repeated KeyDown, a stray KeyUp and anything that is *)
(* not a key change nothing, and the caller is told so.                    *)
Apply(held, ev) ==
  CASE ev.kind = "KeyDown" -> held \union {ev.vk}
    [] ev.kind = "KeyUp"   -> held \ {ev.vk}
    [] OTHER               -> held

Changes(held, ev) == Apply(held, ev) # held

=============================================================================

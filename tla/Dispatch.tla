------------------------------ MODULE Dispatch ------------------------------
(***************************************************************************)
(* Which captured event goes to which instance, and what has to be         *)
(* repaired afterwards: core/include/mm/routing.hpp and                    *)
(* core/include/mm/dispatch.hpp.                                           *)
(*                                                                         *)
(* Routes is a record.  keys maps each bound key to its binding;           *)
(* index_ and keys_ of the code are one function here.  A key 0 is no key. *)
(***************************************************************************)
EXTENDS InputEvents, Sequences, FiniteSets

Strategies == {"FocusCycle", "WindowMessage"}
NoKey == 0

(* Routes::add_key adds or replaces the binding of a key.                  *)
AddKey(routes, vk, binding) ==
  [routes EXCEPT !.keys =
     [k \in DOMAIN @ \union {vk} |-> IF k = vk THEN binding ELSE @[k]]]

(* Routes::find returns a binding.                                         *)
Bound(routes, vk) == vk \in DOMAIN routes.keys

(* Routes::swallows: the keys the master never sees.                       *)
Swallows(routes, vk) ==
  \/ vk = routes.swap_hotkey_vk /\ vk # NoKey
  \/ Bound(routes, vk) /\ routes.keys[vk].swallow

-----------------------------------------------------------------------------

(* One action of a plan; `to` is used by Deliver only.                     *)
Action(op, to, strategy) == [op |-> op, to |-> to, strategy |-> strategy]
Do(op) == Action(op, 0, "FocusCycle")

(* The numbers of a set in ascending order: the i-th has i - 1 below it.   *)
Ordered(S) ==
  [i \in 1 .. Cardinality(S) |-> CHOOSE x \in S : Cardinality({y \in S : y < x}) = i - 1]

(* detail::add_deliveries: the live targets other than the master, in the  *)
(* order of their indices.                                                 *)
Deliveries(targets, alive, master, strategy) ==
  LET order == Ordered((targets \intersect alive) \ {master})
  IN  [i \in DOMAIN order |-> Action("Deliver", order[i], strategy)]

(* What follows the deliveries of a focus cycle.                           *)
Repair_NoReassert(held) == <<Do("RestoreFocus")>>
Repair(held) ==
  <<Do("RestoreFocus")>> \o (IF held # {} THEN <<Do("ReassertHeld")>> ELSE <<>>)

PlanKey(ev, routes, alive, master, held) ==
  IF routes.swap_hotkey_vk # NoKey /\ ev.vk = routes.swap_hotkey_vk
    THEN IF ev.kind = "KeyDown" THEN <<Do("SwapMaster")>> ELSE <<>>
  ELSE IF ~Bound(routes, ev.vk) THEN <<>>
  ELSE LET b == routes.keys[ev.vk]
           deliveries == Deliveries(b.targets, alive, master, b.strategy)
       IN  IF deliveries # <<>> /\ b.strategy = "FocusCycle"
             THEN deliveries \o Repair(held)
             ELSE deliveries

PlanMouse_NoCursor(ev, routes, alive, master, held) ==
  IF routes.mouse_modifier_vk # NoKey /\ routes.mouse_modifier_vk \notin held
    THEN <<>>
    ELSE LET deliveries == Deliveries(routes.mouse_targets, alive, master, routes.mouse_strategy)
         IN  IF deliveries = <<>> THEN <<>> ELSE deliveries \o Repair(held)
PlanMouse(ev, routes, alive, master, held) ==
  IF routes.mouse_modifier_vk # NoKey /\ routes.mouse_modifier_vk \notin held
    THEN <<>>
    ELSE LET deliveries ==
               Deliveries(routes.mouse_targets, alive, master, routes.mouse_strategy)
         IN  IF deliveries # <<>> /\ routes.mouse_strategy = "FocusCycle"
               THEN deliveries \o <<Do("RestoreCursor")>> \o Repair(held)
               ELSE deliveries

(* plan(): `held` already reflects ev.  Moves of the mouse are never       *)
(* broadcast.                                                              *)
Plan(ev, routes, alive, master, held) ==
  CASE IsKey(ev)   -> PlanKey(ev, routes, alive, master, held)
    [] IsMouse(ev) -> PlanMouse(ev, routes, alive, master, held)
    [] OTHER       -> <<>>

=============================================================================

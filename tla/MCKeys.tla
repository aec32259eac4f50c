------------------------------- MODULE MCKeys -------------------------------
(* The keyboard side of the pipeline: a mirrored key, a key that is not    *)
(* mirrored (or is mirrored by messages) and the swap hotkey.              *)
EXTENDS Pipeline

Mirrored == 2    (* bound to all instances *)
Plain == 3       (* not bound              *)
Swap == 4        (* the swap hotkey        *)

ToAll(strategy) == [targets |-> Instances, strategy |-> strategy, swallow |-> FALSE]
NoRoutes ==
  [keys |-> [k \in {} |-> ToAll("FocusCycle")], mouse_targets |-> {},
   mouse_modifier_vk |-> NoKey, mouse_strategy |-> "FocusCycle", swap_hotkey_vk |-> NoKey]

OneBinding == AddKey(NoRoutes, Mirrored, ToAll("FocusCycle"))
WithSwap == [OneBinding EXCEPT !.swap_hotkey_vk = Swap]

Mixed == AddKey(OneBinding, Plain, ToAll("WindowMessage"))

NoFaults == {}
NoMouse == {}
Fails == {"fail"}
Deaths == {"die"}
Hardware == {"hardware"}
AllSources == {"hardware", "foreign"}
TwoKeys == {Mirrored, Plain}
SwapKeys == {Mirrored, Swap}
OnePoint == {1}
=============================================================================

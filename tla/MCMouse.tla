------------------------------ MODULE MCMouse ------------------------------
(* The mouse side of the pipeline: one button and the wheel, mirrored while *)
(* the modifier key is held, and no mirrored key.                          *)
EXTENDS Pipeline

Modifier == 2

Mirroring ==
  [keys |-> [k \in {} |-> NoKey], mouse_targets |-> Instances,
   mouse_modifier_vk |-> Modifier, mouse_strategy |-> "FocusCycle", swap_hotkey_vk |-> NoKey]

OneKey == {Modifier}
OnePoint == {1}
Hardware == {"hardware"}
Button == {"MouseDown", "MouseUp"}
Wheel == {"Wheel"}
NoFaults == {}
NotSwitch == AllFaults \ {"switch"}
=============================================================================

------------------------------ MODULE MCInput ------------------------------
(***************************************************************************)
(* The keyboard driver and the gestures of the touchpad.  Of key presses   *)
(* the touchpad driver only learns when they were made, which its model    *)
(* leaves open: a behaviour is one of one device, the other rests.         *)
(***************************************************************************)
EXTENDS PS2Keyboard, SynapticsTouchPad

VARIABLE device   \* the device whose behaviour it is

Setting(scroll, gestures, drag) ==
  [scroll |-> scroll, horizontal |-> TRUE, gestures |-> gestures, clicking |-> TRUE,
   dragging |-> drag, dragLock |-> drag, secondaryClick |-> TRUE]
MCPrefs == {Setting("twoFinger", "enabled", TRUE), Setting("edge", "scroll", TRUE)}

inputInit ==
  /\ device \in {"keyboard", "touchpad"}
  /\ Init /\ padInit
  /\ device = "keyboard" => pref.scroll = "edge"

inputNext ==
  \/ device = "keyboard" /\ Next /\ UNCHANGED <<device, padVars>>
  \/ device = "touchpad" /\ padNext /\ UNCHANGED <<device, vars>>

inputSpec == inputInit /\ [][inputNext]_<<device, vars, padVars>>

=============================================================================

------------------------------ MODULE MCInputs ------------------------------
(***************************************************************************)
(* The two input devices for TLC.  They share nothing, so a behaviour is   *)
(* followed on one of them while the other stands still.                   *)
(***************************************************************************)
EXTENDS HidKeyboard, Button

CONSTANTS LongKeyCell, Plus, F11

VARIABLE followed   \* "keyboard" or "button"

inputsVars == <<followed, hidVars, buttonVars>>

OnKeyboard == followed = "keyboard"
OnButton   == followed = "button"

\* Every cell has the same key; one has a key for a long press, too.
MCShortKey == [c \in Cells |-> Plus]
MCLongKey  == [c \in Cells |-> IF c = LongKeyCell THEN F11 ELSE NoKey]
MCMotions  == {-2, 1}
MCEvents   == {Pressed, Released}

MCInit ==
  /\ followed \in {"keyboard", "button"}
  /\ HidInit /\ (OnButton => transport = "usb")
  /\ ButtonInit /\ (OnKeyboard => level = ActiveLevel /\ interruptEnabled)

MCNext ==
  \/ OnKeyboard /\ HidNext /\ UNCHANGED <<followed, buttonVars>>
  \/ OnButton /\ ButtonNext /\ UNCHANGED <<followed, hidVars>>

\* The scan task runs.  An interface asked again and again whether it is ready
\* says yes some day, and a report sent again and again gets through some day.
KeyboardFairness ==
  /\ WF_hidVars(OnKeyboard /\ Pass)
  /\ SF_hidVars(OnKeyboard /\ Ready)
  /\ SF_hidVars(OnKeyboard /\ SendMouse)
  /\ SF_hidVars(OnKeyboard /\ SendKeys)

\* The application calls update() in its loop, and time passes.
ButtonFairness ==
  /\ WF_buttonVars(OnButton /\ Update)
  /\ WF_buttonVars(OnButton /\ Tick)

MCSpec == MCInit /\ [][MCNext]_inputsVars /\ KeyboardFairness /\ ButtonFairness

\* The type invariants of the two devices.
InputsTypeOK == HidTypeOK /\ ButtonTypeOK
=============================================================================

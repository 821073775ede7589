---------------------------- MODULE GamepadReport ---------------------------
(***************************************************************************)
(* The gamepad encoder (hid_gamepad.c): events edit the report in place.   *)
(* The four direction buttons are kept in a static variable of their own   *)
(* and become one hat field.                                               *)
(***************************************************************************)
EXTENDS Integers

CONSTANTS
  Buttons,   \* buttons of button_map
  AxisValues \* values an axis reports

ASSUME AxisAssumption == AxisValues \subseteq Nat

VARIABLES
  sent,    \* the report has been filled in, and goes to the host
  hatBits, \* hat_bits
  hat,     \* report->hat
  buttons, \* report->buttons
  x,       \* report->x; the other axes are alike
  heldButtons,    \* direction buttons and buttons that are down (history)
  dpad     \* a direction button was ever used (history)

padvars == <<sent, hatBits, hat, buttons, x, heldButtons, dpad>>

DpadUp == "up"
DpadDown == "down"
DpadLeft == "left"
DpadRight == "right"
Directions == {DpadUp, DpadDown, DpadLeft, DpadRight}

PadInit ==
  /\ sent = FALSE
  /\ hatBits = {} /\ hat = 0 /\ buttons = {} /\ x = 0
  /\ heldButtons = {} /\ dpad = FALSE

ButtonWritten(set, k, down) == IF down THEN set \union {k} ELSE set \ {k}

\* The switch of hid_gamepad_set_hat.
HatOf(bits) ==
  CASE bits = {DpadUp} -> 0
    [] bits = {DpadUp, DpadRight} -> 1
    [] bits = {DpadRight} -> 2
    [] bits = {DpadRight, DpadDown} -> 3
    [] bits = {DpadDown} -> 4
    [] bits = {DpadDown, DpadLeft} -> 5
    [] bits = {DpadLeft} -> 6
    [] bits = {DpadLeft, DpadUp} -> 7
    [] OTHER -> 8

\* hid_gamepad_set_hat
DpadEvent(d, down) ==
  /\ hatBits' = ButtonWritten(hatBits, d, down)
  /\ hat' = HatOf(hatBits')
  /\ dpad' = TRUE
  /\ UNCHANGED <<buttons, x>>

\* hid_gamepad_set_key
ButtonEvent(b, down) ==
  /\ buttons' = ButtonWritten(buttons, b, down)
  /\ UNCHANGED <<hatBits, hat, x, dpad>>

\* A key event of the device: one that comes with a change of the contact.
KeyEvent(k, down) ==
  /\ down # (k \in heldButtons)
  /\ heldButtons' = ButtonWritten(heldButtons, k, down)
  /\ IF k \in Directions THEN DpadEvent(k, down) ELSE ButtonEvent(k, down)
  /\ sent' = TRUE

\* The clamp of hid_gamepad_set_abs.
ClampedAxis(v) == IF v > 255 THEN 255 ELSE v

\* hid_gamepad_set_abs
AbsEvent(v) ==
  /\ x' = ClampedAxis(v)
  /\ sent' = TRUE
  /\ UNCHANGED <<hatBits, hat, buttons, heldButtons, dpad>>

PadNext ==
  \/ \E k \in Directions \union Buttons, down \in BOOLEAN : KeyEvent(k, down)
  \/ \E v \in AxisValues : AbsEvent(v)
-----------------------------------------------------------------------------
GamepadTypeOK ==
  /\ sent \in BOOLEAN /\ dpad \in BOOLEAN
  /\ hatBits \subseteq Directions /\ buttons \subseteq Buttons
  /\ hat \in 0 .. 8
  /\ x \in 0 .. 255

\* The components of a direction, to the right and up, of the held buttons.
Component(pos, neg) ==
  (IF pos \in heldButtons THEN 1 ELSE 0) - (IF neg \in heldButtons THEN 1 ELSE 0)

\* ... and of a hat value: the direction is h times 45 degrees clockwise from up.
HatRight(h) == IF h \in 1 .. 3 THEN 1 ELSE IF h \in 5 .. 7 THEN -1 ELSE 0
HatUp(h) == IF h \in {7, 0, 1} THEN 1 ELSE IF h \in 3 .. 5 THEN -1 ELSE 0

Opposed == {DpadUp, DpadDown} \subseteq heldButtons \/ {DpadLeft, DpadRight} \subseteq heldButtons

(***************************************************************************)
(* The hat points where the held direction buttons do, in steps of 45      *)
(* degrees; it is centred exactly when none or opposed ones are held.      *)
(***************************************************************************)
HatPoints ==
  dpad =>
    IF heldButtons \intersect Directions = {} \/ Opposed THEN hat = 8
    ELSE /\ hat \in 0 .. 7
         /\ HatRight(hat) = Component(DpadRight, DpadLeft)
         /\ HatUp(hat) = Component(DpadUp, DpadDown)

(***************************************************************************)
(* The fields stay in the ranges of the descriptor, and the hat follows    *)
(* the direction buttons.                                                  *)
(***************************************************************************)
PadInv == GamepadTypeOK /\ HatPoints

(***************************************************************************)
(* The report descriptor declares the hat with a null state: a value       *)
(* outside of the logical range 0 .. 7 while no direction is pressed.      *)
(***************************************************************************)
HatNullAtRest == sent /\ heldButtons \intersect Directions = {} => hat \notin 0 .. 7
=============================================================================

--------------------------- MODULE WheelDebounce ----------------------------
(***************************************************************************)
(* The debounce of a high-resolution wheel (hid_mouse.c): small motion is  *)
(* held back until it adds up to a threshold, then passed on freely in     *)
(* that direction until the wheel rests.  Events come from the input       *)
(* thread, the end of a rest from the system workqueue, and the host turns *)
(* the debounce on and off with a feature report.                          *)
(***************************************************************************)
EXTENDS Integers

CONSTANTS
  WheelTh, \* WHEEL_TH
  Deltas   \* the wheel motion of one event

ASSUME WheelAssumption ==
  /\ WheelTh \in Nat \ {0}
  /\ Deltas \subseteq Int

VARIABLES
  enabled, \* debounce_enabled
  value,   \* debounce_value: the motion held back
  state,   \* debounce_state
  timer,   \* debounce_dwork is scheduled
  out,     \* evt->value as hid_update_buffers sees it, 0 for other events
  balance, \* motion fed minus motion passed on, since the last middle click (history)
  lastDir  \* direction of the last motion passed on since the wheel rested (history)

debounce == <<value, state, timer>>
vars == <<enabled, debounce, out, balance, lastDir>>

Up == "up"
Down == "down"
Idle == "idle"

Magnitude(x) == IF x < 0 THEN -x ELSE x

Direction(x) == IF x > 0 THEN Up ELSE IF x < 0 THEN Down ELSE Idle

Init ==
  /\ enabled = FALSE
  /\ value = 0 /\ state = Idle /\ timer = FALSE
  /\ out = 0 /\ balance = 0 /\ lastDir = Idle

\* Slip: the direction change takes any motion.
PassesAnyTurn(total) == Magnitude(total) >= WheelTh \/ state # Idle

\* The motion goes on in the direction of the last one, or is large enough.
Passes(total) ==
  \/ state = Up /\ total > 0
  \/ state = Down /\ total < 0
  \/ Magnitude(total) >= WheelTh

\* Slip: what was passed on is held back as well.
DebouncedKept(d) ==
  LET total == value + d
  IN /\ out' = IF Passes(total) THEN total ELSE 0
     /\ value' = IF Passes(total) THEN d ELSE total
     /\ state' = IF Passes(total) THEN Direction(total) ELSE state
     /\ lastDir' = IF Passes(total) THEN Direction(total) ELSE lastDir
     /\ timer' = TRUE

\* hid_mouse_wheel_debounce for a wheel event: all that was held back passes
\* on, or nothing does; in either case the timer starts again.
Debounced(d) ==
  LET total == value + d
  IN /\ out' = IF Passes(total) THEN total ELSE 0
     /\ value' = IF Passes(total) THEN 0 ELSE total
     /\ state' = IF Passes(total) THEN Direction(total) ELSE state
     /\ lastDir' = IF Passes(total) THEN Direction(total) ELSE lastDir
     /\ timer' = TRUE

Wheel(d) ==
  /\ IF enabled THEN Debounced(d)
     ELSE out' = d /\ UNCHANGED <<debounce, lastDir>>
  /\ balance' = balance + d - out'
  /\ UNCHANGED enabled

\* A middle button event, down or up, drops what is held back.
MiddleButton ==
  /\ value' = 0 /\ state' = Idle
  /\ out' = 0 /\ balance' = 0 /\ lastDir' = Idle
  /\ UNCHANGED <<enabled, timer>>

\* debounce_worker: the wheel has rested for DEBOUNCE_TIMEOUT_MS.
DebounceWorker ==
  /\ timer
  /\ timer' = FALSE
  /\ state' = Idle
  /\ out' = 0 /\ lastDir' = Idle
  /\ UNCHANGED <<enabled, value, balance>>

\* hid_mouse_wheel_debounce_set, called by the board's feature report callback.
DebounceSet(on) ==
  /\ enabled' = on
  /\ out' = 0
  /\ UNCHANGED <<debounce, balance, lastDir>>

Next ==
  \/ \E d \in Deltas : Wheel(d)
  \/ MiddleButton
  \/ DebounceWorker
  \/ \E on \in BOOLEAN : DebounceSet(on)

Spec == Init /\ [][Next]_vars
-----------------------------------------------------------------------------
WheelTypeOK ==
  /\ enabled \in BOOLEAN /\ timer \in BOOLEAN
  /\ value \in Int /\ out \in Int /\ balance \in Int
  /\ state \in {Idle, Up, Down} /\ lastDir \in {Idle, Up, Down}

(***************************************************************************)
(* Less than the threshold is ever held back, and all of it, and nothing   *)
(* else, is still to come: turning the debounce off and on, a rest, or a   *)
(* turn of the wheel neither lose motion nor report it twice.              *)
(***************************************************************************)
MotionKept == Magnitude(value) < WheelTh /\ balance = value

(***************************************************************************)
(* A direction does not outlive the rest of the wheel: while one is set,   *)
(* the work item that ends it is scheduled, also when the debounce is      *)
(* turned off meanwhile.                                                   *)
(***************************************************************************)
DirectionExpires == state # Idle => timer

(***************************************************************************)
(* Jitter around a detent is not reported: with the debounce on, motion    *)
(* against the last reported direction, or after a rest, passes on in      *)
(* amounts of the threshold or more.                                       *)
(***************************************************************************)
TurnsNeedThreshold ==
  [][enabled /\ out' # 0 /\ Direction(out') # lastDir => Magnitude(out') >= WheelTh]_vars

\* The direction the debounce remembers is that of the last motion passed on.
DebounceInv == WheelTypeOK /\ MotionKept /\ DirectionExpires /\ state = lastDir
=============================================================================

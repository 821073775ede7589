------------------------------ MODULE Effects -------------------------------
(***************************************************************************)
(* The clicker of darfon (clicker.c) and the motor of negcon-retro         *)
(* (haptic.c).  A click is ended by a work item; a vibration by the thread *)
(* that called event(), which sleeps in the callback, while other threads  *)
(* may start vibrations of their own.                                      *)
(***************************************************************************)
CONSTANT Callers \* the threads that call event()

VARIABLES
  clickerEnabled, \* clicker_enabled
  buzzer,         \* the clicker's PWM is on
  clickTimer,     \* click_dwork is scheduled
  clickDue,       \* ... it has expired and is queued
  motor,          \* the motor's PWM is on
  haptic          \* [Callers -> what haptic_cb is doing]

clickvars == <<clickerEnabled, buzzer, clickTimer, clickDue>>
hapticvars == <<motor, haptic>>
effectvars == <<clickvars, hapticvars>>

EffectsInit ==
  /\ clickerEnabled = FALSE
  /\ buzzer = FALSE /\ clickTimer = FALSE /\ clickDue = FALSE
  /\ motor = FALSE /\ haptic = [c \in Callers |-> "idle"]
-----------------------------------------------------------------------------
\* clicker_cb for the press of a key.
Click ==
  /\ clickerEnabled
  /\ buzzer' = TRUE
  /\ clickTimer' = TRUE
  /\ UNCHANGED <<clickerEnabled, clickDue, hapticvars>>

ClickTimeout ==
  /\ clickTimer
  /\ clickTimer' = FALSE /\ clickDue' = TRUE
  /\ UNCHANGED <<clickerEnabled, buzzer, hapticvars>>

\* click_handler; a click since it expired is cut short.
ClickHandler ==
  /\ clickDue
  /\ clickDue' = FALSE
  /\ buzzer' = FALSE
  /\ UNCHANGED <<clickerEnabled, clickTimer, hapticvars>>

\* input_cb for a press of key (4, 16): its column, its row and, with sync, its
\* value.
MatrixToggle ==
  /\ clickerEnabled' = ~clickerEnabled
  /\ UNCHANGED <<buzzer, clickTimer, clickDue, hapticvars>>

\* ... and of key (5, 0): the device restarts.
MatrixReboot ==
  /\ clickerEnabled' = FALSE
  /\ buzzer' = FALSE /\ clickTimer' = FALSE /\ clickDue' = FALSE
  /\ UNCHANGED hapticvars
-----------------------------------------------------------------------------
\* haptic_cb: one pulse for most events, two for a Bluetooth connection.
HapticEvent(c, connected) ==
  /\ haptic[c] = "idle"
  /\ haptic' = [haptic EXCEPT ![c] = IF connected THEN "first" ELSE "last"]
  /\ motor' = TRUE
  /\ UNCHANGED clickvars

\* Slip: the last vibration leaves the motor to the others.
HapticSleptShared(c) ==
  /\ haptic[c] # "idle"
  /\ haptic' = [haptic EXCEPT ![c] = CASE @ = "first" -> "pause" [] @ = "pause" -> "last" [] @ = "last" -> "idle"]
  /\ motor' = (haptic'[c] = "last" \/ \E d \in Callers \ {c} : haptic[d] # "idle")
  /\ UNCHANGED clickvars

\* A k_sleep ends: the pulse ends, or the second one begins.
HapticSlept(c) ==
  /\ haptic[c] # "idle"
  /\ haptic' = [haptic EXCEPT ![c] = CASE @ = "first" -> "pause" [] @ = "pause" -> "last" [] @ = "last" -> "idle"]
  /\ motor' = (haptic'[c] = "last")
  /\ UNCHANGED clickvars

EffectsNext ==
  \/ Click \/ ClickTimeout \/ ClickHandler
  \/ MatrixToggle \/ MatrixReboot
  \/ \E c \in Callers : HapticSlept(c) \/ \E connected \in BOOLEAN : HapticEvent(c, connected)

\* Nothing sounds that will not stop: a click has its work item scheduled or
\* queued, also one made while the last one expired or before the clicker was
\* turned off, and the motor turns only within a pulse of some caller.
EffectsInv ==
  /\ buzzer => clickTimer \/ clickDue
  /\ motor => \E c \in Callers : haptic[c] \in {"first", "last"}
=============================================================================

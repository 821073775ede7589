---------------------------- MODULE SensorPower -----------------------------
(***************************************************************************)
(* The force-awake time of an optical sensor (paw_power.c of paw_g3,       *)
(* pmw_power.c of ploopy_mouse_nrf and pmw_testboard): an event keeps the  *)
(* sensor in its fast mode until a delayable work item, put off by motion, *)
(* ends it.  Both the input thread and the system workqueue write to the   *)
(* sensor and block while they do; each updates force_awake afterwards.    *)
(*                                                                         *)
(* The transactions of two calls take turns on the bus, so the calls take  *)
(* effect, and return, in the order they were made.                        *)
(***************************************************************************)
EXTENDS Integers, Sequences

CONSTANTS
  ForceAwakeTimeout  \* FORCE_AWAKE_TIMEOUT_S, in ticks

ASSUME SensorPowerAssumption == ForceAwakeTimeout \in Nat \ {0}

VARIABLES
  byButton,   \* paw_power.c, where a button wakes the sensor; else motion does
  forceAwake, \* force_awake
  sensor,     \* the sensor is in its fast mode
  timer,      \* sleep_dwork: ticks left, or Off
  due,        \* ... it has expired and is queued
  calls,      \* the callers of force_awake in progress, first come first served
  idleFor     \* ticks since sleep_dwork was last put off (history)

vars == <<byButton, forceAwake, sensor, timer, due, calls, idleFor>>

Off == -1

Input == "input"     \* the input thread, inside force_awake(TRUE)
Handler == "handler" \* sleep_handler, inside force_awake(FALSE)

Calling(c) == \E i \in DOMAIN calls : calls[i] = c

Init ==
  /\ byButton \in BOOLEAN
  /\ forceAwake = FALSE
  /\ sensor = FALSE
  /\ timer = Off /\ due = FALSE
  /\ calls = <<>>
  /\ idleFor = 0

\* Slip: an item that is scheduled already is left as it is.
ScheduleOnce ==
  /\ timer' = IF timer = Off THEN ForceAwakeTimeout ELSE timer
  /\ idleFor' = 0

\* k_work_reschedule of sleep_dwork.  It does not take back an expired item.
Reschedule ==
  /\ timer' = ForceAwakeTimeout
  /\ idleFor' = 0

\* The call of force_awake(TRUE) by an event that wakes the sensor.
Wake ==
  /\ calls' = Append(calls, Input)
  /\ UNCHANGED <<forceAwake, sensor, timer, due, idleFor>>

\* power_btn_cb for a press of the button.
PowerBtn ==
  /\ byButton /\ ~Calling(Input)
  /\ ~forceAwake
  /\ Wake

\* Slip: motion does not put off what is scheduled.
MotionScheduledOnce ==
  /\ ~Calling(Input)
  /\ forceAwake
  /\ ScheduleOnce
  /\ UNCHANGED <<forceAwake, sensor, due, calls>>

\* power_paw_cb, and pmw_cb for a sensor that is awake.
Motion ==
  /\ ~Calling(Input)
  /\ forceAwake
  /\ Reschedule
  /\ UNCHANGED <<forceAwake, sensor, due, calls>>

\* pmw_cb for a sensor that is not.
FirstMotion ==
  /\ ~byButton /\ ~Calling(Input)
  /\ ~forceAwake
  /\ Wake

\* Slip: the first motion is not taken as a reason to schedule the item.
WokenUnscheduled ==
  /\ calls # <<>> /\ Head(calls) = Input
  /\ calls' = Tail(calls)
  /\ sensor' = TRUE /\ forceAwake' = TRUE
  /\ UNCHANGED <<timer, due, idleFor>>

\* The call returns to the input thread, which runs on to its end.
Woken ==
  /\ calls # <<>> /\ Head(calls) = Input
  /\ calls' = Tail(calls)
  /\ sensor' = TRUE /\ forceAwake' = TRUE
  /\ Reschedule
  /\ UNCHANGED due

\* The workqueue starts sleep_handler.
SleepHandler ==
  /\ due /\ ~Calling(Handler)
  /\ due' = FALSE
  /\ calls' = Append(calls, Handler)
  /\ UNCHANGED <<forceAwake, sensor, timer, idleFor>>

\* Slip: the handler leaves the flag to the next event.
AsleepFlagKept ==
  /\ calls # <<>> /\ Head(calls) = Handler
  /\ calls' = Tail(calls)
  /\ sensor' = FALSE
  /\ UNCHANGED <<forceAwake, timer, due, idleFor>>

\* The call returns to sleep_handler.
Asleep ==
  /\ calls # <<>> /\ Head(calls) = Handler
  /\ calls' = Tail(calls)
  /\ sensor' = FALSE /\ forceAwake' = FALSE
  /\ UNCHANGED <<timer, due, idleFor>>

\* Bus calls and a queued item are served before the next tick.
Tick ==
  /\ calls = <<>> /\ ~due
  /\ timer # Off
  /\ timer' = IF timer = 1 THEN Off ELSE timer - 1
  /\ due' = (timer = 1)
  /\ idleFor' = idleFor + 1
  /\ UNCHANGED <<forceAwake, sensor, calls>>

Event == PowerBtn \/ Motion \/ FirstMotion

System == Woken \/ SleepHandler \/ Asleep \/ Tick

Next == (Event \/ System) /\ UNCHANGED byButton

Spec == Init /\ [][Next]_vars
-----------------------------------------------------------------------------
SensorTypeOK ==
  /\ byButton \in BOOLEAN
  /\ forceAwake \in BOOLEAN /\ sensor \in BOOLEAN /\ due \in BOOLEAN
  /\ timer \in (1 .. ForceAwakeTimeout) \union {Off}
  /\ calls \in {<<>>, <<Input>>, <<Handler>>, <<Input, Handler>>, <<Handler, Input>>}
  /\ idleFor \in 0 .. ForceAwakeTimeout

(***************************************************************************)
(* force_awake tells the mode of the sensor whenever no call is under way, *)
(* however the calls of the two threads overlapped.  A flag that stays set *)
(* on a sensor at rest would keep it from ever being woken again.          *)
(***************************************************************************)
FlagExact == calls = <<>> => forceAwake = sensor

(***************************************************************************)
(* A sensor in its fast mode, which drains the battery, is on its way back *)
(* to rest: the work item is scheduled, queued or running.                 *)
(***************************************************************************)
AwakeEnds == sensor => timer # Off \/ due \/ Calling(Handler)

(***************************************************************************)
(* The flag, the sensor and the work item agree: the sensor can be woken   *)
(* whenever it rests and comes to rest whenever it is awake.               *)
(***************************************************************************)
SensorInv == SensorTypeOK /\ FlagExact /\ AwakeEnds

(***************************************************************************)
(* The sensor is not sent to rest in the middle of use: the item expires   *)
(* only after the whole time without a motion that put it off.             *)
(***************************************************************************)
ExpiresOnlyIdle == [][~due /\ due' => idleFor' = ForceAwakeTimeout]_vars

(***************************************************************************)
(* A mouse that is not moved any more ends up with its sensor at rest.     *)
(***************************************************************************)
Rests == <>[][~Event]_vars => <>[](~sensor /\ ~forceAwake)
=============================================================================

------------------------------ MODULE PowerOff ------------------------------
(***************************************************************************)
(* The automatic power-off (auto_poweroff.c), the charger poll             *)
(* (charger.c, charger_gpio.c) and the watchdog feed (watchdog.c).  All    *)
(* three are delayable work items of the system workqueue, which runs one  *)
(* handler at a time: the power-off handler sleeps in it, and the other    *)
(* two wait.  Input events come from the input thread at any time.  BleAdv *)
(* adds the Bluetooth side of the power-off.                               *)
(*                                                                         *)
(* A tick is a second.  A delayable work item is a countdown, and due once *)
(* the countdown has expired and the item waits for the workqueue.         *)
(***************************************************************************)
EXTENDS Integers

CONSTANTS
  AutoPoweroffTime, \* AUTO_POWEROFF_TIME, in seconds
  ChargerStates,    \* what the charger reports: Disconnected, Charging, Full
  ReadErrors,       \* the charger may fail to answer, or answer something else
  WdtWindow         \* .window.max, in seconds

ASSUME PowerOffAssumption ==
  /\ AutoPoweroffTime \in Nat \ {0}
  /\ ReadErrors \in BOOLEAN
  /\ WdtWindow \in Nat \ {0}

CONSTANTS Disconnected, Charging, Full

ASSUME ChargerStatesAssumption ==
  /\ {Disconnected, Charging} \subseteq ChargerStates
  /\ ChargerStates \subseteq {Disconnected, Charging, Full}
  /\ Disconnected # Charging /\ Charging # Full

VARIABLES
  booted,    \* auto_poweroff_init has run (charging_start runs before it)
  charger,   \* the state of the charger hardware
  lastCode,  \* last_code of charging_handler
  hold,      \* auto_poweroff_hold
  timer,     \* auto_poweroff_dwork: seconds left, or Off
  due,       \* ... it has expired and is queued
  polling,   \* charging_dwork is queued
  feeding,   \* wdt_dwork is queued
  wdtAge,    \* seconds since wdt_feed
  handler,   \* where auto_poweroff_handler is
  sleep,     \* seconds left of the sleep it is in
  idleFor,   \* seconds since the power-off was last put off (history)
  bootArmed  \* the timer still runs because of auto_poweroff_init (history)

work == <<polling, feeding>>
history == <<idleFor, bootArmed>>
vars == <<booted, charger, lastCode, hold, timer, due, work, wdtAge, handler, sleep, history>>

Off == -1

Idle == "idle"       \* the handler is not running
Stopped == "stopped" \* ble_stop was called; sleeping a second
Signaled == "signaled" \* EVENT_POWEROFF was sent; sleeping two seconds
PoweredOff == "off"

Armed == timer # Off \/ due

Init ==
  /\ booted = FALSE
  /\ charger \in ChargerStates
  /\ lastCode = Disconnected
  /\ hold = FALSE
  /\ timer = Off
  /\ due = FALSE
  /\ polling = TRUE      \* charging_start calls the handler
  /\ feeding = FALSE     \* wdt_init has called its handler
  /\ wdtAge = 0
  /\ handler = Idle
  /\ sleep = 0
  /\ idleFor = 0
  /\ bootArmed = FALSE

(***************************************************************************)
(* k_work_reschedule restarts the countdown.  It does not take back an     *)
(* expired item from the queue.                                            *)
(***************************************************************************)
Reschedule == timer' = AutoPoweroffTime

\* auto_poweroff_init runs after charging_start: both are started at the same
\* initialisation level, in the order in which the build links them.
AutoPoweroffInit ==
  /\ ~booted /\ ~polling
  /\ booted' = TRUE
  /\ Reschedule
  /\ idleFor' = 0
  /\ bootArmed' = TRUE
  /\ UNCHANGED <<charger, lastCode, hold, due, work, wdtAge, handler, sleep>>

ChargerChanges(c) ==
  /\ charger # c
  /\ handler # PoweredOff
  /\ charger' = c
  /\ UNCHANGED <<booted, lastCode, hold, timer, due, work, wdtAge, handler, sleep, history>>

\* Slip: the countdown stops but the expired item stays queued.
CancelTimerOnly == timer' = Off /\ UNCHANGED due

\* k_work_cancel_delayable stops the countdown and takes the item off the queue.
CancelDelayable == timer' = Off /\ due' = FALSE

\* Slip: a full battery is not an end of the charge.
ChargerEventFullHolds(c) ==
  CASE c = Charging -> hold' = TRUE /\ CancelDelayable /\ bootArmed' = FALSE /\ UNCHANGED idleFor
    [] c = Disconnected -> hold' = FALSE /\ Reschedule /\ idleFor' = 0 /\ bootArmed' = FALSE /\ UNCHANGED due
    [] OTHER -> UNCHANGED <<hold, timer, due, history>>

\* auto_poweroff_ev_cb, called by event() from the charger poll.
ChargerEvent(c) ==
  IF c = Charging
  THEN /\ hold' = TRUE
       /\ CancelDelayable
       /\ bootArmed' = FALSE
       /\ UNCHANGED idleFor
  ELSE /\ hold' = FALSE
       /\ Reschedule
       /\ idleFor' = 0
       /\ bootArmed' = FALSE
       /\ UNCHANGED due

(***************************************************************************)
(* charging_handler: only a changed state is reported.  It schedules       *)
(* itself again a second later in every case (the next tick).              *)
(***************************************************************************)
Poll ==
  /\ polling /\ handler = Idle
  /\ polling' = FALSE
  /\ \/ /\ charger # lastCode
        /\ lastCode' = charger
        /\ ChargerEvent(charger)
     \/ /\ charger = lastCode \/ ReadErrors
        /\ UNCHANGED <<lastCode, hold, timer, due, history>>
  /\ UNCHANGED <<booted, charger, feeding, wdtAge, handler, sleep>>

\* wdt_feed_handler, which also schedules itself again a second later.
Feed ==
  /\ feeding /\ handler = Idle
  /\ feeding' = FALSE
  /\ wdtAge' = 0
  /\ UNCHANGED <<booted, charger, lastCode, hold, timer, due, polling, handler, sleep, history>>

\* auto_poweroff_cb, for any event that is not an absolute axis.
Input ==
  /\ handler # PoweredOff
  /\ IF hold THEN UNCHANGED <<timer, history>>
     ELSE Reschedule /\ idleFor' = 0 /\ bootArmed' = FALSE
  /\ UNCHANGED <<booted, charger, lastCode, hold, due, work, wdtAge, handler, sleep>>

\* auto_poweroff_handler starts: ble_stop, then a second of sleep.
StartPoweroff ==
  /\ due /\ handler = Idle
  /\ due' = FALSE
  /\ handler' = Stopped
  /\ sleep' = 1
  /\ UNCHANGED <<booted, charger, lastCode, hold, timer, work, wdtAge, history>>

\* A sleep of the handler ends: EVENT_POWEROFF and two more seconds, then off.
Wake ==
  /\ handler \in {Stopped, Signaled} /\ sleep = 0
  /\ IF handler = Stopped THEN handler' = Signaled /\ sleep' = 2
                          ELSE handler' = PoweredOff /\ UNCHANGED sleep
  /\ UNCHANGED <<booted, charger, lastCode, hold, timer, due, work, wdtAge, history>>

\* The workqueue is done with what was due, unless the handler blocks it.
QueueServed == IF handler = Idle THEN booted /\ ~polling /\ ~feeding /\ ~due ELSE sleep > 0

\* A second passes: countdowns go on, and the periodic items become due.
Tick ==
  /\ handler # PoweredOff
  /\ QueueServed
  /\ polling' = TRUE /\ feeding' = TRUE
  /\ wdtAge' = IF wdtAge = WdtWindow THEN wdtAge ELSE wdtAge + 1
  /\ sleep' = IF handler = Idle THEN 0 ELSE sleep - 1
  /\ IF timer = 1
     THEN timer' = Off /\ due' = TRUE
     ELSE timer' = (IF timer = Off THEN Off ELSE timer - 1) /\ UNCHANGED due
  /\ idleFor' = IF idleFor = AutoPoweroffTime THEN idleFor ELSE idleFor + 1
  /\ UNCHANGED <<booted, charger, lastCode, hold, handler, bootArmed>>

\* What happens without an effect on Bluetooth.
PowerWork == AutoPoweroffInit \/ Poll \/ Feed \/ Wake

PowerEvent == Input \/ \E c \in ChargerStates : ChargerChanges(c)

Next == PowerWork \/ PowerEvent \/ StartPoweroff \/ Tick

Spec == Init /\ [][Next]_vars
-----------------------------------------------------------------------------
PowerTypeOK ==
  /\ booted \in BOOLEAN /\ hold \in BOOLEAN /\ due \in BOOLEAN
  /\ polling \in BOOLEAN /\ feeding \in BOOLEAN /\ bootArmed \in BOOLEAN
  /\ charger \in ChargerStates /\ lastCode \in ChargerStates
  /\ timer \in (1 .. AutoPoweroffTime) \union {Off}
  /\ wdtAge \in 0 .. WdtWindow
  /\ handler \in {Idle, Stopped, Signaled, PoweredOff}
  /\ sleep \in 0 .. 2
  /\ idleFor \in 0 .. AutoPoweroffTime

(***************************************************************************)
(* The device only runs out of time after AUTO_POWEROFF_TIME without a     *)
(* key or motion event and without the end of a charge.                    *)
(***************************************************************************)
ExpiresOnlyIdle == ~due /\ due' => idleFor' = AutoPoweroffTime

(***************************************************************************)
(* A charging device is not switched off: CHARGING disarms the timer, and  *)
(* no input event, poll or expired item arms it again.  The one exception  *)
(* is a device that boots on the charger, whose timer auto_poweroff_init   *)
(* arms after the CHARGING event.                                          *)
(***************************************************************************)
ChargingDisarms == hold /\ Armed => bootArmed

(***************************************************************************)
(* A device that is neither charging nor counting down would never switch  *)
(* off: after boot the timer is armed, held or in its handler.             *)
(***************************************************************************)
NeverForgotten == booted /\ handler = Idle => hold \/ Armed

(***************************************************************************)
(* The watchdog is fed in time, also while the power-off handler keeps the *)
(* workqueue, so that the power-off is not cut short by a reset.           *)
(***************************************************************************)
WatchdogFed == wdtAge < WdtWindow

(***************************************************************************)
(* The timer runs exactly when it has to, whatever charger, input and its  *)
(* own expiry do to it, and the workqueue it shares keeps the watchdog fed. *)
(***************************************************************************)
PowerInv == PowerTypeOK /\ ChargingDisarms /\ NeverForgotten /\ WatchdogFed
=============================================================================

----------------------------- MODULE ConnPower ------------------------------
(***************************************************************************)
(* The power of the input devices that run only while a host is connected  *)
(* (connect-on of pm_control.c): a use count, taken and dropped by         *)
(* connection events that ble.c and usbd.c send.  usbd_msg_cb sees the     *)
(* messages of the USB stack later than the bus produced them, in order.   *)
(***************************************************************************)
EXTENDS Integers, Sequences

CONSTANTS
  HasBle,        \* the board has Bluetooth too
  MaxMsgs        \* bound: messages waiting in the USB stack

ASSUME ConnPowerAssumption ==
  /\ HasBle \in BOOLEAN
  /\ MaxMsgs \in Nat \ {0}

VARIABLES
  canDetectVbus, \* usbd_can_detect_vbus: a property of the controller
  vbus,      \* the cable is plugged in
  bus,       \* the USB bus as the controller sees it: BusOff, Suspended, Active
  msgs,      \* messages of the USB stack that wait for usbd_msg_cb
  vbusReady, \* vbus_ready of usbd_msg_cb
  connected, \* connected of usbd_msg_cb
  ble,       \* a Bluetooth host is connected
  usage,     \* the use count of a connect-on device
  unplugged  \* VBUS was removed with connected still set (history)

hardware == <<vbus, bus>>
vars == <<canDetectVbus, hardware, msgs, vbusReady, connected, ble, usage, unplugged>>

BusOff == "off"
Suspended == "suspended"
Active == "active"

VbusReadyMsg == "vbus ready"
VbusRemovedMsg == "vbus removed"
ResumeMsg == "resume"
SuspendMsg == "suspend"
ResetMsg == "reset"

Msg == {VbusReadyMsg, VbusRemovedMsg, ResumeMsg, SuspendMsg, ResetMsg}

(***************************************************************************)
(* app_usbd_enable: without VBUS detection the device is enabled, and      *)
(* counted as connected, at once; enabling may fail.                       *)
(***************************************************************************)
Init ==
  /\ canDetectVbus \in BOOLEAN
  /\ msgs = <<>> /\ vbusReady = FALSE /\ connected = FALSE
  /\ ble = FALSE /\ unplugged = FALSE
  /\ IF canDetectVbus
     THEN vbus = FALSE /\ bus = BusOff /\ usage = 0
     ELSE /\ vbus = TRUE
          /\ \/ bus = Active /\ usage = 1
             \/ bus = BusOff /\ usage = 0

\* pm_device_runtime_get and _put of pm_control_cb.  A put that has no get to
\* match it fails and changes nothing.
Get == usage' = usage + 1
Put == usage' = IF usage = 0 THEN 0 ELSE usage - 1

Publish(m) == Len(msgs) < MaxMsgs /\ msgs' = Append(msgs, m)

Plug ==
  /\ canDetectVbus /\ ~vbus
  /\ vbus' = TRUE
  /\ Publish(VbusReadyMsg)
  /\ UNCHANGED <<bus, vbusReady, connected, ble, usage, unplugged>>

Unplug ==
  /\ canDetectVbus /\ vbus
  /\ vbus' = FALSE
  /\ Publish(VbusRemovedMsg)
  /\ UNCHANGED <<bus, vbusReady, connected, ble, usage, unplugged>>

\* The host starts to use the bus.  A controller that lost VBUS sees nothing
\* until it is enabled again.
BusResume ==
  /\ vbus /\ bus = Suspended
  /\ \A k \in DOMAIN msgs : msgs[k] # VbusRemovedMsg
  /\ bus' = Active
  /\ Publish(ResumeMsg)
  /\ UNCHANGED <<vbus, vbusReady, connected, ble, usage, unplugged>>

\* The bus falls silent: the host suspends, or is gone.
BusSuspend ==
  /\ bus = Active
  /\ bus' = Suspended
  /\ Publish(SuspendMsg)
  /\ UNCHANGED <<vbus, vbusReady, connected, ble, usage, unplugged>>

\* The host resets an active bus.
BusReset ==
  /\ bus = Active
  /\ Publish(ResetMsg)
  /\ UNCHANGED <<hardware, vbusReady, connected, ble, usage, unplugged>>

Take == msgs # <<>> /\ msgs' = Tail(msgs)

\* usbd_enable and usbd_disable, as usbd_msg_cb calls them; enabling may fail.
VbusMsg ==
  /\ Take
  /\ \/ /\ Head(msgs) = VbusReadyMsg
        /\ vbusReady' = TRUE
        /\ bus' \in {Suspended, BusOff}
        /\ UNCHANGED unplugged
     \/ /\ Head(msgs) = VbusRemovedMsg
        /\ vbusReady' = FALSE
        /\ bus' = BusOff
        /\ unplugged' = (unplugged \/ connected)
  /\ UNCHANGED <<vbus, connected, ble, usage>>

\* Slip: every resume is a new connection.
ResumeAlways ==
  /\ Take /\ Head(msgs) = ResumeMsg
  /\ IF canDetectVbus => vbusReady
     THEN Get /\ connected' = canDetectVbus
     ELSE UNCHANGED <<usage, connected>>
  /\ UNCHANGED <<hardware, vbusReady, ble, unplugged>>

\* USBD_MSG_RESUME.
Resume ==
  /\ Take /\ Head(msgs) = ResumeMsg
  /\ IF ~canDetectVbus THEN Get /\ UNCHANGED connected
     ELSE IF vbusReady /\ ~connected THEN Get /\ connected' = TRUE
     ELSE UNCHANGED <<usage, connected>>
  /\ UNCHANGED <<hardware, vbusReady, ble, unplugged>>

\* USBD_MSG_SUSPEND.
Suspend ==
  /\ Take /\ Head(msgs) = SuspendMsg
  /\ IF ~canDetectVbus THEN Put /\ UNCHANGED <<connected, unplugged>>
     ELSE IF connected THEN Put /\ connected' = FALSE /\ unplugged' = FALSE
     ELSE UNCHANGED <<usage, connected, unplugged>>
  /\ UNCHANGED <<hardware, vbusReady, ble>>

\* USBD_MSG_RESET: EVENT_USB_RESET is for usb_hid (HidResetCb of UsbHid).
Reset ==
  /\ Take /\ Head(msgs) = ResetMsg
  /\ UNCHANGED <<hardware, vbusReady, connected, ble, usage, unplugged>>

\* connected and disconnected of ble.c, whose event() runs pm_control_cb.
BleConnected ==
  /\ HasBle /\ ~ble
  /\ ble' = TRUE
  /\ Get
  /\ UNCHANGED <<hardware, msgs, vbusReady, connected, unplugged>>

BleDisconnected ==
  /\ ble
  /\ ble' = FALSE
  /\ Put
  /\ UNCHANGED <<hardware, msgs, vbusReady, connected, unplugged>>

Bus == Plug \/ Unplug \/ BusResume \/ BusSuspend \/ BusReset

MsgCb == VbusMsg \/ Resume \/ Suspend \/ Reset

Next == (Bus \/ MsgCb \/ BleConnected \/ BleDisconnected) /\ UNCHANGED canDetectVbus

Spec == Init /\ [][Next]_vars
-----------------------------------------------------------------------------
ConnTypeOK ==
  /\ canDetectVbus \in BOOLEAN
  /\ vbus \in BOOLEAN /\ bus \in {BusOff, Suspended, Active}
  /\ msgs \in Seq(Msg) /\ Len(msgs) <= MaxMsgs
  /\ vbusReady \in BOOLEAN /\ connected \in BOOLEAN
  /\ ble \in BOOLEAN /\ unplugged \in BOOLEAN
  /\ usage \in 0 .. 2

BleRefs == IF ble THEN 1 ELSE 0

(***************************************************************************)
(* No link drops the other one's reference, or one that was never taken:   *)
(* without VBUS detection a suspend message always finds its own.          *)
(***************************************************************************)
NoStolenPut ==
  ~canDetectVbus /\ msgs # <<>> => (Head(msgs) = SuspendMsg => usage > BleRefs)

(***************************************************************************)
(* With VBUS detection the use count is the number of links in use,        *)
(* whatever order cable, bus and Bluetooth changes are handled in.         *)
(***************************************************************************)
RefsExact == canDetectVbus => usage = (IF connected THEN 1 ELSE 0) + BleRefs

(***************************************************************************)
(* The input devices run while a host can use them: a Bluetooth host, or a *)
(* USB host on an active bus once all messages have been handled.          *)
(***************************************************************************)
PoweredInUse == ble \/ (msgs = <<>> /\ bus = Active) => usage > 0

(***************************************************************************)
(* They do not run for nobody: with the bus silent, all messages handled   *)
(* and no Bluetooth host, the count is back at zero.  The exception is a   *)
(* cable pulled before the controller noticed the silence: usbd_msg_cb     *)
(* keeps the reference for the next time it is plugged in.                 *)
(***************************************************************************)
ReleasedWhenIdle ==
  msgs = <<>> /\ bus # Active /\ ~ble /\ ~unplugged => usage = 0

(***************************************************************************)
(* The use count, the links and the messages under way stay in agreement:  *)
(* the input devices run for each host that can use them and for no other. *)
(***************************************************************************)
RefInv == ConnTypeOK /\ RefsExact /\ NoStolenPut /\ PoweredInUse /\ ReleasedWhenIdle
=============================================================================

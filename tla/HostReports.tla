---------------------------- MODULE HostReports -----------------------------
(***************************************************************************)
(* What the hosts write to the device: output reports, which set the LED   *)
(* of a keyboard, and feature reports, which set the resolution of a wheel *)
(* sensor and its debounce.  The report takes its way from the USB or      *)
(* Bluetooth output through hid.c to the driver that owns its id and to    *)
(* the board's callback (darfon/leds.c, wheel.c of paw_g3 and paw_pogo),   *)
(* on the thread of the stack it came from.                                *)
(*                                                                         *)
(* The wheel's callback writes two registers of the sensor and blocks on   *)
(* each.  The threads of both stacks are cooperative, so what follows the  *)
(* second write happens before the other thread goes on.                   *)
(***************************************************************************)
EXTENDS WheelDebounce, Sequences

CONSTANTS
  Usb, Ble,            \* the hosts, each with one write at a time
  OutputId, FeatureId, \* output_id of the keyboard, feature_id of the mouse
  NoReport             \* no report yet, or one without contents

Hosts == {Usb, Ble}
Ids == {OutputId, FeatureId}
Payloads == {<<>>, <<0>>, <<1>>, <<2>>, <<1, 1>>} \* after the report id

ASSUME HostReportsAssumption == OutputId # FeatureId /\ NoReport \notin Nat

High == 1275 \* the resolutions, in counts per inch
Low == 50

VARIABLES
  ledCb, featCb, \* the callbacks have been registered
  patReady,      \* device_is_ready(pat)
  caps,          \* the LED is lit
  bus,           \* the register writes in progress, first come first served
  resX, resY,    \* the resolution of the sensor
  lastLeds,      \* the contents of the last output report taken (history)
  lastMode,      \* the contents of the last feature report taken (history)
  failed         \* a register write failed since the bus was last idle (history)

ledVars == <<caps, lastLeds>>
modeVars == <<bus, resX, resY, lastMode, failed>>
hostvars == <<ledCb, featCb, patReady, ledVars, modeVars>>

HostInit ==
  /\ ledCb = FALSE /\ featCb = FALSE
  /\ patReady \in BOOLEAN
  /\ caps = FALSE /\ lastLeds = NoReport
  /\ bus = <<>> /\ resX = Low /\ resY = Low
  /\ lastMode = NoReport /\ failed = FALSE

HighRes(byte) == byte = 1
Resolution(byte) == IF HighRes(byte) THEN High ELSE Low
CapsLock(byte) == (byte \div 2) % 2 = 1

\* hid_kbd_register_led_cb and hid_mouse_register_feat_cb, during start-up.
RegisterLedCb == ledCb' = TRUE /\ UNCHANGED <<featCb, patReady, ledVars, modeVars, vars>>
RegisterFeatCb == featCb' = TRUE /\ UNCHANGED <<ledCb, patReady, ledVars, modeVars, vars>>
-----------------------------------------------------------------------------
\* hid_out_report, hid_kbd_out_report and caps_led_cb.  Nothing looks at the
\* length: an empty report shows the bit of whatever follows it in memory.
OutReport(id, payload) ==
  /\ id = OutputId /\ ledCb
  /\ IF payload = <<>> THEN caps' \in BOOLEAN ELSE caps' = CapsLock(payload[1])
  /\ lastLeds' = IF payload = <<>> THEN NoReport ELSE payload[1]
  /\ UNCHANGED <<modeVars, vars>>

Write(h, byte, reg) == [host |-> h, byte |-> byte, reg |-> reg]

\* Slip: a report that asks for the mode the debounce is in is taken as done.
SetFeatureOnce(h, id, payload) ==
  /\ id = FeatureId /\ featCb
  /\ Len(payload) = 1 /\ patReady
  /\ lastMode' = payload[1]
  /\ bus' = IF HighRes(payload[1]) = enabled THEN bus ELSE Append(bus, Write(h, payload[1], "x"))
  /\ failed' = (failed /\ bus # <<>>)
  /\ UNCHANGED <<resX, resY, ledVars, vars>>

\* hid_set_feature, hid_mouse_set_feature and feat_cb, up to the first write
\* of pat912x_set_resolution.
SetFeature(h, id, payload) ==
  /\ id = FeatureId /\ featCb
  /\ Len(payload) = 1 /\ patReady
  /\ lastMode' = payload[1]
  /\ bus' = Append(bus, Write(h, payload[1], "x"))
  /\ failed' = (failed /\ bus # <<>>)
  /\ UNCHANGED <<resX, resY, ledVars, vars>>

\* output_report and set_report of usb_hid.c, write_output_report and
\* write_feature_report of ble_hog.c.  A report that is refused on its way
\* (a header that does not match, an unknown id, no callback) changes nothing.
HostWrites(h, id, payload) ==
  /\ \A i \in DOMAIN bus : bus[i].host # h
  /\ OutReport(id, payload) \/ SetFeature(h, id, payload)
  /\ UNCHANGED <<ledCb, featCb, patReady>>

\* The error of pat912x_set_resolution is ignored: the debounce is set.
FeatDone ==
  /\ DebounceSet(HighRes(Head(bus).byte))
  /\ bus' = Tail(bus)

\* A register write ends; one that fails ends the call.
BusWritten(ok) ==
  /\ bus # <<>>
  /\ LET w == Head(bus)
     IN /\ resX' = IF ok /\ w.reg = "x" THEN Resolution(w.byte) ELSE resX
        /\ resY' = IF ok /\ w.reg = "y" THEN Resolution(w.byte) ELSE resY
        /\ failed' = (failed \/ ~ok)
        /\ IF ok /\ w.reg = "x"
           THEN bus' = Append(Tail(bus), Write(w.host, w.byte, "y")) /\ UNCHANGED vars
           ELSE FeatDone
  /\ UNCHANGED <<ledCb, featCb, patReady, ledVars, lastMode>>

HostNext ==
  \/ RegisterLedCb \/ RegisterFeatCb
  \/ \E h \in Hosts, id \in Ids, payload \in Payloads : HostWrites(h, id, payload)
  \/ \E ok \in BOOLEAN : BusWritten(ok)
-----------------------------------------------------------------------------
HostTypeOK ==
  /\ ledCb \in BOOLEAN /\ featCb \in BOOLEAN /\ patReady \in BOOLEAN
  /\ caps \in BOOLEAN /\ failed \in BOOLEAN
  /\ bus \in Seq([host : Hosts, byte : 0 .. 255, reg : {"x", "y"}]) /\ Len(bus) <= 2
  /\ {resX, resY} \subseteq {Low, High}
  /\ {lastLeds, lastMode} \subseteq (0 .. 255) \union {NoReport}

\* The LED shows the last output report that had any contents, whichever host
\* sent it and whatever feature reports came between.
LedShowsLast == lastLeds # NoReport => caps = CapsLock(lastLeds)

\* Once the writes of both hosts are done, the sensor and the debounce are in
\* the mode of the report that came last, however the two overlapped.  A register
\* write that failed is excepted: its error is ignored, and the shorter call
\* overtakes the other host's.
ModeFollows ==
  bus = <<>> /\ ~failed =>
    LET high == lastMode # NoReport /\ HighRes(lastMode)
    IN enabled = high /\ {resX, resY} = {IF high THEN High ELSE Low}

\* The LED, the sensor and the debounce are what the hosts last asked for,
\* though neither host waits for the other.
HostReportsInv == HostTypeOK /\ LedShowsLast /\ ModeFollows
=============================================================================

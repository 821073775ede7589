------------------------------ MODULE AxisCal -------------------------------
(***************************************************************************)
(* The calibration of analog axes from the shell (analog-axis-shell.c):    *)
(* while it is on, a callback on the thread of the axis driver widens the  *)
(* extremes of each channel; turning it off sets the driver's calibration  *)
(* to them.  Turning it on resets the extremes field by field, and the     *)
(* driver's thread, of a higher priority, runs in between.                 *)
(*                                                                         *)
(* The driver changes its callback under the lock that it holds during a   *)
(* call, so none is in progress once it is gone.  One device.              *)
(***************************************************************************)
EXTENDS Integers, Sequences

CONSTANTS
  Channels, \* the channels of the device, at most MAX_AXIS
  RawValues \* the samples of its converter, as int16_t

ASSUME AxisCalAssumption ==
  /\ Channels \in 1 .. 6
  /\ \A raw \in RawValues : raw \in Int /\ -32768 <= raw /\ raw <= 32767

Int16(n) == ((n + 32768) % 65536) - 32768
DeadzonePct == 5

VARIABLES
  rawCb,   \* the raw data callback: "none", "cal" or "print"
  calData, \* cal_data, without the last sample, which is only logged
  reset,   \* the assignments of the reset that have been made, NoReset at rest
  cal,     \* the driver's calibration of each channel
  asked,   \* the channels whose calibration was set by hand (history)
  seen,    \* the samples that cal_cb got since the channel was reset (history)
  still    \* the channels calibrated over a reading that never changed (history)

calvars == <<rawCb, calData, reset, cal, asked, seen, still>>

Chans == 1 .. Channels
Fields == <<"min", "max", "valid">>
NoReset == -1
Cleared == [min |-> 32767, max |-> -32768, valid |-> FALSE]
Setting(lo, hi, dead) == [inMin |-> lo, inMax |-> hi, inDeadzone |-> dead]

CalInit ==
  /\ rawCb = "none" /\ reset = NoReset
  /\ calData = [c \in Chans |-> [min |-> 0, max |-> 0, valid |-> FALSE]]
  /\ cal \in [Chans -> {Setting(0, 4095, 0), Setting(0, 4095, 50)}]
  /\ asked = {} /\ still = {}
  /\ seen = [c \in Chans |-> {}]

\* cmd_analog_axis_cal, on.
CalOn ==
  /\ reset = NoReset
  /\ reset' = 0
  /\ UNCHANGED <<rawCb, calData, cal, asked, seen, still>>

\* The next assignment of its loop.
ResetField ==
  /\ reset \in 0 .. (3 * Channels - 1)
  /\ LET c == (reset \div 3) + 1
         field == Fields[(reset % 3) + 1]
     IN /\ calData' = [calData EXCEPT ![c][field] = Cleared[field]]
        /\ seen' = [seen EXCEPT ![c] = {}]
  /\ reset' = reset + 1
  /\ UNCHANGED <<rawCb, cal, asked, still>>

\* The callback is set last.
ResetDone ==
  /\ reset = 3 * Channels
  /\ reset' = NoReset
  /\ rawCb' = "cal"
  /\ UNCHANGED <<calData, cal, asked, seen, still>>

\* cal_cb.
Sample ==
  /\ rawCb = "cal"
  /\ \E c \in Chans, raw \in RawValues :
       /\ calData' = [calData EXCEPT ![c] =
            [min |-> IF raw < @.min THEN raw ELSE @.min,
             max |-> IF raw > @.max THEN raw ELSE @.max,
             valid |-> TRUE]]
       /\ seen' = [seen EXCEPT ![c] = @ \union {raw}]
  /\ UNCHANGED <<rawCb, reset, cal, asked, still>>

\* The division of C, which truncates.
Deadzone(range) ==
  IF range < 0 THEN -((-range * DeadzonePct) \div 100) ELSE (range * DeadzonePct) \div 100

\* Slip: channels that had no sample are set, too.
UpdateCalUnchecked(c) ==
  LET d == calData[c]
      deadzone == Deadzone(Int16(d.max - d.min))
  IN Setting(Int16(d.min + deadzone), Int16(d.max - deadzone),
             IF cal[c].inDeadzone # 0 THEN deadzone ELSE 0)

\* update_cal: the range without a dead zone on either side.
UpdateCal(c) ==
  LET d == calData[c]
      deadzone == Deadzone(Int16(d.max - d.min))
  IN IF ~d.valid THEN cal[c]
     ELSE Setting(Int16(d.min + deadzone), Int16(d.max - deadzone),
                  IF cal[c].inDeadzone # 0 THEN deadzone ELSE 0)

\* A channel moved when two of its samples differ.
Moved(c) == \E a, b \in seen[c] : a # b

\* cmd_analog_axis_cal, off.
CalOff ==
  /\ reset = NoReset
  /\ rawCb' = "none"
  /\ cal' = [c \in Chans |-> UpdateCal(c)]
  /\ asked' = {c \in asked : ~calData[c].valid}
  /\ still' = {c \in Chans : IF calData[c].valid THEN ~Moved(c) ELSE c \in still}
  /\ UNCHANGED <<calData, reset, seen>>

\* cmd_analog_axis_raw_print takes the callback away from a calibration.
RawPrint ==
  /\ reset = NoReset
  /\ rawCb' \in {"print", "none"}
  /\ UNCHANGED <<calData, reset, cal, asked, seen, still>>

\* cmd_analog_axis_calibration_set; one value stands for what is asked for.
CalSet ==
  /\ reset = NoReset
  /\ \E c \in Chans :
       /\ cal' = [cal EXCEPT ![c] = Setting(300, 0, 0)]
       /\ asked' = asked \union {c}
  /\ UNCHANGED <<rawCb, calData, reset, seen, still>>

CalNext == CalOn \/ ResetField \/ ResetDone \/ Sample \/ CalOff \/ RawPrint \/ CalSet
-----------------------------------------------------------------------------
CalTypeOK ==
  /\ rawCb \in {"none", "cal", "print"}
  /\ reset \in (NoReset .. 3 * Channels)
  /\ calData \in [Chans -> [min : Int, max : Int, valid : BOOLEAN]]
  /\ asked \subseteq Chans /\ still \subseteq Chans /\ seen \in [Chans -> SUBSET RawValues]

\* The extremes of a channel bracket every sample since it was reset, also of
\* those that came between the assignments of the reset, and a channel that
\* was not sampled since is not taken for valid.
ExtremesBracket ==
  reset = NoReset =>
    \A c \in Chans : calData[c].valid =>
      seen[c] # {} /\ \A raw \in seen[c] : raw \in calData[c].min .. calData[c].max

\* A channel nobody set by hand never gets its ends the wrong way round, and
\* they differ unless it was calibrated without being moved: update_cal gives
\* a reading that never changed a range of no width, by which the driver of
\* the axis would divide.
RangeKept ==
  \A c \in Chans \ asked :
    /\ cal[c].inMin <= cal[c].inMax
    /\ c \notin still => cal[c].inMin < cal[c].inMax

(***************************************************************************)
(* Whenever the calibration is turned on again, in the middle of samples or *)
(* after another callback took over, it ends with a range of some width for *)
(* each channel that moved.                                                *)
(***************************************************************************)
CalInv == CalTypeOK /\ ExtremesBracket /\ RangeKept
=============================================================================

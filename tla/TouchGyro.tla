----------------------------- MODULE TouchGyro ------------------------------
(***************************************************************************)
(* The touch surface and gyro of zalpakka (touch_sense.c, gyro.c,          *)
(* touch_sense_led.c): a thread times the charge of the surface and        *)
(* reports changes; the input thread switches the LED and the gyro; the    *)
(* gyro's thread turns rotation into motion and keeps the fractions.  Both *)
(* threads wait for room in the input queue.                               *)
(*                                                                         *)
(* Rotation is counted in quarters of a pixel, as it is after the          *)
(* floating-point filter and scaling of the readings, which are left out,  *)
(* like the third axis, which is never reported.                           *)
(***************************************************************************)
EXTENDS Integers, Sequences

CONSTANTS
  Charges,       \* the samples taken before the surface is charged
  Rotations,     \* what one pass of gyro_loop adds to an axis
  InputQueueSize

TouchThreshold == 10 \* TOUCH_THRESHOLD
Subpixels == 4       \* quarters

ASSUME TouchAssumption ==
  /\ Charges \subseteq 0 .. 50
  /\ Rotations \subseteq Int
  /\ InputQueueSize \in Nat \ {0}

VARIABLES
  charge, \* the surface: charging takes long while it is touched
  touch,  \* data.touch
  sensed, \* the touch event touch_sense_loop is about to report, as a sequence
  inputq, \* the input queue
  led,    \* the touch LED
  active, \* gyro_active
  sub,    \* sub_x and sub_z
  motion, \* the events gyro_loop is about to report
  owed    \* rotation read and not reported (history)

touchvars == <<charge, touch, sensed, led>>
gyrovars == <<sub, motion, owed>>
zalpakkavars == <<touchvars, inputq, active, gyrovars>>

GyroAxes == {"x", "z"}

TouchEvent(on) == [kind |-> "touch", value |-> IF on THEN 1 ELSE 0]
Rel(axis, n) == [kind |-> axis, value |-> n]
OtherEvent == Rel("other", 1)

Touched == charge > TouchThreshold
Room == Len(inputq) < InputQueueSize

TouchInit ==
  /\ charge \in Charges
  /\ touch = FALSE /\ sensed = <<>> /\ inputq = <<>>
  /\ led = FALSE /\ active = FALSE
  /\ sub = [a \in GyroAxes |-> 0] /\ owed = sub
  /\ motion = <<>>
-----------------------------------------------------------------------------
\* touch_sense_loop, up to its report of a change.
Sense ==
  /\ sensed = <<>>
  /\ Touched # touch
  /\ sensed' = <<TouchEvent(Touched)>>
  /\ UNCHANGED <<charge, touch, led, inputq, active, gyrovars>>

\* Slip: the report does not wait for room.
TouchReportDropped ==
  /\ sensed # <<>>
  /\ inputq' = IF Room THEN inputq \o sensed ELSE inputq
  /\ touch' = (sensed[1].value = 1)
  /\ sensed' = <<>>
  /\ UNCHANGED <<charge, led, active, gyrovars>>

\* The report waits for room; data.touch follows it.
TouchReport ==
  /\ sensed # <<>>
  /\ Room
  /\ inputq' = inputq \o sensed
  /\ touch' = (sensed[1].value = 1)
  /\ sensed' = <<>>
  /\ UNCHANGED <<charge, led, active, gyrovars>>

Finger ==
  /\ charge' \in Charges
  /\ UNCHANGED <<touch, sensed, led, inputq, active, gyrovars>>
-----------------------------------------------------------------------------
Truncated(n) == IF n < 0 THEN -((-n) \div Subpixels) ELSE n \div Subpixels

\* Slip: the fraction is saved only with a report.
LeftoverReported(total, pixels) == IF pixels = 0 THEN 0 ELSE total - Subpixels * pixels

\* modf: what is left of the rotation without its whole pixels.
Leftover(total, pixels) == total - Subpixels * pixels

\* gyro_loop, up to its reports: X from the rotation around z, Y around x.
GyroLoop ==
  /\ active
  /\ motion = <<>>
  /\ \E r \in [GyroAxes -> Rotations] :
       LET pixels == [a \in GyroAxes |-> Truncated(sub[a] + r[a])]
       IN /\ sub' = [a \in GyroAxes |-> Leftover(sub[a] + r[a], pixels[a])]
          /\ owed' = [a \in GyroAxes |-> owed[a] + r[a]]
          /\ motion' = IF \A a \in GyroAxes : pixels[a] = 0 THEN <<>>
                       ELSE <<Rel("z", -pixels["z"]), Rel("x", pixels["x"])>>
  /\ UNCHANGED <<touchvars, inputq, active>>

\* Each report waits for room.
GyroReport ==
  /\ motion # <<>>
  /\ Room
  /\ LET e == Head(motion)
         pixels == IF e.kind = "z" THEN -e.value ELSE e.value
     IN /\ inputq' = Append(inputq, e)
        /\ owed' = [owed EXCEPT ![e.kind] = @ - Subpixels * pixels]
  /\ motion' = Tail(motion)
  /\ UNCHANGED <<touchvars, active, sub>>

\* The callbacks of the input thread: input_cb of the LED, gyro_input_cb.
TouchInputThread ==
  /\ inputq # <<>>
  /\ LET e == Head(inputq)
     IN IF e.kind = "touch" THEN led' = (e.value = 1) /\ active' = (e.value = 1)
        ELSE UNCHANGED <<led, active>>
  /\ inputq' = Tail(inputq)
  /\ UNCHANGED <<charge, touch, sensed, gyrovars>>

\* Buttons of the pad share the queue.
OtherInput ==
  /\ Room
  /\ inputq' = Append(inputq, OtherEvent)
  /\ UNCHANGED <<touchvars, active, gyrovars>>

TouchNext ==
  \/ Sense \/ TouchReport \/ Finger
  \/ GyroLoop \/ GyroReport
  \/ TouchInputThread \/ OtherInput
-----------------------------------------------------------------------------
(***************************************************************************)
(* A finger that rests, or stays away, is what the LED and the gyro show   *)
(* in the end, however full the queue was when it came or went.            *)
(***************************************************************************)
TouchFollows ==
  <>[][~Finger]_zalpakkavars => <>[](touch = Touched /\ led = Touched /\ active = Touched)

(***************************************************************************)
(* Slow rotation is not lost to rounding, nor counted twice: between two   *)
(* passes, also across a pause of the gyro, what was read and not reported *)
(* is the leftover, less than a pixel.                                     *)
(***************************************************************************)
RotationKept ==
  motion = <<>> => owed = sub /\ \A a \in GyroAxes : sub[a] \in 1 - Subpixels .. Subpixels - 1
=============================================================================

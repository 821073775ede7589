------------------------------ MODULE LedStrip ------------------------------
(***************************************************************************)
(* The LED strip of wasd_kbd (leds.c): a thread gives each pixel a colour, *)
(* or none while the USB host is away, and fades towards it for a round of *)
(* cycles.  The callback of the USB events only sets a flag.  A pixel has  *)
(* one colour component here.                                              *)
(***************************************************************************)
EXTENDS Integers

CONSTANTS
  Pixels, \* STRIP_NUM_PIXELS
  Level,  \* LEVEL
  Cycles  \* CYCLES, of a round

ASSUME LedStripAssumption ==
  /\ {Pixels, Level, Cycles} \subseteq Nat \ {0}
  /\ Level >= Cycles

StepSize == Level \div Cycles \* STEP, rounded down: a round may not be enough

VARIABLES
  suspended, \* suspended
  target,    \* pixels_target
  pixel,     \* pixels
  setting,   \* the pixel that gets its colour next; beyond them, the round fades
  cycle      \* the cycle of the round

stripvars == <<suspended, target, pixel, setting, cycle>>

Strip == 1 .. Pixels

StripInit ==
  /\ suspended = FALSE
  /\ target = [i \in Strip |-> 0] /\ pixel = target
  /\ setting = 1 /\ cycle = 0

\* Slip: the colours are left as they are while the host is away.
SetTargetKept ==
  /\ setting <= Pixels
  /\ \E colour \in {0, Level} :
       target' = IF suspended THEN target ELSE [target EXCEPT ![setting] = colour]
  /\ setting' = setting + 1
  /\ UNCHANGED <<suspended, pixel, cycle>>

\* One pass of the first loop of leds_thread.
SetTarget ==
  /\ setting <= Pixels
  /\ \E colour \in {0, Level} :
       target' = [target EXCEPT ![setting] = IF suspended THEN 0 ELSE colour]
  /\ setting' = setting + 1
  /\ UNCHANGED <<suspended, pixel, cycle>>

\* step_pixel: a value at its target steps down again.
Stepped(value, goal) ==
  IF value < goal
  THEN IF value + StepSize > Level THEN Level ELSE value + StepSize
  ELSE IF value - StepSize < 0 THEN 0 ELSE value - StepSize

\* One pass of the second loop, and of the outer one after the last.
Fade ==
  /\ setting > Pixels
  /\ pixel' = [i \in Strip |-> Stepped(pixel[i], target[i])]
  /\ cycle' = (cycle + 1) % Cycles
  /\ setting' = IF cycle = Cycles - 1 THEN 1 ELSE setting
  /\ UNCHANGED <<suspended, target>>

\* led_suspend_cb.
UsbEvent ==
  /\ suspended' \in BOOLEAN
  /\ UNCHANGED <<target, pixel, setting, cycle>>

LedsThread == SetTarget \/ Fade

StripNext == LedsThread \/ UsbEvent

(***************************************************************************)
(* A strip whose host stays away goes dark and stays dark, though the      *)
(* thread may be in the middle of a round, and a round does not take a     *)
(* pixel all the way.                                                      *)
(***************************************************************************)
StripGoesDark == <>[]suspended => <>[](\A i \in Strip : pixel[i] = 0)
=============================================================================

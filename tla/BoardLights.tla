---------------------------- MODULE BoardLights -----------------------------
(***************************************************************************)
(* What a device shows: the status LEDs, an LED strip, or clicks and       *)
(* vibrations.  They share no state, so one of them stands for all.        *)
(***************************************************************************)
EXTENDS Blinker, LedStrip, Effects

VARIABLE output

Leds == "leds"
StripLights == "strip"
Sounds == "sounds"

lightvars == <<output, vars, stripvars, effectvars>>

LightsInit ==
  /\ output \in {Leds, StripLights, Sounds}
  /\ Init /\ StripInit /\ EffectsInit
  /\ output # Leds => board = CHOOSE b \in Boards : TRUE

OnlyOutput(o) ==
  /\ output = o
  /\ UNCHANGED output
  /\ o # Leds => UNCHANGED vars
  /\ o # StripLights => UNCHANGED stripvars
  /\ o # Sounds => UNCHANGED effectvars

LightsNext ==
  \/ OnlyOutput(Leds) /\ Next
  \/ OnlyOutput(StripLights) /\ StripNext
  \/ OnlyOutput(Sounds) /\ EffectsNext

\* The thread of the strip goes on.
LightsSpec ==
  /\ LightsInit /\ [][LightsNext]_lightvars
  /\ WF_lightvars(OnlyOutput(StripLights) /\ LedsThread)
=============================================================================

------------------------------- MODULE Blinker ------------------------------
(***************************************************************************)
(* The status and activity LEDs (main.c): event() calls blinker_cb, which  *)
(* queues the event without waiting, and charger_cb, which turns the LED   *)
(* that shows the charge around; the main thread plays a pattern for each  *)
(* queued event, sleeping between its steps.  Every step reads led_invert  *)
(* anew, so the callbacks may turn it in the middle of a pattern.          *)
(***************************************************************************)
EXTENDS Integers, Sequences, SequencesExt

CONSTANTS
  QueueSize,   \* BLINKER_QUEUE_SZ
  Boards       \* the LEDs a board has, and the event codes that occur on it

CONSTANTS Status, Activity
CONSTANTS Boot, Input, BtConnected, BtDisconnected, BtUnpaired, Usb, Poweroff,
          Charging, Full, Disconnected \* enum event_code; Usb: any of the USB ones

ChargerCodes == {Charging, Full, Disconnected}
OtherCodes == {Boot, Input, BtConnected, BtDisconnected, BtUnpaired, Usb, Poweroff}

ASSUME BlinkerAssumption ==
  /\ QueueSize \in Nat \ {0}
  /\ Status # Activity
  /\ ChargerCodes \intersect OtherCodes = {} /\ Charging \notin {Full, Disconnected}
  /\ \A b \in Boards :
       b.leds \subseteq {Status, Activity} /\ b.codes \subseteq ChargerCodes \union OtherCodes

VARIABLES
  board,   \* the board the firmware was built for
  queue,   \* blinker_msgq
  pattern, \* the steps left of the pattern the main thread plays
  invert,  \* led_invert
  lit,     \* the LEDs that are lit
  charge,  \* the charge state last reported
  stale    \* the charge event that no step will show was dropped (history)

vars == <<board, queue, pattern, invert, lit, charge, stale>>

On(led) == [led |-> led, on |-> TRUE]
Dark(led) == [led |-> led, on |-> FALSE]

\* The switch of main: its led_status and led_activity calls.  Repetitions of
\* a blink beyond the second are left out.
Pattern(code) ==
  CASE code \in {Boot, BtDisconnected, BtUnpaired} -> <<On(Status), Dark(Status)>>
    [] code \in {BtConnected, Poweroff} -> <<On(Status), Dark(Status), On(Status), Dark(Status)>>
    [] code = Input -> <<On(Activity), Dark(Activity)>>
    [] code \in ChargerCodes -> <<Dark(Activity)>>
    [] OTHER -> <<>>

\* The LED a step lights: led_activity falls back on led_status.
Target(step) == IF step.led = Activity /\ Activity \notin board.leds THEN Status ELSE step.led

\* The LED that is inverted while charging.
ChargeLed == IF Activity \in board.leds THEN Activity ELSE Status

\* A pattern that sets the charge LED brings it up to date.
Refreshes(steps) == \E i \in DOMAIN steps : Target(steps[i]) = ChargeLed

\* The brightness of led_status and led_activity.
Lights(step, inv) == step.on # (inv /\ Target(step) = ChargeLed)

Init ==
  /\ board \in Boards
  /\ queue = <<>> /\ pattern = <<>>
  /\ invert = FALSE
  /\ lit = {}
  /\ charge = Disconnected
  /\ stale = FALSE

\* Slip: a full battery keeps the LED inverted.
ChargerCbFull(code) ==
  invert' = CASE code = Charging -> TRUE
              [] code = Disconnected -> FALSE
              [] OTHER -> invert

\* charger_cb
ChargerCb(code) ==
  invert' = CASE code = Charging -> TRUE
              [] code \in {Full, Disconnected} -> FALSE
              [] OTHER -> invert

Fits == Len(queue) < QueueSize

\* The charge LED is yet to be set by what is being played or queued.
RefreshDue == Refreshes(pattern) \/ \E i \in DOMAIN queue : Refreshes(Pattern(queue[i]))

\* event() runs the callbacks one after the other; the main thread, of lower
\* priority, waits.  The charger poll only reports changes.
Event(code) ==
  /\ code \in ChargerCodes => code # charge
  /\ charge' = IF code \in ChargerCodes THEN code ELSE charge
  /\ queue' = IF Fits THEN Append(queue, code) ELSE queue
  /\ ChargerCb(code)
  /\ stale' = IF code \in ChargerCodes THEN ~Fits /\ ~RefreshDue
              ELSE stale /\ ~(Fits /\ Refreshes(Pattern(code)))
  /\ UNCHANGED <<pattern, lit>>

\* The main thread takes the next event.
Take ==
  /\ pattern = <<>> /\ queue # <<>>
  /\ pattern' = Pattern(Head(queue))
  /\ queue' = Tail(queue)
  /\ UNCHANGED <<invert, lit, charge, stale>>

\* led_status or led_activity, and the sleep that follows.
Step ==
  /\ pattern # <<>>
  /\ LET led == Target(Head(pattern))
     IN lit' = IF led \notin board.leds THEN lit
               ELSE IF Lights(Head(pattern), invert) THEN lit \union {led}
               ELSE lit \ {led}
  /\ pattern' = Tail(pattern)
  /\ UNCHANGED <<queue, invert, charge, stale>>

Main == Take \/ Step

Next == (Main \/ \E code \in board.codes : Event(code)) /\ UNCHANGED board

Spec == Init /\ [][Next]_vars
-----------------------------------------------------------------------------
BlinkerTypeOK ==
  /\ board \in Boards
  /\ Len(queue) <= QueueSize
  /\ queue \in Seq(board.codes)
  /\ Len(pattern) <= 4
  /\ invert \in BOOLEAN /\ stale \in BOOLEAN
  /\ lit \subseteq board.leds
  /\ charge \in ChargerCodes

\* The main thread waits for an event.
AtRest == queue = <<>> /\ pattern = <<>>

ShowsCharge == lit = (IF charge = Charging THEN {ChargeLed} \intersect board.leds ELSE {})

(***************************************************************************)
(* Between events the LEDs show the charge, and nothing else: no pattern   *)
(* leaves a LED as it was when the charge changed in the middle of it.     *)
(* The queue may only drop a charger event for good, unshown, while it is  *)
(* full of events that do not touch the charge LED.                        *)
(***************************************************************************)
RestShowsCharge == AtRest /\ ~stale => ShowsCharge

(***************************************************************************)
(* With one LED, and only events that have a pattern, a dropped charger    *)
(* event is shown all the same, by the patterns ahead of it.               *)
(***************************************************************************)
OneLedShowsCharge ==
  board.leds = {Status} /\ Usb \notin board.codes /\ AtRest => ShowsCharge

(***************************************************************************)
(* The LEDs at rest, on boards with one LED and with two.                  *)
(***************************************************************************)
BlinkerInv == BlinkerTypeOK /\ RestShowsCharge /\ OneLedShowsCharge
=============================================================================

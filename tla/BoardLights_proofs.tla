-------------------------- MODULE BoardLights_proofs --------------------------
(***************************************************************************)
(* Proofs about what a device shows at rest: the status LEDs show the      *)
(* charge and nothing else, for every board, length of the queue and order *)
(* of events, no click or vibration goes on for ever, and every round of   *)
(* the strip takes the pixels as far as its cycles go.                     *)
(***************************************************************************)
EXTENDS BoardLights, SequenceTheorems, TLAPS

-----------------------------------------------------------------------------
(***************************************************************************)
(* What is left of a pattern works one LED and ends by setting it dark.    *)
(***************************************************************************)
Blinks(l) == {<<Dark(l)>>, <<On(l), Dark(l)>>, <<Dark(l), On(l), Dark(l)>>, <<On(l), Dark(l), On(l), Dark(l)>>}

\* The LED that is worked for led_status or led_activity.
Aim(l) == Target(On(l))

LEMMA BlinkStep ==
  ASSUME NEW l, NEW p \in Blinks(l)
  PROVE  /\ p # <<>> /\ Len(p) <= 4 /\ Len(p) \in Nat
         /\ \/ Head(p) = On(l) /\ Tail(p) \in Blinks(l)
            \/ Head(p) = Dark(l) /\ Tail(p) \in Blinks(l) \union {<<>>}
<1>1. CASE p = <<Dark(l)>>
  <2>1. Head(p) = Dark(l) /\ Tail(p) = <<>> /\ Len(p) = 1
    BY <1>1
  <2> QED
    BY <2>1
<1>2. CASE p = <<On(l), Dark(l)>>
  <2>1. Head(p) = On(l) /\ Tail(p) = <<Dark(l)>> /\ Len(p) = 2
    BY <1>2
  <2> QED
    BY <2>1 DEF Blinks
<1>3. CASE p = <<Dark(l), On(l), Dark(l)>>
  <2>1. Head(p) = Dark(l) /\ Tail(p) = <<On(l), Dark(l)>> /\ Len(p) = 3
    BY <1>3
  <2> QED
    BY <2>1 DEF Blinks
<1>4. CASE p = <<On(l), Dark(l), On(l), Dark(l)>>
  <2>1. Head(p) = On(l) /\ Tail(p) = <<Dark(l), On(l), Dark(l)>> /\ Len(p) = 4
    BY <1>4
  <2> QED
    BY <2>1 DEF Blinks
<1> QED
  BY <1>1, <1>2, <1>3, <1>4 DEF Blinks

LEMMA BlinkAims ==
  ASSUME NEW l, NEW p \in Blinks(l)
  PROVE  Refreshes(p) <=> Aim(l) = ChargeLed
<1>1. Target(Dark(l)) = Aim(l) /\ Target(On(l)) = Aim(l)
  BY DEF Target, Aim, On, Dark
<1>2. 1 \in DOMAIN p /\ \A i \in DOMAIN p : p[i] = On(l) \/ p[i] = Dark(l)
  BY DEF Blinks
<1> QED
  BY <1>1, <1>2 DEF Refreshes

LEMMA NothingRefreshes == ~Refreshes(<<>>)
BY DEF Refreshes

\* The pattern of each event.
LEMMA PatternBlinks ==
  ASSUME NEW code
  PROVE  /\ Pattern(code) \in {<<>>} \union Blinks(Status) \union Blinks(Activity)
         /\ code \in ChargerCodes => Pattern(code) \in Blinks(Activity)
         /\ code \in OtherCodes \ {Usb} => Pattern(code) # <<>>
<1> USE DEF Pattern, Blinks
<1>1. CASE code \in ChargerCodes
  BY <1>1, BlinkerAssumption DEF OtherCodes
<1>2. CASE code \notin ChargerCodes
  BY <1>2 DEF OtherCodes
<1> QED
  BY <1>1, <1>2

-----------------------------------------------------------------------------
(***************************************************************************)
(* The invariant of the status LEDs.  LEDs other than the one that shows   *)
(* the charge are lit only within a pattern that works them; that one      *)
(* shows led_invert as soon as nothing is left to set it, unless an event  *)
(* was dropped with nothing ahead of it that would.                        *)
(***************************************************************************)
OneLed == board.leds = {Status} /\ Usb \notin board.codes

PatternSound == pattern \in {<<>>} \union Blinks(Status) \union Blinks(Activity)

WorkedSound ==
  \A led \in lit \ {ChargeLed} : \E l \in {Status, Activity} : pattern \in Blinks(l) /\ Aim(l) = led

ShownSound == ~RefreshDue /\ ~stale => (ChargeLed \in lit <=> (invert /\ ChargeLed \in board.leds))

BlinkerSound ==
  /\ BlinkerTypeOK /\ PatternSound
  /\ invert <=> charge = Charging
  /\ WorkedSound /\ ShownSound
  /\ OneLed => ~stale

LEMMA InitBlinker == Init => BlinkerSound
<1> SUFFICES ASSUME Init  PROVE BlinkerSound
  OBVIOUS
<1> USE DEF Init
<1>1. BlinkerTypeOK /\ PatternSound /\ ~stale
  <2>1. Len(queue) = 0 /\ Len(pattern) = 0 /\ queue \in Seq(board.codes)
    OBVIOUS
  <2>2. Len(queue) <= QueueSize /\ Len(pattern) <= 4
    BY <2>1, BlinkerAssumption
  <2> QED
    BY <2>1, <2>2 DEF BlinkerTypeOK, PatternSound, ChargerCodes
<1>2. invert <=> charge = Charging
  BY BlinkerAssumption
<1>3. WorkedSound /\ ShownSound
  BY DEF WorkedSound, ShownSound
<1> QED
  BY <1>1, <1>2, <1>3 DEF BlinkerSound

\* An empty pattern sets no LED; one for the activity LED the charge LED, also
\* where the status LED stands in for it.
LEMMA WhoRefreshes ==
  /\ Aim(Status) = Status
  /\ Aim(Activity) = ChargeLed
  /\ ChargeLed = Status <=> Activity \notin board.leds
BY BlinkerAssumption DEF Aim, Target, On, ChargeLed

\* An event queued adds its pattern to what will set the charge LED.
LEMMA AppendDue ==
  ASSUME NEW q \in Seq(board.codes), NEW code \in board.codes
  PROVE  (\E i \in DOMAIN Append(q, code) : Refreshes(Pattern(Append(q, code)[i])))
           <=> ((\E i \in DOMAIN q : Refreshes(Pattern(q[i]))) \/ Refreshes(Pattern(code)))
<1> DEFINE Due(c) == Refreshes(Pattern(c))
<1> HIDE DEF Due
<1>1. /\ DOMAIN Append(q, code) = 1 .. (Len(q) + 1) /\ DOMAIN q = 1 .. Len(q) /\ Len(q) \in Nat
      /\ Append(q, code)[Len(q) + 1] = code
      /\ \A i \in 1 .. Len(q) : Append(q, code)[i] = q[i]
  OBVIOUS
<1>2. (\E i \in DOMAIN Append(q, code) : Due(Append(q, code)[i])) <=> ((\E i \in DOMAIN q : Due(q[i])) \/ Due(code))
  <2>1. ASSUME NEW i \in DOMAIN Append(q, code), Due(Append(q, code)[i])
        PROVE  (\E j \in DOMAIN q : Due(q[j])) \/ Due(code)
    <3>1. i \in DOMAIN q \/ i = Len(q) + 1
      BY <1>1
    <3> QED
      BY <1>1, <2>1, <3>1
  <2>2. ASSUME NEW i \in DOMAIN q, Due(q[i])
        PROVE  \E j \in DOMAIN Append(q, code) : Due(Append(q, code)[j])
    <3>1. i \in DOMAIN Append(q, code)
      BY <1>1
    <3> QED
      BY <1>1, <2>2, <3>1
  <2>3. ASSUME Due(code)
        PROVE  \E j \in DOMAIN Append(q, code) : Due(Append(q, code)[j])
    <3>1. Len(q) + 1 \in DOMAIN Append(q, code)
      BY <1>1
    <3> QED
      BY <1>1, <2>3, <3>1
  <2> QED
    BY <2>1, <2>2, <2>3
<1> QED
  BY <1>2 DEF Due

\* An event taken takes its pattern from what is queued.
LEMMA TailDue ==
  ASSUME NEW q \in Seq(board.codes), q # <<>>
  PROVE  /\ Head(q) \in board.codes /\ Tail(q) \in Seq(board.codes) /\ Len(Tail(q)) = Len(q) - 1
         /\ (\E i \in DOMAIN q : Refreshes(Pattern(q[i])))
              <=> ((\E i \in DOMAIN Tail(q) : Refreshes(Pattern(Tail(q)[i]))) \/ Refreshes(Pattern(Head(q))))
<1> DEFINE Due(c) == Refreshes(Pattern(c))
<1> HIDE DEF Due
<1>1. /\ Tail(q) \in Seq(board.codes) /\ Head(q) \in board.codes /\ Head(q) = q[1]
      /\ Len(q) \in Nat \ {0} /\ Len(Tail(q)) = Len(q) - 1
      /\ DOMAIN q = 1 .. Len(q) /\ DOMAIN Tail(q) = 1 .. (Len(q) - 1)
      /\ \A i \in 1 .. (Len(q) - 1) : Tail(q)[i] = q[i + 1]
  OBVIOUS
<1>2. (\E i \in DOMAIN q : Due(q[i])) <=> ((\E i \in DOMAIN Tail(q) : Due(Tail(q)[i])) \/ Due(Head(q)))
  <2>1. ASSUME NEW i \in DOMAIN q, Due(q[i])
        PROVE  (\E j \in DOMAIN Tail(q) : Due(Tail(q)[j])) \/ Due(Head(q))
    <3>1. CASE i = 1
      BY <1>1, <2>1, <3>1
    <3>2. CASE i # 1
      <4>1. i - 1 \in DOMAIN Tail(q) /\ (i - 1) + 1 = i
        BY <1>1, <3>2
      <4>2. Tail(q)[i - 1] = q[i]
        BY <1>1, <4>1
      <4> QED
        BY <2>1, <4>1, <4>2
    <3> QED
      BY <3>1, <3>2
  <2>2. ASSUME NEW i \in DOMAIN Tail(q), Due(Tail(q)[i])
        PROVE  \E j \in DOMAIN q : Due(q[j])
    <3>1. i + 1 \in DOMAIN q /\ Tail(q)[i] = q[i + 1]
      BY <1>1
    <3> QED
      BY <2>2, <3>1
  <2>3. ASSUME Due(Head(q))
        PROVE  \E j \in DOMAIN q : Due(q[j])
    <3>1. 1 \in DOMAIN q
      BY <1>1
    <3> QED
      BY <1>1, <2>3, <3>1
  <2> QED
    BY <2>1, <2>2, <2>3
<1> QED
  BY <1>1, <1>2 DEF Due

-----------------------------------------------------------------------------
\* The patterns that event codes of a board have, and which set the charge LED.
LEMMA CodePatterns ==
  ASSUME BlinkerSound
  PROVE  /\ \A code \in board.codes : Pattern(code) \in {<<>>} \union Blinks(Status) \union Blinks(Activity)
         /\ \A code \in ChargerCodes : Refreshes(Pattern(code))
         /\ OneLed => \A code \in board.codes : Refreshes(Pattern(code))
<1>1. \A code \in board.codes : Pattern(code) \in {<<>>} \union Blinks(Status) \union Blinks(Activity)
  BY PatternBlinks
<1>2. \A code \in ChargerCodes : Refreshes(Pattern(code))
  BY PatternBlinks, BlinkAims, WhoRefreshes
<1>3. ASSUME OneLed, NEW code \in board.codes  PROVE Refreshes(Pattern(code))
  <2>1. ChargeLed = Status /\ Aim(Activity) = Status /\ Aim(Status) = Status
    BY <1>3, BlinkerAssumption, WhoRefreshes DEF OneLed
  <2>2. code \in ChargerCodes \union (OtherCodes \ {Usb})
    BY <1>3, BlinkerAssumption DEF BlinkerSound, BlinkerTypeOK, OneLed
  <2>3. Pattern(code) \in Blinks(Status) \union Blinks(Activity)
    <3>1. Pattern(code) # <<>>
      BY <2>2, PatternBlinks, BlinkStep
    <3> QED
      BY <3>1, PatternBlinks
  <2> QED
    BY <2>1, <2>3, BlinkAims
<1> QED
  BY <1>1, <1>2, <1>3

LEMMA EventSound ==
  ASSUME BlinkerSound, NEW code \in board.codes, Event(code), board' = board
  PROVE  BlinkerSound'
<1>1. UNCHANGED <<pattern, lit, board>> /\ code \in ChargerCodes \union OtherCodes
  BY BlinkerAssumption DEF Event, BlinkerSound, BlinkerTypeOK
<1>2. queue \in Seq(board.codes) /\ Len(queue) \in Nat /\ Len(queue) <= QueueSize /\ QueueSize \in Nat \ {0}
  BY BlinkerAssumption DEF BlinkerSound, BlinkerTypeOK
<1>3. queue' \in Seq(board.codes) /\ Len(queue') <= QueueSize
  <2>1. CASE Fits
    <3>1. queue' = Append(queue, code)
      BY <2>1 DEF Event
    <3> QED
      BY <1>2, <2>1, <3>1 DEF Fits
  <2>2. CASE ~Fits
    BY <1>2, <2>2 DEF Event
  <2> QED
    BY <2>1, <2>2
<1>4. charge' \in ChargerCodes /\ (invert' <=> charge' = Charging) /\ invert' \in BOOLEAN
  <2>1. CASE code \in ChargerCodes
    BY <2>1, BlinkerAssumption DEF Event, ChargerCb, ChargerCodes
  <2>2. CASE code \notin ChargerCodes
    BY <2>2 DEF Event, ChargerCb, ChargerCodes, BlinkerSound, BlinkerTypeOK
  <2> QED
    BY <2>1, <2>2
<1>5. RefreshDue' <=> (RefreshDue \/ (Fits /\ Refreshes(Pattern(code))))
  <2>1. \A p : Refreshes(p)' <=> Refreshes(p)
    BY <1>1 DEF Refreshes, Target, ChargeLed
  <2>2. CASE Fits
    <3>1. queue' = Append(queue, code)
      BY <2>2 DEF Event
    <3>2. (\E i \in DOMAIN queue' : Refreshes(Pattern(queue'[i])))
            <=> ((\E i \in DOMAIN queue : Refreshes(Pattern(queue[i]))) \/ Refreshes(Pattern(code)))
      BY <1>2, <3>1, AppendDue
    <3> QED
      BY <1>1, <2>1, <2>2, <3>2 DEF RefreshDue
  <2>3. CASE ~Fits
    BY <1>1, <2>1, <2>3 DEF RefreshDue, Event
  <2> QED
    BY <2>2, <2>3
<1>6. stale' \in BOOLEAN
  BY DEF Event, BlinkerSound, BlinkerTypeOK
<1>7. BlinkerTypeOK'
  BY <1>1, <1>3, <1>4, <1>6 DEF BlinkerSound, BlinkerTypeOK
<1>8. PatternSound' /\ WorkedSound'
  BY <1>1 DEF BlinkerSound, PatternSound, WorkedSound, ChargeLed, Aim, Target
<1>9. ShownSound'
  <2>1. SUFFICES ASSUME ~RefreshDue', ~stale'
        PROVE  ChargeLed \in lit <=> (invert' /\ ChargeLed \in board.leds)
    BY <1>1 DEF ShownSound, ChargeLed
  <2>2. code \notin ChargerCodes
    BY <1>5, <2>1, CodePatterns DEF Event
  <2>3. invert' = invert /\ ~stale /\ ~RefreshDue
    BY <1>5, <2>1, <2>2 DEF Event, ChargerCb, ChargerCodes
  <2> QED
    BY <2>3 DEF BlinkerSound, ShownSound
<1>10. (OneLed => ~stale)'
  <2>1. SUFFICES ASSUME OneLed, stale'  PROVE FALSE
    BY <1>1 DEF OneLed
  <2>2. ~Fits /\ ~RefreshDue
    BY <2>1 DEF Event, BlinkerSound
  <2>3. 1 \in DOMAIN queue /\ queue[1] \in board.codes
    BY <1>2, <2>2 DEF Fits
  <2> QED
    BY <2>1, <2>2, <2>3, CodePatterns DEF RefreshDue
<1> QED
  BY <1>4, <1>7, <1>8, <1>9, <1>10 DEF BlinkerSound

LEMMA TakeSound ==
  ASSUME BlinkerSound, Take, board' = board
  PROVE  BlinkerSound'
<1>1. UNCHANGED <<invert, lit, charge, stale, board>>
  BY DEF Take
<1>2. /\ queue \in Seq(board.codes) /\ queue # <<>> /\ Len(queue) \in Nat /\ Len(queue) <= QueueSize
      /\ QueueSize \in Nat /\ pattern = <<>> /\ queue' = Tail(queue) /\ pattern' = Pattern(Head(queue))
  BY BlinkerAssumption DEF Take, BlinkerSound, BlinkerTypeOK
<1>3. /\ Head(queue) \in board.codes
      /\ queue' \in Seq(board.codes) /\ Len(queue') = Len(queue) - 1
  BY <1>2, TailDue
<1>4. PatternSound' /\ Len(pattern') <= 4
  <2>1. pattern' \in {<<>>} \union Blinks(Status) \union Blinks(Activity)
    BY <1>2, <1>3, CodePatterns
  <2>2. pattern' = <<>> => Len(pattern') <= 4
    OBVIOUS
  <2>3. PatternSound'
    BY <2>1 DEF PatternSound, Blinks, On, Dark
  <2> QED
    BY <2>1, <2>2, <2>3, BlinkStep
<1>5. Len(queue') <= QueueSize
  BY <1>2, <1>3
<1>6. BlinkerTypeOK'
  BY <1>1, <1>3, <1>4, <1>5 DEF BlinkerSound, BlinkerTypeOK
<1>7. lit \subseteq {ChargeLed}
  BY <1>2, BlinkStep DEF BlinkerSound, WorkedSound
<1>8. WorkedSound'
  BY <1>1, <1>7 DEF WorkedSound, ChargeLed
<1>9. RefreshDue' <=> RefreshDue
  <2>1. \A p : Refreshes(p)' <=> Refreshes(p)
    BY <1>1 DEF Refreshes, Target, ChargeLed
  <2>2. RefreshDue <=> \E i \in DOMAIN queue : Refreshes(Pattern(queue[i]))
    BY <1>2, NothingRefreshes DEF RefreshDue
  <2>3. RefreshDue <=> (Refreshes(pattern') \/ \E i \in DOMAIN queue' : Refreshes(Pattern(queue'[i])))
    BY <1>2, <2>2, TailDue
  <2>4. RefreshDue' <=> (Refreshes(pattern') \/ \E i \in DOMAIN queue' : Refreshes(Pattern(queue'[i])))
    BY <1>1 DEF RefreshDue, Refreshes, Target, ChargeLed
  <2> QED
    BY <2>3, <2>4
<1>10. ShownSound'
  BY <1>1, <1>9 DEF BlinkerSound, ShownSound, ChargeLed
<1> QED
  BY <1>1, <1>4, <1>6, <1>8, <1>10 DEF BlinkerSound, OneLed

LEMMA StepSound ==
  ASSUME BlinkerSound, Step, board' = board
  PROVE  BlinkerSound'
<1>1. /\ UNCHANGED <<queue, invert, charge, stale, board>>
      /\ pattern # <<>> /\ pattern' = Tail(pattern)
  BY DEF Step
<1>2. PICK l \in {Status, Activity} : pattern \in Blinks(l)
  BY <1>1 DEF BlinkerSound, PatternSound
<1>3. /\ Target(Head(pattern)) = Aim(l)
      /\ \/ Head(pattern).on /\ pattern' \in Blinks(l)
         \/ ~Head(pattern).on /\ pattern' \in Blinks(l) \union {<<>>}
  <2>1. \/ Head(pattern) = On(l) /\ pattern' \in Blinks(l)
        \/ Head(pattern) = Dark(l) /\ pattern' \in Blinks(l) \union {<<>>}
    BY <1>1, <1>2, BlinkStep
  <2> QED
    BY <2>1 DEF Aim, Target, On, Dark
<1>4. lit' = IF Aim(l) \notin board.leds THEN lit
             ELSE IF Lights(Head(pattern), invert) THEN lit \union {Aim(l)}
             ELSE lit \ {Aim(l)}
  BY <1>3 DEF Step
<1>5. PatternSound' /\ Len(pattern') <= 4
  <2>1. pattern' = <<>> => Len(pattern') <= 4
    OBVIOUS
  <2>2. PatternSound'
    BY <1>3 DEF PatternSound, Blinks, On, Dark
  <2> QED
    BY <1>3, <2>1, <2>2, BlinkStep
<1>6. lit' \subseteq board.leds
  BY <1>4 DEF BlinkerSound, BlinkerTypeOK
<1>7. BlinkerTypeOK'
  BY <1>1, <1>5, <1>6 DEF BlinkerSound, BlinkerTypeOK
<1>8. \A led \in lit \ {ChargeLed} : led = Aim(l)
  <2>1. SUFFICES ASSUME NEW led \in lit \ {ChargeLed}, NEW k \in {Status, Activity}, pattern \in Blinks(k), Aim(k) = led
                 PROVE  led = Aim(l)
    BY DEF BlinkerSound, WorkedSound
  <2>2. Head(pattern) \in {On(k), Dark(k)} /\ Head(pattern) \in {On(l), Dark(l)}
    BY <1>2, <2>1, BlinkStep
  <2>3. k = l
    BY <2>2 DEF On, Dark
  <2> QED
    BY <2>1, <2>3
<1>9. WorkedSound'
  <2>1. \A led \in lit' \ {ChargeLed} : pattern' \in Blinks(l) /\ Aim(l) = led
    <3> TAKE led \in lit' \ {ChargeLed}
    <3>1. led = Aim(l) /\ Aim(l) # ChargeLed
      BY <1>4, <1>8
    <3>2. led \in board.leds
      BY <1>6
    <3>3. Lights(Head(pattern), invert)
      BY <1>4, <3>1, <3>2
    <3>4. ~(invert /\ Target(Head(pattern)) = ChargeLed)
      BY <1>3, <3>1
    <3>5. Head(pattern) # Dark(l)
      <4>1. SUFFICES ASSUME Head(pattern) = Dark(l)  PROVE ~Lights(Head(pattern), invert)
        BY <3>3
      <4>2. Head(pattern).on = FALSE
        BY <4>1 DEF Dark
      <4>3. (invert /\ Target(Head(pattern)) = ChargeLed) = FALSE
        BY <3>4
      <4> QED
        BY <4>2, <4>3 DEF Lights
    <3>6. Tail(pattern) \in Blinks(l)
      BY <1>2, <3>5, BlinkStep
    <3> QED
      BY <1>1, <3>1, <3>6
  <2>2. ChargeLed' = ChargeLed /\ Aim(l)' = Aim(l) /\ Blinks(l)' = Blinks(l)
    BY <1>1 DEF ChargeLed, Aim, Target, Blinks
  <2> QED
    BY <2>1, <2>2 DEF WorkedSound
<1>10. ShownSound'
  <2>1. SUFFICES ASSUME ~RefreshDue', ~stale
        PROVE  ChargeLed \in lit' <=> (invert /\ ChargeLed \in board.leds)
    BY <1>1 DEF ShownSound, ChargeLed
  <2>2. /\ ~Refreshes(pattern')
        /\ ~\E i \in DOMAIN queue : Refreshes(Pattern(queue[i]))
    BY <1>1, <2>1 DEF RefreshDue, Refreshes, Target, ChargeLed
  <2>3. CASE Aim(l) # ChargeLed
    <3>1. ~RefreshDue
      BY <1>2, <2>2, <2>3, BlinkAims DEF RefreshDue
    <3> QED
      BY <1>4, <2>1, <2>3, <3>1 DEF BlinkerSound, ShownSound
  <2>4. CASE Aim(l) = ChargeLed
    <3>1. ~Head(pattern).on
      BY <1>3, <2>2, <2>4, BlinkAims
    <3>2. Head(pattern).on = FALSE
      BY <1>1, <1>2, <3>1, BlinkStep DEF On, Dark
    <3>3. Lights(Head(pattern), invert) <=> invert
      BY <1>3, <2>4, <3>2 DEF Lights, BlinkerSound, BlinkerTypeOK
    <3>4. ChargeLed \notin board.leds => ChargeLed \notin lit'
      BY <1>6
    <3>5. ChargeLed \in board.leds => (ChargeLed \in lit' <=> invert)
      BY <1>4, <2>4, <3>3
    <3> QED
      BY <3>4, <3>5
  <2> QED
    BY <2>3, <2>4
<1> QED
  BY <1>1, <1>5, <1>7, <1>9, <1>10 DEF BlinkerSound, OneLed

LEMMA BlinkerKept ==
  ASSUME BlinkerSound, UNCHANGED vars
  PROVE  BlinkerSound'
BY DEF vars, BlinkerSound, BlinkerTypeOK, PatternSound, WorkedSound, ShownSound, RefreshDue,
       Refreshes, Aim, Target, ChargeLed, OneLed

\* What the LEDs show at rest is what the invariant says of them.
LEMMA BlinkerShown == BlinkerSound => BlinkerInv
<1> SUFFICES ASSUME BlinkerSound  PROVE BlinkerInv
  OBVIOUS
<1>1. ASSUME AtRest  PROVE ~RefreshDue /\ lit \subseteq {ChargeLed}
  <2>1. DOMAIN queue = {} /\ ~Refreshes(pattern)
    BY <1>1, NothingRefreshes DEF AtRest
  <2> QED
    BY <1>1, <2>1, BlinkStep DEF AtRest, RefreshDue, BlinkerSound, WorkedSound
<1>2. ASSUME AtRest, ~stale  PROVE ShowsCharge
  <2>1. ChargeLed \in lit <=> (charge = Charging /\ ChargeLed \in board.leds)
    BY <1>1, <1>2 DEF BlinkerSound, ShownSound
  <2>2. lit \subseteq {ChargeLed}
    BY <1>1, <1>2
  <2> QED
    BY <2>1, <2>2 DEF ShowsCharge
<1>3. BlinkerTypeOK /\ RestShowsCharge /\ OneLedShowsCharge
  BY <1>2 DEF BlinkerSound, RestShowsCharge, OneLedShowsCharge, OneLed
<1> QED
  BY <1>3 DEF BlinkerInv
-----------------------------------------------------------------------------
(***************************************************************************)
(* The clicker and the motor.                                              *)
(***************************************************************************)
EffectsSound ==
  /\ haptic \in [Callers -> {"idle", "first", "pause", "last"}]
  /\ EffectsInv

LEMMA InitEffects == EffectsInit => EffectsSound
BY DEF EffectsInit, EffectsSound, EffectsInv

\* A thread that begins a pulse is in it; one that ends a pulse stops the motor,
\* also under the pulse of another thread.
LEMMA EffectsStep ==
  ASSUME EffectsSound, EffectsNext
  PROVE  EffectsSound'
<1> USE DEF EffectsSound, EffectsInv, clickvars, hapticvars
<1>1. CASE Click \/ ClickTimeout \/ ClickHandler
  BY <1>1 DEF Click, ClickTimeout, ClickHandler
<1>2. CASE MatrixToggle \/ MatrixReboot
  BY <1>2 DEF MatrixToggle, MatrixReboot
<1>3. ASSUME NEW c \in Callers, HapticSlept(c)  PROVE EffectsSound'
  <2>1. UNCHANGED clickvars /\ haptic[c] \in {"first", "pause", "last"}
    BY <1>3 DEF HapticSlept
  <2>2. haptic' \in [Callers -> {"idle", "first", "pause", "last"}]
    BY <1>3, <2>1 DEF HapticSlept
  <2>3. motor' => haptic'[c] = "last"
    BY <1>3 DEF HapticSlept
  <2> QED
    BY <2>1, <2>2, <2>3
<1>4. ASSUME NEW c \in Callers, NEW connected \in BOOLEAN, HapticEvent(c, connected)  PROVE EffectsSound'
  <2>1. UNCHANGED clickvars
    BY <1>4 DEF HapticEvent
  <2>2. /\ haptic' \in [Callers -> {"idle", "first", "pause", "last"}]
        /\ haptic'[c] \in {"first", "last"}
    BY <1>4 DEF HapticEvent
  <2> QED
    BY <2>1, <2>2
<1> QED
  BY <1>1, <1>2, <1>3, <1>4 DEF EffectsNext

LEMMA EffectsKept ==
  ASSUME EffectsSound, UNCHANGED effectvars
  PROVE  EffectsSound'
BY DEF EffectsSound, EffectsInv, effectvars, clickvars, hapticvars
-----------------------------------------------------------------------------
(***************************************************************************)
(* The status LEDs of every board keep their invariant.                    *)
(***************************************************************************)
THEOREM LightsStaySound == LightsSpec => [](BlinkerSound /\ EffectsSound)
<1>1. LightsInit => BlinkerSound /\ EffectsSound
  BY InitBlinker, InitEffects DEF LightsInit
<1>2. (BlinkerSound /\ EffectsSound) /\ [LightsNext]_lightvars => (BlinkerSound /\ EffectsSound)'
  <2> SUFFICES ASSUME BlinkerSound, EffectsSound, [LightsNext]_lightvars
               PROVE  (BlinkerSound /\ EffectsSound)'
    OBVIOUS
  <2>1. CASE OnlyOutput(Leds) /\ Next
    <3>1. UNCHANGED effectvars
      BY <2>1 DEF OnlyOutput, Leds, Sounds
    <3>2. BlinkerSound'
      BY <2>1, EventSound, TakeSound, StepSound DEF Next, Main
    <3> QED
      BY <3>1, <3>2, EffectsKept
  <2>2. CASE OnlyOutput(StripLights) /\ StripNext
    <3>1. UNCHANGED vars /\ UNCHANGED effectvars
      BY <2>2 DEF OnlyOutput, Leds, StripLights, Sounds
    <3> QED
      BY <3>1, EffectsKept, BlinkerKept
  <2>3. CASE OnlyOutput(Sounds) /\ EffectsNext
    <3>1. UNCHANGED vars
      BY <2>3 DEF OnlyOutput, Leds, Sounds
    <3> QED
      BY <2>3, <3>1, BlinkerKept, EffectsStep
  <2>4. CASE UNCHANGED lightvars
    BY <2>4, BlinkerKept, EffectsKept DEF lightvars
  <2> QED
    BY <2>1, <2>2, <2>3, <2>4 DEF LightsNext
<1> QED
  BY <1>1, <1>2, PTL DEF LightsSpec

(***************************************************************************)
(* Whenever the main thread waits for an event, the LEDs show the charge   *)
(* and nothing else, unless the queue dropped the last report while it was *)
(* full of events that do not touch the charge LED; on a board with one    *)
(* LED not even then.                                                      *)
(***************************************************************************)
THEOREM RestIsTruthful == LightsSpec => []BlinkerInv
BY LightsStaySound, BlinkerShown, PTL

(***************************************************************************)
(* The buzzer sounds only while its work item is scheduled or queued, the  *)
(* motor turns only within a pulse of some thread, for any number of       *)
(* threads that call event().                                              *)
(***************************************************************************)
THEOREM EverySoundEnds == LightsSpec => []EffectsInv
<1>1. EffectsSound => EffectsInv
  BY DEF EffectsSound
<1> QED
  BY <1>1, LightsStaySound, PTL
-----------------------------------------------------------------------------
(***************************************************************************)
(* The strip.  A pixel moves one step a cycle, so the cycle of the round   *)
(* bounds how far from its target it still is; a pixel that has arrived    *)
(* at the full level steps down again, and stays within a step of it.      *)
(***************************************************************************)
Fading ==
  \A i \in Strip :
    /\ target[i] = 0 => pixel[i] = 0 \/ pixel[i] <= Level - cycle * StepSize
    /\ target[i] = Level => pixel[i] >= Level - StepSize \/ pixel[i] >= cycle * StepSize

StripTypes ==
  /\ target \in [Strip -> {0, Level}] /\ pixel \in [Strip -> 0 .. Level]
  /\ setting \in 1 .. Pixels + 1 /\ cycle \in 0 .. Cycles - 1
  /\ setting <= Pixels => cycle = 0

StripSound == StripTypes /\ Fading

LEMMA StepInLevel == StepSize \in Nat /\ Level \in Nat \ {0} /\ Cycles \in Nat \ {0} /\ Pixels \in Nat \ {0}
BY LedStripAssumption DEF StepSize

LEMMA CycleStep ==
  ASSUME NEW n \in Nat, NEW s \in Nat
  PROVE  n * s \in Nat /\ (n + 1) * s = n * s + s
OBVIOUS

\* At the start of a round nothing is claimed but the types.
LEMMA RoundStarts == StripTypes /\ cycle = 0 => Fading
<1> SUFFICES ASSUME StripTypes, cycle = 0 PROVE Fading
  OBVIOUS
<1>1. cycle * StepSize = 0
  BY StepInLevel
<1>2. \A i \in Strip : pixel[i] \in 0 .. Level
  BY DEF StripTypes
<1> QED
  BY <1>1, <1>2, StepInLevel DEF Fading

LEMMA InitStrip == StripInit => StripSound
<1> SUFFICES ASSUME StripInit PROVE StripSound
  OBVIOUS
<1>1. target \in [Strip -> {0, Level}] /\ pixel \in [Strip -> 0 .. Level]
  BY StepInLevel DEF StripInit
<1>2. setting = 1 /\ cycle = 0
  BY DEF StripInit
<1>3. StripTypes
  BY <1>1, <1>2, StepInLevel DEF StripTypes
<1> QED
  BY <1>2, <1>3, RoundStarts DEF StripSound

LEMMA SteppedBounds ==
  ASSUME NEW v \in 0 .. Level, NEW goal \in {0, Level}, NEW n \in Nat
  PROVE  /\ Stepped(v, goal) \in 0 .. Level
         /\ goal = 0 /\ (v = 0 \/ v <= Level - n * StepSize)
              => Stepped(v, goal) = 0 \/ Stepped(v, goal) <= Level - (n + 1) * StepSize
         /\ goal = Level /\ (v >= Level - StepSize \/ v >= n * StepSize)
              => Stepped(v, goal) >= Level - StepSize \/ Stepped(v, goal) >= (n + 1) * StepSize
<1>1. StepSize \in Nat /\ Level \in Nat \ {0}
  BY StepInLevel
<1> DEFINE done == n * StepSize
<1>2. done \in Nat /\ (n + 1) * StepSize = done + StepSize
  BY <1>1, CycleStep
<1> HIDE DEF done
<1> QED
  BY <1>1, <1>2 DEF Stepped, done

LEMMA TargetStep ==
  ASSUME StripSound, SetTarget
  PROVE  StripSound'
<1>1. PICK colour \in {0, Level} :
        target' = [target EXCEPT ![setting] = IF suspended THEN 0 ELSE colour]
  BY DEF SetTarget
<1>2. target' \in [Strip -> {0, Level}]
  BY <1>1 DEF StripSound, StripTypes
<1>3. /\ setting <= Pixels /\ setting' = setting + 1 /\ cycle' = cycle /\ pixel' = pixel
      /\ cycle = 0
  BY DEF SetTarget, StripSound, StripTypes
<1>4. StripTypes'
  BY <1>2, <1>3, StepInLevel DEF StripSound, StripTypes
<1>5. (StripTypes /\ cycle = 0 => Fading)'
  BY RoundStarts, PTL
<1> QED
  BY <1>3, <1>4, <1>5 DEF StripSound

LEMMA FadeStep ==
  ASSUME StripSound, Fade
  PROVE  StripSound'
<1>1. /\ setting > Pixels /\ target' = target
      /\ pixel' = [i \in Strip |-> Stepped(pixel[i], target[i])]
      /\ cycle' = (cycle + 1) % Cycles
      /\ setting' = IF cycle = Cycles - 1 THEN 1 ELSE setting
  BY DEF Fade
<1>2. /\ cycle \in Nat /\ cycle \in 0 .. Cycles - 1
      /\ \A i \in Strip : pixel[i] \in 0 .. Level /\ target[i] \in {0, Level}
  BY StepInLevel DEF StripSound, StripTypes
<1>3. pixel' \in [Strip -> 0 .. Level]
  BY <1>1, <1>2, SteppedBounds
<1>4. CASE cycle = Cycles - 1
  <2>1. cycle' = 0 /\ setting' = 1
    BY <1>1, <1>2, <1>4, StepInLevel
  <2>2. StripTypes'
    BY <1>1, <1>3, <2>1, StepInLevel DEF StripSound, StripTypes
  <2>3. (StripTypes /\ cycle = 0 => Fading)'
    BY RoundStarts, PTL
  <2> QED
    BY <2>1, <2>2, <2>3 DEF StripSound
<1>5. CASE cycle # Cycles - 1
  <2>1. cycle' = cycle + 1 /\ setting' = setting
    BY <1>1, <1>2, <1>5, StepInLevel
  <2>2. StripTypes'
    BY <1>1, <1>2, <1>3, <1>5, <2>1, StepInLevel DEF StripSound, StripTypes
  <2>3. Fading'
    <3> SUFFICES ASSUME NEW i \in Strip
                 PROVE  /\ target'[i] = 0 => pixel'[i] = 0 \/ pixel'[i] <= Level - cycle' * StepSize
                        /\ target'[i] = Level => pixel'[i] >= Level - StepSize \/ pixel'[i] >= cycle' * StepSize
      BY DEF Fading
    <3>1. pixel'[i] = Stepped(pixel[i], target[i]) /\ target'[i] = target[i]
      BY <1>1
    <3>2. /\ target[i] = 0 => pixel[i] = 0 \/ pixel[i] <= Level - cycle * StepSize
          /\ target[i] = Level => pixel[i] >= Level - StepSize \/ pixel[i] >= cycle * StepSize
      BY DEF StripSound, Fading
    <3>3. /\ target[i] = 0
               => Stepped(pixel[i], target[i]) = 0 \/ Stepped(pixel[i], target[i]) <= Level - (cycle + 1) * StepSize
          /\ target[i] = Level
               => \/ Stepped(pixel[i], target[i]) >= Level - StepSize
                  \/ Stepped(pixel[i], target[i]) >= (cycle + 1) * StepSize
      BY <1>2, <3>2, SteppedBounds
    <3> QED
      BY <2>1, <3>1, <3>3
  <2> QED
    BY <2>2, <2>3 DEF StripSound
<1> QED
  BY <1>4, <1>5

LEMMA StripKept ==
  ASSUME StripSound, UNCHANGED <<target, pixel, setting, cycle>>
  PROVE  StripSound'
BY DEF StripSound, StripTypes, Fading

LEMMA StripApart ==
  ASSUME StripSound, [LightsNext]_lightvars
  PROVE  StripSound'
<1>1. CASE UNCHANGED stripvars
  BY <1>1, StripKept DEF stripvars
<1>2. CASE StripNext
  BY <1>2, TargetStep, FadeStep, StripKept DEF StripNext, LedsThread, UsbEvent
<1> QED
  BY <1>1, <1>2 DEF LightsNext, OnlyOutput, lightvars, Leds, StripLights, Sounds

(***************************************************************************)
(* The safety that StripGoesDark rests on: the brightness stays in its     *)
(* range, and each round takes a pixel as far towards its target as its    *)
(* cycles go, for any strip, level and number of cycles.  A round need not *)
(* take it all the way.                                                    *)
(***************************************************************************)
FadesEveryRound ==
  /\ \A i \in Strip : pixel[i] \in 0 .. Level
  /\ setting > Pixels => Fading

THEOREM StripFades == LightsSpec => []FadesEveryRound
<1>1. LightsInit => StripSound
  BY InitStrip DEF LightsInit
<1>2. StripSound /\ [LightsNext]_lightvars => StripSound'
  BY StripApart
<1>3. StripSound => FadesEveryRound
  BY DEF StripSound, StripTypes, FadesEveryRound
<1> QED
  BY <1>1, <1>2, <1>3, PTL DEF LightsSpec
=============================================================================

------------------------- MODULE InputSources_proofs -------------------------
(***************************************************************************)
(* Proofs about the board code that produces input: the sensor's           *)
(* force-awake time, the button scan, the gyro's fractions, the stick, the *)
(* touch surface and the calibration of analog axes, for every value of    *)
(* the constants.                                                          *)
(***************************************************************************)
EXTENDS InputSources, SequenceTheorems, TLAPS

-----------------------------------------------------------------------------
(***************************************************************************)
(* The sensor.  The flag tells the mode even while calls are under way,    *)
(* and the work item's remaining time adds up with the time since it was   *)
(* put off: without that, when it expires would say nothing.               *)
(***************************************************************************)
SensorFlags ==
  /\ byButton \in BOOLEAN /\ forceAwake \in BOOLEAN /\ sensor \in BOOLEAN /\ due \in BOOLEAN
  /\ forceAwake <=> sensor

SensorCalls == calls \in {<<>>, <<Input>>, <<Handler>>, <<Input, Handler>>, <<Handler, Input>>}

SensorTimer ==
  /\ idleFor \in 0 .. ForceAwakeTimeout
  /\ timer \in (1 .. ForceAwakeTimeout) \union {Off}
  /\ timer # Off => timer + idleFor = ForceAwakeTimeout

SensorSound == SensorFlags /\ SensorCalls /\ SensorTimer /\ AwakeEnds

LEMMA AppendOne ==
  ASSUME NEW S, NEW a \in S, NEW x \in S
  PROVE  Append(<<a>>, x) = <<a, x>>
<1> DEFINE s == Append(<<a>>, x)
           t == <<a, x>>
<1>1. /\ <<a>> \in Seq(S) /\ Len(<<a>>) = 1 /\ <<a>>[1] = a
      /\ t \in Seq(S) /\ Len(t) = 2 /\ t[1] = a /\ t[2] = x
  OBVIOUS
<1>2. s \in Seq(S) /\ Len(s) = 2 /\ s[1] = a /\ s[2] = x
  <2>1. /\ s \in Seq(S) /\ Len(s) = Len(<<a>>) + 1
        /\ \A i \in 1 .. Len(<<a>>) : s[i] = <<a>>[i]
        /\ s[Len(<<a>>) + 1] = x
    BY <1>1, AppendProperties
  <2> QED
    BY <1>1, <2>1
<1> HIDE DEF s, t
<1>3. \A i \in 1 .. 2 : s[i] = t[i]
  BY <1>1, <1>2
<1>4. s = t
  BY <1>1, <1>2, <1>3, SeqEqual
<1> QED
  BY <1>4 DEF s, t

LEMMA CallShapes ==
  /\ Append(<<>>, Input) = <<Input>> /\ Append(<<>>, Handler) = <<Handler>>
  /\ Append(<<Input>>, Handler) = <<Input, Handler>> /\ Append(<<Handler>>, Input) = <<Handler, Input>>
  /\ \A a, b : Head(<<a>>) = a /\ Tail(<<a>>) = <<>> /\ Head(<<a, b>>) = a /\ Tail(<<a, b>>) = <<b>>
  /\ \A a, b : <<a>> # <<>> /\ <<a, b>> # <<>>
<1>1. \A a, b \in {Input, Handler} : Append(<<a>>, b) = <<a, b>>
  BY AppendOne
<1>2. \A a, b : Head(<<a>>) = a /\ Tail(<<a>>) = <<>> /\ Head(<<a, b>>) = a /\ Tail(<<a, b>>) = <<b>>
  OBVIOUS
<1>3. \A a : Append(<<>>, a) = <<a>>
  OBVIOUS
<1> QED
  BY <1>1, <1>2, <1>3

LEMMA Callers ==
  /\ calls = <<>> => \A c : ~Calling(c)
  /\ \A a : calls = <<a>> => \A c : Calling(c) <=> c = a
  /\ \A a, b : calls = <<a, b>> => \A c : Calling(c) <=> c = a \/ c = b
BY DEF Calling

LEMMA SensorSoundInit == Init => SensorSound
<1> SUFFICES ASSUME Init PROVE SensorSound
  OBVIOUS
<1>1. SensorFlags /\ AwakeEnds
  BY DEF Init, SensorFlags, AwakeEnds
<1>2. SensorCalls
  BY DEF Init, SensorCalls
<1>3. SensorTimer
  BY SensorPowerAssumption DEF Init, SensorTimer
<1> QED
  BY <1>1, <1>2, <1>3 DEF SensorSound

\* A call that is made waits behind the other thread's; one that returns was
\* the first.
LEMMA CallMade ==
  ASSUME SensorCalls, NEW c \in {Input, Handler}, ~Calling(c), calls' = Append(calls, c)
  PROVE  /\ SensorCalls'
         /\ \A d : Calling(d)' <=> Calling(d) \/ d = c
<1>1. calls = <<>> \/ (calls = <<Input>> /\ c = Handler) \/ (calls = <<Handler>> /\ c = Input)
  BY Callers DEF SensorCalls
<1>2. calls' \in {<<Input>>, <<Handler>>, <<Input, Handler>>, <<Handler, Input>>}
  BY <1>1, CallShapes
<1>3. CASE calls = <<>>
  <2>1. calls' = <<c>>
    BY <1>3, CallShapes
  <2> QED
    BY <1>2, <1>3, <2>1, Callers DEF SensorCalls, Calling
<1>4. CASE calls = <<Input>> /\ c = Handler
  <2>1. calls' = <<Input, Handler>>
    BY <1>4, CallShapes
  <2> QED
    BY <1>2, <1>4, <2>1, Callers DEF SensorCalls, Calling
<1>5. CASE calls = <<Handler>> /\ c = Input
  <2>1. calls' = <<Handler, Input>>
    BY <1>5, CallShapes
  <2> QED
    BY <1>2, <1>5, <2>1, Callers DEF SensorCalls, Calling
<1> QED
  BY <1>1, <1>3, <1>4, <1>5

LEMMA CallReturns ==
  ASSUME SensorCalls, calls # <<>>, calls' = Tail(calls)
  PROVE  SensorCalls'
BY CallShapes DEF SensorCalls

LEMMA TimerStarts ==
  ASSUME SensorTimer, Reschedule
  PROVE  SensorTimer' /\ timer' # Off
BY SensorPowerAssumption DEF SensorTimer, Reschedule, Off

LEMMA SensorStep ==
  ASSUME SensorSound, Next
  PROVE  SensorSound' /\ (~due /\ due' => idleFor' = ForceAwakeTimeout)
<1> USE DEF SensorSound
<1>1. ASSUME PowerBtn \/ FirstMotion, UNCHANGED byButton
      PROVE  SensorSound' /\ (due' <=> due)
  <2>1. ~Calling(Input) /\ calls' = Append(calls, Input) /\ UNCHANGED <<forceAwake, sensor, timer, due, idleFor>>
    BY <1>1 DEF PowerBtn, FirstMotion, Wake
  <2>2. SensorCalls' /\ (Calling(Handler) => Calling(Handler)')
    BY <2>1, CallMade
  <2> QED
    BY <1>1, <2>1, <2>2 DEF SensorFlags, SensorTimer, AwakeEnds
<1>2. ASSUME Motion, UNCHANGED byButton
      PROVE  SensorSound' /\ (due' <=> due)
  <2>1. Reschedule /\ UNCHANGED <<forceAwake, sensor, due, calls>>
    BY <1>2 DEF Motion
  <2> QED
    BY <1>2, <2>1, TimerStarts DEF SensorFlags, SensorCalls, AwakeEnds
<1>3. ASSUME Woken, UNCHANGED byButton
      PROVE  SensorSound' /\ (due' <=> due)
  <2>1. calls # <<>> /\ calls' = Tail(calls) /\ sensor' = TRUE /\ forceAwake' = TRUE /\ Reschedule /\ due' = due
    BY <1>3 DEF Woken
  <2> QED
    BY <1>3, <2>1, TimerStarts, CallReturns DEF SensorFlags, AwakeEnds
<1>4. ASSUME SleepHandler, UNCHANGED byButton
      PROVE  SensorSound' /\ ~due'
  <2>1. ~Calling(Handler) /\ calls' = Append(calls, Handler) /\ due' = FALSE
        /\ UNCHANGED <<forceAwake, sensor, timer, idleFor>>
    BY <1>4 DEF SleepHandler
  <2>2. SensorCalls' /\ Calling(Handler)'
    BY <2>1, CallMade
  <2> QED
    BY <1>4, <2>1, <2>2 DEF SensorFlags, SensorTimer, AwakeEnds
<1>5. ASSUME Asleep, UNCHANGED byButton
      PROVE  SensorSound' /\ (due' <=> due)
  <2>1. calls # <<>> /\ calls' = Tail(calls) /\ sensor' = FALSE /\ forceAwake' = FALSE
        /\ UNCHANGED <<timer, due, idleFor>>
    BY <1>5 DEF Asleep
  <2> QED
    BY <1>5, <2>1, CallReturns DEF SensorFlags, SensorTimer, AwakeEnds
<1>6. ASSUME Tick, UNCHANGED byButton
      PROVE  SensorSound' /\ (due' => idleFor' = ForceAwakeTimeout)
  <2>1. /\ timer # Off /\ timer' = IF timer = 1 THEN Off ELSE timer - 1
        /\ idleFor' = idleFor + 1
    BY <1>6 DEF Tick
  <2>2. SensorTimer' /\ (timer = 1 => idleFor' = ForceAwakeTimeout) /\ (timer # 1 => timer' # Off)
    BY <2>1, SensorPowerAssumption DEF SensorTimer, Off
  <2>3. (due' <=> timer = 1) /\ due' \in BOOLEAN /\ UNCHANGED <<forceAwake, sensor, calls>>
    BY <1>6 DEF Tick
  <2> QED
    BY <1>6, <2>2, <2>3 DEF SensorFlags, SensorCalls, AwakeEnds
<1> QED
  BY <1>1, <1>2, <1>3, <1>4, <1>5, <1>6 DEF Next, Event, System

\* What the run checks follows from it.
LEMMA SensorSoundInv == SensorSound => SensorInv
BY DEF SensorSound, SensorFlags, SensorCalls, SensorTimer, SensorInv, SensorTypeOK, FlagExact

-----------------------------------------------------------------------------
(***************************************************************************)
(* The button scan.  Elapsed is the time since a report as the code sees   *)
(* it: after a wrap it is short again, and holds off a button that was     *)
(* reported long ago.  The invariant says what that can cost: a difference *)
(* that the scan has not reported is no older than the last report, as the *)
(* time stamps show it, and a late scan more; and one that is not held off *)
(* is newer than this scan.                                                *)
(***************************************************************************)
Elapsed(b) == (now - lastUpdate[b]) % Wrap
Differs(b) == ~(b \in state <=> b \in contact)
Scanned(b) == next = "sync" \/ (next = "group2" /\ b \in Group1)

SinceBounds == \A b \in Buttons : since[b] < History => since[b] >= Elapsed(b)

DiffersShortly == \A b \in Buttons :
  Differs(b) =>
    /\ stable[b] <= Elapsed(b) + MaxLate
    /\ Scanned(b) /\ Elapsed(b) >= HoldoffTime => stable[b] = 0

ScanSound == ScanTypeOK /\ SinceBounds /\ DiffersShortly

LEMMA ElapsedRange ==
  ASSUME NEW n \in 0 .. Wrap - 1, NEW l \in 0 .. Wrap - 1
  PROVE  (n - l) % Wrap \in 0 .. Wrap - 1 /\ (n - n) % Wrap = 0
BY ButtonScanAssumption

\* Time passes by less than a wrap: the elapsed time grows, or wraps.
LEMMA ElapsedLater ==
  ASSUME NEW n \in 0 .. Wrap - 1, NEW l \in 0 .. Wrap - 1, NEW d \in 1 .. MaxLate
  PROVE  LET e == (n - l) % Wrap
             later == (((n + d) % Wrap) - l) % Wrap
         IN /\ (n + d) % Wrap \in 0 .. Wrap - 1
            /\ later = IF e + d < Wrap THEN e + d ELSE e + d - Wrap
<1> DEFINE e == (n - l) % Wrap
           m == (n + d) % Wrap
           later == (m - l) % Wrap
<1>1. Wrap \in Nat /\ Wrap > 0 /\ d \in Nat /\ d < Wrap /\ n \in Int /\ l \in Int
  BY ButtonScanAssumption
<1>2. e = IF n >= l THEN n - l ELSE n - l + Wrap
  BY <1>1
<1>3. m = IF n + d < Wrap THEN n + d ELSE n + d - Wrap
  BY <1>1
<1> HIDE DEF m, e
<1>4. m \in 0 .. Wrap - 1
  BY <1>1, <1>3
<1>5. later = IF m >= l THEN m - l ELSE m - l + Wrap
  BY <1>1, <1>4
<1>6. later = IF e + d < Wrap THEN e + d ELSE e + d - Wrap
  BY <1>1, <1>2, <1>3, <1>5
<1> QED
  BY <1>4, <1>6 DEF m, e

LEMMA ScanSoundInit == ScanInit => ScanSound
<1> SUFFICES ASSUME ScanInit PROVE ScanSound
  OBVIOUS
<1>1. HoldoffTime \in Nat /\ MaxLate \in Nat /\ History \in Nat /\ 0 \in 0 .. Wrap - 1
  BY ButtonScanAssumption DEF History
<1>2. ScanTypeOK
  BY <1>1 DEF ScanInit, ScanTypeOK
<1>3. \A b \in Buttons : Elapsed(b) = 0 /\ since[b] = 0 /\ stable[b] = 0
  BY <1>1, ElapsedRange DEF ScanInit, Elapsed
<1>4. SinceBounds /\ DiffersShortly
  BY <1>1, <1>3 DEF SinceBounds, DiffersShortly
<1> QED
  BY <1>2, <1>4 DEF ScanSound

\* One group is scanned: a button that is read shows its contact, one that
\* changed starts anew, and one that is held off is as it was.
LEMMA GroupScanned ==
  ASSUME ScanSound, NEW g, g \subseteq Buttons, ScanGroup(g), UNCHANGED <<now, contact, stable>>,
         next' \in {"group2", "sync"},
         \A b \in Buttons \ g : Scanned(b)' => Scanned(b)
  PROVE  /\ ScanSound'
         /\ \A b \in Buttons : (b \in state) # (b \in state') => since[b] >= HoldoffTime
<1> DEFINE read == {b \in g : ~HeldOff(b)}
           changed == {b \in read : (b \in state) # (b \in contact)}
<1>1. /\ state' = (state \ read) \union (contact \intersect read)
      /\ lastUpdate' = [b \in Buttons |-> IF b \in changed THEN now ELSE lastUpdate[b]]
      /\ since' = [b \in Buttons |-> IF b \in changed THEN 0 ELSE since[b]]
  BY DEF ScanGroup
<1>2. ScanTypeOK
  BY DEF ScanSound
<1>3. HoldoffTime \in Nat /\ MaxLate \in Nat /\ History \in Nat /\ History >= HoldoffTime /\ Wrap \in Nat
  BY ButtonScanAssumption DEF History
<1>4. \A b \in Buttons : b \in changed <=> b \in read /\ Differs(b)
  BY DEF Differs
<1>5. \A b \in Buttons : b \in read <=> b \in g /\ Elapsed(b) >= HoldoffTime
  <2> SUFFICES ASSUME NEW b \in Buttons PROVE HeldOff(b) <=> ~(Elapsed(b) >= HoldoffTime)
    OBVIOUS
  <2>1. Elapsed(b) \in 0 .. Wrap - 1
    BY <1>2, ElapsedRange DEF ScanTypeOK, Elapsed
  <2> QED
    BY <1>3, <2>1 DEF HeldOff, Elapsed
<1>6. \A b \in Buttons : b \in state' <=> IF b \in read THEN b \in contact ELSE b \in state
  BY <1>1
<1>7. read \subseteq Buttons
  OBVIOUS
<1> HIDE DEF read, changed
<1>8. ScanTypeOK'
  <2>1. state' \subseteq Buttons
    BY <1>1, <1>2, <1>7 DEF ScanTypeOK
  <2>2. lastUpdate' \in [Buttons -> 0 .. Wrap - 1] /\ since' \in [Buttons -> 0 .. History]
    BY <1>1, <1>2, <1>3 DEF ScanTypeOK
  <2> QED
    BY <1>2, <2>1, <2>2 DEF ScanTypeOK
<1>9. ASSUME NEW b \in Buttons
      PROVE  /\ since'[b] < History => since'[b] >= Elapsed(b)'
             /\ Differs(b)' => /\ stable'[b] <= Elapsed(b)' + MaxLate
                               /\ Scanned(b)' /\ Elapsed(b)' >= HoldoffTime => stable'[b] = 0
             /\ (b \in state) # (b \in state') => since[b] >= HoldoffTime
  <2>1. CASE b \in changed
    <3>1. since'[b] = 0 /\ lastUpdate'[b] = now
      BY <1>1, <2>1
    <3>2. Elapsed(b)' = 0
      BY <1>2, <3>1, ElapsedRange DEF Elapsed, ScanTypeOK
    <3>3. ~Differs(b)'
      BY <1>4, <1>6, <2>1 DEF Differs
    <3>4. Elapsed(b) >= HoldoffTime /\ Elapsed(b) \in 0 .. Wrap - 1
      BY <1>2, <1>4, <1>5, <2>1, ElapsedRange DEF Elapsed, ScanTypeOK
    <3>5. since[b] \in 0 .. History /\ (since[b] < History => since[b] >= Elapsed(b))
      BY <1>2 DEF ScanSound, SinceBounds, ScanTypeOK
    <3>6. since[b] >= HoldoffTime
      BY <1>3, <3>4, <3>5
    <3> QED
      BY <3>1, <3>2, <3>3, <3>6
  <2>2. CASE b \notin changed
    <3>1. since'[b] = since[b] /\ lastUpdate'[b] = lastUpdate[b] /\ stable'[b] = stable[b]
      BY <1>1, <2>2
    <3>2. Elapsed(b)' = Elapsed(b)
      BY <3>1 DEF Elapsed
    <3>3. (b \in state' <=> b \in state) /\ (Differs(b)' <=> Differs(b))
      BY <1>4, <1>6, <2>2 DEF Differs
    <3>4. Differs(b) /\ Scanned(b)' /\ Elapsed(b) >= HoldoffTime => Scanned(b)
      BY <1>4, <1>5, <2>2
    <3> QED
      BY <3>1, <3>2, <3>3, <3>4 DEF ScanSound, SinceBounds, DiffersShortly
  <2> QED
    BY <2>1, <2>2
<1> QED
  BY <1>8, <1>9 DEF ScanSound, SinceBounds, DiffersShortly

LEMMA SyncStep ==
  ASSUME ScanSound, Sync
  PROVE  ScanSound'
<1>1. ScanTypeOK
  BY DEF ScanSound
<1>2. HoldoffTime \in Nat /\ MaxLate \in Nat /\ History \in Nat /\ Wrap \in Nat /\ Wrap > HoldoffTime + MaxLate
  BY ButtonScanAssumption DEF History
<1>3. PICK d \in 1 .. MaxLate : now' = (now + d) % Wrap /\ since' = Saturating(since, d) /\ stable' = Saturating(stable, d)
  BY DEF Sync
<1>4. next = "sync" /\ next' = "group1" /\ UNCHANGED <<contact, state, lastUpdate>>
  BY DEF Sync
<1>5. ScanTypeOK'
  <2>1. now' \in 0 .. Wrap - 1
    BY <1>1, <1>3, ElapsedLater DEF ScanTypeOK
  <2>2. since' \in [Buttons -> 0 .. History] /\ stable' \in [Buttons -> 0 .. History]
    BY <1>1, <1>2, <1>3 DEF Saturating, ScanTypeOK
  <2> QED
    BY <1>1, <1>4, <2>1, <2>2 DEF ScanTypeOK
<1>6. ASSUME NEW b \in Buttons
      PROVE  /\ since'[b] < History => since'[b] >= Elapsed(b)'
             /\ Differs(b)' => stable'[b] <= Elapsed(b)' + MaxLate
  <2>1. /\ Elapsed(b) \in 0 .. Wrap - 1
        /\ Elapsed(b)' = IF Elapsed(b) + d < Wrap THEN Elapsed(b) + d ELSE Elapsed(b) + d - Wrap
    <3>1. now \in 0 .. Wrap - 1 /\ lastUpdate[b] \in 0 .. Wrap - 1
      BY <1>1 DEF ScanTypeOK
    <3> QED
      BY <1>3, <1>4, <3>1, ElapsedRange, ElapsedLater DEF Elapsed
  <2>2. /\ since[b] \in 0 .. History /\ stable[b] \in 0 .. History
        /\ since'[b] = IF since[b] + d < History THEN since[b] + d ELSE History
        /\ stable'[b] = IF stable[b] + d < History THEN stable[b] + d ELSE History
    BY <1>1, <1>3 DEF Saturating, ScanTypeOK
  <2>3. since[b] < History => since[b] >= Elapsed(b)
    BY DEF ScanSound, SinceBounds
  <2>4. Differs(b) => stable[b] <= Elapsed(b) + MaxLate /\ (Elapsed(b) >= HoldoffTime => stable[b] = 0)
    BY <1>4 DEF ScanSound, DiffersShortly, Scanned
  <2>5. Differs(b)' <=> Differs(b)
    BY <1>4 DEF Differs
  <2>6. since'[b] < History => since'[b] >= Elapsed(b)'
    BY <1>2, <2>1, <2>2, <2>3
  <2>7. Differs(b) => stable'[b] <= Elapsed(b)' + MaxLate
    BY <1>2, <2>1, <2>2, <2>4
  <2> QED
    BY <2>5, <2>6, <2>7
<1>7. \A b : ~Scanned(b)'
  BY <1>4 DEF Scanned
<1> QED
  BY <1>5, <1>6, <1>7 DEF ScanSound, SinceBounds, DiffersShortly

LEMMA ContactStep ==
  ASSUME ScanSound, NEW c \in Buttons, Contact(c)
  PROVE  ScanSound'
<1>1. ScanTypeOK
  BY DEF ScanSound
<1>2. MaxLate \in Nat /\ History \in Nat
  BY ButtonScanAssumption DEF History
<1>3. /\ \A b : b # c => (b \in contact' <=> b \in contact)
      /\ stable' = [stable EXCEPT ![c] = 0]
      /\ UNCHANGED <<now, state, lastUpdate, next, since>>
      /\ contact' \subseteq Buttons
  BY <1>1 DEF Contact, ScanTypeOK
<1>4. ScanTypeOK' /\ stable'[c] = 0 /\ \A b \in Buttons : b # c => stable'[b] = stable[b]
  BY <1>1, <1>2, <1>3 DEF ScanTypeOK
<1>5. \A b \in Buttons : Elapsed(b)' = Elapsed(b) /\ Elapsed(b) \in 0 .. Wrap - 1 /\ (Scanned(b)' <=> Scanned(b))
  BY <1>1, <1>3, ElapsedRange DEF Elapsed, Scanned, ScanTypeOK
<1>6. \A b \in Buttons : b # c => (Differs(b)' <=> Differs(b))
  BY <1>3 DEF Differs
<1>7. SinceBounds'
  BY <1>3, <1>5 DEF ScanSound, SinceBounds
<1>8. 0 <= Elapsed(c) + MaxLate
  BY <1>2, <1>5
<1>9. DiffersShortly'
  <2> SUFFICES ASSUME NEW b \in Buttons, Differs(b)'
               PROVE  /\ stable'[b] <= Elapsed(b)' + MaxLate
                      /\ Scanned(b)' /\ Elapsed(b)' >= HoldoffTime => stable'[b] = 0
    BY DEF DiffersShortly
  <2>1. CASE b = c
    BY <1>4, <1>5, <1>8, <2>1
  <2>2. CASE b # c
    BY <1>4, <1>5, <1>6, <2>2 DEF ScanSound, DiffersShortly
  <2> QED
    BY <2>1, <2>2
<1> QED
  BY <1>4, <1>7, <1>9 DEF ScanSound

LEMMA ScanStep ==
  ASSUME ScanSound, ScanNext
  PROVE  /\ ScanSound'
         /\ \A b \in Buttons : (b \in state) # (b \in state') => since[b] >= HoldoffTime
<1>1. CASE ScanGroup1
  <2>1. Group1 \subseteq Buttons /\ \A b \in Buttons \ Group1 : ~Scanned(b)'
    BY <1>1 DEF ScanGroup1, Scanned, Buttons
  <2> QED
    BY <1>1, <2>1, GroupScanned DEF ScanGroup1
<1>2. CASE ScanGroup2
  <2>1. Group2 \subseteq Buttons /\ \A b \in Buttons \ Group2 : Scanned(b)
    BY <1>2 DEF ScanGroup2, Scanned, Buttons
  <2> QED
    BY <1>2, <2>1, GroupScanned DEF ScanGroup2
<1>3. CASE Sync
  <2>1. state' = state
    BY <1>3 DEF Sync
  <2> QED
    BY <1>3, <2>1, SyncStep
<1>4. CASE \E b \in Buttons : Contact(b)
  <2>1. state' = state
    BY <1>4 DEF Contact
  <2> QED
    BY <1>4, <2>1, ContactStep
<1> QED
  BY <1>1, <1>2, <1>3, <1>4 DEF ScanNext

LEMMA ScanSoundInv == ScanSound => ScanInv
<1> SUFFICES ASSUME ScanSound, next = "sync", NEW b \in Buttons, stable[b] >= HoldoffTime + MaxLate
             PROVE  ~Differs(b)
  BY DEF ScanSound, ScanInv, StillReported, Differs
<1>1. HoldoffTime \in Nat \ {0} /\ MaxLate \in Nat /\ History \in Nat /\ Wrap \in Nat
  BY ButtonScanAssumption DEF History
<1>2. now \in 0 .. Wrap - 1 /\ lastUpdate[b] \in 0 .. Wrap - 1 /\ stable[b] \in 0 .. History
  BY DEF ScanSound, ScanTypeOK
<1>3. Elapsed(b) \in 0 .. Wrap - 1
  BY <1>2, ElapsedRange DEF Elapsed
<1>4. Differs(b) => stable[b] <= Elapsed(b) + MaxLate /\ (Elapsed(b) >= HoldoffTime => stable[b] = 0)
  BY DEF ScanSound, DiffersShortly, Scanned
<1> QED
  BY <1>1, <1>2, <1>3, <1>4

-----------------------------------------------------------------------------
(***************************************************************************)
(* The gyro's fractions.  While a pair of reports waits for room, each     *)
(* axis still owes the whole pixels of its report and no more.             *)
(***************************************************************************)
Fractions == sub \in [GyroAxes -> -3 .. 3] /\ owed \in [GyroAxes -> Int]

NothingDue == motion = <<>> /\ owed["z"] = sub["z"] /\ owed["x"] = sub["x"]

LastDue(p) == motion = <<Rel("x", p)>> /\ owed["z"] = sub["z"] /\ owed["x"] = sub["x"] + 4 * p

BothDue(q, p) ==
  motion = <<Rel("z", q), Rel("x", p)>> /\ owed["z"] = sub["z"] - 4 * q /\ owed["x"] = sub["x"] + 4 * p

GyroSound ==
  Fractions /\ (NothingDue \/ (\E p \in Int : LastDue(p)) \/ (\E q, p \in Int : BothDue(q, p)))

LEMMA WholePixels ==
  ASSUME NEW n \in Int
  PROVE  Truncated(n) \in Int /\ n - 4 * Truncated(n) \in -3 .. 3
BY DEF Truncated, Subpixels

LEMMA GyroSoundInit == TouchInit => GyroSound
BY DEF TouchInit, GyroSound, Fractions, NothingDue, GyroAxes

LEMMA GyroLoopStep ==
  ASSUME GyroSound, GyroLoop
  PROVE  GyroSound'
<1>1. PICK r \in [GyroAxes -> Rotations] :
        LET pixels == [a \in GyroAxes |-> Truncated(sub[a] + r[a])]
        IN /\ sub' = [a \in GyroAxes |-> Leftover(sub[a] + r[a], pixels[a])]
           /\ owed' = [a \in GyroAxes |-> owed[a] + r[a]]
           /\ motion' = IF \A a \in GyroAxes : pixels[a] = 0 THEN <<>>
                        ELSE <<Rel("z", -pixels["z"]), Rel("x", pixels["x"])>>
  BY DEF GyroLoop
<1> DEFINE px == Truncated(sub["x"] + r["x"])
           pz == Truncated(sub["z"] + r["z"])
<1>2. /\ sub["x"] \in -3 .. 3 /\ sub["z"] \in -3 .. 3 /\ r["x"] \in Int /\ r["z"] \in Int
      /\ owed["x"] \in Int /\ owed["z"] \in Int
  BY TouchAssumption DEF GyroSound, Fractions, GyroAxes
<1>3. px \in Int /\ pz \in Int /\ (sub["x"] + r["x"]) - 4 * px \in -3 .. 3 /\ (sub["z"] + r["z"]) - 4 * pz \in -3 .. 3
  <2> DEFINE nx == sub["x"] + r["x"]
             nz == sub["z"] + r["z"]
  <2>1. nx \in Int /\ nz \in Int /\ px = Truncated(nx) /\ pz = Truncated(nz)
    BY <1>2
  <2> HIDE DEF nx, nz, px, pz
  <2>2. px \in Int /\ pz \in Int /\ nx - 4 * px \in -3 .. 3 /\ nz - 4 * pz \in -3 .. 3
    BY <2>1, WholePixels
  <2> QED
    BY <2>2 DEF nx, nz
<1>4. /\ sub' = [a \in GyroAxes |-> (sub[a] + r[a]) - 4 * Truncated(sub[a] + r[a])]
      /\ owed' = [a \in GyroAxes |-> owed[a] + r[a]]
      /\ motion' = IF px = 0 /\ pz = 0 THEN <<>> ELSE <<Rel("z", -pz), Rel("x", px)>>
  <2> DEFINE whole == [a \in GyroAxes |-> Truncated(sub[a] + r[a])]
  <2>1. \A a \in GyroAxes : whole[a] = Truncated(sub[a] + r[a])
    OBVIOUS
  <2>2. whole["x"] = px /\ whole["z"] = pz /\ ((\A a \in GyroAxes : whole[a] = 0) <=> px = 0 /\ pz = 0)
    BY <2>1 DEF GyroAxes
  <2>3. /\ sub' = [a \in GyroAxes |-> Leftover(sub[a] + r[a], whole[a])]
        /\ owed' = [a \in GyroAxes |-> owed[a] + r[a]]
        /\ motion' = IF \A a \in GyroAxes : whole[a] = 0 THEN <<>>
                     ELSE <<Rel("z", -whole["z"]), Rel("x", whole["x"])>>
    BY <1>1
  <2> HIDE DEF whole, px, pz
  <2>4. sub' = [a \in GyroAxes |-> (sub[a] + r[a]) - 4 * whole[a]]
    BY <2>3 DEF Leftover, Subpixels
  <2>5. sub' = [a \in GyroAxes |-> (sub[a] + r[a]) - 4 * Truncated(sub[a] + r[a])]
    BY <2>1, <2>4
  <2>6. motion' = IF px = 0 /\ pz = 0 THEN <<>> ELSE <<Rel("z", -pz), Rel("x", px)>>
    BY <2>2, <2>3
  <2> QED
    BY <2>3, <2>5, <2>6
<1>5. /\ sub'["x"] = (sub["x"] + r["x"]) - 4 * px /\ sub'["z"] = (sub["z"] + r["z"]) - 4 * pz
      /\ owed'["x"] = owed["x"] + r["x"] /\ owed'["z"] = owed["z"] + r["z"]
      /\ DOMAIN sub' = GyroAxes /\ DOMAIN owed' = GyroAxes
      /\ sub' = [a \in GyroAxes |-> sub'[a]] /\ owed' = [a \in GyroAxes |-> owed'[a]]
  BY <1>4 DEF GyroAxes
<1> HIDE DEF px, pz
<1>6. Fractions'
  BY <1>2, <1>3, <1>5 DEF Fractions, GyroAxes
<1>7. owed["x"] = sub["x"] /\ owed["z"] = sub["z"]
  BY DEF GyroSound, GyroLoop, NothingDue, LastDue, BothDue
<1>8. CASE px = 0 /\ pz = 0
  BY <1>2, <1>4, <1>5, <1>6, <1>7, <1>8 DEF GyroSound, NothingDue
<1>9. CASE ~(px = 0 /\ pz = 0)
  <2>1. -pz \in Int /\ motion' = <<Rel("z", -pz), Rel("x", px)>>
    BY <1>3, <1>4, <1>9
  <2>2. PICK q \in Int, p \in Int : q = -pz /\ p = px
    BY <1>3, <2>1
  <2>3. pz = -q
    BY <1>3, <2>2
  <2>4. owed'["z"] = sub'["z"] - 4 * q
    BY <1>2, <1>3, <1>5, <1>7, <2>3
  <2>5. owed'["x"] = sub'["x"] + 4 * p
    BY <1>2, <1>3, <1>5, <1>7, <2>2
  <2>6. BothDue(q, p)'
    BY <2>1, <2>2, <2>4, <2>5 DEF BothDue
  <2> QED
    BY <1>6, <2>6 DEF GyroSound
<1> QED
  BY <1>8, <1>9

LEMMA GyroReportStep ==
  ASSUME GyroSound, GyroReport
  PROVE  GyroSound'
<1> DEFINE e == Head(motion)
           pixels == IF e.kind = "z" THEN -e.value ELSE e.value
<1>1. /\ owed' = [owed EXCEPT ![e.kind] = owed[e.kind] - 4 * pixels]
      /\ motion # <<>> /\ motion' = Tail(motion) /\ sub' = sub
  BY DEF GyroReport, Subpixels
<1>2. Fractions
  BY DEF GyroSound
<1>3. ASSUME NEW p \in Int, LastDue(p)
      PROVE  GyroSound'
  <2>1. e = Rel("x", p) /\ motion' = <<>>
    BY <1>1, <1>3 DEF LastDue
  <2>2. e.kind = "x" /\ pixels = p
    BY <2>1 DEF Rel
  <2>3. owed' = [owed EXCEPT !["x"] = owed["x"] - 4 * p]
    BY <1>1, <2>2
  <2>4. owed'["x"] = sub["x"] /\ owed'["z"] = sub["z"] /\ owed' \in [GyroAxes -> Int]
    BY <1>2, <1>3, <2>3 DEF LastDue, Fractions, GyroAxes
  <2> QED
    BY <1>1, <1>2, <2>1, <2>4 DEF GyroSound, NothingDue, Fractions
<1>4. ASSUME NEW q \in Int, NEW p \in Int, BothDue(q, p)
      PROVE  GyroSound'
  <2>1. e = Rel("z", q) /\ motion' = <<Rel("x", p)>>
    BY <1>1, <1>4 DEF BothDue
  <2>2. e.kind = "z" /\ pixels = -q
    BY <2>1 DEF Rel
  <2>3. owed' = [owed EXCEPT !["z"] = owed["z"] - 4 * (-q)]
    BY <1>1, <2>2
  <2>4. owed'["z"] = sub["z"] /\ owed'["x"] = sub["x"] + 4 * p /\ owed' \in [GyroAxes -> Int]
    BY <1>2, <1>4, <2>3 DEF BothDue, Fractions, GyroAxes
  <2>5. LastDue(p)'
    BY <1>1, <2>1, <2>4 DEF LastDue
  <2> QED
    BY <1>1, <1>2, <2>4, <2>5 DEF GyroSound, Fractions
<1> QED
  BY <1>1, <1>3, <1>4 DEF GyroSound, NothingDue

LEMMA GyroStep ==
  ASSUME GyroSound, TouchNext
  PROVE  GyroSound'
<1>1. CASE GyroLoop \/ GyroReport
  BY <1>1, GyroLoopStep, GyroReportStep
<1>2. CASE UNCHANGED gyrovars
  BY <1>2 DEF gyrovars, GyroSound, Fractions, NothingDue, LastDue, BothDue
<1> QED
  BY <1>1, <1>2 DEF TouchNext, Sense, TouchReport, Finger, TouchInputThread, OtherInput

LEMMA GyroSoundKept == GyroSound => RotationKept
<1> SUFFICES ASSUME GyroSound, motion = <<>>
             PROVE  owed = sub /\ \A a \in GyroAxes : sub[a] \in 1 - Subpixels .. Subpixels - 1
  BY DEF RotationKept
<1>1. owed["z"] = sub["z"] /\ owed["x"] = sub["x"]
  BY DEF GyroSound, NothingDue, LastDue, BothDue
<1>2. owed = sub
  BY <1>1 DEF GyroSound, Fractions, GyroAxes
<1> QED
  BY <1>2 DEF GyroSound, Fractions, Subpixels

-----------------------------------------------------------------------------
(***************************************************************************)
(* The stick.  The work item schedules itself at the end of its handler,   *)
(* so the handler runs or the item is scheduled, and never both; a change  *)
(* is remembered only with the report of it.                               *)
(***************************************************************************)
StickData == angle \in [Axes -> Angles] /\ lastVal \in [Axes -> 0 .. 255] /\ shown = lastVal

StickWork ==
  /\ reading \in 0 .. 2 /\ tmagDwork \in BOOLEAN /\ readFailed \in BOOLEAN
  /\ tmagDwork => reading = 0
  /\ readFailed \/ reading # 0 \/ tmagDwork

StickSound == StickData /\ StickWork

LEMMA TwoAxes == Axes = {1, 2} /\ Len(Devs) = 2
BY DEF Axes, Devs

\* Whatever the angle, and with an axis whose ends are the other way round,
\* the division stays in the integers and the report in its byte.
LEMMA PositionByte ==
  ASSUME NEW i \in Axes, NEW val \in Angles
  PROVE  Position(i, val) \in 0 .. 255
<1>1. val[1] \in 0 .. 359 /\ val[2] \in 0 .. Micro - 1
  <2>1. val \in (0 .. 359) \X (0 .. Micro - 1)
    BY HallAssumption
  <2> QED
    BY <2>1
<1>2. /\ Devs[i].min \in Int /\ Devs[i].max \in Int
      /\ Devs[i].max - Devs[i].min # 0
  BY TwoAxes DEF Devs
<1>3. \A a, b \in Int : b # 0 => Quotient(a, b) \in Int
  BY DEF Quotient
<1> DEFINE deg == val[1] * 10 + val[2] \div Micro
           a == (deg - Devs[i].min) * 255
           b == Devs[i].max - Devs[i].min
           out == Quotient(a, b)
<1>4. Position(i, val) = IF out < 0 THEN 0 ELSE IF out > 255 THEN 255 ELSE out
  BY DEF Position
<1>5. deg \in Int
  <2>1. Micro \in Nat \ {0}
    BY SMT DEF Micro
  <2> QED
    BY <1>1, <2>1
<1> HIDE DEF deg
<1>6. a \in Int /\ b \in Int /\ b # 0
  BY <1>2, <1>5
<1>7. out \in Int
  <2> HIDE DEF a, b
  <2> QED
    BY <1>3, <1>6
<1> HIDE DEF out
<1> QED
  BY <1>4, <1>7

LEMMA StickSoundInit == HallInit => StickSound
<1> SUFFICES ASSUME HallInit PROVE StickSound
  OBVIOUS
<1>1. StickData
  BY DEF HallInit, StickData
<1>2. StickWork
  <2>1. ~tmagDwork /\ tmagDwork \in BOOLEAN /\ readFailed \in BOOLEAN
    BY DEF HallInit
  <2>2. reading = 1
    BY DEF HallInit
  <2> QED
    BY <2>1, <2>2 DEF StickWork
<1> QED
  BY <1>1, <1>2 DEF StickSound

LEMMA StickStep ==
  ASSUME StickSound, HallNext
  PROVE  StickSound'
<1>1. CASE ReadAxis
  <2> DEFINE i == reading
             out == Position(i, angle[i])
  <2>1. i \in Axes /\ (i = 1 \/ i = 2)
    BY <1>1, TwoAxes DEF StickSound, StickWork, ReadAxis
  <2>2. out \in 0 .. 255
    BY <2>1, PositionByte DEF StickSound, StickData
  <2>3. /\ lastVal' = [lastVal EXCEPT ![i] = out]
        /\ shown' = IF lastVal[i] # out THEN [shown EXCEPT ![i] = out] ELSE shown
        /\ reading' = (i + 1) % 3 /\ tmagDwork' = (i = 2)
        /\ UNCHANGED <<angle, readFailed>>
    BY <1>1, TwoAxes DEF ReadAxis, Reschedules
  <2>4. StickData'
    <3> HIDE DEF out
    <3> QED
      BY <2>1, <2>2, <2>3 DEF StickSound, StickData
  <2>5. CASE i = 1
    <3>1. reading' = 2
      BY <2>3, <2>5
    <3>2. ~tmagDwork' /\ tmagDwork' \in BOOLEAN
      <4>1. i # 2
        BY <2>5
      <4> HIDE DEF i, out
      <4> QED
        BY <2>3, <4>1, Zenon
    <3> QED
      BY <2>3, <2>4, <3>1, <3>2 DEF StickSound, StickWork
  <2>6. CASE i = 2
    <3>1. reading' = 0
      BY <2>3, <2>6
    <3>2. tmagDwork' = TRUE
      BY <2>3, <2>6
    <3> QED
      BY <2>3, <2>4, <3>1, <3>2 DEF StickSound, StickWork
  <2> QED
    BY <2>1, <2>5, <2>6
<1>2. CASE ReadFails
  BY <1>2 DEF ReadFails, StickSound, StickData, StickWork
<1>3. CASE TmagTimer
  <2>1. reading' = 1
    BY <1>3 DEF TmagTimer
  <2>2. ~tmagDwork' /\ tmagDwork' \in BOOLEAN
    BY <1>3 DEF TmagTimer
  <2>3. UNCHANGED <<angle, lastVal, shown, readFailed>>
    BY <1>3 DEF TmagTimer
  <2> QED
    BY <2>1, <2>2, <2>3 DEF StickSound, StickData, StickWork
<1>4. CASE Turn
  BY <1>4 DEF Turn, StickSound, StickData, StickWork
<1> QED
  BY <1>1, <1>2, <1>3, <1>4 DEF HallNext, HallWork

-----------------------------------------------------------------------------
(***************************************************************************)
(* The touch surface.  What the LED and the gyro will be switched to last  *)
(* is the touch event furthest back in the queue; without one there, they  *)
(* are switched already.                                                   *)
(***************************************************************************)
TouchShown ==
  /\ (\A i \in DOMAIN inputq : inputq[i].kind # "touch") => led = touch /\ active = touch
  /\ \A i \in DOMAIN inputq :
       inputq[i].kind = "touch" /\ (\A j \in DOMAIN inputq : j > i => inputq[j].kind # "touch")
         => inputq[i] = TouchEvent(touch)

Queueable == {TouchEvent(on) : on \in BOOLEAN} \union [kind : GyroAxes \union {"other"}, value : Int]

TouchSound ==
  /\ inputq \in Seq(Queueable) /\ Len(inputq) <= InputQueueSize
  /\ touch \in BOOLEAN /\ led \in BOOLEAN /\ active = led
  /\ sensed = <<>> \/ sensed = <<TouchEvent(~touch)>>
  /\ TouchShown

\* An event of another kind, at the end of the queue.
LEMMA TouchJoined ==
  ASSUME TouchSound, Room, NEW e \in Queueable, e.kind # "touch", inputq' = Append(inputq, e),
         UNCHANGED <<touch, led, active, sensed>>
  PROVE  TouchSound'
<1>1. /\ inputq' \in Seq(Queueable) /\ Len(inputq') = Len(inputq) + 1
      /\ \A i \in DOMAIN inputq : inputq'[i] = inputq[i]
      /\ inputq'[Len(inputq')] = e
      /\ DOMAIN inputq = 1 .. Len(inputq) /\ DOMAIN inputq' = 1 .. Len(inputq) + 1
      /\ Len(inputq) \in Nat
  BY DEF TouchSound
<1>2. Len(inputq') <= InputQueueSize
  BY <1>1, TouchAssumption DEF Room
<1>3. (\A i \in DOMAIN inputq' : inputq'[i].kind # "touch") => led' = touch' /\ active' = touch'
  BY <1>1 DEF TouchSound, TouchShown
<1>4. ASSUME NEW i \in DOMAIN inputq', inputq'[i].kind = "touch",
             \A j \in DOMAIN inputq' : j > i => inputq'[j].kind # "touch"
      PROVE  inputq'[i] = TouchEvent(touch')
  BY <1>1, <1>4 DEF TouchSound, TouchShown
<1> QED
  BY <1>1, <1>2, <1>3, <1>4 DEF TouchSound, TouchShown

LEMMA TouchReportStep ==
  ASSUME TouchSound, TouchReport
  PROVE  TouchSound'
<1>1. sensed = <<TouchEvent(~touch)>> /\ touch' = ~touch
  BY DEF TouchSound, TouchReport, TouchEvent
<1> DEFINE e == TouchEvent(~touch)
<1>2. e \in Queueable /\ e.kind = "touch"
  BY DEF Queueable, TouchEvent, TouchSound
<1>3. /\ inputq' = inputq \o <<e>>
      /\ sensed' = <<>> /\ UNCHANGED <<led, active>>
  BY <1>1 DEF TouchReport
<1>4. e = TouchEvent(touch')
  BY <1>1
<1> HIDE DEF e
<1>5. /\ inputq' \in Seq(Queueable) /\ Len(inputq') = Len(inputq) + 1
      /\ inputq'[Len(inputq')] = e
      /\ DOMAIN inputq' = 1 .. Len(inputq) + 1
      /\ Len(inputq) \in Nat
  BY <1>2, <1>3 DEF TouchSound
<1>6. Len(inputq') <= InputQueueSize
  BY <1>5, TouchAssumption DEF Room, TouchReport
<1>7. ASSUME NEW i \in DOMAIN inputq', \A j \in DOMAIN inputq' : j > i => inputq'[j].kind # "touch"
      PROVE  inputq'[i] = TouchEvent(touch')
  BY <1>2, <1>4, <1>5, <1>7
<1>8. ~(\A i \in DOMAIN inputq' : inputq'[i].kind # "touch")
  BY <1>2, <1>5
<1> QED
  BY <1>1, <1>3, <1>5, <1>6, <1>7, <1>8 DEF TouchSound, TouchShown

LEMMA TouchTakenStep ==
  ASSUME TouchSound, TouchInputThread
  PROVE  TouchSound'
<1> DEFINE e == Head(inputq)
<1>1. /\ inputq # <<>> /\ inputq' = Tail(inputq)
      /\ IF e.kind = "touch" THEN led' = (e.value = 1) /\ active' = (e.value = 1)
         ELSE UNCHANGED <<led, active>>
      /\ UNCHANGED <<touch, sensed>>
  BY DEF TouchInputThread
<1>2. /\ inputq' \in Seq(Queueable) /\ Len(inputq') = Len(inputq) - 1
      /\ DOMAIN inputq = 1 .. Len(inputq) /\ DOMAIN inputq' = 1 .. Len(inputq) - 1
      /\ \A i \in DOMAIN inputq' : inputq'[i] = inputq[i + 1]
      /\ e = inputq[1] /\ e \in Queueable
      /\ Len(inputq) \in Nat \ {0}
  BY <1>1 DEF TouchSound
<1>3. e.kind = "touch" => e.value = 1 \/ e.value = 0
  BY <1>2 DEF Queueable, TouchEvent, GyroAxes
<1> HIDE DEF e
<1>4. led' \in BOOLEAN /\ active' = led'
  BY <1>1, <1>3 DEF TouchSound
<1>5. ASSUME \A i \in DOMAIN inputq' : inputq'[i].kind # "touch"
      PROVE  led' = touch' /\ active' = touch'
  <2>1. \A j \in DOMAIN inputq : j > 1 => inputq[j].kind # "touch"
    <3> SUFFICES ASSUME NEW j \in DOMAIN inputq, j > 1 PROVE inputq[j].kind # "touch"
      OBVIOUS
    <3>1. j - 1 \in DOMAIN inputq' /\ inputq'[j - 1] = inputq[j]
      BY <1>2
    <3> QED
      BY <1>5, <3>1
  <2>2. CASE e.kind = "touch"
    <3>1. e = TouchEvent(touch)
      BY <1>2, <2>1, <2>2 DEF TouchSound, TouchShown
    <3>2. (e.value = 1) = touch
      BY <3>1 DEF TouchEvent, TouchSound
    <3> QED
      BY <1>1, <2>2, <3>2
  <2>3. CASE e.kind # "touch"
    <3>1. \A j \in DOMAIN inputq : inputq[j].kind # "touch"
      BY <1>2, <2>1, <2>3
    <3> QED
      BY <1>1, <2>3, <3>1 DEF TouchSound, TouchShown
  <2> QED
    BY <2>2, <2>3
<1>6. ASSUME NEW i \in DOMAIN inputq', inputq'[i].kind = "touch",
             \A j \in DOMAIN inputq' : j > i => inputq'[j].kind # "touch"
      PROVE  inputq'[i] = TouchEvent(touch')
  <2>1. i + 1 \in DOMAIN inputq /\ inputq'[i] = inputq[i + 1]
    BY <1>2
  <2>2. \A j \in DOMAIN inputq : j > i + 1 => inputq[j].kind # "touch"
    <3> SUFFICES ASSUME NEW j \in DOMAIN inputq, j > i + 1 PROVE inputq[j].kind # "touch"
      OBVIOUS
    <3>1. j - 1 \in DOMAIN inputq' /\ j - 1 > i /\ inputq'[j - 1] = inputq[j]
      BY <1>2
    <3> QED
      BY <1>6, <3>1
  <2> QED
    BY <1>1, <1>6, <2>1, <2>2 DEF TouchSound, TouchShown
<1>7. Len(inputq') <= InputQueueSize
  BY <1>2, TouchAssumption DEF TouchSound
<1> QED
  BY <1>1, <1>2, <1>4, <1>5, <1>6, <1>7 DEF TouchSound, TouchShown

LEMMA TouchSoundInit == TouchInit => TouchSound
<1> SUFFICES ASSUME TouchInit PROVE TouchSound
  OBVIOUS
<1>1. inputq = <<>> /\ sensed = <<>> /\ touch = FALSE /\ led = FALSE /\ active = FALSE
  BY DEF TouchInit
<1>2. inputq \in Seq(Queueable) /\ Len(inputq) = 0 /\ DOMAIN inputq = {}
  BY <1>1
<1>3. TouchShown
  BY <1>1, <1>2 DEF TouchShown
<1>4. Len(inputq) <= InputQueueSize
  BY <1>2, TouchAssumption
<1>5. touch \in BOOLEAN /\ led \in BOOLEAN /\ active = led
  BY <1>1
<1> QED
  BY <1>1, <1>2, <1>3, <1>4, <1>5 DEF TouchSound

LEMMA TouchStep ==
  ASSUME TouchSound, GyroSound, TouchNext
  PROVE  TouchSound'
<1>1. CASE Sense
  <2>1. touch \in BOOLEAN /\ Touched \in BOOLEAN /\ Touched # touch
    BY <1>1 DEF Sense, TouchSound, Touched
  <2>2. sensed' = <<TouchEvent(~touch)>> /\ UNCHANGED <<touch, led, inputq, active>>
    <3>1. sensed' = <<TouchEvent(Touched)>> /\ UNCHANGED <<touch, led, inputq, active>>
      BY <1>1 DEF Sense
    <3>2. Touched = ~touch
      BY <2>1
    <3> QED
      BY <3>1, <3>2
  <2> QED
    BY <2>2 DEF TouchSound, TouchShown
<1>2. CASE TouchReport
  BY <1>2, TouchReportStep
<1>3. CASE Finger \/ GyroLoop
  BY <1>3 DEF Finger, GyroLoop, touchvars, TouchSound, TouchShown
<1>4. CASE GyroReport
  <2>1. Head(motion) \in [kind : GyroAxes, value : Int]
    <3>1. \A a \in GyroAxes, n \in Int : Rel(a, n) \in [kind : GyroAxes, value : Int]
      BY DEF Rel
    <3>2. \/ \E p \in Int : LastDue(p)
          \/ \E q, p \in Int : BothDue(q, p)
      BY <1>4 DEF GyroReport, GyroSound, NothingDue
    <3>3. \E a \in GyroAxes, n \in Int : Head(motion) = Rel(a, n)
      BY <3>2 DEF LastDue, BothDue, GyroAxes
    <3> QED
      BY <3>1, <3>3
  <2>2. Head(motion) \in Queueable /\ Head(motion).kind # "touch"
    BY <2>1 DEF Queueable, GyroAxes
  <2>3. /\ Room /\ inputq' = Append(inputq, Head(motion))
        /\ UNCHANGED <<touch, led, active, sensed>>
    BY <1>4 DEF GyroReport, touchvars
  <2> QED
    BY <2>2, <2>3, TouchJoined
<1>5. CASE TouchInputThread
  BY <1>5, TouchTakenStep
<1>6. CASE OtherInput
  <2>1. OtherEvent \in Queueable /\ OtherEvent.kind # "touch"
    BY DEF OtherEvent, Rel, Queueable
  <2>2. Room /\ inputq' = Append(inputq, OtherEvent) /\ UNCHANGED <<touch, led, active, sensed>>
    BY <1>6 DEF OtherInput, touchvars
  <2> QED
    BY <2>1, <2>2, TouchJoined
<1> QED
  BY <1>1, <1>2, <1>3, <1>4, <1>5, <1>6 DEF TouchNext

-----------------------------------------------------------------------------
(***************************************************************************)
(* The calibration.  Samples come between the assignments of a reset, so   *)
(* the invariant follows each channel through it: its extremes bracket     *)
(* what was sampled since, they are samples or still as the reset left     *)
(* them, and only in the middle of its own reset can a channel be valid    *)
(* without a sample.                                                       *)
(*                                                                         *)
(* The converter has at most 15 bits (12 on the boards): a range of more   *)
(* than 32767 wraps in update_cal.                                         *)
(***************************************************************************)
NarrowConverter == \A a, b \in RawValues : a - b <= 32767

Halfway(c) == reset = 3 * (c - 1) + 1 \/ reset = 3 * (c - 1) + 2

ChannelData == calData \in [Chans -> [min : Int, max : Int, valid : BOOLEAN]]

Bracketed == \A c \in Chans : \A raw \in seen[c] : calData[c].min <= raw /\ raw <= calData[c].max

ValidSampled == \A c \in Chans : calData[c].valid /\ ~Halfway(c) => seen[c] # {}

MinReset(c) == rawCb = "cal" \/ calData[c].valid \/ reset > 3 * (c - 1)
MaxReset(c) == rawCb = "cal" \/ calData[c].valid \/ reset > 3 * (c - 1) + 1

SampledExtremes == \A c \in Chans :
  /\ MinReset(c) => calData[c].min \in RawValues \union {32767}
  /\ MaxReset(c) => calData[c].max \in RawValues \union {-32768}

CalControl ==
  /\ rawCb \in {"none", "cal", "print"} /\ reset \in NoReset .. 3 * Channels
  /\ asked \subseteq Chans /\ still \subseteq Chans /\ seen \in [Chans -> SUBSET RawValues]
  /\ DOMAIN cal = Chans

CalSound == CalControl /\ ChannelData /\ Bracketed /\ ValidSampled /\ SampledExtremes /\ RangeKept

LEMMA ChannelNumbers ==
  /\ Channels \in Nat /\ Channels >= 1 /\ Chans \subseteq Nat
  /\ \A c \in Chans : c >= 1 /\ c <= Channels
  /\ NoReset = -1
  /\ \A raw \in RawValues : raw \in Int /\ -32768 <= raw /\ raw <= 32767
BY AxisCalAssumption DEF Chans, NoReset

LEMMA Int16Fits ==
  ASSUME NEW n \in Int, -32768 <= n, n <= 32767
  PROVE  Int16(n) = n
<1>1. \A w \in Nat, a \in Int : 0 <= a /\ a < w => a % w = a
  OBVIOUS
<1>2. n + 32768 \in Int /\ 0 <= n + 32768 /\ n + 32768 < 65536
  OBVIOUS
<1>3. (n + 32768) % 65536 = n + 32768
  BY <1>1, <1>2
<1> QED
  BY <1>3 DEF Int16

LEMMA DeadzoneNarrow ==
  ASSUME NEW range \in Nat
  PROVE  /\ Deadzone(range) \in Int /\ 0 <= Deadzone(range) /\ 2 * Deadzone(range) <= range
         /\ range > 0 => 2 * Deadzone(range) < range
BY DEF Deadzone, DeadzonePct

\* update_cal for a channel that was sampled: a range within the samples, and
\* of some width if they differ.
LEMMA RangeFits ==
  ASSUME NEW lo \in Int, NEW hi \in Int, -32768 <= lo, lo <= hi, hi <= 32767, hi - lo <= 32767
  PROVE  /\ Int16(lo + Deadzone(Int16(hi - lo))) <= Int16(hi - Deadzone(Int16(hi - lo)))
         /\ lo < hi => Int16(lo + Deadzone(Int16(hi - lo))) < Int16(hi - Deadzone(Int16(hi - lo)))
<1>1. Int16(hi - lo) = hi - lo
  BY Int16Fits
<1> DEFINE dz == Deadzone(hi - lo)
<1>2. dz \in Int /\ 0 <= dz /\ 2 * dz <= hi - lo /\ (hi - lo > 0 => 2 * dz < hi - lo)
  <2>1. hi - lo \in Nat
    OBVIOUS
  <2> QED
    BY <2>1, DeadzoneNarrow
<1> HIDE DEF dz
<1>3. lo + dz \in Int /\ hi - dz \in Int /\ -32768 <= lo + dz /\ lo + dz <= hi - dz /\ hi - dz <= 32767
  BY <1>2
<1>5. lo < hi => lo + dz < hi - dz
  BY <1>2
<1>4. Int16(lo + dz) = lo + dz /\ Int16(hi - dz) = hi - dz
  BY <1>3, Int16Fits
<1> QED
  BY <1>1, <1>3, <1>4, <1>5 DEF dz

LEMMA CalSoundInit == CalInit => CalSound
<1> SUFFICES ASSUME CalInit PROVE CalSound
  OBVIOUS
<1>1. \A c \in Chans : calData[c] = [min |-> 0, max |-> 0, valid |-> FALSE] /\ seen[c] = {}
  BY DEF CalInit
<1>2. CalControl /\ ChannelData
  BY ChannelNumbers DEF CalInit, CalControl, ChannelData, NoReset
<1>3. Bracketed /\ ValidSampled
  BY <1>1 DEF Bracketed, ValidSampled
<1>4. \A c \in Chans : ~MinReset(c) /\ ~MaxReset(c)
  BY <1>1, ChannelNumbers DEF CalInit, MinReset, MaxReset
<1>5. SampledExtremes
  BY <1>4 DEF SampledExtremes
<1>6. RangeKept
  <2> SUFFICES ASSUME NEW c \in Chans PROVE cal[c].inMin < cal[c].inMax /\ cal[c].inMin <= cal[c].inMax
    BY DEF RangeKept
  <2>1. cal[c] \in {Setting(0, 4095, 0), Setting(0, 4095, 50)}
    BY DEF CalInit
  <2> QED
    BY <2>1 DEF Setting
<1> QED
  BY <1>2, <1>3, <1>5, <1>6 DEF CalSound

\* The assignments of a reset, one field of one channel at a time.
LEMMA FieldStep ==
  ASSUME CalSound, ResetField
  PROVE  CalSound'
<1> USE DEF CalSound
<1>1. PICK c \in Chans, k \in 0 .. 2 :
        /\ reset = 3 * (c - 1) + k
        /\ calData' = [calData EXCEPT ![c][Fields[k + 1]] = Cleared[Fields[k + 1]]]
        /\ seen' = [seen EXCEPT ![c] = {}]
  <2> DEFINE q == (reset \div 3) + 1
             m == reset % 3
  <2>1. /\ reset \in Int /\ 0 <= reset /\ reset <= 3 * Channels - 1
        /\ calData' = [calData EXCEPT ![q][Fields[m + 1]] = Cleared[Fields[m + 1]]]
        /\ seen' = [seen EXCEPT ![q] = {}]
    BY ChannelNumbers DEF ResetField
  <2>2. m \in 0 .. 2 /\ reset = 3 * (q - 1) + m
    BY <2>1
  <2>3. q \in Int /\ 1 <= q /\ q <= Channels
    BY <2>1, ChannelNumbers
  <2> HIDE DEF q, m
  <2>4. q \in Chans
    BY <2>3, ChannelNumbers DEF Chans
  <2> QED
    BY <2>1, <2>2, <2>4
<1>2. /\ reset' = reset + 1 /\ UNCHANGED <<rawCb, cal, asked, still>>
      /\ c \in Nat /\ 1 <= c /\ c <= Channels /\ reset = 3 * (c - 1) + k
  BY <1>1, ChannelNumbers DEF ResetField
<1>3. /\ k = 0 => calData' = [calData EXCEPT ![c]["min"] = 32767]
      /\ k = 1 => calData' = [calData EXCEPT ![c]["max"] = -32768]
      /\ k = 2 => calData' = [calData EXCEPT ![c]["valid"] = FALSE]
  <2> DEFINE name == Fields[k + 1]
             value == Cleared[name]
  <2>1. calData' = [calData EXCEPT ![c][name] = value]
    BY <1>1
  <2>2. /\ k = 0 => name = "min" /\ value = 32767
        /\ k = 1 => name = "max" /\ value = -32768
        /\ k = 2 => name = "valid" /\ value = FALSE
    BY DEF Fields, Cleared
  <2> HIDE DEF name, value
  <2>3. CASE k = 0
    <3>1. name = "min" /\ value = 32767 /\ k # 1 /\ k # 2
      BY <2>2, <2>3
    <3> QED
      BY <2>1, <3>1
  <2>4. CASE k = 1
    <3>1. name = "max" /\ value = -32768 /\ k # 0 /\ k # 2
      BY <2>2, <2>4
    <3> QED
      BY <2>1, <3>1
  <2>5. CASE k = 2
    <3>1. name = "valid" /\ k # 0 /\ k # 1
      BY <2>2, <2>5
    <3>2. calData' = [calData EXCEPT ![c]["valid"] = Cleared["valid"]]
      BY <2>1, <3>1 DEF value
    <3>3. calData' = [calData EXCEPT ![c]["valid"] = FALSE]
      BY <3>2 DEF Cleared
    <3> QED
      BY <3>1, <3>3
  <2> QED
    BY <2>3, <2>4, <2>5
<1>4. /\ ChannelData' /\ \A e \in Chans : e # c => calData'[e] = calData[e]
      /\ calData'[c].min = IF k = 0 THEN 32767 ELSE calData[c].min
      /\ calData'[c].max = IF k = 1 THEN -32768 ELSE calData[c].max
      /\ calData'[c].valid <=> k # 2 /\ calData[c].valid
  <2>1. CASE k = 0
    BY <1>3, <2>1 DEF ChannelData
  <2>2. CASE k = 1
    BY <1>3, <2>2 DEF ChannelData
  <2>3. CASE k = 2
    <3>1. calData' = [calData EXCEPT ![c]["valid"] = FALSE] /\ k # 0 /\ k # 1
      BY <1>3, <2>3
    <3>2. ChannelData' /\ \A e \in Chans : e # c => calData'[e] = calData[e]
      BY <3>1 DEF ChannelData
    <3>3. calData'[c].min = calData[c].min /\ calData'[c].max = calData[c].max
      BY <3>1 DEF ChannelData
    <3>4. ~calData'[c].valid
      BY <3>1 DEF ChannelData
    <3> QED
      BY <2>3, <3>1, <3>2, <3>3, <3>4
  <2> QED
    BY <2>1, <2>2, <2>3
<1>5. seen'[c] = {} /\ \A e \in Chans : e # c => seen'[e] = seen[e]
  BY <1>1, <1>2 DEF CalControl
<1>6. CalControl'
  BY <1>1, <1>2, ChannelNumbers DEF CalControl
<1>7. Bracketed'
  BY <1>4, <1>5 DEF Bracketed
<1>8. \A e \in Chans : e # c => ~Halfway(e) /\ ~Halfway(e)'
  BY <1>1, <1>2, ChannelNumbers DEF Halfway
<1>9. k # 2 => Halfway(c)'
  BY <1>1, <1>2, ChannelNumbers DEF Halfway
<1>10. ValidSampled'
  BY <1>4, <1>5, <1>8, <1>9 DEF ValidSampled
<1>11. SampledExtremes'
  <2> SUFFICES ASSUME NEW e \in Chans
               PROVE  /\ MinReset(e)' => calData'[e].min \in RawValues \union {32767}
                      /\ MaxReset(e)' => calData'[e].max \in RawValues \union {-32768}
    BY DEF SampledExtremes
  <2>1. CASE e = c
    <3>1. k # 0 => MinReset(c)
      BY <1>1, <1>2, ChannelNumbers DEF MinReset
    <3>2. MaxReset(c)' /\ k = 0 => MaxReset(c)
      BY <1>1, <1>2, <1>4, ChannelNumbers DEF MaxReset
    <3>3. k = 2 => MaxReset(c)
      BY <1>1, <1>2, ChannelNumbers DEF MaxReset
    <3> QED
      BY <1>2, <1>4, <2>1, <3>1, <3>2, <3>3 DEF SampledExtremes
  <2>2. CASE e # c
    <3>1. (MinReset(e)' => MinReset(e)) /\ (MaxReset(e)' => MaxReset(e))
      BY <1>1, <1>2, <1>4, <2>2, ChannelNumbers DEF MinReset, MaxReset
    <3> QED
      BY <1>4, <2>2, <3>1 DEF SampledExtremes
  <2> QED
    BY <2>1, <2>2
<1>12. RangeKept'
  BY <1>2 DEF RangeKept
<1> QED
  BY <1>4, <1>6, <1>7, <1>10, <1>11, <1>12

LEMMA SampleStep ==
  ASSUME CalSound, Sample
  PROVE  CalSound'
<1> USE DEF CalSound
<1>1. PICK c \in Chans, raw \in RawValues :
        /\ calData' = [calData EXCEPT ![c] =
             [min |-> IF raw < calData[c].min THEN raw ELSE calData[c].min,
              max |-> IF raw > calData[c].max THEN raw ELSE calData[c].max,
              valid |-> TRUE]]
        /\ seen' = [seen EXCEPT ![c] = seen[c] \union {raw}]
  BY DEF Sample
<1>2. rawCb = "cal" /\ UNCHANGED <<rawCb, reset, cal, asked, still>>
  BY DEF Sample
<1>3. raw \in Int /\ calData[c].min \in Int /\ calData[c].max \in Int
  BY ChannelNumbers DEF ChannelData
<1>4. /\ \A e \in Chans : e # c => calData'[e] = calData[e] /\ seen'[e] = seen[e]
      /\ calData'[c].min = IF raw < calData[c].min THEN raw ELSE calData[c].min
      /\ calData'[c].max = IF raw > calData[c].max THEN raw ELSE calData[c].max
      /\ seen'[c] = seen[c] \union {raw}
  BY <1>1 DEF CalControl, ChannelData
<1>5. ChannelData'
  BY <1>1, <1>3 DEF ChannelData
<1>6. CalControl'
  BY <1>1, <1>2 DEF CalControl
<1>7. \A r \in seen[c] : r \in Int /\ calData[c].min <= r /\ r <= calData[c].max
  BY ChannelNumbers DEF Bracketed, CalControl
<1>8. Bracketed'
  BY <1>3, <1>4, <1>7 DEF Bracketed
<1>9. ValidSampled'
  BY <1>2, <1>4 DEF ValidSampled, Halfway
<1>10. SampledExtremes'
  <2>1. \A e \in Chans : MinReset(e) /\ MaxReset(e)
    BY <1>2 DEF MinReset, MaxReset
  <2> QED
    BY <1>4, <2>1 DEF SampledExtremes
<1>11. RangeKept'
  BY <1>2 DEF RangeKept
<1> QED
  BY <1>5, <1>6, <1>8, <1>9, <1>10, <1>11

\* At the end of a calibration a channel that was sampled gets the range of its
\* samples, of some width if it moved; one that was not keeps what it has.
LEMMA CalOffStep ==
  ASSUME NarrowConverter, CalSound, CalOff
  PROVE  CalSound'
<1> USE DEF CalSound
<1>1. /\ reset = NoReset /\ rawCb' = "none" /\ cal' = [c \in Chans |-> UpdateCal(c)]
      /\ asked' = {c \in asked : ~calData[c].valid} /\ UNCHANGED <<calData, reset, seen>>
      /\ still' = {c \in Chans : IF calData[c].valid THEN ~Moved(c) ELSE c \in still}
  BY DEF CalOff
<1>2. CalControl' /\ ChannelData' /\ Bracketed'
  BY <1>1 DEF CalControl, ChannelData, Bracketed
<1>3. ValidSampled'
  BY <1>1 DEF ValidSampled, Halfway
<1>4. SampledExtremes'
  BY <1>1 DEF SampledExtremes, MinReset, MaxReset
<1>5. RangeKept'
  <2> SUFFICES ASSUME NEW c \in Chans, c \notin asked'
               PROVE  /\ cal'[c].inMin <= cal'[c].inMax
                      /\ c \notin still' => cal'[c].inMin < cal'[c].inMax
    BY DEF RangeKept
  <2>1. cal'[c] = UpdateCal(c)
    BY <1>1
  <2>2. CASE ~calData[c].valid
    BY <1>1, <2>1, <2>2 DEF UpdateCal, RangeKept
  <2>3. CASE calData[c].valid
    <3> DEFINE lo == calData[c].min
               hi == calData[c].max
    <3>1. ~Halfway(c)
      BY <1>1, ChannelNumbers DEF Halfway
    <3>2. PICK raw \in seen[c] : raw \in RawValues /\ lo <= raw /\ raw <= hi
      BY <2>3, <3>1 DEF ValidSampled, Bracketed, CalControl
    <3>3. lo \in RawValues \union {32767} /\ hi \in RawValues \union {-32768} /\ lo \in Int /\ hi \in Int
      BY <2>3 DEF SampledExtremes, MinReset, MaxReset, ChannelData
    <3> HIDE DEF lo, hi
    <3>4. lo \in RawValues /\ hi \in RawValues
      BY <3>2, <3>3, ChannelNumbers
    <3>5. -32768 <= lo /\ lo <= hi /\ hi <= 32767 /\ hi - lo <= 32767
      BY <3>2, <3>3, <3>4, ChannelNumbers DEF NarrowConverter
    <3>6. /\ Int16(lo + Deadzone(Int16(hi - lo))) <= Int16(hi - Deadzone(Int16(hi - lo)))
          /\ lo < hi => Int16(lo + Deadzone(Int16(hi - lo))) < Int16(hi - Deadzone(Int16(hi - lo)))
      BY <3>3, <3>5, RangeFits
    <3>7. /\ cal'[c].inMin = Int16(lo + Deadzone(Int16(hi - lo)))
          /\ cal'[c].inMax = Int16(hi - Deadzone(Int16(hi - lo)))
      BY <2>1, <2>3 DEF UpdateCal, Setting, lo, hi
    <3>8. c \notin still' => lo < hi
      <4> SUFFICES ASSUME Moved(c) PROVE lo < hi
        BY <1>1, <2>3
      <4>1. PICK a, b \in seen[c] : a # b
        BY DEF Moved
      <4>2. a \in Int /\ b \in Int /\ lo <= a /\ a <= hi /\ lo <= b /\ b <= hi
        BY ChannelNumbers DEF Bracketed, CalControl, lo, hi
      <4> QED
        BY <3>3, <4>1, <4>2
    <3> QED
      BY <3>6, <3>7, <3>8
  <2> QED
    BY <2>2, <2>3
<1> QED
  BY <1>2, <1>3, <1>4, <1>5

LEMMA CalStep ==
  ASSUME NarrowConverter, CalSound, CalNext
  PROVE  CalSound'
<1> USE DEF CalSound
<1>1. ASSUME CalOn PROVE CalSound'
  <2>1. reset = NoReset /\ reset' = 0 /\ UNCHANGED <<rawCb, calData, cal, asked, seen, still>>
    BY <1>1 DEF CalOn
  <2>2. \A c \in Chans : ~Halfway(c) /\ (MinReset(c)' => MinReset(c)) /\ (MaxReset(c)' => MaxReset(c))
    BY <2>1, ChannelNumbers DEF Halfway, MinReset, MaxReset
  <2>3. CalControl' /\ ChannelData' /\ Bracketed' /\ RangeKept'
    BY <2>1, ChannelNumbers DEF CalControl, ChannelData, Bracketed, RangeKept
  <2> QED
    BY <2>1, <2>2, <2>3 DEF ValidSampled, SampledExtremes
<1>2. ASSUME ResetDone PROVE CalSound'
  <2>1. reset = 3 * Channels /\ reset' = NoReset /\ rawCb' = "cal" /\ UNCHANGED <<calData, cal, asked, seen, still>>
    BY <1>2 DEF ResetDone
  <2>2. \A c \in Chans : ~Halfway(c) /\ MinReset(c) /\ MaxReset(c)
    BY <2>1, ChannelNumbers DEF Halfway, MinReset, MaxReset
  <2>3. CalControl' /\ ChannelData' /\ Bracketed' /\ RangeKept'
    BY <2>1, ChannelNumbers DEF CalControl, ChannelData, Bracketed, RangeKept
  <2> QED
    BY <2>1, <2>2, <2>3 DEF ValidSampled, SampledExtremes
<1>3. ASSUME RawPrint PROVE CalSound'
  <2>1. rawCb' \in {"print", "none"} /\ UNCHANGED <<calData, reset, cal, asked, seen, still>>
    BY <1>3 DEF RawPrint
  <2> QED
    BY <2>1 DEF CalControl, ChannelData, Bracketed, RangeKept, ValidSampled, Halfway, SampledExtremes, MinReset,
       MaxReset
<1>4. ASSUME CalSet PROVE CalSound'
  <2>1. PICK c \in Chans : cal' = [cal EXCEPT ![c] = Setting(300, 0, 0)] /\ asked' = asked \union {c}
    BY <1>4 DEF CalSet
  <2>2. UNCHANGED <<rawCb, calData, reset, seen, still>>
    BY <1>4 DEF CalSet
  <2>3. CalControl' /\ RangeKept'
    BY <2>1, <2>2 DEF CalControl, RangeKept
  <2> QED
    BY <2>2, <2>3 DEF ChannelData, Bracketed, ValidSampled, Halfway, SampledExtremes, MinReset, MaxReset
<1> QED
  BY <1>1, <1>2, <1>3, <1>4, FieldStep, SampleStep, CalOffStep DEF CalNext

LEMMA CalSoundInv == CalSound => CalInv
<1> SUFFICES ASSUME CalSound PROVE CalInv
  OBVIOUS
<1>1. CalTypeOK /\ RangeKept
  BY DEF CalSound, CalControl, ChannelData, CalTypeOK
<1>2. ASSUME reset = NoReset, NEW c \in Chans, calData[c].valid
      PROVE  seen[c] # {} /\ \A raw \in seen[c] : raw \in calData[c].min .. calData[c].max
  <2>1. ~Halfway(c)
    BY <1>2, ChannelNumbers DEF Halfway
  <2>2. \A raw \in seen[c] : raw \in Int
    BY ChannelNumbers DEF CalSound, CalControl
  <2> QED
    BY <1>2, <2>1, <2>2 DEF CalSound, ValidSampled, Bracketed, ChannelData
<1> QED
  BY <1>1, <1>2 DEF CalInv, ExtremesBracket

-----------------------------------------------------------------------------
(***************************************************************************)
(* The sources together: a step of one leaves the others alone.            *)
(***************************************************************************)
SourcesSound == SensorSound /\ ScanSound /\ GyroSound /\ StickSound /\ TouchSound

LEMMA SensorApart ==
  ASSUME SensorSound, [SourcesNext]_sourcevars
  PROVE  SensorSound' /\ [~due /\ due' => idleFor' = ForceAwakeTimeout]_vars
<1>1. CASE UNCHANGED vars
  BY <1>1 DEF vars, SensorSound, SensorFlags, SensorCalls, SensorTimer, AwakeEnds, Calling
<1>2. CASE Next
  BY <1>2, SensorStep
<1> QED
  BY <1>1, <1>2 DEF SourcesNext, Only, sourcevars, Sensor, Scan, Stick, Touch, Axis

LEMMA ScanApart ==
  ASSUME ScanSound, [SourcesNext]_sourcevars
  PROVE  ScanSound' /\ [\A b \in Buttons : (b \in state) # (b \in state') => since[b] >= HoldoffTime]_scanvars
<1>1. CASE UNCHANGED scanvars
  BY <1>1 DEF scanvars, ScanSound, ScanTypeOK, SinceBounds, DiffersShortly, Elapsed, Differs, Scanned
<1>2. CASE ScanNext
  BY <1>2, ScanStep
<1> QED
  BY <1>1, <1>2 DEF SourcesNext, Only, sourcevars, Sensor, Scan, Stick, Touch, Axis

LEMMA GyroApart ==
  ASSUME GyroSound, [SourcesNext]_sourcevars
  PROVE  GyroSound'
<1>1. CASE UNCHANGED zalpakkavars
  BY <1>1 DEF zalpakkavars, gyrovars, GyroSound, Fractions, NothingDue, LastDue, BothDue
<1>2. CASE TouchNext
  BY <1>2, GyroStep
<1> QED
  BY <1>1, <1>2 DEF SourcesNext, Only, sourcevars, Sensor, Scan, Stick, Touch, Axis

LEMMA StickApart ==
  ASSUME StickSound, [SourcesNext]_sourcevars
  PROVE  StickSound'
<1>1. CASE UNCHANGED hallvars
  BY <1>1 DEF hallvars, StickSound, StickData, StickWork
<1>2. CASE HallNext
  BY <1>2, StickStep
<1> QED
  BY <1>1, <1>2 DEF SourcesNext, Only, sourcevars, Sensor, Scan, Stick, Touch, Axis

LEMMA TouchApart ==
  ASSUME TouchSound, GyroSound, [SourcesNext]_sourcevars
  PROVE  TouchSound'
<1>1. CASE UNCHANGED zalpakkavars
  BY <1>1 DEF zalpakkavars, touchvars, TouchSound, TouchShown
<1>2. CASE TouchNext
  BY <1>2, TouchStep
<1> QED
  BY <1>1, <1>2 DEF SourcesNext, Only, sourcevars, Sensor, Scan, Stick, Touch, Axis

LEMMA CalApart ==
  ASSUME NarrowConverter, CalSound, [SourcesNext]_sourcevars
  PROVE  CalSound'
<1>1. CASE UNCHANGED calvars
  BY <1>1 DEF calvars, CalSound, CalControl, ChannelData, Bracketed, ValidSampled, Halfway, SampledExtremes,
     MinReset, MaxReset, RangeKept
<1>2. CASE CalNext
  BY <1>2, CalStep
<1> QED
  BY <1>1, <1>2 DEF SourcesNext, Only, sourcevars, Sensor, Scan, Stick, Touch, Axis

\* The invariant that the properties of the sensor, the scan, the gyro, the
\* stick and the touch surface rest on holds of every board.
THEOREM SourcesStaySound == SourcesSpec => []SourcesSound
<1>1. SourcesInit => SourcesSound
  BY SensorSoundInit, ScanSoundInit, GyroSoundInit, StickSoundInit, TouchSoundInit
  DEF SourcesInit, SourcesSound
<1>2. SourcesSound /\ [SourcesNext]_sourcevars => SourcesSound'
  BY SensorApart, ScanApart, GyroApart, StickApart, TouchApart DEF SourcesSound
<1> QED
  BY <1>1, <1>2, PTL DEF SourcesSpec

\* force_awake tells the mode of the sensor whenever the bus and the workqueue
\* are done with it, and a sensor that is awake has a work item that will send
\* it to rest.
THEOREM SensorWakesAndRests == SourcesSpec => []SensorInv
<1>1. SourcesSound => SensorInv
  BY SensorSoundInv DEF SourcesSound
<1> QED
  BY <1>1, SourcesStaySound, PTL

\* The sensor's work item expires only after the whole force-awake time
\* without a motion.
THEOREM NeverRestsInUse == SourcesSpec => ExpiresOnlyIdle
<1>1. SourcesSound /\ [SourcesNext]_sourcevars => [~due /\ due' => idleFor' = ForceAwakeTimeout]_vars
  BY SensorApart DEF SourcesSound
<1>2. SourcesSpec => [][~due /\ due' => idleFor' = ForceAwakeTimeout]_vars
  BY <1>1, SourcesStaySound, PTL DEF SourcesSpec
<1> QED
  BY <1>2 DEF ExpiresOnlyIdle

\* A contact that keeps still is reported within the hold-off time and a
\* late scan, whatever the wraps of the 32-bit clock.
THEOREM StillContactsReported == SourcesSpec => []ScanInv
<1>1. SourcesSound => ScanInv
  BY ScanSoundInv DEF SourcesSound
<1> QED
  BY <1>1, SourcesStaySound, PTL

\* Two reports of a button are the hold-off time apart.
THEOREM BouncesReportedOnce == SourcesSpec => ReportsApart
<1>1. SourcesSound /\ [SourcesNext]_sourcevars
        => [\A b \in Buttons : (b \in state) # (b \in state') => since[b] >= HoldoffTime]_scanvars
  BY ScanApart DEF SourcesSound
<1>2. SourcesSpec
        => [][\A b \in Buttons : (b \in state) # (b \in state') => since[b] >= HoldoffTime]_scanvars
  BY <1>1, SourcesStaySound, PTL DEF SourcesSpec
<1> QED
  BY <1>2 DEF ReportsApart

\* gyro.c reports all the rotation that it reads, except for the fraction of
\* a pixel that it carries over.
THEOREM RotationNeverLost == SourcesSpec => []RotationKept
<1>1. SourcesSound => RotationKept
  BY GyroSoundKept DEF SourcesSound
<1> QED
  BY <1>1, SourcesStaySound, PTL

(***************************************************************************)
(* The safety that StickFollows rests on: tmag_handler runs or its work    *)
(* item is scheduled, unless a read failed, and last_val never holds a     *)
(* position that was not reported, so every pass reports what changed.     *)
(***************************************************************************)
StickKept == (readFailed \/ reading # 0 \/ tmagDwork) /\ shown = lastVal

THEOREM StickNeverForgotten == SourcesSpec => []StickKept
<1>1. SourcesSound => StickKept
  BY DEF SourcesSound, StickSound, StickData, StickWork, StickKept
<1> QED
  BY <1>1, SourcesStaySound, PTL

(***************************************************************************)
(* The safety that TouchFollows rests on: the LED and the gyro are         *)
(* switched alike, and as soon as the input thread has seen the touch      *)
(* events that wait they are as data.touch, however long touch_sense_loop  *)
(* waited for room and whatever else the queue holds.                      *)
(***************************************************************************)
TouchKept == active = led /\ TouchShown

THEOREM TouchNeverForgotten == SourcesSpec => []TouchKept
<1>1. SourcesSound => TouchKept
  BY DEF SourcesSound, TouchSound, TouchKept
<1> QED
  BY <1>1, SourcesStaySound, PTL

\* A calibration from the shell brackets the samples that it got.  It leaves
\* every channel that moved with a range of some width; only one that it
\* calibrated over a reading that never changed may be left with none.
THEOREM CalibrationUsable == NarrowConverter => (SourcesSpec => []CalInv)
<1> SUFFICES ASSUME NarrowConverter PROVE SourcesSpec => []CalInv
  OBVIOUS
<1>1. SourcesInit => CalSound
  BY CalSoundInit DEF SourcesInit
<1>2. CalSound /\ [SourcesNext]_sourcevars => CalSound'
  BY CalApart
<1>3. CalSound => CalInv
  BY CalSoundInv
<1> QED
  BY <1>1, <1>2, <1>3, PTL DEF SourcesSpec
=============================================================================

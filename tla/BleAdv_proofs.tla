---------------------------- MODULE BleAdv_proofs ----------------------------
(***************************************************************************)
(* Proofs about the automatic power-off, the watchdog and the Bluetooth    *)
(* advertising, for every timeout, every set of hosts and every build.     *)
(***************************************************************************)
EXTENDS BleAdv, FiniteSetTheorems, TLAPS

(***************************************************************************)
(* The countdown that runs is what is left of AUTO_POWEROFF_TIME, and the  *)
(* watchdog's age is bounded by where the power-off handler is: it sleeps  *)
(* one second and then two, and starts at most a second after a feed.      *)
(***************************************************************************)
CountdownExact == timer # Off => timer + idleFor = AutoPoweroffTime

FeedBudget ==
  /\ handler = Idle => wdtAge = 0 \/ (feeding /\ wdtAge = 1)
  /\ handler = Stopped => wdtAge + sleep <= 2
  /\ wdtAge + sleep <= 4

PowerSound == PowerTypeOK /\ ChargingDisarms /\ NeverForgotten /\ CountdownExact /\ FeedBudget

\* The two halves of the type invariant.
PowerFlags ==
  /\ booted \in BOOLEAN /\ hold \in BOOLEAN /\ due \in BOOLEAN
  /\ polling \in BOOLEAN /\ feeding \in BOOLEAN /\ bootArmed \in BOOLEAN
  /\ charger \in ChargerStates /\ lastCode \in ChargerStates

PowerCounts ==
  /\ timer \in (1 .. AutoPoweroffTime) \union {Off}
  /\ wdtAge \in 0 .. WdtWindow
  /\ handler \in {Idle, Stopped, Signaled, PoweredOff}
  /\ sleep \in 0 .. 2
  /\ idleFor \in 0 .. AutoPoweroffTime

LEMMA PowerTypes == PowerTypeOK <=> PowerFlags /\ PowerCounts
BY DEF PowerTypeOK, PowerFlags, PowerCounts

LEMMA PowerTypesNext == PowerTypeOK' <=> PowerFlags' /\ PowerCounts'
BY PowerTypes, PTL

LEMMA PowerFlagsStep == PowerFlags /\ [Next]_vars => PowerFlags'
<1> SUFFICES ASSUME PowerFlags, [Next]_vars PROVE PowerFlags'
  OBVIOUS
<1> USE DEF PowerFlags, work, history
<1>1. CASE AutoPoweroffInit
  BY <1>1 DEF AutoPoweroffInit
<1>2. CASE Poll
  BY <1>2 DEF Poll, ChargerEvent, CancelDelayable
<1>3. CASE Feed
  BY <1>3 DEF Feed
<1>4. CASE Wake
  BY <1>4 DEF Wake
<1>5. CASE Input
  BY <1>5 DEF Input
<1>6. ASSUME NEW c \in ChargerStates, ChargerChanges(c)
      PROVE  PowerFlags'
  BY <1>6 DEF ChargerChanges
<1>7. CASE StartPoweroff
  BY <1>7 DEF StartPoweroff
<1>8. CASE Tick
  BY <1>8 DEF Tick
<1>9. CASE UNCHANGED vars
  BY <1>9 DEF vars
<1> QED
  BY <1>1, <1>2, <1>3, <1>4, <1>5, <1>6, <1>7, <1>8, <1>9 DEF Next, PowerWork, PowerEvent

LEMMA PowerInit == Init => PowerSound
<1> SUFFICES ASSUME Init PROVE PowerSound
  OBVIOUS
<1>1. PowerFlags
  BY ChargerStatesAssumption DEF Init, PowerFlags
<1>2. PowerCounts
  BY PowerOffAssumption DEF Init, PowerCounts
<1>3. CountdownExact /\ FeedBudget
  BY DEF Init, CountdownExact, FeedBudget, Off, Idle, Stopped
<1> QED
  BY <1>1, <1>2, <1>3, PowerTypes DEF Init, PowerSound, ChargingDisarms, NeverForgotten

\* A step that neither passes time nor moves the handler, and leaves or
\* restarts the countdown.
LEMMA CountingKept ==
  ASSUME PowerCounts, CountdownExact, FeedBudget,
         handler' = handler, sleep' = sleep, wdtAge' = wdtAge, feeding' = feeding,
         \/ timer' = timer /\ idleFor' = idleFor
         \/ timer' = Off /\ idleFor' = idleFor
         \/ timer' = AutoPoweroffTime /\ idleFor' = 0
  PROVE  PowerCounts' /\ CountdownExact' /\ FeedBudget'
<1>1. PowerCounts' /\ CountdownExact'
  BY PowerOffAssumption DEF PowerCounts, CountdownExact, Off
<1>2. FeedBudget'
  BY DEF FeedBudget
<1> QED
  BY <1>1, <1>2

(***************************************************************************)
(* A second passes: the countdown and the watchdog go on, and an idle      *)
(* workqueue has fed the watchdog before it does.                          *)
(***************************************************************************)
LEMMA TickStep ==
  ASSUME PowerCounts, CountdownExact, FeedBudget, Tick
  PROVE  PowerCounts' /\ CountdownExact' /\ FeedBudget' /\ (Armed' <=> Armed)
<1> USE PowerOffAssumption DEF Off, Idle, Stopped, Signaled, PoweredOff
<1>1. handler' = handler /\ feeding'
  BY DEF Tick
<1>2. /\ handler = Idle => ~feeding /\ sleep' = 0
      /\ handler # Idle => sleep > 0 /\ sleep' = sleep - 1
  BY DEF Tick, QueueServed
<1>3. /\ wdtAge' = IF wdtAge = WdtWindow THEN wdtAge ELSE wdtAge + 1
      /\ idleFor' = IF idleFor = AutoPoweroffTime THEN idleFor ELSE idleFor + 1
  BY DEF Tick
<1>4. IF timer = 1 THEN timer' = Off /\ due' = TRUE
                   ELSE timer' = (IF timer = Off THEN Off ELSE timer - 1) /\ due' = due
  BY DEF Tick
<1>5. wdtAge' \in 0 .. WdtWindow /\ wdtAge' <= wdtAge + 1 /\ idleFor' \in 0 .. AutoPoweroffTime
  BY <1>3 DEF PowerCounts
<1>6. sleep' \in 0 .. 2
  BY <1>2 DEF PowerCounts
<1>7. timer' \in (1 .. AutoPoweroffTime) \union {Off}
  BY <1>4 DEF PowerCounts
<1>8. PowerCounts'
  BY <1>1, <1>5, <1>6, <1>7 DEF PowerCounts
<1>9. CountdownExact'
  BY <1>3, <1>4 DEF CountdownExact, PowerCounts
<1>10. FeedBudget'
  <2>1. CASE handler = Idle
    <3>1. wdtAge = 0
      BY <1>2, <2>1 DEF FeedBudget
    <3> QED
      BY <1>1, <1>2, <1>3, <2>1, <3>1 DEF FeedBudget
  <2>2. CASE handler # Idle
    <3>1. wdtAge \in Int /\ wdtAge' \in Int /\ sleep \in Int
      BY <1>5 DEF PowerCounts
    <3>2. wdtAge' <= wdtAge + 1 /\ sleep' = sleep - 1
      BY <1>2, <1>5, <2>2
    <3>3. sleep' \in Int
      BY <3>1, <3>2
    <3>4. \A x, y, z, t, n \in Int : x <= y + 1 /\ z = t - 1 /\ y + t <= n => x + z <= n
      OBVIOUS
    <3>5. \A n \in Int : wdtAge + sleep <= n => wdtAge' + sleep' <= n
      BY <3>1, <3>2, <3>3, <3>4
    <3> HIDE DEF Idle, Stopped
    <3> QED
      BY <1>1, <2>2, <3>5 DEF FeedBudget
  <2> QED
    BY <2>1, <2>2
<1>11. Armed' <=> Armed
  <2>1. CASE timer = 1
    BY <1>4, <2>1 DEF Armed
  <2>2. CASE timer # 1
    <3>1. timer' = Off <=> timer = Off
      BY <1>4, <2>2 DEF PowerCounts
    <3>2. due' = due
      BY <1>4, <2>2
    <3> HIDE DEF Off
    <3> QED
      BY <3>1, <3>2 DEF Armed
  <2> QED
    BY <2>1, <2>2
<1> QED
  BY <1>8, <1>9, <1>10, <1>11

LEMMA PowerCountsStep ==
  ASSUME PowerCounts, CountdownExact, FeedBudget, [Next]_vars
  PROVE  PowerCounts' /\ CountdownExact' /\ FeedBudget'
<1> USE DEF work, history
<1>1. CASE AutoPoweroffInit
  BY <1>1, CountingKept DEF AutoPoweroffInit, Reschedule
<1>2. CASE Poll
  BY <1>2, CountingKept DEF Poll, ChargerEvent, CancelDelayable, Reschedule
<1>3. CASE Feed
  <2>1. wdtAge' = 0 /\ UNCHANGED <<timer, idleFor, handler, sleep>>
    BY <1>3 DEF Feed
  <2>2. PowerCounts' /\ CountdownExact'
    BY <2>1, PowerOffAssumption DEF PowerCounts, CountdownExact
  <2>3. FeedBudget'
    BY <2>1 DEF PowerCounts, FeedBudget
  <2> QED
    BY <2>2, <2>3
<1>4. CASE Wake
  <2>1. UNCHANGED <<timer, idleFor, wdtAge>> /\ sleep = 0
        /\ \/ handler = Stopped /\ handler' = Signaled /\ sleep' = 2
           \/ handler = Signaled /\ handler' = PoweredOff /\ sleep' = 0
    BY <1>4 DEF Wake
  <2>2. PowerCounts' /\ CountdownExact'
    BY <2>1 DEF PowerCounts, CountdownExact
  <2>3. FeedBudget'
    BY <2>1 DEF FeedBudget, PowerCounts, Idle, Stopped, Signaled, PoweredOff
  <2> QED
    BY <2>2, <2>3
<1>5. CASE Input
  BY <1>5, CountingKept DEF Input, Reschedule
<1>6. ASSUME NEW c \in ChargerStates, ChargerChanges(c)
      PROVE  PowerCounts' /\ CountdownExact' /\ FeedBudget'
  BY <1>6, CountingKept DEF ChargerChanges
<1>7. CASE StartPoweroff
  <2>1. UNCHANGED <<timer, idleFor, wdtAge>> /\ handler = Idle /\ handler' = Stopped /\ sleep' = 1
    BY <1>7 DEF StartPoweroff
  <2>2. PowerCounts' /\ CountdownExact'
    BY <2>1 DEF PowerCounts, CountdownExact
  <2>3. FeedBudget'
    BY <2>1 DEF FeedBudget, Idle, Stopped
  <2> QED
    BY <2>2, <2>3
<1>8. CASE Tick
  BY <1>8, TickStep
<1>9. CASE UNCHANGED vars
  BY <1>9, CountingKept DEF vars
<1> QED
  BY <1>1, <1>2, <1>3, <1>4, <1>5, <1>6, <1>7, <1>8, <1>9 DEF Next, PowerWork, PowerEvent

\* The timer is armed, held or in its handler.
LEMMA ArmedStep ==
  ASSUME PowerSound, [Next]_vars
  PROVE  ChargingDisarms' /\ NeverForgotten'
<1> USE DEF PowerSound, ChargingDisarms, NeverForgotten, work, history
<1>0. AutoPoweroffTime # Off
  BY PowerOffAssumption DEF Off
<1>1. CASE AutoPoweroffInit
  BY <1>0, <1>1 DEF AutoPoweroffInit, Reschedule, Armed
<1>2. CASE Poll
  BY <1>0, <1>2 DEF Poll, ChargerEvent, CancelDelayable, Reschedule, Armed
<1>3. CASE Feed
  BY <1>3 DEF Feed, Armed
<1>4. CASE Wake
  BY <1>4 DEF Wake, Armed, Idle, Signaled, PoweredOff
<1>5. CASE Input
  BY <1>0, <1>5 DEF Input, Reschedule, Armed
<1>6. ASSUME NEW c \in ChargerStates, ChargerChanges(c)
      PROVE  ChargingDisarms' /\ NeverForgotten'
  BY <1>6 DEF ChargerChanges, Armed
<1>7. CASE StartPoweroff
  BY <1>7 DEF StartPoweroff, Armed, Idle, Stopped
<1>8. CASE Tick
  <2>1. Armed' <=> Armed
    BY <1>8, TickStep, PowerTypes
  <2>2. UNCHANGED <<booted, hold, handler, bootArmed>>
    BY <1>8 DEF Tick
  <2> QED
    BY <2>1, <2>2
<1>9. CASE UNCHANGED vars
  BY <1>9 DEF vars, Armed
<1> QED
  BY <1>1, <1>2, <1>3, <1>4, <1>5, <1>6, <1>7, <1>8, <1>9 DEF Next, PowerWork, PowerEvent

LEMMA PowerNext == PowerSound /\ [Next]_vars => PowerSound'
<1> SUFFICES ASSUME PowerSound, [Next]_vars PROVE PowerSound'
  OBVIOUS
<1>1. PowerFlags /\ PowerCounts
  BY PowerTypes DEF PowerSound
<1>2. PowerFlags' /\ PowerCounts' /\ CountdownExact' /\ FeedBudget'
  BY <1>1, PowerFlagsStep, PowerCountsStep DEF PowerSound
<1>3. ChargingDisarms' /\ NeverForgotten'
  BY ArmedStep
<1> QED
  BY <1>2, <1>3, PowerTypesNext DEF PowerSound

(***************************************************************************)
(* The inductive invariant of the power-off and of the work items that     *)
(* share its workqueue.                                                    *)
(***************************************************************************)
THEOREM PowerStaysSound == Spec => []PowerSound
BY PowerInit, PowerNext, PTL DEF Spec

(***************************************************************************)
(* The power-off timer runs exactly when it has to, and the watchdog is    *)
(* fed in time by every device whose window is longer than the four        *)
(* seconds the handler can keep the workqueue: watchdog.c sets five.       *)
(***************************************************************************)
THEOREM PowerOffSound == WdtWindow >= 5 => (Spec => []PowerInv)
<1> SUFFICES ASSUME WdtWindow >= 5 PROVE Spec => []PowerInv
  OBVIOUS
<1>1. PowerSound => PowerInv
  BY PowerOffAssumption DEF PowerSound, PowerInv, FeedBudget, WatchdogFed, PowerTypeOK
<1> QED
  BY <1>1, PowerStaysSound, PTL
-----------------------------------------------------------------------------
(***************************************************************************)
(* Bluetooth.  Its steps are steps of the power-off or leave it alone, so  *)
(* what was proved of the power-off holds of the whole.                    *)
(***************************************************************************)
LEMMA BleIsPower == [BleNext]_bleVars => [Next]_vars
BY DEF BleNext, bleVars, BleWork, Link, KeyEvent, BlePowerWork, BlePowerEvent, Poweroff, Second, Next, PowerEvent

(***************************************************************************)
(* The Bluetooth side runs in the power-off that PowerOff describes alone. *)
(***************************************************************************)
THEOREM PowerOffWithBle == BleSpec => Spec
<1>1. BleInit => Init
  BY DEF BleInit
<1> QED
  BY <1>1, BleIsPower, PTL DEF BleSpec, Spec

\* The power-off handler starts once, and not without ble_stop.
LEMMA HandlerStays ==
  ASSUME PowerSound, PowerWork \/ PowerEvent \/ Tick \/ Input \/ UNCHANGED vars
  PROVE  handler' = Idle <=> handler = Idle
<1> USE DEF Idle, Stopped, Signaled, PoweredOff
<1>1. CASE Wake
  BY <1>1 DEF Wake
<1>2. CASE AutoPoweroffInit \/ Poll \/ Feed \/ PowerEvent \/ Tick \/ Input \/ UNCHANGED vars
  BY <1>2 DEF AutoPoweroffInit, Poll, Feed, PowerEvent, Tick, Input, ChargerChanges, vars
<1> QED
  BY <1>1, <1>2 DEF PowerWork

(***************************************************************************)
(* The connection object is in use exactly by the advertising or by the    *)
(* connection, never by both: it is what bt_le_adv_start may fail over,    *)
(* and what NeverSilent rests on when it does.                             *)
(***************************************************************************)
SlotHeld ==
  /\ slot = InUse <=> adv # NoAdv \/ conn # NoPeer
  /\ adv = NoAdv \/ conn = NoPeer

RadioTypes ==
  /\ build \in Builds
  /\ bonds \subseteq Peers
  /\ adv \in {NoAdv, Normal, Empty, Directed}
  /\ conn \in Peers \union {NoPeer}
  /\ slot \in {Free, InUse, Closing}

RadioFlags ==
  /\ secured \in BOOLEAN /\ leaving \in BOOLEAN
  /\ advWork \in BOOLEAN /\ recycling \in BOOLEAN
  /\ a \in BOOLEAN /\ b \in BOOLEAN

RadioSound ==
  RadioTypes /\ SlotHeld /\ NeverSilent /\ AdvFitsBonds /\ StrangersLeave /\ StaysStopped

\* What is advertised is one of the four, and something.
LEMMA ModeIsAdv == AdvMode \in {NoAdv, Normal, Empty, Directed} /\ AdvMode # NoAdv
BY DEF AdvMode, NoAdv, Normal, Empty, Directed

LEMMA RadioInit == BleInit => RadioSound /\ RadioFlags
<1> SUFFICES ASSUME BleInit PROVE RadioSound /\ RadioFlags
  OBVIOUS
<1> USE DEF BleInit, AdvInit
<1>1. RadioTypes
  BY DEF RadioTypes
<1>2. SlotHeld
  BY DEF SlotHeld, Free, InUse
<1>3. NeverSilent /\ AdvFitsBonds /\ StrangersLeave /\ StaysStopped
  BY DEF Init, NeverSilent, AdvFitsBonds, StrangersLeave, StaysStopped
<1> QED
  BY <1>1, <1>2, <1>3 DEF RadioSound, RadioFlags

LEMMA RadioFlagsNext == RadioFlags /\ [BleNext]_bleVars => RadioFlags'
<1> SUFFICES ASSUME RadioFlags, [BleNext]_bleVars PROVE RadioFlags'
  OBVIOUS
<1> USE DEF RadioFlags, keys
<1>1. CASE AdvWork
  BY <1>1 DEF AdvWork
<1>2. CASE Recycled
  BY <1>2 DEF Recycled
<1>3. CASE Unpair
  BY <1>3 DEF Unpair, StopAdv
<1>4. ASSUME NEW p \in Peers, BleConnected(p)
      PROVE  RadioFlags'
  BY <1>4 DEF BleConnected
<1>5. CASE Pair \/ BleDisconnected \/ Unref
  BY <1>5 DEF Pair, BleDisconnected, Unref
<1>6. ASSUME NEW x \in BOOLEAN, NEW y \in BOOLEAN, Key(x, y)
      PROVE  RadioFlags'
  BY <1>6 DEF Key, radio
<1>7. CASE UNCHANGED advVars
  BY <1>7 DEF advVars, radio
<1>8. CASE BleStop
  BY <1>8 DEF BleStop, StopAdv
<1>9. CASE UnpairTick
  BY <1>9 DEF UnpairTick, radio
<1> QED
  BY <1>1, <1>2, <1>3, <1>4, <1>5, <1>6, <1>7, <1>8, <1>9
  DEF BleNext, bleVars, BleWork, Link, KeyEvent, BlePowerWork, BlePowerEvent, Poweroff, Second

\* What leaves the radio alone.
LEMMA RadioKept ==
  ASSUME RadioSound, UNCHANGED <<radio, advWork>>, handler' = Idle <=> handler = Idle
  PROVE  RadioSound'
BY DEF radio, RadioSound, RadioTypes, SlotHeld, NeverSilent, AdvFitsBonds, StrangersLeave, StaysStopped, AdvMode, Bonded

\* adv_work_handler, which may find the connection object in use.
LEMMA AdvWorkStep ==
  ASSUME RadioSound, AdvWork, UNCHANGED vars
  PROVE  RadioSound'
<1> USE DEF RadioSound, keys
<1>0. handler' = handler /\ handler = Idle /\ UNCHANGED <<build, bonds, conn, leaving, recycling>>
  BY DEF AdvWork, vars
<1>1. CASE slot = Free /\ adv = NoAdv
  <2>1. adv' = AdvMode /\ slot' = InUse
    BY <1>1 DEF AdvWork
  <2>2. conn = NoPeer
    BY <1>1 DEF SlotHeld, Free, InUse
  <2>3. adv' # NoAdv /\ RadioTypes'
    BY <1>0, <2>1, ModeIsAdv DEF RadioTypes
  <2>4. SlotHeld' /\ NeverSilent' /\ StaysStopped'
    BY <1>0, <2>1, <2>2, <2>3 DEF SlotHeld, NeverSilent, StaysStopped
  <2>5. AdvFitsBonds' /\ StrangersLeave'
    BY <1>0, <2>1 DEF AdvFitsBonds, StrangersLeave, AdvMode, Bonded
  <2> QED
    BY <2>3, <2>4, <2>5
<1>2. CASE ~(slot = Free /\ adv = NoAdv)
  <2>1. adv' = adv /\ slot' = slot
    BY <1>2 DEF AdvWork
  <2>2. adv = NoAdv /\ conn = NoPeer => slot = Closing
    BY <1>2 DEF SlotHeld, RadioTypes
  <2>3. RadioTypes' /\ SlotHeld' /\ NeverSilent' /\ StaysStopped'
    BY <1>0, <2>1, <2>2 DEF RadioTypes, SlotHeld, NeverSilent, StaysStopped
  <2>4. AdvFitsBonds' /\ StrangersLeave'
    BY <1>0, <2>1 DEF AdvFitsBonds, StrangersLeave, AdvMode, Bonded
  <2> QED
    BY <2>3, <2>4
<1> QED
  BY <1>1, <1>2

\* A host connects, or pairs; the link ends, and its object is freed.
LEMMA LinkStep ==
  ASSUME RadioSound, Link
  PROVE  RadioSound'
<1> USE BleAdvAssumption DEF RadioSound, keys
<1>0. handler' = handler
  BY DEF Link, vars
<1>1. ASSUME NEW p \in Peers, BleConnected(p)
      PROVE  RadioSound'
  <2>1. /\ adv' = NoAdv /\ conn' = p /\ p # NoPeer /\ slot' = slot /\ adv # NoAdv
        /\ UNCHANGED <<build, bonds>>
    BY <1>1 DEF BleConnected
  <2>2. RadioTypes' /\ SlotHeld' /\ NeverSilent' /\ AdvFitsBonds' /\ StaysStopped'
    BY <1>0, <2>1 DEF RadioTypes, SlotHeld, NeverSilent, AdvFitsBonds, StaysStopped
  <2>3. StrangersLeave'
    BY <1>1 DEF BleConnected, StrangersLeave, Bonded
  <2> QED
    BY <2>2, <2>3
<1>2. CASE Pair
  <2>1. /\ conn # NoPeer /\ bonds' = bonds \union {conn}
        /\ UNCHANGED <<build, adv, conn, leaving, slot, recycling, advWork>>
    BY <1>2 DEF Pair
  <2>2. adv = NoAdv
    BY <2>1 DEF SlotHeld
  <2>3. RadioTypes' /\ SlotHeld' /\ NeverSilent' /\ AdvFitsBonds' /\ StaysStopped'
    BY <1>0, <2>1, <2>2 DEF RadioTypes, SlotHeld, NeverSilent, AdvFitsBonds, StaysStopped
  <2>4. StrangersLeave'
    BY <2>1 DEF StrangersLeave
  <2> QED
    BY <2>3, <2>4
<1>3. CASE BleDisconnected
  <2>1. /\ conn # NoPeer /\ conn' = NoPeer /\ slot' = Closing
        /\ UNCHANGED <<build, bonds, adv, recycling, advWork>>
    BY <1>3 DEF BleDisconnected
  <2>2. adv = NoAdv
    BY <2>1 DEF SlotHeld
  <2>3. RadioTypes' /\ SlotHeld' /\ NeverSilent' /\ AdvFitsBonds' /\ StrangersLeave' /\ StaysStopped'
    BY <1>0, <2>1, <2>2 DEF RadioTypes, SlotHeld, NeverSilent, AdvFitsBonds, StrangersLeave, StaysStopped, Closing, InUse
  <2> QED
    BY <2>3
<1>4. CASE Unref
  <2>1. /\ slot = Closing /\ slot' = Free /\ recycling' = TRUE
        /\ UNCHANGED <<build, bonds, adv, conn, leaving, advWork>>
    BY <1>4 DEF Unref
  <2>2. RadioTypes' /\ SlotHeld' /\ NeverSilent' /\ StaysStopped'
    BY <1>0, <2>1 DEF RadioTypes, SlotHeld, NeverSilent, StaysStopped, Closing, InUse, Free
  <2>3. AdvFitsBonds' /\ StrangersLeave'
    BY <2>1 DEF AdvFitsBonds, StrangersLeave, AdvMode, Bonded
  <2> QED
    BY <2>2, <2>3
<1> QED
  BY <1>1, <1>2, <1>3, <1>4 DEF Link

(***************************************************************************)
(* The advertising stops, for the unpairing, which queues adv_work again,  *)
(* or for the power-off.                                                   *)
(***************************************************************************)
LEMMA StopStep ==
  ASSUME RadioSound, StopAdv, UNCHANGED <<build, conn>>, bonds' \subseteq Peers,
         advWork' \/ handler' # Idle, StrangersLeave'
  PROVE  RadioSound'
<1> USE DEF RadioSound
<1>1. adv' = NoAdv /\ IF adv # NoAdv THEN slot' = Free ELSE slot' = slot
  BY DEF StopAdv
<1>2. RadioTypes'
  BY <1>1 DEF RadioTypes
<1>3. SlotHeld'
  BY <1>1 DEF SlotHeld, Free, InUse
<1> QED
  BY <1>1, <1>2, <1>3 DEF NeverSilent, AdvFitsBonds, StaysStopped

LEMMA RadioNext == PowerSound /\ RadioSound /\ [BleNext]_bleVars => RadioSound'
<1> SUFFICES ASSUME PowerSound, RadioSound, [BleNext]_bleVars PROVE RadioSound'
  OBVIOUS
<1>1. CASE AdvWork /\ UNCHANGED vars
  BY <1>1, AdvWorkStep
<1>2. CASE Recycled /\ UNCHANGED vars
  <2>1. handler' = handler /\ advWork' /\ UNCHANGED <<build, bonds, adv, conn, leaving, slot>>
    BY <1>2 DEF Recycled, vars
  <2> QED
    BY <2>1 DEF RadioSound, RadioTypes, SlotHeld, NeverSilent, AdvFitsBonds, StrangersLeave, StaysStopped, AdvMode, Bonded
<1>3. CASE Unpair /\ UNCHANGED vars
  <2>1. StopAdv /\ bonds' = {} /\ advWork' /\ UNCHANGED <<build, conn>>
    BY <1>3 DEF Unpair
  <2>2. Bonded' = 0 /\ build.maxPaired \in Nat \ {0}
    BY <2>1, FS_EmptySet, BleAdvAssumption DEF Bonded, RadioSound, RadioTypes
  <2>3. StrangersLeave'
    BY <2>1, <2>2 DEF StrangersLeave
  <2> QED
    BY <2>1, <2>3, StopStep
<1>4. CASE Link
  BY <1>4, LinkStep
<1>5. CASE KeyEvent
  <2>1. UNCHANGED <<radio, advWork>>
    BY <1>5 DEF KeyEvent, Key
  <2> QED
    BY <1>5, <2>1, HandlerStays, RadioKept DEF KeyEvent
<1>6. CASE BlePowerWork \/ BlePowerEvent
  BY <1>6, HandlerStays, RadioKept DEF BlePowerWork, BlePowerEvent, advVars
<1>7. CASE Poweroff
  <2>1. StopAdv /\ handler' = Stopped /\ UNCHANGED <<build, bonds, conn>> /\ leaving' = (leaving \/ conn # NoPeer)
    BY <1>7 DEF Poweroff, BleStop, StartPoweroff
  <2>2. StrangersLeave' /\ handler' # Idle
    BY <2>1 DEF StrangersLeave, Stopped, Idle
  <2> QED
    BY <2>1, <2>2, StopStep DEF RadioSound, RadioTypes
<1>8. CASE Second
  BY <1>8, HandlerStays, RadioKept DEF Second, UnpairTick
<1>9. CASE UNCHANGED bleVars
  BY <1>9, HandlerStays, RadioKept DEF bleVars, advVars
<1> QED
  BY <1>1, <1>2, <1>3, <1>4, <1>5, <1>6, <1>7, <1>8, <1>9 DEF BleNext, BleWork

(***************************************************************************)
(* The countdown to the loss of all bonds runs only while both keys are    *)
(* held, and has at most the time left that they were not held yet.        *)
(***************************************************************************)
UnpairCount ==
  /\ unpair \in Off .. UnpairTimeout
  /\ heldFor \in 0 .. UnpairTimeout
  /\ unpair # Off => a /\ b /\ unpair + heldFor >= UnpairTimeout

LEMMA KeyStep ==
  ASSUME UnpairCount, NEW x \in BOOLEAN, NEW y \in BOOLEAN, Key(x, y)
  PROVE  UnpairCount'
<1> USE BleAdvAssumption DEF Off
<1>1. a' = x /\ b' = y
  BY DEF Key
<1>2. CASE x /\ y
  <2>1. unpair' = (IF unpair = Off THEN UnpairTimeout ELSE unpair) /\ heldFor' = heldFor
    BY <1>2 DEF Key
  <2>2. unpair' \in Off .. UnpairTimeout /\ heldFor' \in 0 .. UnpairTimeout
    BY <2>1 DEF UnpairCount
  <2>3. unpair' + heldFor' >= UnpairTimeout
    BY <2>1 DEF UnpairCount
  <2> QED
    BY <1>1, <1>2, <2>2, <2>3 DEF UnpairCount
<1>3. CASE ~(x /\ y)
  <2>1. unpair' = Off /\ heldFor' = 0
    BY <1>3 DEF Key
  <2> QED
    BY <2>1 DEF UnpairCount
<1> QED
  BY <1>2, <1>3

LEMMA UnpairTickStep ==
  ASSUME UnpairCount, UnpairTick
  PROVE  UnpairCount'
<1> USE BleAdvAssumption DEF Off
<1>1. /\ unpair' = IF unpair > 0 THEN unpair - 1 ELSE unpair
      /\ heldFor' = IF a /\ b /\ heldFor < UnpairTimeout THEN heldFor + 1 ELSE heldFor
      /\ a' = a /\ b' = b
  BY DEF UnpairTick
<1>2. unpair' \in Off .. UnpairTimeout /\ heldFor' \in 0 .. UnpairTimeout /\ (unpair' # Off => unpair # Off)
  BY <1>1 DEF UnpairCount
<1>3. ASSUME unpair # Off
      PROVE  unpair' + heldFor' >= UnpairTimeout
  <2>1. a /\ b /\ unpair + heldFor >= UnpairTimeout
    BY <1>3 DEF UnpairCount
  <2>2. CASE heldFor = UnpairTimeout
    BY <1>1, <1>2, <1>3, <2>2 DEF UnpairCount
  <2>3. CASE heldFor < UnpairTimeout
    BY <1>1, <1>3, <2>1, <2>3 DEF UnpairCount
  <2> QED
    BY <2>2, <2>3 DEF UnpairCount
<1> QED
  BY <1>1, <1>2, <1>3 DEF UnpairCount

LEMMA UnpairNext == UnpairCount /\ [BleNext]_bleVars => UnpairCount'
<1> SUFFICES ASSUME UnpairCount, [BleNext]_bleVars PROVE UnpairCount'
  OBVIOUS
<1>1. CASE UNCHANGED keys
  BY <1>1 DEF keys, UnpairCount
<1>2. CASE Unpair
  <2>1. unpair' = Off /\ heldFor' = heldFor
    BY <1>2 DEF Unpair
  <2> QED
    BY <2>1, BleAdvAssumption DEF UnpairCount, Off
<1>3. ASSUME NEW x \in BOOLEAN, NEW y \in BOOLEAN, Key(x, y)
      PROVE  UnpairCount'
  BY <1>3, KeyStep
<1>4. CASE UnpairTick
  BY <1>4, UnpairTickStep
<1>5. AdvWork \/ Recycled \/ Link \/ BlePowerWork \/ BlePowerEvent \/ BleStop \/ UNCHANGED bleVars => UNCHANGED keys
  BY DEF AdvWork, Recycled, Link, BleConnected, Pair, BleDisconnected, Unref, BlePowerWork, BlePowerEvent,
         BleStop, bleVars, advVars
<1> QED
  BY <1>1, <1>2, <1>3, <1>4, <1>5 DEF BleNext, BleWork, KeyEvent, Poweroff, Second

AdvSound == PowerSound /\ RadioSound /\ RadioFlags /\ UnpairCount

(***************************************************************************)
(* The inductive invariant of power-off, advertising and unpairing.        *)
(***************************************************************************)
THEOREM AdvStaysSound == BleSpec => []AdvSound
<1>1. BleInit => AdvSound
  <2> SUFFICES ASSUME BleInit PROVE AdvSound
    OBVIOUS
  <2>1. UnpairCount
    BY BleAdvAssumption DEF BleInit, AdvInit, UnpairCount, Off
  <2> QED
    BY <2>1, PowerInit, RadioInit DEF AdvSound, BleInit
<1>2. AdvSound /\ [BleNext]_bleVars => AdvSound'
  BY BleIsPower, PowerNext, RadioNext, RadioFlagsNext, UnpairNext DEF AdvSound
<1> QED
  BY <1>1, <1>2, PTL DEF BleSpec

(***************************************************************************)
(* The power-off, the charger and the watchdog go together with Bluetooth  *)
(* as they do alone.                                                       *)
(***************************************************************************)
THEOREM BlePowerSound == WdtWindow >= 5 => (BleSpec => []PowerInv)
BY PowerOffWithBle, PowerOffSound, PTL

(***************************************************************************)
(* The device is never silent without a reason, advertises what fits its   *)
(* bonds, keeps no stranger, and is not connectable once it switches off:  *)
(* for every build, number of hosts and interleaving with the stack.       *)
(***************************************************************************)
THEOREM AdvertisingSound == BleSpec => []AdvInv
<1>1. AdvSound => AdvInv
  BY DEF AdvSound, RadioSound, RadioTypes, RadioFlags, UnpairCount, AdvInv, BleAdvTypeOK
<1> QED
  BY <1>1, AdvStaysSound, PTL

(***************************************************************************)
(* The power-off and the loss of all bonds come only after the whole time  *)
(* without what puts them off: an input event, a charger that is plugged   *)
(* in or done, or a key that is let go.                                    *)
(***************************************************************************)
THEOREM CountdownsRunOut == BleSpec => CountdownsWhole
<1>1. AdvSound /\ [BleNext]_bleVars => [ExpiresOnlyIdle /\ UnpairOnlyHeld]_bleVars
  <2> SUFFICES ASSUME AdvSound, BleNext \/ UNCHANGED bleVars
               PROVE  ExpiresOnlyIdle /\ UnpairOnlyHeld
    OBVIOUS
  <2>1. UnpairOnlyHeld
    BY BleAdvAssumption DEF UnpairOnlyHeld, Unpair, AdvSound, UnpairCount, Off
  <2>2. ASSUME ~due, due'
        PROVE  idleFor' = AutoPoweroffTime
    <3>1. Tick
      <4>1. [Next]_vars
        BY BleIsPower
      <4> QED
        BY <2>2, <4>1 DEF Next, PowerWork, PowerEvent, vars, AutoPoweroffInit, Poll, ChargerEvent, CancelDelayable,
                          Feed, Wake, Input, ChargerChanges, StartPoweroff
    <3>2. timer = 1
      BY <2>2, <3>1 DEF Tick
    <3>3. timer + idleFor = AutoPoweroffTime /\ idleFor \in 0 .. AutoPoweroffTime
      BY <3>2 DEF AdvSound, PowerSound, CountdownExact, PowerTypeOK, Off
    <3>4. idleFor' = IF idleFor = AutoPoweroffTime THEN idleFor ELSE idleFor + 1
      BY <3>1 DEF Tick
    <3> QED
      BY <3>2, <3>3, <3>4, PowerOffAssumption
  <2> QED
    BY <2>1, <2>2 DEF ExpiresOnlyIdle
<1> QED
  BY <1>1, AdvStaysSound, PTL DEF BleSpec, CountdownsWhole
=============================================================================

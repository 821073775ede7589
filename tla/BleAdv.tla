------------------------------- MODULE BleAdv -------------------------------
(***************************************************************************)
(* Advertising, connections and bonds (ble.c), the key combination that    *)
(* clears the bonds (ble_unpair.c), and the automatic power-off, which     *)
(* ends them.                                                              *)
(*                                                                         *)
(* There is one connection object (CONFIG_BT_MAX_CONN): connectable        *)
(* advertising needs it, a connection uses it, and the stack frees it some *)
(* time after the link ended, and then calls recycled.  adv_work, the      *)
(* unpair handler and the recycled callback run on the system workqueue,   *)
(* like the power-off handler, which calls ble_stop and never gives the    *)
(* workqueue back: all four wait for handler = Idle.                       *)
(***************************************************************************)
EXTENDS PowerOff, FiniteSets

CONSTANTS
  Peers,         \* the hosts around
  NoPeer,
  Builds,        \* the options the firmware may be built with
  UnpairTimeout  \* UNPAIR_TIMEOUT_S

ASSUME BleAdvAssumption ==
  /\ IsFiniteSet(Peers) /\ NoPeer \notin Peers
  /\ UnpairTimeout \in Nat \ {0}
  /\ Builds \subseteq
       [maxPaired : Nat \ {0},         \* CONFIG_BT_MAX_PAIRED
        disconnectBonded : BOOLEAN,    \* CONFIG_APP_BT_DISCONNECT_BONDED
        emptyAdBonded : BOOLEAN,       \* CONFIG_APP_BT_EMPTY_AD_BONDED
        directedAd : BOOLEAN]          \* CONFIG_APP_BT_DIRECTED_AD

VARIABLES
  build,     \* the options of this firmware
  bonds,     \* the bonded hosts
  adv,       \* what is advertised: NoAdv, Normal, Empty or Directed
  conn,      \* the connected host, or NoPeer
  secured,   \* bt_conn_set_security was called for the connection
  leaving,   \* bt_conn_disconnect was called for the connection
  slot,      \* the connection object: Free, InUse, or Closing after a disconnection
  recycling, \* the recycled callback is queued
  advWork,   \* adv_work is queued
  a, b,      \* the state of the two unpair keys
  unpair,    \* unpair_dwork: seconds left, 0 when queued, or Off
  heldFor    \* how long both keys have been held, at most UnpairTimeout (history)

radio == <<build, bonds, adv, conn, secured, leaving, slot, recycling>>
keys == <<a, b, unpair, heldFor>>
advVars == <<radio, advWork, keys>>
bleVars == <<vars, advVars>>

NoAdv == "none"
Normal == "normal"
Empty == "empty"
Directed == "directed"

Free == "free"
InUse == "in use"
Closing == "closing"

Bonded == Cardinality(bonds)

AdvInit ==
  /\ build \in Builds
  /\ bonds \in {B \in SUBSET Peers : Cardinality(B) <= build.maxPaired} \* settings_load
  /\ adv = NoAdv
  /\ conn = NoPeer /\ secured = FALSE /\ leaving = FALSE
  /\ slot = Free /\ recycling = FALSE
  /\ advWork = TRUE   \* ble_setup
  /\ a = FALSE /\ b = FALSE /\ unpair = Off /\ heldFor = 0

\* What adv_work_handler advertises.
AdvMode ==
  LET toBond == build.maxPaired = 1 /\ build.directedAd /\ Bonded = 1
  IN IF build.emptyAdBonded /\ toBond THEN Directed
     ELSE IF build.emptyAdBonded /\ Bonded = build.maxPaired THEN Empty
     ELSE Normal

\* Slip: the handler does not run on the system workqueue.
AdvWorkOwnQueue ==
  /\ advWork
  /\ advWork' = FALSE
  /\ IF slot = Free /\ adv = NoAdv
     THEN adv' = AdvMode /\ slot' = InUse
     ELSE UNCHANGED <<build, adv, slot>>
  /\ UNCHANGED <<build, bonds, conn, secured, leaving, recycling, keys>>

(***************************************************************************)
(* adv_work_handler.  bt_le_adv_start fails when it is advertising already *)
(* or has no connection object; the failure is only logged.                *)
(***************************************************************************)
AdvWork ==
  /\ advWork /\ handler = Idle
  /\ advWork' = FALSE
  /\ IF slot = Free /\ adv = NoAdv
     THEN adv' = AdvMode /\ slot' = InUse
     ELSE UNCHANGED <<build, adv, slot>>
  /\ UNCHANGED <<build, bonds, conn, secured, leaving, recycling, keys>>

(***************************************************************************)
(* A host connects, and connected decides whether it may stay: when all    *)
(* bonds are taken, only a bonded host may.  Directed advertising reaches  *)
(* the bonded host only.                                                   *)
(***************************************************************************)
BleConnected(p) ==
  /\ adv # NoAdv
  /\ adv = Directed => p \in bonds
  /\ adv' = NoAdv /\ conn' = p
  /\ LET goAway == build.disconnectBonded /\ Bonded = build.maxPaired /\ p \notin bonds
     IN leaving' = goAway /\ secured' = ~goAway
  /\ UNCHANGED <<build, bonds, slot, recycling, advWork, keys>>

\* The host pairs, as the security level asked for makes it do.
Pair ==
  /\ conn # NoPeer /\ secured /\ ~leaving
  /\ conn \notin bonds /\ Bonded < build.maxPaired
  /\ bonds' = bonds \union {conn}
  /\ UNCHANGED <<build, adv, conn, secured, leaving, slot, recycling, advWork, keys>>

\* The link ends, asked for or not: disconnected.
BleDisconnected ==
  /\ conn # NoPeer
  /\ conn' = NoPeer /\ secured' = FALSE /\ leaving' = FALSE
  /\ slot' = Closing
  /\ UNCHANGED <<build, bonds, adv, recycling, advWork, keys>>

\* The stack drops its last reference to the connection object.
Unref ==
  /\ slot = Closing
  /\ slot' = Free
  /\ recycling' = TRUE
  /\ UNCHANGED <<build, bonds, adv, conn, secured, leaving, advWork, keys>>

\* Slip: the recycled connection object is not used.
RecycledIgnored ==
  /\ recycling /\ handler = Idle
  /\ recycling' = FALSE
  /\ UNCHANGED <<build, bonds, adv, conn, secured, leaving, slot, advWork, keys>>

\* recycled: a connection object is free again.
Recycled ==
  /\ recycling /\ handler = Idle
  /\ recycling' = FALSE
  /\ advWork' = TRUE
  /\ UNCHANGED <<build, bonds, adv, conn, secured, leaving, slot, keys>>

\* bt_le_adv_stop: the advertising's connection object is free at once.
StopAdv ==
  /\ adv' = NoAdv
  /\ IF adv # NoAdv THEN slot' = Free /\ recycling' = TRUE
                  ELSE UNCHANGED <<slot, recycling>>

(***************************************************************************)
(* unpair_handler: the event makes unpair_cb of ble.c clear the bonds,     *)
(* which disconnects a bonded host, and restart the advertising.           *)
(***************************************************************************)
Unpair ==
  /\ unpair = 0 /\ handler = Idle
  /\ unpair' = Off
  /\ bonds' = {}
  /\ leaving' = (leaving \/ conn \in bonds)
  /\ StopAdv
  /\ advWork' = TRUE
  /\ UNCHANGED <<build, conn, secured, a, b, heldFor>>

\* ble_stop
BleStop ==
  /\ StopAdv
  /\ leaving' = (leaving \/ conn # NoPeer)
  /\ UNCHANGED <<build, bonds, conn, secured, advWork, keys>>

\* Slip: letting a key go does not call the unpairing off.
KeyNoCancel(x, y) ==
  /\ a' = x /\ b' = y
  /\ unpair' = IF x /\ y /\ unpair = Off THEN UnpairTimeout ELSE unpair
  /\ heldFor' = IF x /\ y THEN heldFor ELSE 0
  /\ UNCHANGED <<radio, advWork>>

(***************************************************************************)
(* unpair_cb of ble_unpair.c, for any key event, also of other keys (x, y  *)
(* is the new state of the two).  k_work_schedule leaves a scheduled item  *)
(* alone; cancelling also takes an expired one off the queue.              *)
(***************************************************************************)
Key(x, y) ==
  /\ x = a \/ y = b
  /\ a' = x /\ b' = y
  /\ unpair' = IF ~(x /\ y) THEN Off
               ELSE IF unpair = Off THEN UnpairTimeout ELSE unpair
  /\ heldFor' = IF x /\ y THEN heldFor ELSE 0
  /\ UNCHANGED <<radio, advWork>>

UnpairTick ==
  /\ unpair' = IF unpair > 0 THEN unpair - 1 ELSE unpair
  /\ heldFor' = IF a /\ b /\ heldFor < UnpairTimeout THEN heldFor + 1 ELSE heldFor
  /\ UNCHANGED <<radio, advWork, a, b>>
-----------------------------------------------------------------------------
(***************************************************************************)
(* The two together.  The keys are input like any other, and the start of  *)
(* the power-off handler calls ble_stop.                                   *)
(***************************************************************************)
BleWork == (AdvWork \/ Recycled \/ Unpair) /\ UNCHANGED vars

\* Hosts and the stack do as they please until the power is off.
Link ==
  /\ handler # PoweredOff
  /\ (\E p \in Peers : BleConnected(p)) \/ Pair \/ BleDisconnected \/ Unref
  /\ UNCHANGED vars

KeyEvent == Input /\ \E x, y \in BOOLEAN : Key(x, y)

BlePowerWork == PowerWork /\ UNCHANGED advVars

BlePowerEvent == PowerEvent /\ UNCHANGED advVars

Poweroff == StartPoweroff /\ BleStop

\* A second passes, once the workqueue is done with what was due.
Second ==
  /\ handler = Idle => unpair # 0
  /\ Tick
  /\ UnpairTick

BleNext ==
  \/ BleWork
  \/ Link
  \/ KeyEvent
  \/ BlePowerWork
  \/ BlePowerEvent
  \/ Poweroff
  \/ Second

BleInit == Init /\ AdvInit

BleSpec == BleInit /\ [][BleNext]_bleVars

(***************************************************************************)
(* The workqueue runs each of the items queued on it, time passes, and the *)
(* stack ends a link it was asked to end and frees its object.             *)
(***************************************************************************)
Fairness ==
  /\ WF_bleVars(AdvWork /\ UNCHANGED vars)
  /\ WF_bleVars(Recycled /\ UNCHANGED vars)
  /\ WF_bleVars(Unpair /\ UNCHANGED vars)
  /\ WF_bleVars(BlePowerWork)
  /\ WF_bleVars(Poweroff)
  /\ WF_bleVars(Second)
  /\ WF_bleVars(Link /\ (slot = Closing \/ leaving))

FairSpec == BleSpec /\ Fairness
-----------------------------------------------------------------------------
BleAdvTypeOK ==
  /\ build \in Builds
  /\ bonds \subseteq Peers
  /\ adv \in {NoAdv, Normal, Empty, Directed}
  /\ conn \in Peers \union {NoPeer}
  /\ slot \in {Free, InUse, Closing}
  /\ secured \in BOOLEAN /\ leaving \in BOOLEAN
  /\ advWork \in BOOLEAN /\ recycling \in BOOLEAN
  /\ a \in BOOLEAN /\ b \in BOOLEAN
  /\ unpair \in Off .. UnpairTimeout
  /\ heldFor \in 0 .. UnpairTimeout

(***************************************************************************)
(* A device that is neither connected nor advertising is about to          *)
(* advertise: adv_work is queued, or the connection object is about to be  *)
(* freed and recycled, which queues it.  A failed bt_le_adv_start is never *)
(* the last attempt.                                                       *)
(***************************************************************************)
NeverSilent ==
  handler = Idle /\ adv = NoAdv /\ conn = NoPeer => advWork \/ recycling \/ slot = Closing

(***************************************************************************)
(* What is on the air fits the bonds: clearing the bonds never leaves a    *)
(* device advertising to hosts it has forgotten.                           *)
(***************************************************************************)
AdvFitsBonds == adv # NoAdv => adv = AdvMode

(***************************************************************************)
(* With all bonds taken, a host that is not bonded is on its way out.      *)
(***************************************************************************)
StrangersLeave ==
  build.disconnectBonded /\ conn # NoPeer /\ Bonded = build.maxPaired /\ conn \notin bonds => leaving

(***************************************************************************)
(* After ble_stop the device is not connectable again: the recycling of    *)
(* the link it ends, and a queued adv_work, do not restart advertising.    *)
(***************************************************************************)
StaysStopped == handler # Idle => adv = NoAdv

(***************************************************************************)
(* What is on the air is right at any time: something or a reason to wait, *)
(* fitting the bonds, nothing once the device is switching off, and no     *)
(* link to a host that may not stay.                                       *)
(***************************************************************************)
AdvInv == BleAdvTypeOK /\ NeverSilent /\ AdvFitsBonds /\ StrangersLeave /\ StaysStopped

(***************************************************************************)
(* Bonds are only cleared after both keys were held for UNPAIR_TIMEOUT_S   *)
(* without a break, whatever other keys did meanwhile.                     *)
(***************************************************************************)
UnpairOnlyHeld == Unpair => heldFor = UnpairTimeout

(***************************************************************************)
(* Both countdowns, to the power-off and to the loss of all bonds, run out *)
(* only over their whole time without what ends or restarts them: input    *)
(* events, charging, and letting go of a key, in any order.                *)
(***************************************************************************)
CountdownsWhole == [][ExpiresOnlyIdle /\ UnpairOnlyHeld]_bleVars

(***************************************************************************)
(* A running device always comes back to being connected or connectable.   *)
(***************************************************************************)
AlwaysReachable == []<>(handler # Idle \/ adv # NoAdv \/ conn # NoPeer)

(***************************************************************************)
(* A device nobody uses and nobody charges switches off, also when hosts   *)
(* keep connecting to it.                                                  *)
(***************************************************************************)
Unused == <>[][~Input /\ UNCHANGED charger]_bleVars

SwitchesOff ==
  (Unused /\ <>[](charger = lastCode /\ charger # Charging)) => <>(handler = PoweredOff)
=============================================================================

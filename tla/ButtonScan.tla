----------------------------- MODULE ButtonScan -----------------------------
(***************************************************************************)
(* The button scan of ds2_retrofit (button_scan.c): a thread reads two     *)
(* groups of contacts in turn, each by driving its line and sampling one   *)
(* shared input, and holds off a button for a while after it reported a    *)
(* change.  The time stamps are 32-bit and wrap around.                    *)
(*                                                                         *)
(* A tick is a scan period; HoldoffTime is the number of periods after     *)
(* which HOLDOFF_TIME_MS have passed.                                      *)
(***************************************************************************)
EXTENDS Integers, FiniteSets

CONSTANTS
  Group1, Group2, \* the buttons of group1_gpios and group2_gpios
  HoldoffTime,    \* HOLDOFF_TIME_MS, in ticks
  Wrap,           \* time stamps count modulo this
  MaxLate         \* bound: periods until the thread, preempted, scans again

Buttons == Group1 \union Group2

ASSUME ButtonScanAssumption ==
  /\ Group1 \intersect Group2 = {}
  /\ HoldoffTime \in Nat \ {0}
  /\ MaxLate \in Nat \ {0}
  /\ Wrap \in Nat /\ Wrap > HoldoffTime + MaxLate

VARIABLES
  now,        \* k_uptime_get_32
  contact,    \* the buttons whose contact is closed
  state,      \* data.state: the buttons last reported as pressed
  lastUpdate, \* group1_last_update, group2_last_update
  next,       \* what the thread does next: scan a group, or wait for the timer
  since,      \* [Buttons -> ticks since the last report], saturating (history)
  stable      \* [Buttons -> ticks since the contact changed], saturating (history)

scanvars == <<now, contact, state, lastUpdate, next, since, stable>>

History == HoldoffTime + 2 * MaxLate \* where the history counters saturate

ScanInit ==
  /\ now = 0
  /\ contact \in SUBSET Buttons
  /\ state = {}
  /\ lastUpdate = [b \in Buttons |-> 0]
  /\ next = "group1"
  /\ since = [b \in Buttons |-> 0]
  /\ stable = [b \in Buttons |-> 0]

\* Slip: the end of the hold-off is compared, not the time passed.
HeldOffUntil(b) == now < (lastUpdate[b] + HoldoffTime) % Wrap

\* Unsigned subtraction: the time passed, whatever wrapped meanwhile.
HeldOff(b) == (now - lastUpdate[b]) % Wrap < HoldoffTime

\* Slip: every scan of a button restarts its hold-off.
ScanGroupRestarting(group) ==
  LET read == {b \in group : ~HeldOff(b)}
      changed == {b \in read : (b \in state) # (b \in contact)}
  IN /\ state' = (state \ read) \union (contact \intersect read)
     /\ lastUpdate' = [b \in Buttons |-> IF b \in group THEN now ELSE lastUpdate[b]]
     /\ since' = [b \in Buttons |-> IF b \in changed THEN 0 ELSE since[b]]

\* button_scan_group: the time is read once, for the whole group.
ScanGroup(group) ==
  LET read == {b \in group : ~HeldOff(b)}
      changed == {b \in read : (b \in state) # (b \in contact)}
  IN /\ state' = (state \ read) \union (contact \intersect read)
     /\ lastUpdate' = [b \in Buttons |-> IF b \in changed THEN now ELSE lastUpdate[b]]
     /\ since' = [b \in Buttons |-> IF b \in changed THEN 0 ELSE since[b]]

ScanGroup1 ==
  /\ next = "group1"
  /\ ScanGroup(Group1)
  /\ next' = "group2"
  /\ UNCHANGED <<now, contact, stable>>

ScanGroup2 ==
  /\ next = "group2"
  /\ ScanGroup(Group2)
  /\ next' = "sync"
  /\ UNCHANGED <<now, contact, stable>>

Saturating(counter, d) ==
  [b \in Buttons |-> IF counter[b] + d < History THEN counter[b] + d ELSE History]

\* k_timer_status_sync returns at the next expiry, or at a later one when the
\* thread was kept from running.
Sync ==
  /\ next = "sync"
  /\ next' = "group1"
  /\ \E d \in 1 .. MaxLate :
       /\ now' = (now + d) % Wrap
       /\ since' = Saturating(since, d)
       /\ stable' = Saturating(stable, d)
  /\ UNCHANGED <<contact, state, lastUpdate>>

\* A contact closes, opens or bounces.
Contact(b) ==
  /\ contact' = IF b \in contact THEN contact \ {b} ELSE contact \union {b}
  /\ stable' = [stable EXCEPT ![b] = 0]
  /\ UNCHANGED <<now, state, lastUpdate, next, since>>

ScanNext == ScanGroup1 \/ ScanGroup2 \/ Sync \/ \E b \in Buttons : Contact(b)
-----------------------------------------------------------------------------
ScanTypeOK ==
  /\ now \in 0 .. Wrap - 1
  /\ contact \subseteq Buttons /\ state \subseteq Buttons
  /\ lastUpdate \in [Buttons -> 0 .. Wrap - 1]
  /\ next \in {"group1", "group2", "sync"}
  /\ since \in [Buttons -> 0 .. History] /\ stable \in [Buttons -> 0 .. History]

(***************************************************************************)
(* A bouncing contact is reported once: two reports of a button are the    *)
(* hold-off time apart, also across the wrap of the time stamps.           *)
(***************************************************************************)
ReportsApart ==
  [][\A b \in Buttons : (b \in state) # (b \in state') => since[b] >= HoldoffTime]_scanvars

(***************************************************************************)
(* A contact that keeps still is reported within the hold-off time and one *)
(* late scan: no change is lost in the hold-off, and a time stamp of long  *)
(* ago, which after a wrap looks recent, holds off no longer than another. *)
(***************************************************************************)
StillReported ==
  next = "sync" => \A b \in Buttons : stable[b] >= HoldoffTime + MaxLate => (b \in state <=> b \in contact)

\* A change is never lost, whatever wraps.
ScanInv == ScanTypeOK /\ StillReported
=============================================================================

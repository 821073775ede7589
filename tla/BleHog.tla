------------------------------- MODULE BleHog -------------------------------
(***************************************************************************)
(* The Bluetooth output of a hid device (ble_hog.c), the HID-over-GATT     *)
(* service: one notification with the Bluetooth stack at a time.           *)
(*                                                                         *)
(* One connection is possible (CONFIG_BT_MAX_CONN is 1 on every board), so *)
(* the notification goes to the connected host whether or not a peer is    *)
(* set.  The stack sends notifications and read responses in order.  Every *)
(* callback runs on the system workqueue or in a cooperative thread and    *)
(* does not block: each is one action.                                     *)
(*                                                                         *)
(* The fields of hog:                                                      *)
(*   busy, mask, suspended      the driver's data; mask as a set of reports*)
(*   conn      the host is connected                                       *)
(*   air       reports on their way to the host; note: as a notification   *)
(*   seen, lost, stalled        history, as in UsbHid                      *)
(***************************************************************************)
EXTENDS HidReports

CONSTANTS
  HogOut,         \* this output device
  NotifyMayFail   \* bt_gatt_notify_cb may return an error

ASSUME HogAssumption ==
  /\ HogOut \in OutputSet
  /\ NotifyMayFail \in BOOLEAN

VARIABLE hog

Airborne == [src : Reports, abs : SUBSET Keys, note : BOOLEAN]

HogState ==
  [busy : BOOLEAN, mask : SUBSET Reports, suspended : BOOLEAN, conn : BOOLEAN,
   air : UNION {[1 .. n -> Airborne] : n \in 0 .. 2},
   seen : [Reports -> SUBSET Keys], lost : SUBSET Reports, stalled : BOOLEAN]

HogType == hog \in HogState

HogInit ==
  hog = [busy |-> FALSE, mask |-> {}, suspended |-> FALSE, conn |-> FALSE,
         air |-> <<>>, seen |-> [r \in Reports |-> {}], lost |-> {}, stalled |-> FALSE]

HogReady(h, r) == r \in h.mask /\ ~h.suspended

HogDropped(h, r) == [h EXCEPT !.lost = @ \union {r}, !.stalled = TRUE]

HogQueued(h, e) ==
  [h EXCEPT !.busy = TRUE, !.lost = @ \ {e.src}, !.stalled = FALSE,
            !.air = Append(@, [src |-> e.src, abs |-> e.abs, note |-> TRUE])]

\* What becomes of the driver that has collected the report of slot e.
HogSend(h, e) ==
  IF ~HogReady(h, e.src) THEN {HogDropped(h, e.src)}
  ELSE {HogQueued(h, e)} \union {d \in {HogDropped(h, e.src)} : NotifyMayFail}

\* The first pending report is collected and notified.
HogCollect(c, h) ==
  UNION {{[cache |-> Collected(c, i), hog |-> sent] : sent \in HogSend(h, c[i])} :
         i \in NextReport(c, HogOut)}

\* Slip: the busy flag is looked at after the report was collected.
HogNotifyLateCheck(c, h) ==
  IF Pending(c, HogOut) = {} THEN {[cache |-> c, hog |-> h]}
  ELSE IF h.busy THEN {[cache |-> Collected(c, i), hog |-> h] : i \in NextReport(c, HogOut)}
  ELSE HogCollect(c, h)

(***************************************************************************)
(* ble_hog_notify on cache c and driver data h: the outcomes.  As in       *)
(* usb_hid_notify the report is collected before the link is looked at.    *)
(***************************************************************************)
HogNotify(c, h) ==
  IF h.busy \/ Pending(c, HogOut) = {}
  THEN {[cache |-> c, hog |-> h]}
  ELSE HogCollect(c, h)

HogNotifyFrom(h) ==
  \E next \in HogNotify(cache, h) : cache' = next.cache /\ hog' = next.hog

hogrest == <<held, upd, notify>>
-----------------------------------------------------------------------------
\* The host has received the first report in the air.
Received(h) == [h EXCEPT !.air = Tail(@), !.seen[Head(h.air).src] = Head(h.air).abs]

\* Slip: the callback does not ask for the next report.
NotificationSentOnly ==
  /\ hog.air # <<>>
  /\ Head(hog.air).note
  /\ hog' = [Received(hog) EXCEPT !.busy = FALSE]
  /\ UNCHANGED <<cache, hogrest>>

\* If that was the notification, ble_hog_notify_cb asks for the next report.
NotificationSent ==
  /\ hog.air # <<>>
  /\ Head(hog.air).note
  /\ HogNotifyFrom([Received(hog) EXCEPT !.busy = FALSE])
  /\ UNCHANGED hogrest

ResponseSent ==
  /\ hog.air # <<>>
  /\ ~Head(hog.air).note
  /\ hog' = Received(hog)
  /\ UNCHANGED <<cache, hogrest>>

\* read_input_report; a host has one request outstanding at a time.
ReadInputReport(r) ==
  /\ HostReads
  /\ hog.conn
  /\ \A n \in DOMAIN hog.air : hog.air[n].note
  /\ \E i \in SlotById(cache, HogOut, r) :
       /\ cache' = Collected(cache, i)
       /\ hog' = [hog EXCEPT !.lost = @ \ {r},
                    !.air = Append(@, [src |-> r, abs |-> cache[i].abs, note |-> FALSE])]
  /\ UNCHANGED hogrest

Connected ==
  /\ ~hog.conn
  /\ hog' = [hog EXCEPT !.conn = TRUE]
  /\ UNCHANGED <<cache, hogrest>>

\* input_ccc_changed: the host subscribes to a report, or stops to.
InputCccChanged(r, enabled) ==
  /\ hog.conn
  /\ hog' = IF enabled THEN [hog EXCEPT !.mask = @ \union {r}, !.stalled = TRUE]
                       ELSE [hog EXCEPT !.mask = @ \ {r}]
  /\ UNCHANGED <<cache, hogrest>>

\* Slip: a disconnection leaves the driver waiting for a callback.
DisconnectedBusy ==
  /\ hog.conn
  /\ hog' = [hog EXCEPT !.conn = FALSE, !.mask = {}, !.air = <<>>,
                        !.seen = [r \in Reports |-> {}], !.lost = Reports, !.stalled = TRUE]
  /\ UNCHANGED <<cache, hogrest>>

\* The link is lost: the stack drops what it had to send without a callback
\* and clears the subscriptions, then ble_hog_disconnected frees the driver.
Disconnected ==
  /\ hog.conn
  /\ hog' = [hog EXCEPT !.conn = FALSE, !.mask = {}, !.busy = FALSE, !.air = <<>>,
                        !.seen = [r \in Reports |-> {}], !.lost = Reports, !.stalled = TRUE]
  /\ UNCHANGED <<cache, hogrest>>

\* ble_hog_pm_action.
HogPmAction(b) ==
  /\ hog' = [hog EXCEPT !.suspended = b, !.stalled = @ \/ hog.suspended]
  /\ UNCHANGED <<cache, hogrest>>

HogHost ==
  \/ NotificationSent
  \/ ResponseSent
  \/ \E r \in Reports : ReadInputReport(r)
  \/ Connected
  \/ \E r \in Reports, b \in BOOLEAN : InputCccChanged(r, b)
  \/ Disconnected
  \/ \E b \in BOOLEAN : HogPmAction(b)
-----------------------------------------------------------------------------
(***************************************************************************)
(* A hid device whose only output is Bluetooth.                            *)
(***************************************************************************)
HogNotifyWorker ==
  /\ notify
  /\ notify' = FALSE
  /\ HogNotifyFrom(hog)
  /\ UNCHANGED <<held, upd>>

HogOnlyInit == Init /\ HogInit

HogOnlyNext ==
  \/ InputSide /\ UNCHANGED hog
  \/ HogNotifyWorker
  \/ HogHost

hogvars == <<vars, hog>>

HogOnlySpec == HogOnlyInit /\ [][HogOnlyNext]_hogvars
-----------------------------------------------------------------------------
(***************************************************************************)
(* hog_busy is set exactly while one notification is with the stack: there *)
(* are never two, and no failure, disconnection or late subscription       *)
(* leaves it set with no callback to come.                                 *)
(***************************************************************************)
HogBusyExact ==
  Cardinality({n \in DOMAIN hog.air : hog.air[n].note}) = (IF hog.busy THEN 1 ELSE 0)

(***************************************************************************)
(* The driver and the Bluetooth stack agree on the one notification.       *)
(***************************************************************************)
HogInv == HogType /\ HogBusyExact

\* The keys of report r on the last copy that was sent to the host.
HogSent(h, r) ==
  LET S == {n \in DOMAIN h.air : h.air[n].src = r}
  IN IF S = {} THEN h.seen[r]
     ELSE h.air[CHOOSE n \in S : \A m \in S : m <= n].abs

HogLastSent(r) == HogSent(hog, r)

(***************************************************************************)
(* No report is lost unnoticed: the host has, or is being sent, the keys   *)
(* in the cache, unless they are still marked updated or a copy was        *)
(* dropped because of the state of the link (lost).                        *)
(***************************************************************************)
HogNoSilentLoss ==
  \A r \in Reports :
    \/ HogLastSent(r) = Shown(r, HogOut)
    \/ \E i \in SlotById(cache, HogOut, r) : cache[i].updated
    \/ r \in hog.lost

(***************************************************************************)
(* No wake-up is lost: while the driver is free, a report that waits and   *)
(* could be sent has a notification on the way, unless the link changed    *)
(* or refused a report since the last notification (stalled).              *)
(***************************************************************************)
HogNoLostWakeup ==
  ~hog.busy /\ (\E i \in Pending(cache, HogOut) : HogReady(hog, cache[i].src))
    => upd # Idle \/ notify \/ hog.stalled
=============================================================================

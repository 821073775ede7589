----------------------------- MODULE HidSystem -----------------------------
(***************************************************************************)
(* A hid device with both outputs, Bluetooth and USB, sharing one report   *)
(* cache and one notify work item, as on the ploopy, paw_g3 and big_stick  *)
(* boards.  The two links change state independently of each other.        *)
(***************************************************************************)
EXTENDS UsbHid, BleHog

ASSUME SystemAssumption == Outputs = <<HogOut, UsbOut>>

sysvars == <<vars, usb, hog>>

SystemInit == Init /\ UsbInit /\ HogInit

\* Slip: the loop stops at the first output that is busy.
SystemNotifyWorkerStops ==
  /\ notify
  /\ notify' = FALSE
  /\ \E h \in HogNotify(cache, hog) :
       \E u \in IF hog.busy THEN {[cache |-> h.cache, usb |-> usb]} ELSE UsbNotify(h.cache, usb) :
         cache' = u.cache /\ usb' = u.usb /\ hog' = h.hog
  /\ UNCHANGED <<held, upd>>

\* hid_notify_worker: each output in turn is notified once.
SystemNotifyWorker ==
  /\ notify
  /\ notify' = FALSE
  /\ \E h \in HogNotify(cache, hog) : \E u \in UsbNotify(h.cache, usb) :
       cache' = u.cache /\ usb' = u.usb /\ hog' = h.hog
  /\ UNCHANGED <<held, upd>>

SystemNext ==
  \/ InputSide /\ UNCHANGED <<usb, hog>>
  \/ SystemNotifyWorker
  \/ UsbHost /\ UNCHANGED hog
  \/ HogHost /\ UNCHANGED usb

SystemSpec == SystemInit /\ [][SystemNext]_sysvars

(***************************************************************************)
(* The firmware runs: the input thread and the workqueue are scheduled.    *)
(* A host need not read; UsbPolls and HogSends say that one does.          *)
(***************************************************************************)
SystemFairness ==
  /\ WF_sysvars(UpdateOutput /\ UNCHANGED <<usb, hog>>)
  /\ WF_sysvars(UpdateDone /\ UNCHANGED <<usb, hog>>)
  /\ WF_sysvars(SystemNotifyWorker)

SystemFairSpec == SystemSpec /\ SystemFairness

UsbPolls == WF_sysvars(InputReportDone /\ UNCHANGED hog)

HogSends ==
  /\ WF_sysvars(NotificationSent /\ UNCHANGED usb)
  /\ WF_sysvars(ResponseSent /\ UNCHANGED usb)
-----------------------------------------------------------------------------
(***************************************************************************)
(* Each output loses nothing to the other: what a host does not have yet   *)
(* is waiting in its own slot, on its own link, or accounted as dropped.   *)
(***************************************************************************)
NoCrossLoss == UsbNoSilentLoss /\ HogNoSilentLoss

\* The step leaves output o's mailboxes alone, or empties the one of report r.
Kept(o) == UNCHANGED cache \/ BoxOf(o)' = BoxOf(o)

Took(o, r) ==
  LET b == BoxOf(o)[r]
  IN /\ b.known
     /\ BoxOf(o)' = [BoxOf(o) EXCEPT ![r] =
                       [abs |-> b.abs, rel |-> 0, known |-> TRUE, fresh |-> FALSE]]

\* The update loop serves output o: its mailbox takes the event.
Posted(o) ==
  LET b == BoxOf(o)[upd.src]
      abs == Apply(b.abs, upd.ev)
      rel == IF upd.src \in RelReports THEN Clamp(b.rel + upd.ev.delta) ELSE 0
  IN /\ UpdateOutput /\ Outputs[upd.k] = o
     /\ BoxOf(o)' = [BoxOf(o) EXCEPT ![upd.src] =
                       [abs |-> abs, rel |-> rel, known |-> TRUE,
                        fresh |-> b.fresh \/ ~b.known \/ abs # b.abs \/ rel # b.rel]]

\* usb_hid_notify, and ble_hog_notify, took the report and have it now.
UsbTook(r) ==
  LET b == BoxOf(UsbOut)[r]
  IN ~usb.busy /\ b.fresh /\ Took(UsbOut, r)
       /\ usb' \in UsbSend([usb EXCEPT !.buf = [src |-> r, abs |-> b.abs]])

HogTook(r) ==
  LET b == BoxOf(HogOut)[r]
  IN ~hog.busy /\ b.fresh /\ Took(HogOut, r)
       /\ hog' \in HogSend(hog, [src |-> r, abs |-> b.abs])

OwnMailboxes ==
  /\ \/ Kept(UsbOut)
     \/ Posted(UsbOut)
     \/ SystemNotifyWorker /\ \E r \in Reports : UsbTook(r)
     \/ UsbHost /\ UNCHANGED hog /\ \E r \in Reports : Took(UsbOut, r)
  /\ \/ Kept(HogOut)
     \/ Posted(HogOut)
     \/ SystemNotifyWorker /\ \E r \in Reports : HogTook(r)
     \/ HogHost /\ UNCHANGED usb /\ \E r \in Reports : Took(HogOut, r)

(***************************************************************************)
(* The drivers keep to themselves: what an output is shown changes in      *)
(* three ways only.  The update loop posts the event; the output's own     *)
(* driver, called by the work item that also serves the other one, takes   *)
(* one marked report out and then sends or drops just that report; or a    *)
(* completion or a read of its own host takes one.  What the other driver  *)
(* collects from the same cache, in the same work item, does not show.     *)
(***************************************************************************)
DriversPrivate == [][OwnMailboxes]_sysvars

\* From some time on no key is pressed or released.
SystemQuiet == <>[][~InputArrives]_sysvars

(***************************************************************************)
(* Once the user pauses, the USB host comes to see every change made on a  *)
(* usable link, also while the Bluetooth link hangs, with a notification   *)
(* that never completes.                                                   *)
(***************************************************************************)
UsbHostCatchesUp ==
  UsbPolls /\ SystemQuiet => \A r \in Reports :
    (upd.src = r /\ UsbReady(usb))
      ~> (usb.seen[r] = held[r] \/ ~UsbReady(usb) \/ r \in usb.lost)

(***************************************************************************)
(* The same for a subscribed Bluetooth host, also while the USB host does  *)
(* not poll its device.                                                    *)
(***************************************************************************)
HogHostCatchesUp ==
  HogSends /\ SystemQuiet => \A r \in Reports :
    (upd.src = r /\ HogReady(hog, r))
      ~> (hog.seen[r] = held[r] \/ ~HogReady(hog, r) \/ r \in hog.lost)

(***************************************************************************)
(* Neither host can keep the other one, or its own later reports, waiting. *)
(***************************************************************************)
HostsCatchUp == UsbHostCatchesUp /\ HogHostCatchesUp
=============================================================================

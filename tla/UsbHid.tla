------------------------------- MODULE UsbHid -------------------------------
(***************************************************************************)
(* The USB output of a hid device (usb_hid.c): at most one report is with  *)
(* the USB stack at a time, in the driver's only buffer, which the stack   *)
(* transmits from without copying it.                                      *)
(*                                                                         *)
(* Every callback of usb_hid.c runs in a cooperative thread (USB stack,    *)
(* input thread or system workqueue) and does not block, so each is one    *)
(* action.  usb_hid_notify is the set of its outcomes, because the notify  *)
(* worker and the completion callback both end by calling it.              *)
(*                                                                         *)
(* The fields of usb:                                                      *)
(*   busy, connected, suspended, boot, buf   the driver's data             *)
(*   wire      the transfers with the stack, as they were submitted        *)
(*   aborted   a cancelled transfer's completion is still to be reported   *)
(*   reset     the bus reset message is still to be handled                *)
(*   seen      per report, the keys the host sees as held                  *)
(*   lost      reports whose last collected copy never went to the host    *)
(*   stalled   nobody will ask for the next report before the next event   *)
(* The last three are history, for the properties.                         *)
(***************************************************************************)
EXTENDS HidReports

CONSTANTS
  UsbOut,         \* this output device
  BootReport,     \* the report whose id is boot_report_id, or NoReport
  SubmitMayFail   \* hid_device_submit_report may return an error

ASSUME UsbAssumption ==
  /\ UsbOut \in OutputSet
  /\ BootReport \in Reports \union {NoReport}
  /\ SubmitMayFail \in BOOLEAN

VARIABLE usb

UsbBuf == [src : Reports \union {NoReport}, abs : SUBSET Keys]

UsbState ==
  [busy : BOOLEAN, connected : BOOLEAN, suspended : BOOLEAN, boot : BOOLEAN,
   buf : UsbBuf, wire : {<<>>} \union {<<t>> : t \in UsbBuf},
   aborted : BOOLEAN, reset : BOOLEAN,
   seen : [Reports -> SUBSET Keys], lost : SUBSET Reports, stalled : BOOLEAN]

UsbType == usb \in UsbState

UsbInit ==
  usb = [busy |-> FALSE, connected |-> FALSE, suspended |-> FALSE, boot |-> FALSE,
         buf |-> [src |-> NoReport, abs |-> {}], wire |-> <<>>,
         aborted |-> FALSE, reset |-> FALSE,
         seen |-> [r \in Reports |-> {}], lost |-> {}, stalled |-> FALSE]

\* The report in the buffer may go out on the link as it is now.
UsbReady(u) == u.connected /\ ~u.suspended

UsbSendable(u) == UsbReady(u) /\ (u.boot => u.buf.src = BootReport)

\* The report in the buffer is dropped.
UsbDropped(u) == [u EXCEPT !.lost = @ \union {u.buf.src}, !.stalled = TRUE]

UsbSubmitted(u) ==
  [u EXCEPT !.wire = Append(@, u.buf), !.busy = TRUE,
            !.lost = @ \ {u.buf.src}, !.stalled = FALSE]

\* What becomes of the driver once the buffer holds the report to send.
UsbSend(u) ==
  IF ~UsbSendable(u) THEN {UsbDropped(u)}
  ELSE {UsbSubmitted(u)} \union {d \in {UsbDropped(u)} : SubmitMayFail}

\* The first pending report is collected into the buffer of driver u and sent.
UsbCollect(c, u) ==
  UNION {{[cache |-> Collected(c, i), usb |-> sent] :
            sent \in UsbSend([u EXCEPT !.buf = [src |-> c[i].src, abs |-> c[i].abs]])} :
         i \in NextReport(c, UsbOut)}

\* Slip: the busy flag is looked at after the report was collected.
UsbNotifyLateCheck(c, u) ==
  IF Pending(c, UsbOut) = {} THEN {[cache |-> c, usb |-> u]}
  ELSE IF u.busy THEN {[cache |-> Collected(c, i), usb |-> u] : i \in NextReport(c, UsbOut)}
  ELSE UsbCollect(c, u)

(***************************************************************************)
(* usb_hid_notify on cache c and driver data u.  The report is collected   *)
(* before the link is looked at, so a report the link cannot take is gone. *)
(***************************************************************************)
UsbNotify(c, u) ==
  IF u.busy \/ Pending(c, UsbOut) = {}
  THEN {[cache |-> c, usb |-> u]}
  ELSE UsbCollect(c, u)

UsbNotifyFrom(u) ==
  \E next \in UsbNotify(cache, u) : cache' = next.cache /\ usb' = next.usb

hidvars == <<held, upd, notify>>
-----------------------------------------------------------------------------
\* Slip: the completion does not ask for the next report.
InputReportDoneOnly ==
  /\ usb.wire # <<>>
  /\ UsbReady(usb)
  /\ usb' = [usb EXCEPT !.wire = Tail(@), !.busy = FALSE, !.seen[usb.buf.src] = usb.buf.abs]
  /\ UNCHANGED <<cache, hidvars>>

\* The host has read the transfer: it is the buffer's present content that was
\* sent.  input_report_done then asks for the next report.
InputReportDone ==
  /\ usb.wire # <<>>
  /\ UsbReady(usb)
  /\ UsbNotifyFrom([usb EXCEPT !.wire = Tail(@), !.busy = FALSE,
                               !.seen[usb.buf.src] = usb.buf.abs])
  /\ UNCHANGED hidvars

\* input_report_done for a transfer the stack has cancelled.
AbortedReportDone ==
  /\ usb.aborted
  /\ UsbNotifyFrom([usb EXCEPT !.aborted = FALSE, !.busy = FALSE])
  /\ UNCHANGED hidvars

\* The transfers with the stack are cancelled: their reports are lost.
Cancelled(u) ==
  [u EXCEPT !.wire = <<>>, !.lost = @ \union {t.src : t \in {u.wire[n] : n \in DOMAIN u.wire}}]

\* iface_ready(false): the host deconfigures the interface; the cancelled
\* transfer is reported back by the stack.
IfaceDown ==
  /\ usb.connected
  /\ usb' = [Cancelled(usb) EXCEPT !.connected = FALSE, !.aborted = @ \/ usb.wire # <<>>]
  /\ UNCHANGED <<cache, hidvars>>

\* A bus reset: the interface goes down, the stack may or may not report the
\* transfer it cancels, and the host forgets the keys it saw held.  The reset
\* message reaches the driver later.
BusReset ==
  /\ \E reported \in BOOLEAN :
       usb' = [Cancelled(usb) EXCEPT
                 !.connected = FALSE, !.reset = TRUE,
                 !.aborted = @ \/ (reported /\ usb.wire # <<>>),
                 !.seen = [r \in Reports |-> {}], !.lost = Reports]
  /\ UNCHANGED <<cache, hidvars>>

\* Slip: the reset leaves the transfer it killed accounted as busy.
HidResetCbBusy ==
  /\ usb.reset
  /\ usb' = [usb EXCEPT !.reset = FALSE, !.boot = FALSE, !.stalled = TRUE]
  /\ UNCHANGED <<cache, hidvars>>

\* hid_reset_cb, from the message callback on the system workqueue.
HidResetCb ==
  /\ usb.reset
  /\ usb' = [usb EXCEPT !.reset = FALSE, !.boot = FALSE, !.busy = FALSE, !.stalled = TRUE]
  /\ UNCHANGED <<cache, hidvars>>

\* iface_ready(true): the host configures the interface, tens of milliseconds
\* after a reset: the reset and the cancelled transfer are dealt with by then.
IfaceUp ==
  /\ ~usb.connected /\ ~usb.reset /\ ~usb.aborted
  /\ usb' = [usb EXCEPT !.connected = TRUE, !.stalled = TRUE]
  /\ UNCHANGED <<cache, hidvars>>

\* SET_PROTOCOL, boot or report.
SetProtocol(b) ==
  /\ usb.connected
  /\ BootReport # NoReport
  /\ usb' = [usb EXCEPT !.boot = b]
  /\ UNCHANGED <<cache, hidvars>>

\* usb_hid_pm_action; the host does not poll a suspended device.
PmAction(b) ==
  /\ usb' = [usb EXCEPT !.suspended = b, !.stalled = @ \/ usb.suspended]
  /\ UNCHANGED <<cache, hidvars>>

\* GET_REPORT on the control pipe.  The host may see an older copy of the same
\* report afterwards, when one is on its way on the interrupt pipe.
UsbGetReport(r) ==
  /\ HostReads
  /\ usb.connected
  /\ \E i \in SlotById(cache, UsbOut, r) :
       /\ cache' = Collected(cache, i)
       /\ usb' = IF \E n \in DOMAIN usb.wire : usb.wire[n].src = r
                 THEN [usb EXCEPT !.lost = @ \union {r}]
                 ELSE [usb EXCEPT !.seen[r] = cache[i].abs, !.lost = @ \ {r}]
  /\ UNCHANGED hidvars

UsbHost ==
  \/ InputReportDone
  \/ AbortedReportDone
  \/ IfaceDown
  \/ BusReset
  \/ HidResetCb
  \/ IfaceUp
  \/ \E b \in BOOLEAN : SetProtocol(b)
  \/ \E b \in BOOLEAN : PmAction(b)
  \/ \E r \in Reports : UsbGetReport(r)
-----------------------------------------------------------------------------
(***************************************************************************)
(* A hid device whose only output is USB.                                  *)
(***************************************************************************)
UsbNotifyWorker ==
  /\ notify
  /\ notify' = FALSE
  /\ UsbNotifyFrom(usb)
  /\ UNCHANGED <<held, upd>>

UsbOnlyInit == Init /\ UsbInit

UsbOnlyNext ==
  \/ InputSide /\ UNCHANGED usb
  \/ UsbNotifyWorker
  \/ UsbHost

usbvars == <<vars, usb>>

UsbOnlySpec == UsbOnlyInit /\ [][UsbOnlyNext]_usbvars
-----------------------------------------------------------------------------
(***************************************************************************)
(* One transfer at a time, and the buffer it is sent from is not touched   *)
(* before it completes: the host receives the report that was submitted.   *)
(***************************************************************************)
UsbOneTransfer ==
  \/ usb.wire = <<>>
  \/ usb.wire = <<usb.buf>>

(***************************************************************************)
(* busy is not left set with no completion or reset to come that clears    *)
(* it: the output cannot be silenced for good.                             *)
(***************************************************************************)
UsbBusyCleared == usb.busy => usb.wire # <<>> \/ usb.aborted \/ usb.reset

(***************************************************************************)
(* The driver and the stack agree on the one transfer: what is on the wire,*)
(* and whether busy will be cleared, at every step of transfers, failures, *)
(* bus resets and their late messages.                                     *)
(***************************************************************************)
UsbInv == UsbType /\ UsbOneTransfer /\ UsbBusyCleared

\* The keys of report r on the last copy that was sent to the host.
UsbSent(u, r) == IF \E n \in DOMAIN u.wire : u.wire[n].src = r
                 THEN u.wire[1].abs ELSE u.seen[r]

LastSent(r) == UsbSent(usb, r)

(***************************************************************************)
(* No report is lost unnoticed: the host has, or is being sent, the keys   *)
(* in the cache, unless they are still marked updated or a copy was        *)
(* dropped because of the state of the link (lost).                        *)
(***************************************************************************)
UsbNoSilentLoss ==
  \A r \in Reports :
    \/ LastSent(r) = Shown(r, UsbOut)
    \/ \E i \in SlotById(cache, UsbOut, r) : cache[i].updated
    \/ r \in usb.lost

(***************************************************************************)
(* No wake-up is lost: a report that waits on a usable, idle link has a    *)
(* notification on the way, unless the link changed state or refused a     *)
(* report since the last transfer (stalled).                               *)
(***************************************************************************)
UsbNoLostWakeup ==
  UsbReady(usb) /\ ~usb.busy /\ Pending(cache, UsbOut) # {}
    => upd # Idle \/ notify \/ usb.stalled
=============================================================================

------------------------------- MODULE XInput -------------------------------
(***************************************************************************)
(* The XInput class of the USB device (xinput.c): a report per input event *)
(* on the IN endpoint, an OUT transfer that is kept ready for the host,    *)
(* and one vendor request on the control endpoint.  Each direction has its *)
(* own pool of buffers; a buffer is with the controller, on its way back   *)
(* to the class's request handler, or free.                                *)
(*                                                                         *)
(* Input events come on the input thread, requests and completions on the  *)
(* stack's thread, the OUT transfer is submitted by the system workqueue.  *)
(* Reports are abstracted to the set of buttons they show.                 *)
(***************************************************************************)
EXTENDS Integers, Sequences

CONSTANTS
  Buttons,   \* the four buttons that xinput_cb knows
  BufCount,  \* XINPUT_BUF_COUNT, of either pool
  CtrlCount  \* the buffers of the stack's control pool

ASSUME XInputAssumption ==
  /\ BufCount \in Nat \ {0}
  /\ CtrlCount \in Nat \ {0}

VARIABLES
  enabled,   \* the host has configured the interface: its endpoints accept buffers
  suspended, \* the bus is suspended
  outWork,   \* data->out_work is queued
  out,       \* pool_out: buffers that wait for the host's data
  outDone,   \* pool_out: buffers to be handed to the request handler
  in,        \* pool_in: the reports that wait for the host to poll
  inDone,    \* pool_in: buffers to be handed to the request handler
  ctrl,      \* control buffers in a data stage
  leaked,    \* control buffers nobody holds any more
  sees,      \* the buttons of the report the host polled last (history)
  last,      \* the buttons of the report of the last input event (history)
  dropped    \* that report did not reach the controller, or was cancelled (history)

outVars == <<outWork, out, outDone>>
inVars == <<in, inDone, sees, last, dropped>>
ctrlVars == <<ctrl, leaked>>
vars == <<enabled, suspended, outVars, inVars, ctrlVars>>

Init ==
  /\ enabled = FALSE /\ suspended = FALSE
  /\ outWork = FALSE /\ out = 0 /\ outDone = 0
  /\ in = <<>> /\ inDone = 0
  /\ ctrl = 0 /\ leaked = 0
  /\ sees = {} /\ last = {} /\ dropped = FALSE
-----------------------------------------------------------------------------
\* xinput_send_report: the report goes to the controller, or nowhere when the
\* pool is empty or the stack refuses the buffer.
SendReport(shown) ==
  LET sent == Len(in) + inDone < BufCount /\ enabled /\ ~suspended
  IN /\ in' = IF sent THEN Append(in, shown) ELSE in
     /\ last' = shown
     /\ dropped' = ~sent
     /\ UNCHANGED <<inDone, sees>>

\* Slip: the release of a button is left to the next event.
XInputCbPressOnly(b, value) ==
  IF value THEN SendReport({b})
  ELSE last' = {} /\ dropped' = FALSE /\ UNCHANGED <<in, inDone, sees>>

\* xinput_cb for a button: the report starts from nothing and shows that one.
XInputCb(b, value) == SendReport(IF value THEN {b} ELSE {})

ButtonEvent ==
  /\ \E b \in Buttons, value \in BOOLEAN : XInputCb(b, value)
  /\ UNCHANGED <<enabled, suspended, outVars, ctrlVars>>

\* xinput_cb for an event of any other code, an axis for one.
OtherEvent ==
  /\ SendReport({})
  /\ UNCHANGED <<enabled, suspended, outVars, ctrlVars>>

\* xinput_request_handler for the IN endpoint: the buffer is freed.
InDone ==
  /\ inDone > 0
  /\ inDone' = inDone - 1
  /\ UNCHANGED <<enabled, suspended, outVars, ctrlVars, in, sees, last, dropped>>
-----------------------------------------------------------------------------
\* Slip: the work item is not submitted by the completion of a transfer.
OutDoneFreed ==
  /\ outDone > 0
  /\ outDone' = outDone - 1
  /\ UNCHANGED <<enabled, suspended, outWork, out, inVars, ctrlVars>>

\* ... for the OUT endpoint, data or cancelled: a new transfer, and freed.
OutDone ==
  /\ outDone > 0
  /\ outDone' = outDone - 1
  /\ outWork' = TRUE
  /\ UNCHANGED <<enabled, suspended, out, inVars, ctrlVars>>

\* xinput_out_handler gives up without a buffer, and when the stack refuses it.
OutHandler ==
  /\ outWork
  /\ outWork' = FALSE
  /\ out' = IF out + outDone < BufCount /\ enabled THEN out + 1 ELSE out
  /\ UNCHANGED <<enabled, suspended, outDone, inVars, ctrlVars>>
-----------------------------------------------------------------------------
\* xinput_control_to_host with a buffer to be had: it is allocated before the
\* request is looked at, and an unknown request returns without it.
ControlToHost(known) ==
  /\ ctrl = 0
  /\ leaked < CtrlCount
  /\ ctrl' = IF known THEN 1 ELSE 0
  /\ leaked' = IF known THEN leaked ELSE leaked + 1
  /\ UNCHANGED <<enabled, suspended, outVars, inVars>>

ControlDone ==
  /\ ctrl = 1
  /\ ctrl' = 0
  /\ UNCHANGED <<enabled, suspended, outVars, inVars, leaked>>

\* The host polls the IN endpoint, or sends a transfer to the OUT endpoint.
HostPolls ==
  /\ enabled /\ ~suspended /\ in # <<>>
  /\ sees' = Head(in)
  /\ in' = Tail(in)
  /\ inDone' = inDone + 1
  /\ UNCHANGED <<enabled, suspended, outVars, ctrlVars, last, dropped>>

HostSends ==
  /\ enabled /\ ~suspended /\ out > 0
  /\ out' = out - 1
  /\ outDone' = outDone + 1
  /\ UNCHANGED <<enabled, suspended, outWork, inVars, ctrlVars>>

\* xinput_enable: the first OUT transfer.
Enable ==
  /\ ~enabled
  /\ enabled' = TRUE
  /\ outWork' = TRUE
  /\ UNCHANGED <<suspended, out, outDone, inVars, ctrlVars>>

\* xinput_disable does nothing; the stack cancels the endpoints' transfers.
Disable ==
  /\ enabled
  /\ enabled' = FALSE
  /\ out' = 0 /\ outDone' = outDone + out
  /\ in' = <<>> /\ inDone' = inDone + Len(in)
  /\ dropped' = (dropped \/ in # <<>>)
  /\ UNCHANGED <<suspended, outWork, ctrlVars, sees, last>>

SuspendResume ==
  /\ suspended' = ~suspended
  /\ UNCHANGED <<enabled, outVars, inVars, ctrlVars>>

Next ==
  \/ ButtonEvent \/ OtherEvent
  \/ InDone \/ OutDone \/ OutHandler
  \/ \E known \in BOOLEAN : ControlToHost(known)
  \/ ControlDone \/ HostPolls \/ HostSends
  \/ Enable \/ Disable \/ SuspendResume

\* The workqueue runs what was submitted, the stack hands back what completed.
Spec == Init /\ [][Next]_vars /\ WF_vars(OutHandler) /\ WF_vars(OutDone)
-----------------------------------------------------------------------------
TypeOK ==
  /\ enabled \in BOOLEAN /\ suspended \in BOOLEAN /\ dropped \in BOOLEAN
  /\ outWork \in BOOLEAN /\ {out, outDone, inDone} \subseteq Nat
  /\ out + outDone <= BufCount
  /\ in \in Seq(SUBSET Buttons)
  /\ Len(in) + inDone <= BufCount
  /\ ctrl \in {0, 1} /\ leaked \in 0..CtrlCount
  /\ sees \subseteq Buttons /\ last \subseteq Buttons

\* While the interface is configured the OUT endpoint has a transfer, or one is
\* on its way: the work item gives up only when a completion that will submit
\* it again is outstanding.
OutReady == enabled => out + outDone > 0 \/ outWork

\* Once the host has taken every report, it shows the last event, whatever
\* happened before, unless that event's own report was lost.
LastEventSeen == in = <<>> /\ ~dropped => sees = last

\* The buffers of both directions, across re-enumerations and cancelled
\* transfers, never strand the class: OutReady and LastEventSeen together.
XInputInv == TypeOK /\ OutReady /\ LastEventSeen

\* However often the host reconfigures the device, the OUT endpoint of an
\* interface that stays configured gets a transfer again after each one.
OutRearmed == <>[]enabled => []<>(out > 0)
=============================================================================

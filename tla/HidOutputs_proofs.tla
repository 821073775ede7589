------------------------- MODULE HidOutputs_proofs -------------------------
(***************************************************************************)
(* Proofs about the USB and the Bluetooth output, each alone and both      *)
(* together, on the report cache of any device tree: driver and stack      *)
(* agree on what is in flight, and no report and no wake-up is lost that   *)
(* the link did not cost.                                                  *)
(*                                                                         *)
(* Both drivers collect from a cache that other threads change, and the    *)
(* notify worker hands the cache from one output to the next.  What they   *)
(* rely on is therefore said of a cache and a driver state as values.      *)
(***************************************************************************)
EXTENDS HidSystem, HidReports_proofs, SequenceTheorems

\* What an output needs of the cache.
Tidy(c) ==
  /\ c \in [Slots -> Entry]
  /\ OneEach(c)
  /\ \A i \in Slots : /\ c[i].out \in OutputSet => c[i].src \in Reports
                      /\ c[i].rel # 0 => c[i].src \in RelReports

LEMMA CacheTidy == CacheInv => Tidy(cache)
BY NullAssumption DEF CacheInv, TypeOK, Entry, SlotsSound, OneEach, FreeSlot, MotionMarked, Tidy

(***************************************************************************)
(* Collecting from slot i, as each output sees it.                         *)
(***************************************************************************)
Collects(c, d, i) ==
  /\ i \in Slots /\ c[i].src \in Reports /\ c[i].out \in OutputSet
  /\ d = Collected(c, i)

LEMMA CollectsFrom ==
  ASSUME NEW c, NEW d, NEW i, Tidy(c), Collects(c, d, i)
  PROVE  /\ Tidy(d)
         /\ HandedOut(c, d, {i})
         /\ View(c, c[i].src, c[i].out) = c[i]
         /\ View(d, c[i].src, c[i].out) = d[i]
         /\ \A q \in Reports : \A p : ~(q = c[i].src /\ p = c[i].out) => View(d, q, p) = View(c, q, p)
<1>0. c \in [Slots -> Entry] /\ OneEach(c) /\ i \in Slots /\ c[i].src \in Reports
  BY DEF Tidy, Collects
<1>1. d \in [Slots -> Entry]
  BY <1>0, CollectedType DEF Collects
<1>2. HandedOut(c, d, {i})
  BY <1>0, CollectedSlots DEF Collects, Tidy
<1>3. OneEach(d)
  BY <1>0, <1>2 DEF OneEach, IsSlotOf, HandedOut
<1>4. \A j \in Slots : /\ d[j].out \in OutputSet => d[j].src \in Reports
                       /\ d[j].rel # 0 => d[j].src \in RelReports
  BY <1>2 DEF HandedOut, Tidy
<1>5. /\ View(c, c[i].src, c[i].out) = c[i]
      /\ View(d, c[i].src, c[i].out) = d[i]
      /\ \A q \in Reports : \A p : ~(q = c[i].src /\ p = c[i].out) => View(d, q, p) = View(c, q, p)
  BY <1>0, <1>1, <1>2, CollectView
<1> QED
  BY <1>1, <1>2, <1>3, <1>4, <1>5 DEF Tidy

(***************************************************************************)
(* What a driver collects is the first of its marked slots.                *)
(***************************************************************************)
LEMMA FirstPending ==
  ASSUME NEW c, Tidy(c), NEW o \in OutputSet, NEW i \in NextReport(c, o)
  PROVE  Collects(c, Collected(c, i), i) /\ c[i].out = o
BY DEF NextReport, Pending, Tidy, Collects

(***************************************************************************)
(* Collecting marks nothing.                                               *)
(***************************************************************************)
LEMMA PendingShrinks ==
  ASSUME NEW c, NEW d, NEW i, Tidy(c), Collects(c, d, i), NEW o
  PROVE  /\ Pending(d, o) \subseteq Pending(c, o)
         /\ \A j \in Slots : d[j].src = c[j].src
<1>1. HandedOut(c, d, {i})
  BY CollectsFrom
<1> QED
  BY <1>1 DEF Pending, HandedOut

(***************************************************************************)
(* The cache invariant survives collecting by any number of outputs in one *)
(* step of the notify worker.                                              *)
(***************************************************************************)
LEMMA HandedOutTwice ==
  ASSUME NEW c, NEW d, NEW e, NEW I, NEW J, HandedOut(c, d, I), HandedOut(d, e, J)
  PROVE  HandedOut(c, e, I \union J)
BY DEF HandedOut

LEMMA CacheKept ==
  ASSUME CacheInv, Tidy(cache'), NEW I \in SUBSET Slots, \A i \in I : cache[i].src \in Reports,
         HandedOut(cache, cache', I), held' = held, upd' = upd, notify' \in BOOLEAN
  PROVE  CacheInv'
<1>1. TypeOK'
  BY DEF CacheInv, TypeOK, Tidy
<1> QED
  BY <1>1, CollectStep, NullAssumption
-----------------------------------------------------------------------------
(***************************************************************************)
(* USB.  The invariant of the driver alone: a transfer is with the stack   *)
(* only on a configured interface and is accounted as busy, and the        *)
(* completion of a cancelled transfer and the reset message come while the *)
(* interface is down.  Without the last two, UsbOneTransfer could be lost: *)
(* a late reset would free the driver under the next transfer.             *)
(***************************************************************************)
UsbOk(u) ==
  /\ u \in UsbState
  /\ u.wire # <<>> => u.wire = <<u.buf>> /\ u.buf.src \in Reports /\ u.busy /\ u.connected
  /\ u.connected => ~u.reset /\ ~u.aborted
  /\ u.busy => u.wire # <<>> \/ u.aborted \/ u.reset

\* UsbNoSilentLoss of cache c and driver u.
UsbAccounts(c, u) ==
  \A r \in Reports :
    \/ UsbSent(u, r) = View(c, r, UsbOut).abs
    \/ View(c, r, UsbOut).updated
    \/ r \in u.lost

\* UsbNoLostWakeup of cache c and driver u, with or without a call to come.
UsbAwake(c, u, coming) ==
  UsbReady(u) /\ ~u.busy /\ Pending(c, UsbOut) # {} => coming \/ u.stalled

(***************************************************************************)
(* The last copy of a report that was sent: the one with the stack, or     *)
(* what the host has seen.                                                 *)
(***************************************************************************)
LEMMA UsbSentIs ==
  ASSUME NEW u, NEW r
  PROVE  /\ u.wire = <<>> => UsbSent(u, r) = u.seen[r]
         /\ \A t : u.wire = <<t>> => UsbSent(u, r) = IF t.src = r THEN t.abs ELSE u.seen[r]
BY DEF UsbSent

(***************************************************************************)
(* usb_hid_send_report: the report in the buffer is with the stack, or it  *)
(* is noted as lost and the driver as stalled.                             *)
(***************************************************************************)
LEMMA UsbSendOutcome ==
  ASSUME NEW u, UsbOk(u), ~u.busy, NEW b \in UsbBuf, b.src \in Reports,
         NEW s \in UsbSend([u EXCEPT !.buf = b])
  PROVE  /\ UsbOk(s)
         /\ \A r \in Reports : r # b.src => UsbSent(s, r) = UsbSent(u, r) /\ (r \in u.lost => r \in s.lost)
         /\ UsbSent(s, b.src) = b.abs \/ b.src \in s.lost
         /\ s.busy \/ s.stalled
<1> DEFINE v == [u EXCEPT !.buf = b]
<1>1. u \in UsbState /\ u.wire = <<>>
  BY DEF UsbOk
<1>2. /\ v \in UsbState /\ v.buf = b /\ v.wire = <<>> /\ v.lost = u.lost /\ v.seen = u.seen
      /\ v.busy = u.busy /\ v.connected = u.connected /\ v.reset = u.reset /\ v.aborted = u.aborted
  BY <1>1 DEF UsbState
<1> HIDE DEF v
<1>3. CASE s = UsbDropped(v)
  <2>1. /\ s \in UsbState /\ s.buf = b /\ s.wire = <<>> /\ s.lost = u.lost \union {b.src} /\ s.seen = u.seen
        /\ s.busy = u.busy /\ s.connected = u.connected /\ s.reset = u.reset /\ s.aborted = u.aborted
        /\ s.stalled
    BY <1>2, <1>3 DEF UsbDropped, UsbState
  <2>2. UsbOk(s)
    BY <2>1 DEF UsbOk
  <2> QED
    BY <1>1, <2>1, <2>2, UsbSentIs
<1>4. CASE s = UsbSubmitted(v) /\ UsbSendable(v)
  <2>1. /\ s \in UsbState /\ s.buf = b /\ s.wire = <<b>> /\ s.lost = u.lost \ {b.src} /\ s.seen = u.seen
        /\ s.busy /\ s.connected = u.connected /\ s.reset = u.reset /\ s.aborted = u.aborted
    <3>1. Append(v.wire, v.buf) = <<b>>
      BY <1>2
    <3> QED
      BY <1>2, <1>4, <3>1 DEF UsbSubmitted, UsbState
  <2>2. s.connected
    BY <1>2, <1>4, <2>1 DEF UsbSendable, UsbReady
  <2>3. UsbOk(s)
    BY <2>1, <2>2 DEF UsbOk
  <2> QED
    BY <1>1, <2>1, <2>3, UsbSentIs
<1> QED
  BY <1>3, <1>4 DEF UsbSend, v

(***************************************************************************)
(* usb_hid_notify: nothing happens while a transfer is under way or when   *)
(* nothing is marked; otherwise a report is collected and sent or dropped. *)
(***************************************************************************)
LEMMA UsbNotifies ==
  ASSUME NEW c, Tidy(c), NEW u, UsbOk(u), UsbAccounts(c, u), NEW next \in UsbNotify(c, u)
  PROVE  /\ UsbOk(next.usb)
         /\ UsbAccounts(next.cache, next.usb)
         /\ UsbAwake(next.cache, next.usb, FALSE)
         /\ \/ next.cache = c
            \/ \E i \in Slots : Collects(c, next.cache, i) /\ c[i].out = UsbOut
<1>1. CASE next = [cache |-> c, usb |-> u] /\ (u.busy \/ Pending(c, UsbOut) = {})
  BY <1>1 DEF UsbAwake
<1>2. ASSUME ~u.busy, NEW i \in NextReport(c, UsbOut),
             NEW s \in UsbSend([u EXCEPT !.buf = [src |-> c[i].src, abs |-> c[i].abs]]),
             next = [cache |-> Collected(c, i), usb |-> s]
      PROVE  /\ UsbOk(s)
             /\ UsbAccounts(next.cache, s)
             /\ UsbAwake(next.cache, s, FALSE)
             /\ \E j \in Slots : Collects(c, next.cache, j) /\ c[j].out = UsbOut
  <2> DEFINE b == [src |-> c[i].src, abs |-> c[i].abs]
             d == Collected(c, i)
  <2>1. Collects(c, d, i) /\ c[i].out = UsbOut
    BY FirstPending, UsbAssumption
  <2>2. b \in UsbBuf /\ b.src \in Reports /\ b.src = c[i].src /\ b.abs = c[i].abs
    BY <2>1 DEF Collects, Tidy, Entry, UsbBuf
  <2> HIDE DEF b
  <2>3. /\ UsbOk(s)
        /\ \A r \in Reports : r # b.src => UsbSent(s, r) = UsbSent(u, r) /\ (r \in u.lost => r \in s.lost)
        /\ UsbSent(s, b.src) = b.abs \/ b.src \in s.lost
        /\ s.busy \/ s.stalled
    BY <1>2, <2>2, UsbSendOutcome DEF b
  <2>4. /\ View(d, b.src, UsbOut) = d[i]
        /\ \A q \in Reports : q # b.src => View(d, q, UsbOut) = View(c, q, UsbOut)
        /\ d[i].abs = c[i].abs
    <3>1. HandedOut(c, d, {i}) /\ i \in Slots
      BY <2>1, CollectsFrom DEF Collects
    <3> QED
      BY <2>1, <2>2, <3>1, CollectsFrom DEF HandedOut
  <2>5. View(d, b.src, UsbOut).abs = b.abs
    BY <2>2, <2>4
  <2>6. UsbAccounts(d, s)
    BY <2>3, <2>4, <2>5 DEF UsbAccounts
  <2>7. UsbAwake(d, s, FALSE)
    BY <2>3 DEF UsbAwake
  <2>8. next.cache = d /\ i \in Slots
    BY <1>2, <2>1 DEF Collects
  <2> HIDE DEF d
  <2> QED
    BY <2>1, <2>3, <2>6, <2>7, <2>8
<1>3. CASE ~u.busy /\ Pending(c, UsbOut) # {}
  <2>1. next \in UsbCollect(c, u)
    BY <1>3 DEF UsbNotify
  <2>2. PICK i \in NextReport(c, UsbOut) :
          \E s \in UsbSend([u EXCEPT !.buf = [src |-> c[i].src, abs |-> c[i].abs]]) :
            next = [cache |-> Collected(c, i), usb |-> s]
    BY <2>1 DEF UsbCollect
  <2>3. PICK s \in UsbSend([u EXCEPT !.buf = [src |-> c[i].src, abs |-> c[i].abs]]) :
          next = [cache |-> Collected(c, i), usb |-> s]
    BY <2>2
  <2>4. next.usb = s
    BY <2>3
  <2> QED
    BY <1>2, <1>3, <2>3, <2>4
<1> QED
  BY <1>1, <1>3 DEF UsbNotify

\* The driver's part of the invariant, and what its steps do to the cache.
UsbGood(c, u, coming) == UsbOk(u) /\ UsbAccounts(c, u) /\ UsbAwake(c, u, coming)

Drawn(c, d, o) == d = c \/ \E i \in Slots : Collects(c, d, i) /\ c[i].out = o

\* A call of the driver is to come: the update or the work item will make it.
Coming == upd # Idle \/ notify

LEMMA UsbNotifyStep ==
  ASSUME Tidy(cache), NEW u, UsbOk(u), UsbAccounts(cache, u), UsbNotifyFrom(u), NEW coming
  PROVE  UsbGood(cache', usb', coming) /\ Drawn(cache, cache', UsbOut)
<1>1. PICK next \in UsbNotify(cache, u) : cache' = next.cache /\ usb' = next.usb
  BY DEF UsbNotifyFrom
<1> QED
  BY <1>1, UsbNotifies DEF UsbGood, UsbAwake, Drawn

(***************************************************************************)
(* input_report_done: the transfer is in the host's hands, and the next    *)
(* report is asked for.                                                    *)
(***************************************************************************)
LEMMA UsbDoneStep ==
  ASSUME Tidy(cache), UsbGood(cache, usb, Coming), InputReportDone
  PROVE  UsbGood(cache', usb', Coming) /\ Drawn(cache, cache', UsbOut)
<1> DEFINE v == [usb EXCEPT !.wire = Tail(usb.wire), !.busy = FALSE, !.seen[usb.buf.src] = usb.buf.abs]
<1>1. usb \in UsbState /\ usb.wire = <<usb.buf>> /\ usb.buf.src \in Reports /\ usb.buf \in UsbBuf
  BY DEF UsbGood, UsbOk, InputReportDone, UsbState
<1>2. Tail(usb.wire) = <<>> /\ usb.buf.abs \in SUBSET Keys
  BY <1>1 DEF UsbBuf
<1>3. /\ v \in UsbState /\ v.wire = <<>> /\ ~v.busy /\ v.lost = usb.lost
      /\ v.connected = usb.connected /\ v.reset = usb.reset /\ v.aborted = usb.aborted
      /\ v.seen = [usb.seen EXCEPT ![usb.buf.src] = usb.buf.abs]
  BY <1>1, <1>2 DEF UsbState
<1>4. UsbNotifyFrom(v)
  BY DEF InputReportDone
<1> HIDE DEF v
<1>5. UsbOk(v)
  BY <1>3 DEF UsbGood, UsbOk
<1>6. \A r \in Reports : UsbSent(v, r) = UsbSent(usb, r)
  BY <1>1, <1>3, UsbSentIs DEF UsbState
<1>7. UsbAccounts(cache, v)
  BY <1>3, <1>6 DEF UsbGood, UsbAccounts
<1> QED
  BY <1>4, <1>5, <1>7, UsbNotifyStep

LEMMA UsbAbortedStep ==
  ASSUME Tidy(cache), UsbGood(cache, usb, Coming), AbortedReportDone
  PROVE  UsbGood(cache', usb', Coming) /\ Drawn(cache, cache', UsbOut)
<1> DEFINE v == [usb EXCEPT !.aborted = FALSE, !.busy = FALSE]
<1>1. usb \in UsbState /\ usb.wire = <<>> /\ ~usb.connected
  BY DEF UsbGood, UsbOk, AbortedReportDone
<1>2. /\ v \in UsbState /\ v.wire = <<>> /\ ~v.busy /\ ~v.connected /\ v.lost = usb.lost /\ v.seen = usb.seen
  BY <1>1 DEF UsbState
<1>3. UsbNotifyFrom(v)
  BY DEF AbortedReportDone
<1> HIDE DEF v
<1>4. UsbOk(v)
  BY <1>2 DEF UsbOk
<1>5. UsbAccounts(cache, v)
  BY <1>1, <1>2, UsbSentIs DEF UsbGood, UsbAccounts
<1> QED
  BY <1>3, <1>4, <1>5, UsbNotifyStep

(***************************************************************************)
(* The host takes the interface away, with the transfer in flight.         *)
(***************************************************************************)
LEMMA UsbCancels ==
  ASSUME UsbGood(cache, usb, Coming)
  PROVE  LET v == Cancelled(usb)
         IN /\ v \in UsbState /\ v.wire = <<>> /\ v.seen = usb.seen /\ v.busy = usb.busy
            /\ v.reset = usb.reset /\ v.aborted = usb.aborted
            /\ UsbAccounts(cache, v)
<1> DEFINE gone == {t.src : t \in {usb.wire[n] : n \in DOMAIN usb.wire}}
           v == [usb EXCEPT !.wire = <<>>, !.lost = usb.lost \union gone]
<1>1. usb \in UsbState /\ UsbAccounts(cache, usb)
      /\ (usb.wire # <<>> => usb.wire = <<usb.buf>> /\ usb.buf.src \in Reports)
  BY DEF UsbGood, UsbOk
<1>2. usb.wire = <<>> \/ (usb.wire = <<usb.buf>> /\ usb.buf.src \in Reports)
  BY <1>1
<1>3. gone = {t.src : t \in {}} \/ (usb.wire = <<usb.buf>> /\ gone = {usb.buf.src})
  BY <1>2
<1>4. gone \subseteq Reports /\ (usb.wire # <<>> => usb.buf.src \in gone)
  BY <1>2, <1>3
<1> HIDE DEF gone
<1>5. /\ v \in UsbState /\ v.wire = <<>> /\ v.seen = usb.seen /\ v.lost = usb.lost \union gone
      /\ v.busy = usb.busy /\ v.reset = usb.reset /\ v.aborted = usb.aborted
  BY <1>1, <1>4 DEF UsbState
<1>6. Cancelled(usb) = v
  BY DEF Cancelled, gone
<1> HIDE DEF v
<1>7. \A r \in Reports : r \notin gone => UsbSent(v, r) = UsbSent(usb, r)
  BY <1>2, <1>4, <1>5, UsbSentIs
<1>8. UsbAccounts(cache, v)
  BY <1>1, <1>5, <1>7 DEF UsbAccounts
<1> QED
  BY <1>5, <1>6, <1>8

LEMMA UsbDownStep ==
  ASSUME UsbGood(cache, usb, Coming), IfaceDown
  PROVE  UsbGood(cache', usb', Coming)
<1> DEFINE v == Cancelled(usb)
           a == usb.aborted \/ usb.wire # <<>>
<1>1. /\ v \in UsbState /\ v.wire = <<>> /\ v.seen = usb.seen /\ v.busy = usb.busy
      /\ v.reset = usb.reset /\ v.aborted = usb.aborted
      /\ UsbAccounts(cache, v)
  BY UsbCancels
<1>2. UsbOk(usb) /\ a \in BOOLEAN /\ cache' = cache
  BY DEF UsbGood, UsbOk, UsbState, IfaceDown
<1>3. usb' = [v EXCEPT !.connected = FALSE, !.aborted = a]
  BY <1>1 DEF IfaceDown
<1> HIDE DEF v, a
<1>4. /\ usb' \in UsbState /\ usb'.wire = <<>> /\ usb'.seen = v.seen /\ usb'.lost = v.lost
      /\ usb'.busy = v.busy /\ usb'.reset = v.reset /\ usb'.aborted = a /\ ~usb'.connected
  BY <1>1, <1>2, <1>3 DEF UsbState
<1>5. UsbOk(usb')
  BY <1>1, <1>2, <1>4 DEF UsbOk, a
<1>6. UsbAccounts(cache', usb')
  BY <1>1, <1>2, <1>4, UsbSentIs DEF UsbAccounts
<1> QED
  BY <1>4, <1>5, <1>6 DEF UsbGood, UsbAwake, UsbReady

LEMMA UsbResetStep ==
  ASSUME UsbGood(cache, usb, Coming), BusReset
  PROVE  UsbGood(cache', usb', Coming)
<1> DEFINE v == Cancelled(usb)
<1>1. v \in UsbState /\ v.wire = <<>> /\ v.aborted = usb.aborted
  BY UsbCancels
<1>2. PICK a \in BOOLEAN :
        usb' = [v EXCEPT !.connected = FALSE, !.reset = TRUE, !.aborted = a,
                         !.seen = [r \in Reports |-> {}], !.lost = Reports]
  <2>1. PICK reported \in BOOLEAN :
          usb' = [v EXCEPT !.connected = FALSE, !.reset = TRUE,
                           !.aborted = v.aborted \/ (reported /\ usb.wire # <<>>),
                           !.seen = [r \in Reports |-> {}], !.lost = Reports]
    BY DEF BusReset
  <2> DEFINE a == v.aborted \/ (reported /\ usb.wire # <<>>)
  <2>2. a \in BOOLEAN
    BY <1>1 DEF UsbState
  <2> QED
    BY <2>1, <2>2
<1> HIDE DEF v
<1>3. /\ usb' \in UsbState /\ usb'.wire = <<>> /\ usb'.lost = Reports
      /\ usb'.reset /\ ~usb'.connected
  BY <1>1, <1>2 DEF UsbState
<1>4. UsbOk(usb') /\ UsbAccounts(cache', usb')
  BY <1>3 DEF UsbOk, UsbAccounts
<1> QED
  BY <1>3, <1>4 DEF UsbGood, UsbAwake, UsbReady

\* hid_reset_cb comes while the interface is down: no transfer is freed by it.
LEMMA UsbResetCbStep ==
  ASSUME UsbGood(cache, usb, Coming), HidResetCb
  PROVE  UsbGood(cache', usb', Coming)
<1>1. usb \in UsbState /\ UsbAccounts(cache, usb) /\ ~usb.connected /\ usb.wire = <<>> /\ cache' = cache
  BY DEF UsbGood, UsbOk, HidResetCb
<1>2. /\ usb' \in UsbState /\ usb'.wire = <<>> /\ usb'.seen = usb.seen /\ usb'.lost = usb.lost
      /\ ~usb'.connected /\ ~usb'.busy /\ usb'.stalled
  BY <1>1 DEF HidResetCb, UsbState
<1>3. UsbOk(usb')
  BY <1>2 DEF UsbOk
<1>4. UsbAccounts(cache', usb')
  BY <1>1, <1>2, UsbSentIs DEF UsbAccounts
<1> QED
  BY <1>2, <1>3, <1>4 DEF UsbGood, UsbAwake

(***************************************************************************)
(* What the link's state changes leave alone: the transfer with the stack, *)
(* and what the host has seen.                                             *)
(***************************************************************************)
LEMMA UsbLinkStep ==
  ASSUME UsbGood(cache, usb, Coming), cache' = cache,
         usb' \in UsbState, usb'.wire = usb.wire, usb'.buf = usb.buf, usb'.busy = usb.busy,
         usb'.seen = usb.seen, usb'.lost = usb.lost, usb'.reset = usb.reset, usb'.aborted = usb.aborted,
         usb'.connected = usb.connected \/ (usb'.connected /\ ~usb.reset /\ ~usb.aborted),
         usb'.stalled \/ (usb'.stalled = usb.stalled /\ (UsbReady(usb') => UsbReady(usb)))
  PROVE  UsbGood(cache', usb', Coming)
<1>1. UsbOk(usb')
  BY DEF UsbGood, UsbOk, UsbState
<1>2. UsbAccounts(cache', usb')
  BY DEF UsbGood, UsbAccounts, UsbSent
<1>3. UsbAwake(cache', usb', Coming)
  BY DEF UsbGood, UsbAwake
<1> QED
  BY <1>1, <1>2, <1>3 DEF UsbGood

LEMMA UsbUpStep ==
  ASSUME UsbGood(cache, usb, Coming), IfaceUp
  PROVE  UsbGood(cache', usb', Coming)
<1>1. usb \in UsbState
  BY DEF UsbGood, UsbOk
<1>2. /\ usb' \in UsbState /\ usb'.wire = usb.wire /\ usb'.buf = usb.buf /\ usb'.busy = usb.busy
      /\ usb'.seen = usb.seen /\ usb'.lost = usb.lost /\ usb'.reset = usb.reset
      /\ usb'.aborted = usb.aborted /\ usb'.connected /\ usb'.stalled
  BY <1>1 DEF IfaceUp, UsbState
<1> QED
  BY <1>2, UsbLinkStep DEF IfaceUp

LEMMA UsbProtocolStep ==
  ASSUME UsbGood(cache, usb, Coming), NEW b \in BOOLEAN, SetProtocol(b)
  PROVE  UsbGood(cache', usb', Coming)
<1>1. usb \in UsbState
  BY DEF UsbGood, UsbOk
<1>2. /\ usb' \in UsbState /\ usb'.wire = usb.wire /\ usb'.buf = usb.buf /\ usb'.busy = usb.busy
      /\ usb'.seen = usb.seen /\ usb'.lost = usb.lost /\ usb'.reset = usb.reset
      /\ usb'.aborted = usb.aborted /\ usb'.connected = usb.connected /\ usb'.stalled = usb.stalled
      /\ usb'.suspended = usb.suspended
  BY <1>1 DEF SetProtocol, UsbState
<1> QED
  BY <1>2, UsbLinkStep DEF SetProtocol, UsbReady

LEMMA UsbPmStep ==
  ASSUME UsbGood(cache, usb, Coming), NEW b \in BOOLEAN, PmAction(b)
  PROVE  UsbGood(cache', usb', Coming)
<1>1. usb \in UsbState
  BY DEF UsbGood, UsbOk
<1> DEFINE s == usb.stalled \/ usb.suspended
<1>2. s \in BOOLEAN /\ usb' = [usb EXCEPT !.suspended = b, !.stalled = s]
  BY <1>1 DEF PmAction, UsbState
<1> HIDE DEF s
<1>3. /\ usb' \in UsbState /\ usb'.wire = usb.wire /\ usb'.buf = usb.buf /\ usb'.busy = usb.busy
      /\ usb'.seen = usb.seen /\ usb'.lost = usb.lost /\ usb'.reset = usb.reset
      /\ usb'.aborted = usb.aborted /\ usb'.connected = usb.connected /\ usb'.stalled = s
      /\ usb'.suspended = b
  BY <1>1, <1>2 DEF UsbState
<1>4. usb'.stalled \/ (usb'.stalled = usb.stalled /\ (UsbReady(usb') => UsbReady(usb)))
  BY <1>1, <1>3 DEF s, UsbReady, UsbState
<1> QED
  BY <1>3, <1>4, UsbLinkStep DEF PmAction

(***************************************************************************)
(* GET_REPORT: the copy the host reads is the cache's, unless an older one *)
(* is still to arrive behind it.                                           *)
(***************************************************************************)
LEMMA UsbGetReportStep ==
  ASSUME Tidy(cache), UsbGood(cache, usb, Coming), NEW r \in Reports, UsbGetReport(r)
  PROVE  UsbGood(cache', usb', Coming) /\ Drawn(cache, cache', UsbOut)
<1> DEFINE taken == \E n \in DOMAIN usb.wire : usb.wire[n].src = r
<1>1. PICK i \in SlotById(cache, UsbOut, r) :
        /\ cache' = Collected(cache, i)
        /\ usb' = IF taken THEN [usb EXCEPT !.lost = usb.lost \union {r}]
                  ELSE [usb EXCEPT !.seen[r] = cache[i].abs, !.lost = usb.lost \ {r}]
  BY DEF UsbGetReport
<1>2. /\ Collects(cache, cache', i) /\ cache[i].out = UsbOut /\ cache[i].src = r /\ i \in Slots
      /\ cache[i].abs \in SUBSET Keys
  BY <1>1, UsbAssumption DEF SlotById, Collects, Tidy, Entry
<1>3. /\ View(cache', r, UsbOut) = cache'[i]
      /\ \A q \in Reports : q # r => View(cache', q, UsbOut) = View(cache, q, UsbOut)
      /\ cache'[i].abs = cache[i].abs
      /\ Pending(cache', UsbOut) \subseteq Pending(cache, UsbOut)
  <2>1. HandedOut(cache, cache', {i})
    BY <1>2, CollectsFrom
  <2> QED
    BY <1>2, <2>1, CollectsFrom, PendingShrinks DEF HandedOut
<1>4. usb \in UsbState /\ UsbOk(usb) /\ (usb.wire = <<>> \/ usb.wire = <<usb.buf>>)
  BY DEF UsbGood, UsbOk
<1>5. /\ usb' \in UsbState /\ usb'.wire = usb.wire /\ usb'.buf = usb.buf /\ usb'.busy = usb.busy
      /\ usb'.reset = usb.reset /\ usb'.aborted = usb.aborted /\ usb'.connected = usb.connected
      /\ usb'.stalled = usb.stalled /\ usb'.suspended = usb.suspended
      /\ taken => usb'.lost = usb.lost \union {r} /\ usb'.seen = usb.seen
      /\ ~taken => usb'.lost = usb.lost \ {r} /\ usb'.seen = [usb.seen EXCEPT ![r] = cache[i].abs]
  <2>1. CASE taken
    BY <1>1, <1>4, <2>1 DEF UsbState
  <2>2. CASE ~taken
    BY <1>1, <1>2, <1>4, <2>2 DEF UsbState
  <2> QED
    BY <2>1, <2>2
<1>6. UsbOk(usb')
  BY <1>4, <1>5 DEF UsbOk
<1>7. \A q \in Reports : q # r => UsbSent(usb', q) = UsbSent(usb, q) /\ (q \in usb.lost => q \in usb'.lost)
  <2>1. usb.seen \in [Reports -> SUBSET Keys]
    BY <1>4 DEF UsbState
  <2> QED
    BY <1>4, <1>5, <2>1, UsbSentIs
<1>8. CASE taken
  <2>1. r \in usb'.lost
    BY <1>5, <1>8
  <2> QED
    BY <1>2, <1>3, <1>5, <1>6, <1>7, <2>1 DEF UsbGood, UsbAccounts, UsbAwake, UsbReady, Drawn
<1>9. CASE ~taken
  <2>1. UsbSent(usb', r) = usb'.seen[r]
    BY <1>5, <1>9 DEF UsbSent
  <2>2. UsbSent(usb', r) = View(cache', r, UsbOut).abs
    BY <1>3, <1>4, <1>5, <1>9, <2>1 DEF UsbState
  <2> QED
    BY <1>2, <1>3, <1>5, <1>6, <1>7, <2>2 DEF UsbGood, UsbAccounts, UsbAwake, UsbReady, Drawn
<1> QED
  BY <1>8, <1>9

(***************************************************************************)
(* Whatever the USB host and stack do.                                     *)
(***************************************************************************)
LEMMA UsbHostStep ==
  ASSUME Tidy(cache), UsbGood(cache, usb, Coming), UsbHost
  PROVE  UsbGood(cache', usb', Coming) /\ Drawn(cache, cache', UsbOut) /\ UNCHANGED hidvars
<1>1. CASE InputReportDone
  BY <1>1, UsbDoneStep DEF InputReportDone
<1>2. CASE AbortedReportDone
  BY <1>2, UsbAbortedStep DEF AbortedReportDone
<1>3. CASE IfaceDown
  BY <1>3, UsbDownStep DEF IfaceDown, Drawn
<1>4. CASE BusReset
  BY <1>4, UsbResetStep DEF BusReset, Drawn
<1>5. CASE HidResetCb
  BY <1>5, UsbResetCbStep DEF HidResetCb, Drawn
<1>6. CASE IfaceUp
  BY <1>6, UsbUpStep DEF IfaceUp, Drawn
<1>7. ASSUME NEW b \in BOOLEAN, SetProtocol(b)
      PROVE  UsbGood(cache', usb', Coming) /\ Drawn(cache, cache', UsbOut) /\ UNCHANGED hidvars
  BY <1>7, UsbProtocolStep DEF SetProtocol, Drawn
<1>8. ASSUME NEW b \in BOOLEAN, PmAction(b)
      PROVE  UsbGood(cache', usb', Coming) /\ Drawn(cache, cache', UsbOut) /\ UNCHANGED hidvars
  BY <1>8, UsbPmStep DEF PmAction, Drawn
<1>9. ASSUME NEW r \in Reports, UsbGetReport(r)
      PROVE  UsbGood(cache', usb', Coming) /\ Drawn(cache, cache', UsbOut) /\ UNCHANGED hidvars
  BY <1>9, UsbGetReportStep DEF UsbGetReport
<1> QED
  BY <1>1, <1>2, <1>3, <1>4, <1>5, <1>6, <1>7, <1>8, <1>9 DEF UsbHost
-----------------------------------------------------------------------------
(***************************************************************************)
(* What an input driver and hid_update_buffers do, as the outputs see it:  *)
(* a call of the outputs is to come, and a report is as it was, or marked, *)
(* or shows the same keys.                                                 *)
(***************************************************************************)
Moved(c, d, r, o) ==
  \/ View(d, r, o) = View(c, r, o)
  \/ View(d, r, o).updated
  \/ ~View(c, r, o).updated /\ View(d, r, o).abs = View(c, r, o).abs

LEMMA InputMoves ==
  ASSUME CacheInv, InputSide
  PROVE  CacheInv' /\ Coming' /\ \A r \in Reports, o \in OutputSet : Moved(cache, cache', r, o)
<1>0. CacheInv'
  BY InvNext DEF Next
<1>1. ASSUME NEW r \in Reports, NEW ev \in Events(r), InputEvent(r, ev)
      PROVE  upd' # Idle /\ cache' = cache
  BY <1>1, NullAssumption DEF InputEvent, Idle
<1>2. CASE UpdateOutput
  <2>1. upd' # Idle
    BY <1>2, LoopStep
  <2>2. /\ Served(View(cache, upd.src, Outputs[upd.k]), View(cache', upd.src, Outputs[upd.k]), upd.src)
        /\ \A q \in Reports, p \in OutputSet : ~(q = upd.src /\ p = Outputs[upd.k])
             => View(cache', q, p) = View(cache, q, p)
    BY <1>2, UpdateView
  <2> QED
    BY <1>0, <2>1, <2>2 DEF Coming, Moved, Served
<1>3. CASE UpdateDone
  BY <1>0, <1>3 DEF UpdateDone, Coming, Moved
<1> QED
  BY <1>0, <1>1, <1>2, <1>3 DEF InputSide, Coming, Moved

(***************************************************************************)
(* Collecting by an output, as the rest of the device sees it.             *)
(***************************************************************************)
LEMMA DrawnSound ==
  ASSUME NEW c, NEW d, NEW o, Tidy(c), Drawn(c, d, o)
  PROVE  /\ Tidy(d)
         /\ \E I \in SUBSET Slots : HandedOut(c, d, I) /\ \A i \in I : c[i].src \in Reports
         /\ \A q \in Reports : \A p : p # o => View(d, q, p) = View(c, q, p)
         /\ \A p : Pending(d, p) \subseteq Pending(c, p)
         /\ \A j \in Slots : d[j].src = c[j].src
<1>1. CASE d = c
  <2>1. HandedOut(c, d, {})
    BY <1>1 DEF HandedOut
  <2> QED
    BY <1>1, <2>1
<1>2. ASSUME NEW i \in Slots, Collects(c, d, i), c[i].out = o
      PROVE  /\ Tidy(d)
             /\ HandedOut(c, d, {i}) /\ c[i].src \in Reports
             /\ \A q \in Reports : \A p : p # o => View(d, q, p) = View(c, q, p)
             /\ \A p : Pending(d, p) \subseteq Pending(c, p)
             /\ \A j \in Slots : d[j].src = c[j].src
  BY <1>2, CollectsFrom, PendingShrinks DEF Collects
<1>3. CASE \E i \in Slots : Collects(c, d, i) /\ c[i].out = o
  <2>1. PICK i \in Slots : Collects(c, d, i) /\ c[i].out = o
    BY <1>3
  <2>2. /\ Tidy(d)
        /\ HandedOut(c, d, {i}) /\ c[i].src \in Reports
        /\ \A q \in Reports : \A p : p # o => View(d, q, p) = View(c, q, p)
        /\ \A p : Pending(d, p) \subseteq Pending(c, p)
        /\ \A j \in Slots : d[j].src = c[j].src
    BY <1>2, <2>1
  <2>3. {i} \in SUBSET Slots /\ \A j \in {i} : c[j].src \in Reports
    BY <2>1, <2>2
  <2> QED
    BY <2>2, <2>3
<1> QED
  BY <1>1, <1>3 DEF Drawn

LEMMA DrawnCache ==
  ASSUME CacheInv, NEW o, Drawn(cache, cache', o), held' = held, upd' = upd, notify' \in BOOLEAN
  PROVE  CacheInv'
<1>1. Tidy(cache)
  BY CacheTidy
<1>2. /\ Tidy(cache')
      /\ \E I \in SUBSET Slots : HandedOut(cache, cache', I) /\ \A i \in I : cache[i].src \in Reports
  BY <1>1, DrawnSound
<1> QED
  BY <1>2, CacheKept

(***************************************************************************)
(* The invariant at the start and while the input side moves; and seen     *)
(* from an output that another one collects beside.                        *)
(***************************************************************************)
LEMMA FirstView == Init => \A r \in Reports : \A o \in OutputSet : View(cache, r, o) = FreeSlot
<1> SUFFICES ASSUME Init, NEW r \in Reports, NEW o \in OutputSet PROVE View(cache, r, o) = FreeSlot
  OBVIOUS
<1>1. \A i \in Slots : cache[i] = FreeSlot
  BY DEF Init
<1>2. \A i \in Slots : ~IsSlotOf(cache, i, r, o)
  BY <1>1, NullAssumption DEF IsSlotOf, FreeSlot
<1> QED
  BY <1>2, ViewNone

LEMMA UsbStarts == UsbOnlyInit => UsbGood(cache, usb, Coming)
<1> SUFFICES ASSUME UsbOnlyInit PROVE UsbGood(cache, usb, Coming)
  OBVIOUS
<1>1. usb \in UsbState /\ usb.wire = <<>> /\ ~usb.busy /\ ~usb.connected /\ usb.seen = [r \in Reports |-> {}]
  BY DEF UsbOnlyInit, UsbInit, UsbState, UsbBuf
<1>2. UsbOk(usb) /\ UsbAwake(cache, usb, Coming)
  BY <1>1 DEF UsbOk, UsbAwake, UsbReady
<1>3. \A r \in Reports : UsbSent(usb, r) = {} /\ View(cache, r, UsbOut).abs = {}
  BY <1>1, FirstView, UsbAssumption, UsbSentIs DEF FreeSlot, UsbOnlyInit
<1> QED
  BY <1>2, <1>3 DEF UsbGood, UsbAccounts

LEMMA UsbWaits ==
  ASSUME CacheInv, InputSide, usb' = usb, UsbGood(cache, usb, Coming)
  PROVE  UsbGood(cache', usb', Coming')
<1>1. Coming' /\ \A r \in Reports : Moved(cache, cache', r, UsbOut)
  BY InputMoves, UsbAssumption
<1>2. UsbAccounts(cache', usb')
  <2> SUFFICES ASSUME NEW r \in Reports
               PROVE  \/ UsbSent(usb, r) = View(cache', r, UsbOut).abs
                      \/ View(cache', r, UsbOut).updated
                      \/ r \in usb.lost
    BY DEF UsbAccounts
  <2> QED
    BY <1>1 DEF UsbGood, UsbAccounts, Moved
<1> QED
  BY <1>1, <1>2 DEF UsbGood, UsbAwake

LEMMA UsbBeside ==
  ASSUME NEW c, NEW d, NEW u, NEW coming, NEW o, o # UsbOut, Tidy(c), Drawn(c, d, o),
         UsbGood(c, u, coming)
  PROVE  UsbGood(d, u, coming)
<1>1. /\ \A q \in Reports : View(d, q, UsbOut) = View(c, q, UsbOut)
      /\ Pending(d, UsbOut) \subseteq Pending(c, UsbOut)
  BY DrawnSound
<1> QED
  BY <1>1 DEF UsbGood, UsbAccounts, UsbAwake

\* The notify work item makes the call it stands for.
LEMMA UsbWorks ==
  ASSUME CacheInv, UsbGood(cache, usb, Coming), UsbNotifyWorker
  PROVE  UsbGood(cache', usb', Coming') /\ Drawn(cache, cache', UsbOut)
<1>1. Tidy(cache)
  BY CacheTidy
<1>2. \A coming : UsbGood(cache', usb', coming) /\ Drawn(cache, cache', UsbOut)
  BY <1>1, UsbNotifyStep DEF UsbGood, UsbNotifyWorker
<1> QED
  BY <1>2

UsbSound == CacheInv /\ UsbGood(cache, usb, Coming)

LEMMA UsbSoundNext == UsbSound /\ [UsbOnlyNext]_usbvars => UsbSound'
<1> SUFFICES ASSUME UsbSound, [UsbOnlyNext]_usbvars PROVE UsbSound'
  OBVIOUS
<1>1. CASE InputSide /\ UNCHANGED usb
  BY <1>1, InputMoves, UsbWaits DEF UsbSound
<1>2. CASE UsbNotifyWorker
  BY <1>2, UsbWorks, DrawnCache DEF UsbSound, UsbNotifyWorker
<1>3. CASE UsbHost
  <2>1. UsbGood(cache', usb', Coming) /\ Drawn(cache, cache', UsbOut) /\ UNCHANGED hidvars
    BY <1>3, CacheTidy, UsbHostStep DEF UsbSound
  <2>2. notify' \in BOOLEAN /\ (Coming' <=> Coming)
    BY <2>1 DEF UsbSound, CacheInv, TypeOK, hidvars, Coming
  <2>3. CacheInv'
    BY <2>1, <2>2, DrawnCache DEF UsbSound, hidvars
  <2> QED
    BY <2>1, <2>2, <2>3 DEF UsbSound, UsbGood, UsbAwake
<1>4. CASE UNCHANGED usbvars
  <2>1. [Next]_vars /\ cache' = cache /\ usb' = usb /\ upd' = upd /\ notify' = notify
    BY <1>4 DEF usbvars, vars
  <2>2. CacheInv'
    BY <2>1, InvNext DEF UsbSound
  <2> QED
    BY <2>1, <2>2 DEF UsbSound, Coming
<1> QED
  BY <1>1, <1>2, <1>3, <1>4 DEF UsbOnlyNext

(***************************************************************************)
(* The inductive invariant of a device with a USB output: the cache's own, *)
(* the agreement of driver and stack, and an account of every report and   *)
(* every wake-up.                                                          *)
(***************************************************************************)
THEOREM UsbStaysSound == UsbOnlySpec => []UsbSound
<1>1. UsbOnlyInit => UsbSound
  BY InvInit, UsbStarts DEF UsbSound, UsbOnlyInit
<1> QED
  BY <1>1, UsbSoundNext, PTL DEF UsbOnlySpec

LEMMA UsbGoodMeans ==
  CacheInv /\ UsbGood(cache, usb, Coming) => UsbInv /\ UsbNoSilentLoss /\ UsbNoLostWakeup
<1> SUFFICES ASSUME CacheInv, UsbGood(cache, usb, Coming)
             PROVE  UsbInv /\ UsbNoSilentLoss /\ UsbNoLostWakeup
  OBVIOUS
<1>1. UsbInv
  BY DEF UsbGood, UsbOk, UsbInv, UsbType, UsbOneTransfer, UsbBusyCleared
<1>2. UsbNoSilentLoss
  BY CacheTidy, ViewFacts DEF UsbGood, UsbAccounts, UsbNoSilentLoss, Tidy, Shown, LastSent
<1>3. UsbNoLostWakeup
  BY DEF UsbGood, UsbAwake, UsbNoLostWakeup, Coming
<1> QED
  BY <1>1, <1>2, <1>3

(***************************************************************************)
(* One transfer at a time, sent from a buffer nobody touches meanwhile,    *)
(* and busy is never left set with nothing to come that clears it: for any *)
(* order of completions, cancellations, bus resets and their late messages.*)
(***************************************************************************)
THEOREM UsbAgreement == UsbOnlySpec => []UsbInv
BY UsbStaysSound, UsbGoodMeans, PTL DEF UsbSound

(***************************************************************************)
(* What the host has, or is being sent, is what the cache shows, unless    *)
(* the report is marked or the link has cost a copy of it.                 *)
(***************************************************************************)
THEOREM UsbLosesNothing == UsbOnlySpec => []UsbNoSilentLoss
BY UsbStaysSound, UsbGoodMeans, PTL DEF UsbSound

(***************************************************************************)
(* A report that waits on a usable, idle link is going to be asked for.    *)
(***************************************************************************)
THEOREM UsbStaysAwake == UsbOnlySpec => []UsbNoLostWakeup
BY UsbStaysSound, UsbGoodMeans, PTL DEF UsbSound
-----------------------------------------------------------------------------
(***************************************************************************)
(* Bluetooth.  The invariant of the driver alone: at most one notification *)
(* and one read response are in the air, in either order, and busy is set  *)
(* exactly with the notification.                                          *)
(***************************************************************************)
Airs == UNION {[1 .. n -> Airborne] : n \in 0 .. 2}

HogOk(h) ==
  /\ h \in HogState
  /\ \/ h.air = <<>> /\ ~h.busy
     \/ \E a \in Airborne : h.air = <<a>> /\ (h.busy <=> a.note)
     \/ \E a, b \in Airborne : h.air = <<a, b>> /\ h.busy /\ (a.note <=> ~b.note)

\* HogNoSilentLoss of cache c and driver h.
HogAccounts(c, h) ==
  \A r \in Reports :
    \/ HogSent(h, r) = View(c, r, HogOut).abs
    \/ View(c, r, HogOut).updated
    \/ r \in h.lost

\* HogNoLostWakeup of cache c and driver h, with or without a call to come.
HogAwake(c, h, coming) ==
  ~h.busy /\ (\E i \in Pending(c, HogOut) : HogReady(h, c[i].src)) => coming \/ h.stalled

HogGood(c, h, coming) == HogOk(h) /\ HogAccounts(c, h) /\ HogAwake(c, h, coming)

LEMMA AirTyped == <<>> \in Airs /\ \A a, b \in Airborne : <<a>> \in Airs /\ <<a, b>> \in Airs
<1>1. <<>> \in [1 .. 0 -> Airborne]
  OBVIOUS
<1>2. ASSUME NEW a \in Airborne, NEW b \in Airborne
      PROVE  <<a>> \in [1 .. 1 -> Airborne] /\ <<a, b>> \in [1 .. 2 -> Airborne]
  OBVIOUS
<1> QED
  BY <1>1, <1>2 DEF Airs

(***************************************************************************)
(* The last copy of a report that was sent: the later one in the air, or   *)
(* what the host has seen.                                                 *)
(***************************************************************************)
LEMMA HogSentIs ==
  ASSUME NEW h, NEW r
  PROVE  /\ h.air = <<>> => HogSent(h, r) = h.seen[r]
         /\ \A a : h.air = <<a>> => HogSent(h, r) = IF a.src = r THEN a.abs ELSE h.seen[r]
         /\ \A a, b : h.air = <<a, b>> =>
              HogSent(h, r) = IF b.src = r THEN b.abs ELSE IF a.src = r THEN a.abs ELSE h.seen[r]
<1> DEFINE S == {n \in DOMAIN h.air : h.air[n].src = r}
<1>1. HogSent(h, r) = IF S = {} THEN h.seen[r] ELSE h.air[CHOOSE n \in S : \A m \in S : m <= n].abs
  BY DEF HogSent
<1>2. CASE h.air = <<>>
  BY <1>1, <1>2
<1>3. ASSUME NEW a, h.air = <<a>>
      PROVE  HogSent(h, r) = IF a.src = r THEN a.abs ELSE h.seen[r]
  <2>1. S = IF a.src = r THEN {1} ELSE {}
    BY <1>3
  <2>2. a.src = r => (CHOOSE n \in S : \A m \in S : m <= n) = 1
    BY <2>1
  <2> QED
    BY <1>1, <1>3, <2>1, <2>2
<1>4. ASSUME NEW a, NEW b, h.air = <<a, b>>
      PROVE  HogSent(h, r) = IF b.src = r THEN b.abs ELSE IF a.src = r THEN a.abs ELSE h.seen[r]
  <2>1. S = {n \in {1, 2} : h.air[n].src = r} /\ h.air[1] = a /\ h.air[2] = b
    BY <1>4
  <2> DEFINE latest == CHOOSE n \in S : \A m \in S : m <= n
  <2>2. CASE b.src = r
    <3>1. 2 \in S /\ \A m \in S : m <= 2
      BY <2>1, <2>2
    <3>2. latest \in S /\ 2 <= latest
      BY <3>1
    <3> QED
      BY <1>1, <2>1, <2>2, <3>1, <3>2
  <2>3. CASE b.src # r /\ a.src = r
    <3>1. S = {1}
      BY <2>1, <2>3
    <3>2. latest = 1
      BY <3>1
    <3> QED
      BY <1>1, <2>1, <2>3, <3>1, <3>2
  <2>4. CASE b.src # r /\ a.src # r
    <3>1. S = {}
      BY <2>1, <2>4
    <3> QED
      BY <1>1, <2>4, <3>1
  <2> QED
    BY <2>2, <2>3, <2>4
<1> QED
  BY <1>2, <1>3, <1>4

\* The notification is the only one: the driver and the stack agree.
LEMMA HogOkExact == HogOk(hog) => HogBusyExact
<1> SUFFICES ASSUME HogOk(hog) PROVE HogBusyExact
  OBVIOUS
<1> DEFINE S == {n \in DOMAIN hog.air : hog.air[n].note}
<1>1. IF hog.busy THEN \E n \in {1, 2} : S = {n} ELSE S = {}
  <2>1. CASE hog.air = <<>> /\ ~hog.busy
    BY <2>1
  <2>2. ASSUME NEW a \in Airborne, hog.air = <<a>>, hog.busy <=> a.note
        PROVE  IF hog.busy THEN S = {1} ELSE S = {}
    BY <2>2
  <2>3. ASSUME NEW a \in Airborne, NEW b \in Airborne, hog.air = <<a, b>>, hog.busy, a.note <=> ~b.note
        PROVE  S = {1} \/ S = {2}
    BY <2>3
  <2> QED
    BY <2>1, <2>2, <2>3 DEF HogOk
<1> HIDE DEF S
<1>2. Cardinality(S) = IF hog.busy THEN 1 ELSE 0
  BY <1>1, FS_EmptySet, FS_Singleton
<1> QED
  BY <1>2 DEF HogBusyExact, S

LEMMA AppendSecond ==
  ASSUME NEW A, NEW a \in A, NEW x \in A
  PROVE  Append(<<a>>, x) = <<a, x>>
<1> DEFINE s == Append(<<a>>, x)
           t == <<a, x>>
<1>1. /\ <<a>> \in Seq(A) /\ Len(<<a>>) = 1 /\ <<a>>[1] = a
      /\ t \in Seq(A) /\ Len(t) = 2 /\ t[1] = a /\ t[2] = x
  OBVIOUS
<1>2. /\ s \in Seq(A) /\ Len(s) = Len(<<a>>) + 1
      /\ \A i \in 1 .. Len(<<a>>) : s[i] = <<a>>[i]
      /\ s[Len(<<a>>) + 1] = x
  BY <1>1, AppendProperties
<1>3. Len(s) = 2 /\ \A i \in 1 .. 2 : s[i] = t[i]
  BY <1>1, <1>2
<1> HIDE DEF s, t
<1>4. s = t
  BY <1>1, <1>2, <1>3, SeqEqual
<1> QED
  BY <1>4 DEF s, t

(***************************************************************************)
(* A report joins those in the air: behind the other kind, or alone.       *)
(***************************************************************************)
LEMMA HogJoins ==
  ASSUME NEW h, HogOk(h), NEW x \in Airborne, x.note => ~h.busy,
         ~x.note => \A n \in DOMAIN h.air : h.air[n].note,
         NEW s \in HogState, s.air = Append(h.air, x), s.seen = h.seen, s.busy <=> h.busy \/ x.note
  PROVE  /\ HogOk(s)
         /\ \A r \in Reports : HogSent(s, r) = IF r = x.src THEN x.abs ELSE HogSent(h, r)
<1>1. CASE h.air = <<>>
  <2>1. s.air = <<x>> /\ ~h.busy
    BY <1>1 DEF HogOk
  <2> QED
    BY <1>1, <2>1, HogSentIs DEF HogOk
<1>2. ASSUME NEW a \in Airborne, h.air = <<a>>, h.busy <=> a.note
      PROVE  /\ HogOk(s)
             /\ \A r \in Reports : HogSent(s, r) = IF r = x.src THEN x.abs ELSE HogSent(h, r)
  <2>1. s.air = <<a, x>>
    BY <1>2, AppendSecond
  <2>2. a.note <=> ~x.note
    <3>1. 1 \in DOMAIN h.air /\ h.air[1] = a
      BY <1>2
    <3> QED
      BY <1>2, <3>1
  <2>3. HogOk(s)
    BY <1>2, <2>1, <2>2 DEF HogOk
  <2>4. ASSUME NEW r \in Reports
        PROVE  HogSent(s, r) = IF r = x.src THEN x.abs ELSE HogSent(h, r)
    <3>1. HogSent(s, r) = IF x.src = r THEN x.abs ELSE IF a.src = r THEN a.abs ELSE h.seen[r]
      BY <2>1, HogSentIs
    <3>2. HogSent(h, r) = IF a.src = r THEN a.abs ELSE h.seen[r]
      BY <1>2, HogSentIs
    <3> QED
      BY <3>1, <3>2
  <2> QED
    BY <2>3, <2>4
<1>3. ASSUME NEW a \in Airborne, NEW b \in Airborne, h.air = <<a, b>>, h.busy, a.note <=> ~b.note
      PROVE  FALSE
  <2>1. 1 \in DOMAIN h.air /\ 2 \in DOMAIN h.air /\ h.air[1] = a /\ h.air[2] = b
    BY <1>3
  <2> QED
    BY <1>3, <2>1
<1> QED
  BY <1>1, <1>2, <1>3 DEF HogOk

(***************************************************************************)
(* The host receives the first report in the air: what was sent last stays *)
(* what was sent last.                                                     *)
(***************************************************************************)
LEMMA HogReceives ==
  ASSUME NEW h, HogOk(h), h.air # <<>>,
         NEW s \in HogState, s.air = Tail(h.air),
         \A r \in Reports : s.seen[r] = IF r = Head(h.air).src THEN Head(h.air).abs ELSE h.seen[r],
         s.busy <=> h.busy /\ ~Head(h.air).note
  PROVE  HogOk(s) /\ \A r \in Reports : HogSent(s, r) = HogSent(h, r)
<1>1. ASSUME NEW a \in Airborne, h.air = <<a>>, h.busy <=> a.note
      PROVE  HogOk(s) /\ \A r \in Reports : HogSent(s, r) = HogSent(h, r)
  <2>1. Head(h.air) = a /\ Tail(h.air) = <<>>
    BY <1>1
  <2>0. s.air = <<>>
    BY <1>1, <2>1
  <2>2. (\A r \in Reports : s.seen[r] = IF r = a.src THEN a.abs ELSE h.seen[r]) /\ ~s.busy
    BY <1>1, <2>1
  <2>3. ASSUME NEW r \in Reports
        PROVE  HogSent(s, r) = HogSent(h, r)
    <3>1. HogSent(s, r) = s.seen[r]
      BY <2>0, HogSentIs
    <3>2. HogSent(h, r) = IF a.src = r THEN a.abs ELSE h.seen[r]
      BY <1>1, HogSentIs
    <3> QED
      BY <2>2, <3>1, <3>2
  <2> QED
    BY <2>0, <2>2, <2>3 DEF HogOk
<1>2. ASSUME NEW a \in Airborne, NEW b \in Airborne, h.air = <<a, b>>, h.busy, a.note <=> ~b.note
      PROVE  HogOk(s) /\ \A r \in Reports : HogSent(s, r) = HogSent(h, r)
  <2>1. Head(h.air) = a /\ Tail(h.air) = <<b>>
    BY <1>2
  <2>0. s.air = <<b>>
    BY <1>2, <2>1
  <2>2. (\A r \in Reports : s.seen[r] = IF r = a.src THEN a.abs ELSE h.seen[r]) /\ (s.busy <=> b.note)
    BY <1>2, <2>1
  <2>3. ASSUME NEW r \in Reports
        PROVE  HogSent(s, r) = HogSent(h, r)
    <3>1. HogSent(s, r) = IF b.src = r THEN b.abs ELSE s.seen[r]
      BY <2>0, HogSentIs
    <3>2. HogSent(h, r) = IF b.src = r THEN b.abs ELSE IF a.src = r THEN a.abs ELSE h.seen[r]
      BY <1>2, HogSentIs
    <3> QED
      BY <2>2, <3>1, <3>2
  <2> QED
    BY <2>0, <2>2, <2>3 DEF HogOk
<1> QED
  BY <1>1, <1>2 DEF HogOk

LEMMA AirMoves ==
  ASSUME NEW h, HogOk(h)
  PROVE  /\ \A x \in Airborne : (x.note => ~h.busy) /\ (~x.note => \A n \in DOMAIN h.air : h.air[n].note)
                                  => Append(h.air, x) \in Airs
         /\ h.air # <<>> => Tail(h.air) \in Airs /\ Head(h.air) \in Airborne
<1>1. CASE h.air = <<>>
  <2>1. \A x \in Airborne : Append(<<>>, x) = <<x>>
    OBVIOUS
  <2> QED
    BY <1>1, <2>1, AirTyped
<1>2. ASSUME NEW a \in Airborne, h.air = <<a>>
      PROVE  /\ \A x \in Airborne : Append(h.air, x) \in Airs
             /\ Tail(h.air) \in Airs /\ Head(h.air) \in Airborne
  <2>1. \A x \in Airborne : Append(<<a>>, x) \in Airs
    BY AppendSecond, AirTyped
  <2>2. Tail(<<a>>) = <<>> /\ Head(<<a>>) = a
    OBVIOUS
  <2> QED
    BY <1>2, <2>1, <2>2, AirTyped
<1>3. ASSUME NEW a \in Airborne, NEW b \in Airborne, h.air = <<a, b>>, h.busy, a.note <=> ~b.note
      PROVE  /\ \A x \in Airborne : x.note \/ \E n \in DOMAIN h.air : ~h.air[n].note
             /\ Tail(h.air) \in Airs /\ Head(h.air) \in Airborne
  <2>1. Tail(<<a, b>>) = <<b>> /\ Head(<<a, b>>) = a
    OBVIOUS
  <2>2. 1 \in DOMAIN h.air /\ 2 \in DOMAIN h.air /\ h.air[1] = a /\ h.air[2] = b
    BY <1>3
  <2> QED
    BY <1>3, <2>1, <2>2, AirTyped
<1> QED
  BY <1>1, <1>2, <1>3 DEF HogOk

(***************************************************************************)
(* ble_hog_send_report: the report is in the air, or it is noted as lost   *)
(* and the driver as stalled.                                              *)
(***************************************************************************)
LEMMA HogSendOutcome ==
  ASSUME NEW h, HogOk(h), ~h.busy, NEW e \in Entry, e.src \in Reports, NEW s \in HogSend(h, e)
  PROVE  /\ HogOk(s)
         /\ \A r \in Reports : r # e.src => HogSent(s, r) = HogSent(h, r) /\ (r \in h.lost => r \in s.lost)
         /\ HogSent(s, e.src) = e.abs \/ e.src \in s.lost
         /\ s.busy \/ s.stalled
<1>1. h \in HogState /\ e.abs \in SUBSET Keys
  BY DEF HogOk, Entry
<1>2. CASE s = HogDropped(h, e.src)
  <2>1. /\ s \in HogState /\ s.air = h.air /\ s.seen = h.seen /\ s.busy = h.busy /\ s.stalled
        /\ s.lost = h.lost \union {e.src}
    BY <1>1, <1>2 DEF HogDropped, HogState
  <2>2. HogOk(s) /\ \A r \in Reports : HogSent(s, r) = HogSent(h, r)
    BY <2>1 DEF HogOk, HogSent
  <2> QED
    BY <2>1, <2>2
<1>3. CASE s = HogQueued(h, e)
  <2> DEFINE x == [src |-> e.src, abs |-> e.abs, note |-> TRUE]
             air == Append(h.air, x)
  <2>1. x \in Airborne /\ x.note /\ x.src = e.src /\ x.abs = e.abs
    BY <1>1 DEF Airborne
  <2> HIDE DEF x
  <2>2. air \in Airs
    BY <2>1, AirMoves
  <2>3. s = [h EXCEPT !.busy = TRUE, !.lost = h.lost \ {e.src}, !.stalled = FALSE, !.air = air]
    BY <1>3 DEF HogQueued, x
  <2> HIDE DEF air
  <2>4. /\ s \in HogState /\ s.air = air /\ s.seen = h.seen /\ s.busy
        /\ s.lost = h.lost \ {e.src}
    BY <1>1, <2>2, <2>3 DEF HogState, Airs
  <2>5. s.air = Append(h.air, x)
    BY <2>4 DEF air
  <2>6. HogOk(s) /\ \A r \in Reports : HogSent(s, r) = IF r = x.src THEN x.abs ELSE HogSent(h, r)
    BY <2>1, <2>4, <2>5, HogJoins
  <2> QED
    BY <2>1, <2>4, <2>6
<1> QED
  BY <1>2, <1>3 DEF HogSend

(***************************************************************************)
(* ble_hog_notify: nothing happens while a notification is under way or    *)
(* when nothing is marked; otherwise a report is collected and sent or     *)
(* dropped.                                                                *)
(***************************************************************************)
LEMMA HogNotifies ==
  ASSUME NEW c, Tidy(c), NEW h, HogOk(h), HogAccounts(c, h), NEW next \in HogNotify(c, h)
  PROVE  /\ HogOk(next.hog)
         /\ HogAccounts(next.cache, next.hog)
         /\ HogAwake(next.cache, next.hog, FALSE)
         /\ Drawn(c, next.cache, HogOut)
<1>1. CASE next = [cache |-> c, hog |-> h] /\ (h.busy \/ Pending(c, HogOut) = {})
  BY <1>1 DEF HogAwake, Drawn
<1>2. ASSUME ~h.busy, NEW i \in NextReport(c, HogOut), NEW s \in HogSend(h, c[i]),
             next = [cache |-> Collected(c, i), hog |-> s]
      PROVE  /\ HogOk(s)
             /\ HogAccounts(next.cache, s)
             /\ HogAwake(next.cache, s, FALSE)
             /\ Drawn(c, next.cache, HogOut)
  <2> DEFINE e == c[i]
             d == Collected(c, i)
  <2>1. Collects(c, d, i) /\ e.out = HogOut /\ i \in Slots
    BY FirstPending, HogAssumption DEF Collects
  <2>2. e \in Entry /\ e.src \in Reports
    BY <2>1 DEF Collects, Tidy
  <2>3. /\ View(d, e.src, HogOut) = d[i]
        /\ \A q \in Reports : q # e.src => View(d, q, HogOut) = View(c, q, HogOut)
        /\ d[i].abs = e.abs
    <3>1. HandedOut(c, d, {i}) /\ i \in Slots
      BY <2>1, CollectsFrom
    <3> QED
      BY <2>1, <2>2, <3>1, CollectsFrom DEF HandedOut
  <2>4. next.cache = d /\ s \in HogSend(h, e)
    BY <1>2
  <2>5. Drawn(c, d, HogOut)
    BY <2>1 DEF Drawn
  <2> HIDE DEF d, e
  <2>6. /\ HogOk(s)
        /\ \A r \in Reports : r # e.src => HogSent(s, r) = HogSent(h, r) /\ (r \in h.lost => r \in s.lost)
        /\ HogSent(s, e.src) = e.abs \/ e.src \in s.lost
        /\ s.busy \/ s.stalled
    BY <1>2, <2>2, <2>4, HogSendOutcome
  <2>7. View(d, e.src, HogOut).abs = e.abs
    BY <2>3
  <2>8. HogAccounts(d, s)
    BY <2>3, <2>6, <2>7 DEF HogAccounts
  <2>9. HogAwake(d, s, FALSE)
    BY <2>6 DEF HogAwake
  <2> QED
    BY <2>4, <2>5, <2>6, <2>8, <2>9
<1>3. CASE ~h.busy /\ Pending(c, HogOut) # {}
  <2>1. next \in HogCollect(c, h)
    BY <1>3 DEF HogNotify
  <2>2. PICK i \in NextReport(c, HogOut) :
          \E s \in HogSend(h, c[i]) : next = [cache |-> Collected(c, i), hog |-> s]
    BY <2>1 DEF HogCollect
  <2>3. PICK s \in HogSend(h, c[i]) : next = [cache |-> Collected(c, i), hog |-> s]
    BY <2>2
  <2>4. next.hog = s
    BY <2>3
  <2> QED
    BY <1>2, <1>3, <2>3, <2>4
<1> QED
  BY <1>1, <1>3 DEF HogNotify

LEMMA HogNotifyStep ==
  ASSUME Tidy(cache), NEW h, HogOk(h), HogAccounts(cache, h), HogNotifyFrom(h), NEW coming
  PROVE  HogGood(cache', hog', coming) /\ Drawn(cache, cache', HogOut)
<1>1. PICK next \in HogNotify(cache, h) : cache' = next.cache /\ hog' = next.hog
  BY DEF HogNotifyFrom
<1> QED
  BY <1>1, HogNotifies DEF HogGood, HogAwake

(***************************************************************************)
(* The host has what was first in the air; after the notification,         *)
(* ble_hog_notify_cb asks for the next report.                             *)
(***************************************************************************)
LEMMA HogReceived ==
  ASSUME NEW h, HogOk(h), h.air # <<>>
  PROVE  LET v == Received(h)
         IN /\ v \in HogState /\ v.air = Tail(h.air) /\ v.busy = h.busy
            /\ \A r \in Reports : v.seen[r] = IF r = Head(h.air).src THEN Head(h.air).abs ELSE h.seen[r]
            /\ v.lost = h.lost /\ v.stalled = h.stalled /\ v.mask = h.mask /\ v.suspended = h.suspended
<1> DEFINE air == Tail(h.air)
           a == Head(h.air)
           v == [h EXCEPT !.air = air, !.seen[a.src] = a.abs]
<1>1. air \in Airs /\ a \in Airborne /\ h \in HogState
  BY AirMoves DEF HogOk
<1>2. v = Received(h)
  BY DEF Received
<1> HIDE DEF air, a
<1>3. a.src \in Reports /\ a.abs \in SUBSET Keys
  BY <1>1 DEF Airborne
<1>4. /\ v \in HogState /\ v.air = air /\ v.busy = h.busy
      /\ \A r \in Reports : v.seen[r] = IF r = a.src THEN a.abs ELSE h.seen[r]
      /\ v.lost = h.lost /\ v.stalled = h.stalled /\ v.mask = h.mask /\ v.suspended = h.suspended
  BY <1>1, <1>3 DEF HogState, Airs
<1> HIDE DEF v
<1> QED
  BY <1>2, <1>4 DEF air, a

LEMMA HogSentStep ==
  ASSUME Tidy(cache), HogGood(cache, hog, Coming), NotificationSent
  PROVE  HogGood(cache', hog', Coming) /\ Drawn(cache, cache', HogOut)
<1> DEFINE u == Received(hog)
           v == [u EXCEPT !.busy = FALSE]
<1>1. hog.air # <<>> /\ Head(hog.air).note /\ HogOk(hog)
  BY DEF NotificationSent, HogGood
<1>2. /\ u \in HogState /\ u.air = Tail(hog.air)
      /\ \A r \in Reports : u.seen[r] = IF r = Head(hog.air).src THEN Head(hog.air).abs ELSE hog.seen[r]
      /\ u.lost = hog.lost
  BY <1>1, HogReceived
<1>3. HogNotifyFrom(v)
  BY DEF NotificationSent
<1> HIDE DEF u
<1>4. v \in HogState /\ v.air = u.air /\ v.seen = u.seen /\ v.lost = u.lost /\ ~v.busy
  BY <1>2 DEF HogState
<1> HIDE DEF v
<1>5. HogOk(v) /\ \A r \in Reports : HogSent(v, r) = HogSent(hog, r)
  BY <1>1, <1>2, <1>4, HogReceives
<1>6. HogAccounts(cache, v)
  BY <1>2, <1>4, <1>5 DEF HogGood, HogAccounts
<1> QED
  BY <1>3, <1>5, <1>6, HogNotifyStep

LEMMA HogResponseStep ==
  ASSUME HogGood(cache, hog, Coming), ResponseSent
  PROVE  HogGood(cache', hog', Coming)
<1>1. hog.air # <<>> /\ ~Head(hog.air).note /\ HogOk(hog) /\ cache' = cache /\ hog' = Received(hog)
  BY DEF ResponseSent, HogGood
<1>2. /\ hog' \in HogState /\ hog'.air = Tail(hog.air) /\ hog'.busy = hog.busy
      /\ \A r \in Reports : hog'.seen[r] = IF r = Head(hog.air).src THEN Head(hog.air).abs ELSE hog.seen[r]
      /\ hog'.lost = hog.lost /\ hog'.stalled = hog.stalled
      /\ hog'.mask = hog.mask /\ hog'.suspended = hog.suspended
  BY <1>1, HogReceived
<1>3. HogOk(hog') /\ \A r \in Reports : HogSent(hog', r) = HogSent(hog, r)
  BY <1>1, <1>2, HogReceives
<1>4. HogAccounts(cache', hog')
  BY <1>1, <1>2, <1>3 DEF HogGood, HogAccounts
<1>5. HogAwake(cache', hog', Coming)
  BY <1>1, <1>2 DEF HogGood, HogAwake, HogReady
<1> QED
  BY <1>3, <1>4, <1>5 DEF HogGood

(***************************************************************************)
(* What the link's state changes leave alone: the reports in the air, and  *)
(* what the host has seen.                                                 *)
(***************************************************************************)
LEMMA HogLinkStep ==
  ASSUME HogGood(cache, hog, Coming), cache' = cache,
         hog' \in HogState, hog'.air = hog.air, hog'.busy = hog.busy,
         hog'.seen = hog.seen, hog'.lost = hog.lost,
         hog'.stalled \/ (hog'.stalled = hog.stalled /\ \A r \in Reports \union {NoReport} : HogReady(hog', r) => HogReady(hog, r)),
         Tidy(cache)
  PROVE  HogGood(cache', hog', Coming)
<1>1. HogOk(hog')
  BY DEF HogGood, HogOk
<1>2. HogAccounts(cache', hog')
  <2>1. \A r \in Reports : HogSent(hog', r) = HogSent(hog, r)
    BY DEF HogSent
  <2>2. HogAccounts(cache, hog)
    BY DEF HogGood
  <2>3. HogAccounts(cache, hog')
    BY <2>1, <2>2 DEF HogAccounts
  <2> QED
    BY <2>3
<1>3. \A i \in Slots : cache[i].src \in Reports \union {NoReport}
  BY DEF Tidy, Entry
<1>4. HogAwake(cache', hog', Coming)
  BY <1>3 DEF HogGood, HogAwake, Pending
<1> QED
  BY <1>1, <1>2, <1>4 DEF HogGood

LEMMA HogConnectStep ==
  ASSUME Tidy(cache), HogGood(cache, hog, Coming), Connected
  PROVE  HogGood(cache', hog', Coming)
<1>1. hog \in HogState
  BY DEF HogGood, HogOk
<1>2. /\ hog' \in HogState /\ hog'.air = hog.air /\ hog'.busy = hog.busy /\ hog'.seen = hog.seen
      /\ hog'.lost = hog.lost /\ hog'.stalled = hog.stalled
      /\ hog'.mask = hog.mask /\ hog'.suspended = hog.suspended
  BY <1>1 DEF Connected, HogState
<1> QED
  BY <1>2, HogLinkStep DEF Connected, HogReady

LEMMA HogCccStep ==
  ASSUME Tidy(cache), HogGood(cache, hog, Coming), NEW r \in Reports, NEW b \in BOOLEAN, InputCccChanged(r, b)
  PROVE  HogGood(cache', hog', Coming)
<1>1. hog \in HogState
  BY DEF HogGood, HogOk
<1>2. CASE b
  <2>1. hog' = [hog EXCEPT !.mask = hog.mask \union {r}, !.stalled = TRUE]
    BY <1>2 DEF InputCccChanged
  <2>2. /\ hog' \in HogState /\ hog'.air = hog.air /\ hog'.busy = hog.busy /\ hog'.seen = hog.seen
        /\ hog'.lost = hog.lost /\ hog'.stalled
    BY <1>1, <2>1 DEF HogState
  <2> QED
    BY <2>2, HogLinkStep DEF InputCccChanged
<1>3. CASE ~b
  <2>1. hog' = [hog EXCEPT !.mask = hog.mask \ {r}]
    BY <1>3 DEF InputCccChanged
  <2>2. /\ hog' \in HogState /\ hog'.air = hog.air /\ hog'.busy = hog.busy /\ hog'.seen = hog.seen
        /\ hog'.lost = hog.lost /\ hog'.stalled = hog.stalled
        /\ hog'.mask = hog.mask \ {r} /\ hog'.suspended = hog.suspended
    BY <1>1, <2>1 DEF HogState
  <2> QED
    BY <2>2, HogLinkStep DEF InputCccChanged, HogReady
<1> QED
  BY <1>2, <1>3

LEMMA HogPmStep ==
  ASSUME Tidy(cache), HogGood(cache, hog, Coming), NEW b \in BOOLEAN, HogPmAction(b)
  PROVE  HogGood(cache', hog', Coming)
<1>1. hog \in HogState
  BY DEF HogGood, HogOk
<1> DEFINE s == hog.stalled \/ hog.suspended
<1>2. s \in BOOLEAN /\ hog' = [hog EXCEPT !.suspended = b, !.stalled = s]
  BY <1>1 DEF HogPmAction, HogState
<1> HIDE DEF s
<1>3. /\ hog' \in HogState /\ hog'.air = hog.air /\ hog'.busy = hog.busy /\ hog'.seen = hog.seen
      /\ hog'.lost = hog.lost /\ hog'.stalled = s /\ hog'.mask = hog.mask /\ hog'.suspended = b
  BY <1>1, <1>2 DEF HogState
<1>4. hog'.stalled \/ (hog'.stalled = hog.stalled /\ \A r \in Reports \union {NoReport} : HogReady(hog', r) => HogReady(hog, r))
  BY <1>1, <1>3 DEF s, HogReady, HogState
<1> QED
  BY <1>3, <1>4, HogLinkStep DEF HogPmAction

\* A disconnection costs every report, and leaves nothing in the air.
LEMMA HogLostStep ==
  ASSUME HogGood(cache, hog, Coming), Disconnected
  PROVE  HogGood(cache', hog', Coming)
<1>1. hog \in HogState /\ <<>> \in Airs
  BY AirTyped DEF HogGood, HogOk
<1>2. hog' \in HogState /\ hog'.air = <<>> /\ ~hog'.busy /\ hog'.stalled /\ hog'.lost = Reports
  BY <1>1 DEF Disconnected, HogState, Airs
<1> QED
  BY <1>2 DEF HogGood, HogOk, HogAccounts, HogAwake

(***************************************************************************)
(* read_input_report: the copy in the air behind everything else is the    *)
(* cache's.                                                                *)
(***************************************************************************)
LEMMA HogReadStep ==
  ASSUME Tidy(cache), HogGood(cache, hog, Coming), NEW r \in Reports, ReadInputReport(r)
  PROVE  HogGood(cache', hog', Coming) /\ Drawn(cache, cache', HogOut)
<1>1. PICK i \in SlotById(cache, HogOut, r) :
        /\ cache' = Collected(cache, i)
        /\ hog' = [hog EXCEPT !.lost = hog.lost \ {r},
                     !.air = Append(hog.air, [src |-> r, abs |-> cache[i].abs, note |-> FALSE])]
  BY DEF ReadInputReport
<1>2. /\ Collects(cache, cache', i) /\ cache[i].out = HogOut /\ cache[i].src = r /\ i \in Slots
      /\ cache[i].abs \in SUBSET Keys
  BY <1>1, HogAssumption DEF SlotById, Collects, Tidy, Entry
<1>3. /\ View(cache', r, HogOut) = cache'[i]
      /\ \A q \in Reports : q # r => View(cache', q, HogOut) = View(cache, q, HogOut)
      /\ cache'[i].abs = cache[i].abs
      /\ Pending(cache', HogOut) \subseteq Pending(cache, HogOut)
      /\ \A j \in Slots : cache'[j].src = cache[j].src
  <2>1. HandedOut(cache, cache', {i})
    BY <1>2, CollectsFrom
  <2> QED
    BY <1>2, <2>1, CollectsFrom, PendingShrinks DEF HandedOut
<1> DEFINE x == [src |-> r, abs |-> cache[i].abs, note |-> FALSE]
           air == Append(hog.air, x)
<1>4. x \in Airborne /\ ~x.note /\ x.src = r /\ x.abs = cache[i].abs
  BY <1>2 DEF Airborne
<1>5. hog' = [hog EXCEPT !.lost = hog.lost \ {r}, !.air = air]
  BY <1>1
<1> HIDE DEF x
<1>6. HogOk(hog) /\ hog \in HogState /\ \A n \in DOMAIN hog.air : hog.air[n].note
  BY DEF HogGood, HogOk, ReadInputReport
<1>7. air \in Airs
  BY <1>4, <1>6, AirMoves
<1> HIDE DEF air
<1>8. /\ hog' \in HogState /\ hog'.air = air /\ hog'.seen = hog.seen /\ hog'.busy = hog.busy
      /\ hog'.lost = hog.lost \ {r} /\ hog'.stalled = hog.stalled
      /\ hog'.mask = hog.mask /\ hog'.suspended = hog.suspended
  BY <1>5, <1>6, <1>7 DEF HogState, Airs
<1>9. HogOk(hog') /\ \A q \in Reports : HogSent(hog', q) = IF q = x.src THEN x.abs ELSE HogSent(hog, q)
  BY <1>4, <1>6, <1>8, HogJoins DEF air
<1>10. HogAccounts(cache', hog')
  <2>1. View(cache', r, HogOut).abs = HogSent(hog', r)
    BY <1>3, <1>4, <1>9
  <2> QED
    BY <1>3, <1>4, <1>8, <1>9, <2>1 DEF HogGood, HogAccounts
<1>11. HogAwake(cache', hog', Coming)
  BY <1>3, <1>8 DEF HogGood, HogAwake, HogReady, Pending
<1> QED
  BY <1>2, <1>9, <1>10, <1>11 DEF HogGood, Drawn

(***************************************************************************)
(* Whatever the Bluetooth host and stack do.                               *)
(***************************************************************************)
LEMMA HogHostStep ==
  ASSUME Tidy(cache), HogGood(cache, hog, Coming), HogHost
  PROVE  HogGood(cache', hog', Coming) /\ Drawn(cache, cache', HogOut) /\ UNCHANGED hogrest
<1>1. CASE NotificationSent
  BY <1>1, HogSentStep DEF NotificationSent
<1>2. CASE ResponseSent
  BY <1>2, HogResponseStep DEF ResponseSent, Drawn
<1>3. ASSUME NEW r \in Reports, ReadInputReport(r)
      PROVE  HogGood(cache', hog', Coming) /\ Drawn(cache, cache', HogOut) /\ UNCHANGED hogrest
  BY <1>3, HogReadStep DEF ReadInputReport
<1>4. CASE Connected
  BY <1>4, HogConnectStep DEF Connected, Drawn
<1>5. ASSUME NEW r \in Reports, NEW b \in BOOLEAN, InputCccChanged(r, b)
      PROVE  HogGood(cache', hog', Coming) /\ Drawn(cache, cache', HogOut) /\ UNCHANGED hogrest
  BY <1>5, HogCccStep DEF InputCccChanged, Drawn
<1>6. CASE Disconnected
  BY <1>6, HogLostStep DEF Disconnected, Drawn
<1>7. ASSUME NEW b \in BOOLEAN, HogPmAction(b)
      PROVE  HogGood(cache', hog', Coming) /\ Drawn(cache, cache', HogOut) /\ UNCHANGED hogrest
  BY <1>7, HogPmStep DEF HogPmAction, Drawn
<1> QED
  BY <1>1, <1>2, <1>3, <1>4, <1>5, <1>6, <1>7 DEF HogHost

(***************************************************************************)
(* The invariant at the start and while the input side moves; and seen     *)
(* from an output that another one collects beside.                        *)
(***************************************************************************)
LEMMA HogStarts == Init /\ HogInit => HogGood(cache, hog, Coming)
<1> SUFFICES ASSUME Init, HogInit PROVE HogGood(cache, hog, Coming)
  OBVIOUS
<1>1. hog \in HogState /\ hog.air = <<>> /\ ~hog.busy /\ hog.mask = {} /\ hog.seen = [r \in Reports |-> {}]
  BY AirTyped DEF HogInit, HogState, Airs
<1>2. HogOk(hog) /\ HogAwake(cache, hog, Coming)
  BY <1>1 DEF HogOk, HogAwake, HogReady
<1>3. \A r \in Reports : HogSent(hog, r) = {} /\ View(cache, r, HogOut).abs = {}
  BY <1>1, FirstView, HogAssumption, HogSentIs DEF FreeSlot
<1> QED
  BY <1>2, <1>3 DEF HogGood, HogAccounts

LEMMA HogWaits ==
  ASSUME CacheInv, InputSide, hog' = hog, HogGood(cache, hog, Coming)
  PROVE  HogGood(cache', hog', Coming')
<1>1. Coming' /\ \A r \in Reports : Moved(cache, cache', r, HogOut)
  BY InputMoves, HogAssumption
<1>2. HogAccounts(cache', hog')
  <2> SUFFICES ASSUME NEW r \in Reports
               PROVE  \/ HogSent(hog, r) = View(cache', r, HogOut).abs
                      \/ View(cache', r, HogOut).updated
                      \/ r \in hog.lost
    BY DEF HogAccounts
  <2> QED
    BY <1>1 DEF HogGood, HogAccounts, Moved
<1> QED
  BY <1>1, <1>2 DEF HogGood, HogAwake

LEMMA HogBeside ==
  ASSUME NEW c, NEW d, NEW h, NEW coming, NEW o, o # HogOut, Tidy(c), Drawn(c, d, o),
         HogGood(c, h, coming)
  PROVE  HogGood(d, h, coming)
<1>1. /\ \A q \in Reports : View(d, q, HogOut) = View(c, q, HogOut)
      /\ Pending(d, HogOut) \subseteq Pending(c, HogOut)
      /\ \A j \in Slots : d[j].src = c[j].src
  BY DrawnSound
<1>2. HogAwake(d, h, coming)
  BY <1>1 DEF HogGood, HogAwake, Pending
<1> QED
  BY <1>1, <1>2 DEF HogGood, HogAccounts

\* The notify work item makes the call it stands for.
LEMMA HogWorks ==
  ASSUME CacheInv, HogGood(cache, hog, Coming), HogNotifyWorker
  PROVE  HogGood(cache', hog', Coming') /\ Drawn(cache, cache', HogOut)
<1>1. Tidy(cache)
  BY CacheTidy
<1>2. \A coming : HogGood(cache', hog', coming) /\ Drawn(cache, cache', HogOut)
  BY <1>1, HogNotifyStep DEF HogGood, HogNotifyWorker
<1> QED
  BY <1>2

HogSound == CacheInv /\ HogGood(cache, hog, Coming)

LEMMA HogSoundNext == HogSound /\ [HogOnlyNext]_hogvars => HogSound'
<1> SUFFICES ASSUME HogSound, [HogOnlyNext]_hogvars PROVE HogSound'
  OBVIOUS
<1>1. CASE InputSide /\ UNCHANGED hog
  BY <1>1, InputMoves, HogWaits DEF HogSound
<1>2. CASE HogNotifyWorker
  BY <1>2, HogWorks, DrawnCache DEF HogSound, HogNotifyWorker
<1>3. CASE HogHost
  <2>1. HogGood(cache', hog', Coming) /\ Drawn(cache, cache', HogOut) /\ UNCHANGED hogrest
    BY <1>3, CacheTidy, HogHostStep DEF HogSound
  <2>2. notify' \in BOOLEAN /\ (Coming' <=> Coming)
    BY <2>1 DEF HogSound, CacheInv, TypeOK, hogrest, Coming
  <2>3. CacheInv'
    BY <2>1, <2>2, DrawnCache DEF HogSound, hogrest
  <2> QED
    BY <2>1, <2>2, <2>3 DEF HogSound, HogGood, HogAwake
<1>4. CASE UNCHANGED hogvars
  <2>1. [Next]_vars /\ cache' = cache /\ hog' = hog /\ upd' = upd /\ notify' = notify
    BY <1>4 DEF hogvars, vars
  <2>2. CacheInv'
    BY <2>1, InvNext DEF HogSound
  <2> QED
    BY <2>1, <2>2 DEF HogSound, Coming
<1> QED
  BY <1>1, <1>2, <1>3, <1>4 DEF HogOnlyNext

(***************************************************************************)
(* The inductive invariant of a device with a Bluetooth output.            *)
(***************************************************************************)
THEOREM HogStaysSound == HogOnlySpec => []HogSound
<1>1. HogOnlyInit => HogSound
  BY InvInit, HogStarts DEF HogSound, HogOnlyInit
<1> QED
  BY <1>1, HogSoundNext, PTL DEF HogOnlySpec

LEMMA HogGoodMeans ==
  CacheInv /\ HogGood(cache, hog, Coming) => HogInv /\ HogNoSilentLoss /\ HogNoLostWakeup
<1> SUFFICES ASSUME CacheInv, HogGood(cache, hog, Coming)
             PROVE  HogInv /\ HogNoSilentLoss /\ HogNoLostWakeup
  OBVIOUS
<1>1. HogInv
  BY HogOkExact DEF HogGood, HogOk, HogInv, HogType
<1>2. HogNoSilentLoss
  BY CacheTidy, ViewFacts DEF HogGood, HogAccounts, HogNoSilentLoss, Tidy, Shown, HogLastSent
<1>3. HogNoLostWakeup
  BY DEF HogGood, HogAwake, HogNoLostWakeup, Coming
<1> QED
  BY <1>1, <1>2, <1>3

(***************************************************************************)
(* hog_busy is set exactly while one notification is with the stack, for   *)
(* any order of callbacks, reads, subscriptions and disconnections.        *)
(***************************************************************************)
THEOREM HogAgreement == HogOnlySpec => []HogInv
BY HogStaysSound, HogGoodMeans, PTL DEF HogSound

(***************************************************************************)
(* What the host has, or is being sent, is what the cache shows, unless    *)
(* the report is marked or the link has cost a copy of it.                 *)
(***************************************************************************)
THEOREM HogLosesNothing == HogOnlySpec => []HogNoSilentLoss
BY HogStaysSound, HogGoodMeans, PTL DEF HogSound

(***************************************************************************)
(* A report that waits for a free driver and could be sent is going to be  *)
(* asked for.                                                              *)
(***************************************************************************)
THEOREM HogStaysAwake == HogOnlySpec => []HogNoLostWakeup
BY HogStaysSound, HogGoodMeans, PTL DEF HogSound

-----------------------------------------------------------------------------
(***************************************************************************)
(* The device with both outputs: what each output promises of a device of  *)
(* its own, it keeps on a shared cache and a shared work item.             *)
(***************************************************************************)
SystemSound ==
  CacheInv /\ UsbGood(cache, usb, Coming) /\ HogGood(cache, hog, Coming)

LEMMA TwoOutputs == HogOut # UsbOut
BY SystemAssumption, OutputsAssumption

(***************************************************************************)
(* hid_notify_worker: the Bluetooth output collects, then the USB output   *)
(* from what is left; neither touches the other's slots.                   *)
(***************************************************************************)
LEMMA WorkerStep ==
  ASSUME SystemSound, SystemNotifyWorker
  PROVE  SystemSound'
<1>1. PICK h \in HogNotify(cache, hog) : \E u \in UsbNotify(h.cache, usb) :
        cache' = u.cache /\ usb' = u.usb /\ hog' = h.hog
  BY DEF SystemNotifyWorker
<1>2. PICK u \in UsbNotify(h.cache, usb) : cache' = u.cache /\ usb' = u.usb /\ hog' = h.hog
  BY <1>1
<1> DEFINE c == h.cache
<1>3. Tidy(cache)
  BY CacheTidy DEF SystemSound
<1>4. /\ HogGood(c, hog', FALSE)
      /\ Drawn(cache, c, HogOut)
  BY <1>2, <1>3, HogNotifies DEF SystemSound, HogGood
<1>5. /\ Tidy(c)
      /\ \A j \in Slots : c[j].src = cache[j].src
      /\ \E I \in SUBSET Slots : HandedOut(cache, c, I) /\ \A i \in I : cache[i].src \in Reports
  BY <1>3, <1>4, DrawnSound
<1>6. UsbGood(c, usb, Coming)
  BY <1>3, <1>4, UsbBeside, TwoOutputs DEF SystemSound
<1>7. /\ UsbGood(cache', usb', FALSE)
      /\ Drawn(c, cache', UsbOut)
  BY <1>2, <1>5, <1>6, UsbNotifies DEF UsbGood, Drawn
<1>8. /\ Tidy(cache')
      /\ \E J \in SUBSET Slots : HandedOut(c, cache', J) /\ \A i \in J : c[i].src \in Reports
  BY <1>5, <1>7, DrawnSound
<1>9. HogGood(cache', hog', FALSE)
  BY <1>4, <1>5, <1>7, HogBeside, TwoOutputs
<1> HIDE DEF c
<1>10. PICK I \in SUBSET Slots : HandedOut(cache, c, I) /\ \A i \in I : cache[i].src \in Reports
  BY <1>5
<1>11. PICK J \in SUBSET Slots : HandedOut(c, cache', J) /\ \A i \in J : c[i].src \in Reports
  BY <1>8
<1>12. HandedOut(cache, cache', I \union J)
  BY <1>10, <1>11, HandedOutTwice
<1>13. I \union J \in SUBSET Slots /\ \A i \in I \union J : cache[i].src \in Reports
  BY <1>5, <1>10, <1>11
<1>14. CacheInv'
  BY <1>8, <1>12, <1>13, CacheKept DEF SystemSound, SystemNotifyWorker
<1> QED
  BY <1>7, <1>9, <1>14 DEF SystemSound, UsbGood, UsbAwake, HogGood, HogAwake

\* What one host and its stack do, with the other output beside.
LEMMA UsbHostBeside ==
  ASSUME SystemSound, UsbHost, hog' = hog
  PROVE  SystemSound'
<1>1. UsbGood(cache', usb', Coming) /\ Drawn(cache, cache', UsbOut) /\ UNCHANGED hidvars
  BY CacheTidy, UsbHostStep DEF SystemSound
<1>2. notify' \in BOOLEAN /\ (Coming' <=> Coming)
  BY <1>1 DEF SystemSound, CacheInv, TypeOK, hidvars, Coming
<1>3. CacheInv'
  BY <1>1, <1>2, DrawnCache DEF SystemSound, hidvars
<1>4. HogGood(cache', hog', Coming)
  BY <1>1, CacheTidy, HogBeside, TwoOutputs DEF SystemSound
<1> QED
  BY <1>1, <1>2, <1>3, <1>4 DEF SystemSound, UsbGood, UsbAwake, HogGood, HogAwake

LEMMA HogHostBeside ==
  ASSUME SystemSound, HogHost, usb' = usb
  PROVE  SystemSound'
<1>1. HogGood(cache', hog', Coming) /\ Drawn(cache, cache', HogOut) /\ UNCHANGED hogrest
  BY CacheTidy, HogHostStep DEF SystemSound
<1>2. notify' \in BOOLEAN /\ (Coming' <=> Coming)
  BY <1>1 DEF SystemSound, CacheInv, TypeOK, hogrest, Coming
<1>3. CacheInv'
  BY <1>1, <1>2, DrawnCache DEF SystemSound, hogrest
<1>4. UsbGood(cache', usb', Coming)
  BY <1>1, CacheTidy, UsbBeside, TwoOutputs DEF SystemSound
<1> QED
  BY <1>1, <1>2, <1>3, <1>4 DEF SystemSound, UsbGood, UsbAwake, HogGood, HogAwake

LEMMA SystemNextSound == SystemSound /\ [SystemNext]_sysvars => SystemSound'
<1> SUFFICES ASSUME SystemSound, [SystemNext]_sysvars PROVE SystemSound'
  OBVIOUS
<1>1. CASE InputSide /\ UNCHANGED <<usb, hog>>
  BY <1>1, InputMoves, UsbWaits, HogWaits DEF SystemSound
<1>2. CASE SystemNotifyWorker
  BY <1>2, WorkerStep
<1>3. CASE UsbHost /\ UNCHANGED hog
  BY <1>3, UsbHostBeside
<1>4. CASE HogHost /\ UNCHANGED usb
  BY <1>4, HogHostBeside
<1>5. CASE UNCHANGED sysvars
  <2>1. /\ [Next]_vars
        /\ cache' = cache /\ usb' = usb /\ hog' = hog /\ upd' = upd /\ notify' = notify
    BY <1>5 DEF sysvars, vars
  <2>2. CacheInv'
    BY <2>1, InvNext DEF SystemSound
  <2> QED
    BY <2>1, <2>2 DEF SystemSound, Coming
<1> QED
  BY <1>1, <1>2, <1>3, <1>4, <1>5 DEF SystemNext

(***************************************************************************)
(* The inductive invariant of the device: the cache's, and each output's   *)
(* as if it were alone.                                                    *)
(***************************************************************************)
THEOREM SystemStaysSound == SystemSpec => []SystemSound
<1>1. SystemInit => SystemSound
  BY InvInit, UsbStarts, HogStarts DEF SystemSound, SystemInit, UsbOnlyInit
<1> QED
  BY <1>1, SystemNextSound, PTL DEF SystemSpec

(***************************************************************************)
(* Neither output loses a report to the other, whichever link hangs,       *)
(* breaks or comes back, and however the two interleave.                   *)
(***************************************************************************)
THEOREM OutputsIndependent == SystemSpec => []NoCrossLoss
<1>1. SystemSound => NoCrossLoss
  BY UsbGoodMeans, HogGoodMeans DEF SystemSound, NoCrossLoss
<1> QED
  BY <1>1, SystemStaysSound, PTL

(***************************************************************************)
(* On the shared work item each driver still agrees with its stack, and no *)
(* wake-up of either output is lost.                                       *)
(***************************************************************************)
THEOREM DriversAgree ==
  SystemSpec => [](UsbInv /\ HogInv /\ UsbNoLostWakeup /\ HogNoLostWakeup)
<1>1. SystemSound => UsbInv /\ HogInv /\ UsbNoLostWakeup /\ HogNoLostWakeup
  BY UsbGoodMeans, HogGoodMeans DEF SystemSound
<1> QED
  BY <1>1, SystemStaysSound, PTL

(***************************************************************************)
(* The shared cache is never full, and shows every output the held keys.   *)
(***************************************************************************)
THEOREM SharedCacheSound == SystemSpec => [](CacheInv /\ CacheNeverFull)
<1>1. SystemSound => CacheInv /\ CacheNeverFull
  BY InvNeverFull DEF SystemSound
<1> QED
  BY <1>1, SystemStaysSound, PTL
-----------------------------------------------------------------------------
(***************************************************************************)
(* The device as its outputs see it.  The two drivers share a cache, an    *)
(* update loop, motion that accumulates and a work item that calls both;   *)
(* each is still shown nothing but mailboxes of its own.                   *)
(***************************************************************************)
AllFilled(c) == \A j \in Slots : c[j].src \in Reports => c[j].filled

LEMMA CacheFilled == CacheInv => AllFilled(cache)
BY NullAssumption DEF CacheInv, SlotsSound, AllFilled

\* What an output's mailboxes show of a change of the cache: nothing, or that
\* report r was taken out.
Untouched(c, d, o) == \A q \in Reports : View(d, q, o) = View(c, q, o)

TakenOut(c, d, o, r) ==
  /\ View(c, r, o).filled
  /\ Mail(View(d, r, o)) = [abs |-> View(c, r, o).abs, rel |-> 0, known |-> TRUE, fresh |-> FALSE]
  /\ \A q \in Reports \ {r} : View(d, q, o) = View(c, q, o)

LEMMA CollectsMail ==
  ASSUME NEW c, NEW d, NEW i, NEW o, Tidy(c), AllFilled(c), Collects(c, d, i), c[i].out = o
  PROVE  /\ c[i].src \in Reports /\ View(c, c[i].src, o) = c[i]
         /\ TakenOut(c, d, o, c[i].src)
         /\ AllFilled(d)
         /\ \A p : p # o => Untouched(c, d, p)
<1>1. /\ HandedOut(c, d, {i}) /\ Tidy(d)
      /\ View(c, c[i].src, o) = c[i]
      /\ View(d, c[i].src, o) = d[i]
      /\ \A q \in Reports : \A p : ~(q = c[i].src /\ p = o) => View(d, q, p) = View(c, q, p)
  BY CollectsFrom
<1>2. i \in Slots /\ c[i].src \in Reports /\ c[i].filled /\ c[i] \in Entry /\ d[i] \in Entry
  <2>1. i \in Slots /\ c[i].src \in Reports
    BY DEF Collects
  <2>2. c[i] \in Entry /\ d[i] \in Entry
    BY <1>1, <2>1 DEF Tidy
  <2>3. c[i].filled
    BY <2>1 DEF AllFilled
  <2> QED
    BY <2>1, <2>2, <2>3
<1>3. d[i].abs = c[i].abs /\ d[i].rel = 0 /\ d[i].filled /\ ~d[i].updated
  BY <1>1, <1>2 DEF HandedOut
<1>4. Mail(d[i]) = [abs |-> c[i].abs, rel |-> 0, known |-> TRUE, fresh |-> FALSE]
  <2>1. d[i].filled = TRUE /\ d[i].updated = FALSE
    BY <1>2, <1>3 DEF Entry
  <2> QED
    BY <1>3, <2>1 DEF Mail
<1>5. TakenOut(c, d, o, c[i].src)
  BY <1>1, <1>2, <1>4 DEF TakenOut
<1>6. AllFilled(d)
  BY <1>1 DEF AllFilled, HandedOut
<1> QED
  BY <1>1, <1>2, <1>5, <1>6 DEF Untouched

LEMMA DrawnMail ==
  ASSUME NEW c, NEW d, NEW o, Tidy(c), AllFilled(c), Drawn(c, d, o)
  PROVE  /\ Untouched(c, d, o) \/ \E r \in Reports : TakenOut(c, d, o, r)
         /\ AllFilled(d)
         /\ \A p : p # o => Untouched(c, d, p)
<1>1. CASE d = c
  BY <1>1 DEF Untouched
<1>2. CASE \E i \in Slots : Collects(c, d, i) /\ c[i].out = o
  BY <1>2, CollectsMail
<1> QED
  BY <1>1, <1>2 DEF Drawn

(***************************************************************************)
(* usb_hid_notify takes one marked report and has it, or takes nothing;    *)
(* and so does ble_hog_notify.                                             *)
(***************************************************************************)
UsbTakes(c, u, next, r) ==
  /\ ~u.busy /\ View(c, r, UsbOut).updated
  /\ TakenOut(c, next.cache, UsbOut, r)
  /\ next.usb \in UsbSend([u EXCEPT !.buf = [src |-> r, abs |-> View(c, r, UsbOut).abs]])

LEMMA UsbNotifyTakes ==
  ASSUME NEW c, Tidy(c), AllFilled(c), NEW u, NEW next \in UsbNotify(c, u)
  PROVE  next.cache = c \/ \E r \in Reports : UsbTakes(c, u, next, r)
<1>1. CASE u.busy \/ Pending(c, UsbOut) = {}
  BY <1>1 DEF UsbNotify
<1>2. CASE ~u.busy /\ Pending(c, UsbOut) # {}
  <2>1. PICK i \in NextReport(c, UsbOut) :
          \E s \in UsbSend([u EXCEPT !.buf = [src |-> c[i].src, abs |-> c[i].abs]]) :
            next = [cache |-> Collected(c, i), usb |-> s]
    BY <1>2 DEF UsbNotify, UsbCollect
  <2>2. Collects(c, next.cache, i) /\ c[i].out = UsbOut /\ c[i].updated
    BY <2>1, FirstPending, UsbAssumption DEF NextReport, Pending
  <2>3. next.usb \in UsbSend([u EXCEPT !.buf = [src |-> c[i].src, abs |-> c[i].abs]])
    BY <2>1
  <2>4. /\ c[i].src \in Reports /\ View(c, c[i].src, UsbOut) = c[i]
        /\ TakenOut(c, next.cache, UsbOut, c[i].src)
    BY <2>2, CollectsMail
  <2>5. UsbTakes(c, u, next, c[i].src)
    BY <1>2, <2>2, <2>3, <2>4 DEF UsbTakes
  <2> QED
    BY <2>4, <2>5
<1> QED
  BY <1>1, <1>2

HogTakes(c, h, next, r) ==
  /\ ~h.busy /\ View(c, r, HogOut).updated
  /\ TakenOut(c, next.cache, HogOut, r)
  /\ next.hog \in HogSend(h, [src |-> r, abs |-> View(c, r, HogOut).abs])

LEMMA HogNotifyTakes ==
  ASSUME NEW c, Tidy(c), AllFilled(c), NEW h, NEW next \in HogNotify(c, h)
  PROVE  next.cache = c \/ \E r \in Reports : HogTakes(c, h, next, r)
<1>1. CASE h.busy \/ Pending(c, HogOut) = {}
  BY <1>1 DEF HogNotify
<1>2. CASE ~h.busy /\ Pending(c, HogOut) # {}
  <2>1. PICK i \in NextReport(c, HogOut) :
          \E s \in HogSend(h, c[i]) : next = [cache |-> Collected(c, i), hog |-> s]
    BY <1>2 DEF HogNotify, HogCollect
  <2>2. Collects(c, next.cache, i) /\ c[i].out = HogOut /\ c[i].updated
    BY <2>1, FirstPending, HogAssumption DEF NextReport, Pending
  <2>3. next.hog \in HogSend(h, c[i])
    BY <2>1
  <2>4. /\ c[i].src \in Reports /\ View(c, c[i].src, HogOut) = c[i]
        /\ TakenOut(c, next.cache, HogOut, c[i].src)
    BY <2>2, CollectsMail
  <2>5. HogSend(h, c[i]) = HogSend(h, [src |-> c[i].src, abs |-> c[i].abs])
    BY DEF HogSend, HogQueued
  <2>6. HogTakes(c, h, next, c[i].src)
    BY <1>2, <2>2, <2>3, <2>4, <2>5 DEF HogTakes
  <2> QED
    BY <2>4, <2>6
<1> QED
  BY <1>1, <1>2

(***************************************************************************)
(* What is true of the slots an output finds is true of its mailboxes.     *)
(***************************************************************************)
LEMMA UntouchedKept ==
  ASSUME NEW o, Untouched(cache, cache', o)
  PROVE  Kept(o)
BY DEF Untouched, Kept, BoxOf

LEMMA TakenOutTook ==
  ASSUME NEW o, NEW r \in Reports, TakenOut(cache, cache', o, r)
  PROVE  Took(o, r)
<1> DEFINE was == BoxOf(o)
           is == BoxOf(o)'
           left == [abs |-> View(cache, r, o).abs, rel |-> 0, known |-> TRUE, fresh |-> FALSE]
<1>1. /\ was = [q \in Reports |-> Mail(View(cache, q, o))]
      /\ is = [q \in Reports |-> Mail(View(cache', q, o))]
  BY DEF BoxOf
<1>2. was[r].known /\ was[r].abs = View(cache, r, o).abs
  BY <1>1 DEF TakenOut, Mail
<1> HIDE DEF was, is
<1>3. is[r] = left /\ \A q \in Reports \ {r} : is[q] = was[q]
  BY <1>1 DEF TakenOut
<1> HIDE DEF left
<1>4. is = [was EXCEPT ![r] = left]
  BY <1>1, <1>3
<1> QED
  BY <1>2, <1>4 DEF Took, was, is, left

LEMMA BoxShows ==
  ASSUME NEW o, NEW r \in Reports
  PROVE  BoxOf(o)[r].fresh = View(cache, r, o).updated /\ BoxOf(o)[r].abs = View(cache, r, o).abs
BY DEF BoxOf, Mail

(***************************************************************************)
(* The work item serves both outputs in one step: the Bluetooth one from   *)
(* the cache as it is, the USB one from what that one left of it.          *)
(***************************************************************************)
LEMMA WorkerPrivate ==
  ASSUME SystemSound, SystemNotifyWorker
  PROVE  /\ Kept(UsbOut) \/ \E r \in Reports : UsbTook(r)
         /\ Kept(HogOut) \/ \E r \in Reports : HogTook(r)
<1>1. PICK h \in HogNotify(cache, hog) : \E u \in UsbNotify(h.cache, usb) :
        cache' = u.cache /\ usb' = u.usb /\ hog' = h.hog
  BY DEF SystemNotifyWorker
<1>2. PICK u \in UsbNotify(h.cache, usb) : cache' = u.cache /\ usb' = u.usb /\ hog' = h.hog
  BY <1>1
<1> DEFINE c == h.cache
<1>3. Tidy(cache) /\ AllFilled(cache)
  BY CacheTidy, CacheFilled DEF SystemSound
<1>4. Drawn(cache, c, HogOut)
  BY <1>3, HogNotifies DEF SystemSound, HogGood
<1>5. Tidy(c) /\ UsbGood(c, usb, Coming)
  BY <1>3, <1>4, DrawnSound, UsbBeside, TwoOutputs DEF SystemSound
<1>6. Drawn(c, cache', UsbOut)
  BY <1>2, <1>5, UsbNotifies DEF UsbGood, Drawn
<1>7. c = cache \/ \E r \in Reports : HogTakes(cache, hog, h, r)
  BY <1>3, HogNotifyTakes
<1>8. AllFilled(c) /\ Untouched(cache, c, UsbOut)
  BY <1>3, <1>4, DrawnMail, TwoOutputs
<1>9. cache' = c \/ \E r \in Reports : UsbTakes(c, usb, u, r)
  BY <1>2, <1>5, <1>8, UsbNotifyTakes
<1>10. Untouched(c, cache', HogOut)
  BY <1>5, <1>6, <1>8, DrawnMail, TwoOutputs
<1> HIDE DEF c
<1>11. Kept(UsbOut) \/ \E r \in Reports : UsbTook(r)
  <2>1. CASE cache' = c
    BY <1>8, <2>1, UntouchedKept
  <2>2. ASSUME NEW r \in Reports, UsbTakes(c, usb, u, r)
        PROVE  UsbTook(r)
    <3>1. View(c, r, UsbOut) = View(cache, r, UsbOut)
      BY <1>8 DEF Untouched
    <3>2. TakenOut(cache, cache', UsbOut, r)
      BY <1>2, <1>8, <2>2 DEF UsbTakes, TakenOut, Untouched
    <3>3. Took(UsbOut, r)
      BY <3>2, TakenOutTook
    <3> QED
      BY <1>2, <2>2, <3>1, <3>3, BoxShows DEF UsbTakes, UsbTook
  <2> QED
    BY <1>9, <2>1, <2>2
<1>12. Kept(HogOut) \/ \E r \in Reports : HogTook(r)
  <2>1. CASE c = cache
    BY <1>10, <2>1, UntouchedKept
  <2>2. ASSUME NEW r \in Reports, HogTakes(cache, hog, h, r)
        PROVE  HogTook(r)
    <3>1. TakenOut(cache, cache', HogOut, r)
      BY <1>10, <2>2 DEF HogTakes, TakenOut, Untouched, c
    <3>2. Took(HogOut, r)
      BY <3>1, TakenOutTook
    <3> QED
      BY <1>2, <2>2, <3>2, BoxShows DEF HogTakes, HogTook
  <2> QED
    BY <1>7, <2>1, <2>2
<1> QED
  BY <1>11, <1>12

\* What a driver's own stack and host make it collect, it takes out of its own.
LEMMA HostPrivate ==
  ASSUME SystemSound, NEW o, Drawn(cache, cache', o)
  PROVE  /\ Kept(o) \/ \E r \in Reports : Took(o, r)
         /\ \A p : p # o => Kept(p)
<1>1. Tidy(cache) /\ AllFilled(cache)
  BY CacheTidy, CacheFilled DEF SystemSound
<1>2. /\ Untouched(cache, cache', o) \/ \E r \in Reports : TakenOut(cache, cache', o, r)
      /\ \A p : p # o => Untouched(cache, cache', p)
  BY <1>1, DrawnMail
<1> QED
  BY <1>2, UntouchedKept, TakenOutTook

\* An update writes into the mailboxes of the output it serves, and what it
\* writes there is the event.
LEMMA UpdateKeeps ==
  ASSUME CacheInv, CacheInv', UpdateOutput, NEW o \in OutputSet
  PROVE  Kept(o) \/ Posted(o)
<1>1. CASE o = Outputs[upd.k]
  <2> DEFINE b == BoxOf(o)[upd.src]
             abs == Apply(b.abs, upd.ev)
             rel == IF upd.src \in RelReports THEN Clamp(b.rel + upd.ev.delta) ELSE 0
             now == [abs |-> abs, rel |-> rel, known |-> TRUE,
                     fresh |-> b.fresh \/ ~b.known \/ abs # b.abs \/ rel # b.rel]
  <2>1. Box(o)!Posted(b, upd.src, upd.ev) = now
    BY DEF Box!Posted, Box!Limit, Apply, Clamp
  <2>2. BoxOf(o)' = [BoxOf(o) EXCEPT ![upd.src] = Box(o)!Posted(b, upd.src, upd.ev)]
    BY <1>1, UpdatePosts
  <2>3. BoxOf(o)' = [BoxOf(o) EXCEPT ![upd.src] = now]
    BY <2>1, <2>2
  <2> QED
    BY <1>1, <2>3 DEF Posted
<1>2. CASE o # Outputs[upd.k]
  BY <1>2, UpdatePosts DEF Kept, BoxOf
<1> QED
  BY <1>1, <1>2

LEMMA PrivateNext == SystemSound /\ [SystemNext]_sysvars => [OwnMailboxes]_sysvars
<1> SUFFICES ASSUME SystemSound, SystemNext PROVE OwnMailboxes
  OBVIOUS
<1>1. CASE InputSide
  <2>1. UpdateOutput \/ cache' = cache
    BY <1>1 DEF InputSide, InputEvent, UpdateDone
  <2>2. ASSUME UpdateOutput, NEW o \in OutputSet
        PROVE  Kept(o) \/ Posted(o)
    <3>1. CacheInv /\ CacheInv'
      BY SystemNextSound DEF SystemSound
    <3> QED
      BY <2>2, <3>1, UpdateKeeps
  <2>3. UsbOut \in OutputSet /\ HogOut \in OutputSet
    BY UsbAssumption, HogAssumption
  <2> QED
    BY <2>1, <2>2, <2>3 DEF OwnMailboxes, Kept
<1>2. CASE SystemNotifyWorker
  BY <1>2, WorkerPrivate DEF OwnMailboxes
<1>3. CASE UsbHost /\ UNCHANGED hog
  <2>1. Drawn(cache, cache', UsbOut)
    BY <1>3, CacheTidy, UsbHostStep DEF SystemSound
  <2> QED
    BY <1>3, <2>1, HostPrivate, TwoOutputs DEF OwnMailboxes
<1>4. CASE HogHost /\ UNCHANGED usb
  <2>1. Drawn(cache, cache', HogOut)
    BY <1>4, CacheTidy, HogHostStep DEF SystemSound
  <2> QED
    BY <1>4, <2>1, HostPrivate, TwoOutputs DEF OwnMailboxes
<1> QED
  BY <1>1, <1>2, <1>3, <1>4 DEF SystemNext

(***************************************************************************)
(* The device with both drivers, for any reports, keys and motion and also *)
(* when the hosts read reports: what an output is shown changes only when  *)
(* the update loop posts an event, or when its own driver takes one report *)
(* out of it, which that driver then has.                                  *)
(***************************************************************************)
THEOREM DriversArePrivate == SystemSpec => DriversPrivate
BY PrivateNext, SystemStaysSound, PTL DEF SystemSpec, DriversPrivate
=============================================================================

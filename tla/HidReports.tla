----------------------------- MODULE HidReports -----------------------------
(***************************************************************************)
(* The report cache of one hid device (hid.c).  Input drivers push events  *)
(* through hid_update_buffers, which encodes one report per output device  *)
(* into a cache slot and marks it updated; output drivers pull with        *)
(* hid_get_report (first marked slot) or hid_get_report_id (by number).    *)
(*                                                                         *)
(* One action is one critical section of data->lock.  hid_update_buffers   *)
(* takes and releases the lock once per output, so it is a loop (upd) that *)
(* other threads may interleave with.                                      *)
(*                                                                         *)
(* Report data is abstracted to what the cache treats differently: abs,    *)
(* the set of keys or buttons shown as held, and rel, the motion           *)
(* accumulated since the report was last collected.                        *)
(***************************************************************************)
EXTENDS Integers, Sequences, FiniteSets

CONSTANTS
  Outputs,     \* the output devices of the hid device, in device-tree order
  Reports,     \* its input reports: a set of pairs <<input_dev, input_id>>
  RelReports,  \* the reports of input devices that implement clear_rel
  StateReports,\* the reports a driver rewrites from the key state it keeps
  Keys,        \* the keys, or buttons, an input device reports
  Deltas,      \* the motion steps a pointing device reports
  RelMin,      \* least and
  RelMax,      \* greatest value of a report's motion field
  HostReads,   \* hosts also read reports by number
  NoReport,    \* input_dev = NULL in a cache slot
  NoOutput     \* output_dev = NULL in a cache slot

OutputSet == {Outputs[k] : k \in DOMAIN Outputs}

ASSUME OutputsAssumption ==
  /\ Outputs \in Seq(OutputSet)
  /\ Outputs # <<>>
  /\ \A j, k \in DOMAIN Outputs : Outputs[j] = Outputs[k] => j = k

ASSUME ReportsAssumption ==
  /\ IsFiniteSet(Reports)
  /\ RelReports \subseteq Reports
  /\ StateReports \subseteq Reports \ RelReports
  /\ \A r, q \in Reports : r[2] = q[2] => r = q  \* report ids are per hid device

ASSUME RelAssumption ==
  /\ RelMin \in Int /\ RelMax \in Int /\ RelMin <= 0 /\ 0 <= RelMax
  /\ Deltas \subseteq Int

ASSUME HostReadsAssumption == HostReads \in BOOLEAN

ASSUME NullAssumption ==
  /\ NoReport \notin Reports
  /\ NoOutput \notin OutputSet

VARIABLES
  cache,   \* cfg->cache: the slots, one per input report and output at most
  held,    \* the keys held on each input device, per report
  upd,     \* the hid_update_buffers call in progress, or Idle
  notify   \* data->notify_dwork is scheduled

vars == <<cache, held, upd, notify>>

\* Slip: the cache is sized for one output.
CacheLenOneOutput == Cardinality(Reports)

CacheLen == Cardinality(Reports) * Len(Outputs)

Slots == 1 .. CacheLen

FreeSlot == [src |-> NoReport, out |-> NoOutput, abs |-> {}, rel |-> 0,
             filled |-> FALSE, updated |-> FALSE]

Entry == [src : Reports \union {NoReport}, out : OutputSet \union {NoOutput},
          abs : SUBSET Keys, rel : RelMin .. RelMax,
          filled : BOOLEAN, updated : BOOLEAN]

Event == [press : SUBSET Keys, release : SUBSET Keys, delta : Deltas \union {0}]

Idle == [src |-> NoReport, ev |-> [press |-> {}, release |-> {}, delta |-> 0],
         k |-> 1, first |-> 0]

Call == [src : Reports, ev : Event, k : 1 .. Len(Outputs) + 1, first : 0 .. CacheLen]

\* One key goes down or up, or a pointing device moves.
KeyEvents == {[press |-> {x}, release |-> {}, delta |-> 0] : x \in Keys}
             \union {[press |-> {}, release |-> {x}, delta |-> 0] : x \in Keys}

MoveEvents == {[press |-> {}, release |-> {}, delta |-> d] : d \in Deltas}

Events(r) == IF r \in RelReports THEN KeyEvents \union MoveEvents ELSE KeyEvents

Apply(abs, ev) == (abs \ ev.release) \union ev.press

Clamp(x) == IF x < RelMin THEN RelMin ELSE IF x > RelMax THEN RelMax ELSE x
-----------------------------------------------------------------------------
(***************************************************************************)
(* find_cache_idx: the first slot that is this report's, or free.  The set *)
(* has one member, or none when the cache is full.                         *)
(***************************************************************************)
IsSlotOf(c, i, r, o) == c[i].src = r /\ c[i].out = o

\* Slip: the output is not compared.
UsableAnyOutput(c, i, r, o) == c[i].src \in {r, NoReport}

Usable(c, i, r, o) == IsSlotOf(c, i, r, o) \/ IsSlotOf(c, i, NoReport, NoOutput)

SlotFor(c, r, o) ==
  {i \in Slots : Usable(c, i, r, o) /\ \A j \in 1 .. i - 1 : ~Usable(c, j, r, o)}

(***************************************************************************)
(* The update callback of the input driver.  The 6-key and media reports   *)
(* are rewritten from the keyboard's own state; mouse, gamepad and N-key   *)
(* reports are edited in place, from what the slot shows already.          *)
(***************************************************************************)
Encode(r, ev, e) ==
  IF r \in StateReports
  THEN [e EXCEPT !.abs = held[r]]
  ELSE [e EXCEPT !.abs = Apply(@, ev),
                 !.rel = IF r \in RelReports THEN Clamp(@ + ev.delta) ELSE @]

\* Slip: any output's updated slot is taken.
PendingAnyOutput(c, o) == {i \in Slots : c[i].updated}

\* What hid_get_report collects for output o: the first updated slot.
Pending(c, o) == {i \in Slots : c[i].out = o /\ c[i].updated}

NextReport(c, o) == {i \in Pending(c, o) : \A j \in Pending(c, o) : i <= j}

\* Slip: every output's slot of the report counts as collected.
CollectedForAll(c, i) ==
  [j \in Slots |-> IF c[j].src # c[i].src THEN c[j]
                   ELSE [c[j] EXCEPT !.updated = FALSE, !.rel = IF j = i THEN 0 ELSE @]]

(***************************************************************************)
(* The slot after its report was handed out: no longer updated, and the    *)
(* motion that was reported cleared.                                       *)
(***************************************************************************)
Collected(c, i) ==
  [c EXCEPT ![i].updated = FALSE,
            ![i].rel = IF c[i].src \in RelReports THEN 0 ELSE @]

\* The slots hid_get_report_id may find for a report: the output's with its id.
SlotById(c, o, r) ==
  {i \in Slots : c[i].out = o /\ c[i].src = r}
-----------------------------------------------------------------------------
Init ==
  /\ cache = [i \in Slots |-> FreeSlot]
  /\ held = [r \in Reports |-> {}]
  /\ upd = Idle
  /\ notify = FALSE

\* An input driver's event callback: device state, then hid_update_buffers.
InputEvent(r, ev) ==
  /\ upd = Idle
  /\ held' = [held EXCEPT ![r] = Apply(@, ev)]
  /\ upd' = [src |-> r, ev |-> ev, k |-> 1, first |-> 0]
  /\ UNCHANGED <<cache, notify>>

\* Slip: motion is copied like any other report.
EncodeOnce == upd.first = 0

\* The report is encoded for the first output, and for each output when the
\* driver accumulates motion; otherwise the first output's report is copied.
EncodeHere == upd.first = 0 \/ upd.src \in RelReports

(***************************************************************************)
(* Slot i after the report was written into it.  A report that was there   *)
(* already and did not change is not marked updated.                       *)
(*                                                                         *)
(* The encoder's error is left out: it returns a negative size for a       *)
(* buffer shorter than its report, which CACHE_SIZE never is, and, the     *)
(* keyboard, for a key it refuses (KbdReport).  Then the slot's size would *)
(* become the error cut to a byte, too long to collect, and the next       *)
(* update would copy that many bytes: undefined.                           *)
(***************************************************************************)
Refreshed(i) ==
  LET e == [cache[i] EXCEPT !.src = upd.src, !.out = Outputs[upd.k]]
      new == IF EncodeHere
             THEN Encode(upd.src, upd.ev, e)
             ELSE [e EXCEPT !.abs = cache[upd.first].abs,
                            !.rel = cache[upd.first].rel]
  IN IF e.filled /\ new.abs = e.abs /\ new.rel = e.rel
     THEN e
     ELSE [new EXCEPT !.filled = TRUE, !.updated = TRUE]

\* One iteration of the loop over the outputs, under the lock.  When the cache
\* is full no slot is found, and the iteration changes nothing.
UpdateOutput ==
  /\ upd # Idle
  /\ upd.k <= Len(Outputs)
  /\ LET found == SlotFor(cache, upd.src, Outputs[upd.k])
     IN /\ cache' = [i \in Slots |-> IF i \in found THEN Refreshed(i) ELSE cache[i]]
        /\ upd' = [upd EXCEPT !.k = @ + 1,
                              !.first = IF found # {} /\ EncodeHere
                                        THEN CHOOSE i \in found : TRUE ELSE @]
  /\ UNCHANGED <<held, notify>>

\* The end of hid_update_buffers: the notify work is scheduled.
UpdateDone ==
  /\ upd # Idle
  /\ upd.k > Len(Outputs)
  /\ upd' = Idle
  /\ notify' = TRUE
  /\ UNCHANGED <<cache, held>>

\* hid_notify_worker starts; the outputs it notifies collect with GetReport.
NotifyWorker ==
  /\ notify
  /\ notify' = FALSE
  /\ UNCHANGED <<cache, held, upd>>

GetReport(o) ==
  /\ \E i \in NextReport(cache, o) : cache' = Collected(cache, i)
  /\ UNCHANGED <<held, upd, notify>>

GetReportId(o, r) ==
  /\ HostReads
  /\ \E i \in SlotById(cache, o, r) : cache' = Collected(cache, i)
  /\ UNCHANGED <<held, upd, notify>>

InputSide ==
  \/ \E r \in Reports : \E ev \in Events(r) : InputEvent(r, ev)
  \/ UpdateOutput
  \/ UpdateDone

Next ==
  \/ InputSide
  \/ NotifyWorker
  \/ \E o \in OutputSet : GetReport(o)
  \/ \E o \in OutputSet, r \in Reports : GetReportId(o, r)

Spec == Init /\ [][Next]_vars

\* An input event reaches the hid device.
InputArrives == upd = Idle /\ upd' # Idle
-----------------------------------------------------------------------------
TypeOK ==
  /\ cache \in [Slots -> Entry]
  /\ held \in [Reports -> SUBSET Keys]
  /\ upd \in Call \union {Idle}
  /\ notify \in BOOLEAN

(***************************************************************************)
(* find_cache_idx never reports "report cache full": the array has a slot  *)
(* for every report and output, and no pair ever takes two.                *)
(***************************************************************************)
CacheNeverFull ==
  upd # Idle /\ upd.k <= Len(Outputs) => SlotFor(cache, upd.src, Outputs[upd.k]) # {}

\* Output o still has to be served by the hid_update_buffers call in progress.
Unserved(r, o) ==
  /\ upd # Idle
  /\ upd.src = r
  /\ \E k \in upd.k .. Len(Outputs) : Outputs[k] = o

\* The keys that the cache shows to output o as held in report r.
ShownIn(c, r, o) == UNION {c[i].abs : i \in SlotById(c, o, r)}

Shown(r, o) == ShownIn(cache, r, o)

\* What output o finds of report r in cache c: its slot, or a free one.
View(c, r, o) ==
  IF \E i \in Slots : IsSlotOf(c, i, r, o)
  THEN c[CHOOSE i \in Slots : IsSlotOf(c, i, r, o)]
  ELSE FreeSlot

\* The motion waiting in the slot of report r for output o.
Motion(r, o) == View(cache, r, o).rel

\* The mailboxes of ReportMailbox that the cache implements for output o.
Mail(e) == [abs |-> e.abs, rel |-> e.rel, known |-> e.filled, fresh |-> e.updated]

BoxOf(o) == [r \in Reports |-> Mail(View(cache, r, o))]

(***************************************************************************)
(* Every output's copy of a report shows the device's present keys, once   *)
(* the update in progress has reached that output: no event is lost by the *)
(* copy from the first output, the in-place edit or the "no change" exit.  *)
(***************************************************************************)
EntriesCurrent ==
  \A r \in Reports, o \in OutputSet :
    IF Unserved(r, o) THEN Apply(Shown(r, o), upd.ev) = held[r]
                      ELSE Shown(r, o) = held[r]

(***************************************************************************)
(* Motion waiting in a slot is always marked updated, so that some         *)
(* hid_get_report still delivers it, and only slots of devices that can    *)
(* clear it hold motion at all.                                            *)
(***************************************************************************)
MotionMarked ==
  \A i \in Slots : cache[i].rel # 0 => cache[i].updated /\ cache[i].src \in RelReports

(***************************************************************************)
(* The slots in use come first, each holds a report that was written, and  *)
(* no report and output has two of them.                                   *)
(***************************************************************************)
SlotsSound ==
  /\ \A i \in Slots :
       IF cache[i].src = NoReport
       THEN cache[i] = FreeSlot /\ \A j \in Slots : i < j => cache[j].src = NoReport
       ELSE cache[i].out # NoOutput /\ cache[i].filled
  /\ \A i, j \in Slots : cache[i].src # NoReport /\ IsSlotOf(cache, j, cache[i].src, cache[i].out)
                           => i = j

\* Past the first output the loop has a slot to copy the new report from.
LoopSound ==
  upd # Idle =>
    /\ upd.k = 1 => upd.first = 0
    /\ upd.k > 1 /\ upd.src \notin RelReports =>
         /\ upd.first \in Slots
         /\ cache[upd.first].src = upd.src
         /\ cache[upd.first].abs = held[upd.src]

(***************************************************************************)
(* Why the cache stays current: the slots are the prefix of the array that *)
(* find_cache_idx filled, one per report and output, and first_entry holds *)
(* the report as it was just encoded, also when an output has collected it *)
(* since.  With the properties above this is preserved by every step.      *)
(***************************************************************************)
CacheInv == TypeOK /\ SlotsSound /\ LoopSound /\ MotionMarked /\ EntriesCurrent
=============================================================================

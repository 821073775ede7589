---------------------------- MODULE HidDelivery ----------------------------
(***************************************************************************)
(* The report cache together with a history of what each output is owed    *)
(* and was given, to state that nothing is lost or repeated on the way.    *)
(***************************************************************************)
EXTENDS HidReports

VARIABLES
  owed,   \* per output and report: motion that happened and was not collected
  sat,    \* per output and report: some of it was cut off by the 16-bit field
  given,  \* per output and report: the keys shown by the last collection
  took    \* what the last step handed out, and to which output

history == <<owed, sat, given, took>>

Nothing == [out |-> NoOutput, src |-> NoReport, abs |-> {}, rel |-> 0]

DInit ==
  /\ Init
  /\ owed = [o \in OutputSet |-> [r \in Reports |-> 0]]
  /\ sat = [o \in OutputSet |-> [r \in Reports |-> FALSE]]
  /\ given = [o \in OutputSet |-> [r \in Reports |-> {}]]
  /\ took = Nothing

\* The motion of the update in progress that output o was not served yet.
Underway(r, o) == IF Unserved(r, o) THEN upd.ev.delta ELSE 0

\* Every output is owed the motion of an event.  What the field cut off cannot
\* be told apart, so a saturated accumulator is counted anew once collected.
DInput(r, ev) ==
  /\ InputEvent(r, ev)
  /\ owed' = [o \in OutputSet |-> [owed[o] EXCEPT ![r] = IF sat[o][r] THEN 0 ELSE @ + ev.delta]]
  /\ took' = Nothing
  /\ UNCHANGED <<sat, given>>

DUpdate ==
  /\ UpdateOutput
  /\ LET o == Outputs[upd.k]
         sum == Motion(upd.src, o) + upd.ev.delta
         cut == sat[o][upd.src] \/ sum # Clamp(sum)
     IN /\ sat' = [sat EXCEPT ![o][upd.src] = cut]
        /\ owed' = [owed EXCEPT ![o][upd.src] = IF cut THEN 0 ELSE @]
  /\ took' = Nothing
  /\ UNCHANGED given

\* Output o was handed the report in slot i.
Record(o, i) ==
  LET e == cache[i]
      r == e.src
  IN /\ owed' = [owed EXCEPT ![o][r] = IF sat[o][r] THEN Underway(r, o) ELSE @ - e.rel]
     /\ sat' = [sat EXCEPT ![o][r] = FALSE]
     /\ given' = [given EXCEPT ![o][r] = e.abs]
     /\ took' = [out |-> o, src |-> r, abs |-> e.abs, rel |-> e.rel]

DGet(o) ==
  /\ GetReport(o)
  /\ \E i \in NextReport(cache, o) : Record(o, i)

DGetId(o, r) ==
  /\ GetReportId(o, r)
  /\ \E i \in SlotById(cache, o, r) : Record(o, i)

DOther ==
  /\ UpdateDone \/ NotifyWorker
  /\ took' = Nothing
  /\ UNCHANGED <<owed, sat, given>>

DNext ==
  \/ \E r \in Reports : \E ev \in Events(r) : DInput(r, ev)
  \/ DUpdate
  \/ DOther
  \/ \E o \in OutputSet : DGet(o)
  \/ \E o \in OutputSet, r \in Reports : DGetId(o, r)

DSpec == DInit /\ [][DNext]_<<vars, history>>
-----------------------------------------------------------------------------
(***************************************************************************)
(* Every output gets the whole motion of a pointing device, once, whatever *)
(* the other outputs collect and whenever they do: the motion that waits   *)
(* in the cache for it, with that of the update under way, is the motion   *)
(* that happened and that it did not collect.  Only an accumulator at the  *)
(* limit of its field cuts motion off, until it is collected.              *)
(***************************************************************************)
MotionConserved ==
  \A o \in OutputSet : \A r \in RelReports :
    ~sat[o][r] => owed[o][r] = Motion(r, o) + Underway(r, o)

(***************************************************************************)
(* An output with nothing to collect is up to date: unless the slot is     *)
(* marked updated, or an update has yet to reach it, the keys the output   *)
(* collected last are the keys the device holds now.                       *)
(***************************************************************************)
NothingMissed ==
  \A o \in OutputSet, r \in Reports :
    \/ Unserved(r, o)
    \/ \E i \in SlotById(cache, o, r) : cache[i].updated
    \/ given[o][r] = held[r]

\* The reports of the first output are encoded, those of the last one copied.
FirstOutput == Outputs[1]
LastOutput == Outputs[Len(Outputs)]

\* The event on its way to output o, and what the last step handed to it.
ComingTo(o) ==
  IF \E r \in Reports : Unserved(r, o)
  THEN [src |-> upd.src, ev |-> upd.ev]
  ELSE [src |-> NoReport, ev |-> [press |-> {}, release |-> {}, delta |-> 0]]

TookBy(o) ==
  IF took.out = o
  THEN [src |-> took.src, abs |-> took.abs, rel |-> took.rel]
  ELSE [src |-> NoReport, abs |-> {}, rel |-> 0]

FirstBox ==
  INSTANCE ReportMailbox WITH box <- BoxOf(FirstOutput), coming <- ComingTo(FirstOutput),
                              took <- TookBy(FirstOutput)

LastBox ==
  INSTANCE ReportMailbox WITH box <- BoxOf(LastOutput), coming <- ComingTo(LastOutput),
                              took <- TookBy(LastOutput)

(***************************************************************************)
(* The shared cache gives each output private mailboxes.  A slot takes the *)
(* event that happened, exactly, also where the report is copied from the  *)
(* first output's slot instead of encoded; it is emptied only by a         *)
(* collection that hands what it held to this very output; and collecting  *)
(* touches nothing that another output is shown.                           *)
(***************************************************************************)
OutputsAreMailboxes == FirstBox!Spec /\ LastBox!Spec
=============================================================================

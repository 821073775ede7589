---------------------------- MODULE ReportMailbox ----------------------------
(***************************************************************************)
(* What the report cache promises to one output device: a private mailbox  *)
(* per report.  A mailbox holds the present keys and the motion not yet    *)
(* collected, and is fresh while it shows something the output has not     *)
(* collected.  It changes in two ways only: an event that happened on the  *)
(* input device is delivered into it, exactly and once, and this output    *)
(* collects it, being handed all that it held.  What other outputs do is   *)
(* not seen at all.                                                        *)
(***************************************************************************)
EXTENDS Integers

CONSTANTS Reports, RelReports, Keys, Deltas, RelMin, RelMax, NoReport

VARIABLES
  box,     \* per report: keys shown, motion owed, ever written, fresh
  coming,  \* the event that happened and is on its way to this output, if any
  took     \* what the last step handed to this output, if anything

boxvars == <<box, coming, took>>

Changes == [press : SUBSET Keys, release : SUBSET Keys, delta : Deltas \union {0}]

NoEvent == [src |-> NoReport, ev |-> [press |-> {}, release |-> {}, delta |-> 0]]

Nothing == [src |-> NoReport, abs |-> {}, rel |-> 0]

Limit(x) == IF x < RelMin THEN RelMin ELSE IF x > RelMax THEN RelMax ELSE x

\* Keys go down or up, motion adds up within its range.
Posted(b, r, ev) ==
  LET abs == (b.abs \ ev.release) \union ev.press
      rel == IF r \in RelReports THEN Limit(b.rel + ev.delta) ELSE 0
  IN [abs |-> abs, rel |-> rel, known |-> TRUE,
      fresh |-> b.fresh \/ ~b.known \/ abs # b.abs \/ rel # b.rel]

\* Nothing is owed any more, and the keys have been seen.
Emptied(b) == [abs |-> b.abs, rel |-> 0, known |-> b.known, fresh |-> FALSE]

Init ==
  /\ box = [r \in Reports |-> [abs |-> {}, rel |-> 0, known |-> FALSE, fresh |-> FALSE]]
  /\ coming = NoEvent
  /\ took = Nothing

\* An input device reports an event: it is on its way to this output.
Announce ==
  /\ coming = NoEvent
  /\ coming' \in [src : Reports, ev : Changes]
  /\ UNCHANGED box

\* The event reaches this output's mailbox of the report, and no other one.
Deliver ==
  /\ coming.src \in Reports
  /\ coming' = NoEvent
  /\ box' = [box EXCEPT ![coming.src] = Posted(@, coming.src, coming.ev)]

\* Something happens to other outputs: nothing to be seen here.
Elsewhere == UNCHANGED <<coming, box>>

\* This output is handed what the mailbox of report r holds, and empties it.
Collect(r) ==
  /\ box[r].known
  /\ took' = [src |-> r, abs |-> box[r].abs, rel |-> box[r].rel]
  /\ box' = [box EXCEPT ![r] = Emptied(@)]
  /\ UNCHANGED coming

Next ==
  \/ took' = Nothing /\ (Announce \/ Deliver \/ Elsewhere)
  \/ \E r \in Reports : Collect(r)

Spec == Init /\ [][Next]_boxvars
=============================================================================

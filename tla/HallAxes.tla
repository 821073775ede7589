------------------------------ MODULE HallAxes ------------------------------
(***************************************************************************)
(* The stick of big_stick (hall-axes.c): a work item reads the angle of    *)
(* each axis in turn, blocking on the bus, reports what changed, and       *)
(* schedules itself again.                                                 *)
(***************************************************************************)
EXTENDS Integers, Sequences

CONSTANT Angles \* the readings: <<val1, val2>>, whole degrees and millionths

Micro == 1000000 \* of val2, in one of val1

ASSUME HallAssumption == Angles \subseteq (0 .. 359) \X (0 .. Micro - 1)

\* devs: the ends of the travel, in tenths of a degree; the second axis is
\* mounted the other way round.
Devs == <<[min |-> 754, max |-> 1072], [min |-> 1000, max |-> 690]>>
Axes == DOMAIN Devs

VARIABLES
  angle,    \* the stick
  lastVal,  \* last_val
  shown,    \* the value of the last report of each axis, 0 before the first
  reading,  \* the axis being read by tmag_handler, 0 while it does not run
  tmagDwork, \* tmag_dwork is scheduled
  readFailed \* a read has failed (history)

hallvars == <<angle, lastVal, shown, reading, tmagDwork, readFailed>>

\* tmag_init calls the handler.
HallInit ==
  /\ angle \in [Axes -> Angles]
  /\ lastVal = [i \in Axes |-> 0] /\ shown = [i \in Axes |-> 0]
  /\ reading = 1 /\ tmagDwork = FALSE /\ readFailed = FALSE

\* The division of C, which truncates.
Quotient(a, b) ==
  LET magnitude == (IF a < 0 THEN -a ELSE a) \div (IF b < 0 THEN -b ELSE b)
  IN IF (a < 0) = (b < 0) THEN magnitude ELSE -magnitude

\* The position of axis i for a reading.  The millionths never make a tenth.
Position(i, val) ==
  LET deg == val[1] * 10 + val[2] \div Micro
      out == Quotient((deg - Devs[i].min) * 255, Devs[i].max - Devs[i].min)
  IN IF out < 0 THEN 0 ELSE IF out > 255 THEN 255 ELSE out

\* Slip: the item goes on only when there was something to report.
ReschedulesMoved(i, moved) == i = Len(Devs) /\ moved

\* Whether tmag_handler has come to its k_work_schedule, after axis i.
Reschedules(i, moved) == i = Len(Devs)

\* One pass of the loop of tmag_handler.
ReadAxis ==
  /\ reading # 0
  /\ LET out == Position(reading, angle[reading])
         moved == lastVal[reading] # out
     IN /\ shown' = IF moved THEN [shown EXCEPT ![reading] = out] ELSE shown
        /\ lastVal' = [lastVal EXCEPT ![reading] = out]
        /\ tmagDwork' = Reschedules(reading, moved)
  /\ reading' = (reading + 1) % (Len(Devs) + 1)
  /\ UNCHANGED <<angle, readFailed>>

\* The sensor does not answer: the handler returns, and nothing schedules it.
ReadFails ==
  /\ reading # 0
  /\ reading' = 0
  /\ readFailed' = TRUE
  /\ UNCHANGED <<angle, lastVal, shown, tmagDwork>>

TmagTimer ==
  /\ tmagDwork
  /\ tmagDwork' = FALSE /\ reading' = 1
  /\ UNCHANGED <<angle, lastVal, shown, readFailed>>

Turn ==
  /\ \E i \in Axes, val \in Angles : angle' = [angle EXCEPT ![i] = val]
  /\ UNCHANGED <<lastVal, shown, reading, tmagDwork, readFailed>>

HallWork == ReadAxis \/ TmagTimer
HallNext == HallWork \/ ReadFails \/ Turn

(***************************************************************************)
(* A stick that is left alone is shown where it is, as precisely as the    *)
(* conversion gives it, unless a read failed: only that ends the polling.  *)
(***************************************************************************)
StickFollows ==
  <>[][~Turn]_hallvars =>
    <>[](readFailed \/ \A i \in Axes : shown[i] = Position(i, angle[i]))
=============================================================================

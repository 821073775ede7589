---------------------------- MODULE KeySequencer ----------------------------
(***************************************************************************)
(* The board filter of ble_pulse_encoder (input_board_filter.c): events of *)
(* the wheel and the buttons become codes on a queue, and a thread types   *)
(* the keys of each code.  The keys are input events again: they pass      *)
(* through the input queue that the wheel and the buttons use, and the     *)
(* input thread runs both board_filter_cb and hid_kbd_cb, the one for the  *)
(* events of the wheel and the buttons and the other for the typed keys.   *)
(***************************************************************************)
EXTENDS Integers, Sequences, SequencesExt, FiniteSets

CONSTANTS
  SeqQueueSize,   \* SEQ_QUEUE_SZ
  InputQueueSize, \* CONFIG_INPUT_QUEUE_MAX_MSGS
  WheelValues,    \* the motion of one wheel event
  Presses         \* the key presses that select a code: RIGHT, X, U

CONSTANTS SeqLeft, SeqRight, SeqP5, SeqX, SeqGraveU \* enum seq_code

\* board_filter_cb counts the steps of a wheel event in eight bits.
ASSUME KeySequencerAssumption ==
  /\ SeqQueueSize \in Nat \ {0}
  /\ InputQueueSize \in Nat \ {0}
  /\ WheelValues \subseteq -255 .. 255
  /\ Presses \subseteq {SeqP5, SeqX, SeqGraveU}

VARIABLES
  inputq,  \* the input queue: [wheel], [press] and [key, down] events
  seqq,    \* seq_msgq
  job,     \* what seq_thread has yet to report of the code it took
  held,    \* the keys hid_kbd_cb was told are down
  owed     \* keys of the accepted codes hid_kbd_cb has yet to see (history)

seqvars == <<inputq, seqq, job, held, owed>>

Wheel(v) == [kind |-> "wheel", value |-> v]
Press(c) == [kind |-> "press", code |-> c]
Other == [kind |-> "other"] \* a release, or a button without a code
Key(k, d) == [kind |-> "key", key |-> k, down |-> d]

\* The keys a code types, one after the other.
Keys(code) ==
  CASE code = SeqLeft -> <<"left">>
    [] code = SeqRight -> <<"right">>
    [] code = SeqP5 -> <<"p", "5">>
    [] code = SeqX -> <<"x">>
    [] code = SeqGraveU -> <<"grave", "u">>

AllKeys(codes) == FlattenSeq([i \in DOMAIN codes |-> Keys(codes[i])])

\* Slip: all the keys of a code go down before the first goes up.
ChordOf(code) ==
  [i \in 1 .. Len(Keys(code)) |-> Key(Keys(code)[i], TRUE)]
    \o [i \in 1 .. Len(Keys(code)) |-> Key(Keys(code)[i], FALSE)]

\* Keys typed one after the other: each goes up before the next goes down.
Typed(keys) == FlattenSeq([i \in DOMAIN keys |-> <<Key(keys[i], TRUE), Key(keys[i], FALSE)>>])

\* The reports seq_thread makes for a code.
Reports(code) == Typed(Keys(code))

SeqInit ==
  /\ inputq = <<>> /\ seqq = <<>> /\ job = <<>>
  /\ held = {}
  /\ owed = <<>>

\* A driver reports the wheel or a button, and waits for room in the queue.
Feed ==
  /\ Len(inputq) < InputQueueSize
  /\ \E e \in {Wheel(v) : v \in WheelValues} \union {Press(c) : c \in Presses} \union {Other} :
       inputq' = Append(inputq, e)
  /\ UNCHANGED <<seqq, job, held, owed>>

Magnitude(v) == IF v < 0 THEN -v ELSE v

\* The codes an event asks for.
Wanted(e) ==
  CASE e.kind = "press" -> <<e.code>>
    [] e.kind = "wheel" -> [i \in 1 .. Magnitude(e.value) |-> IF e.value > 0 THEN SeqLeft ELSE SeqRight]
    [] e.kind = "other" -> <<>>

Smaller(a, b) == IF a < b THEN a ELSE b

\* k_msgq_put without a timeout: the codes there is room for.
Accepted(e) == SubSeq(Wanted(e), 1, Smaller(Len(Wanted(e)), SeqQueueSize - Len(seqq)))

\* board_filter_cb, in the input thread.
Filter(e) ==
  /\ seqq' = seqq \o Accepted(e)
  /\ owed' = owed \o AllKeys(Accepted(e))
  /\ UNCHANGED <<job, held>>

\* hid_kbd_cb, in the input thread.
HidKbd(e) ==
  /\ held' = IF e.down THEN held \union {e.key} ELSE held \ {e.key}
  /\ owed' = IF e.down /\ owed # <<>> /\ Head(owed) = e.key THEN Tail(owed) ELSE owed
  /\ UNCHANGED <<seqq, job>>

\* The input thread takes the next event and runs its callbacks.
InputThread ==
  /\ inputq # <<>>
  /\ inputq' = Tail(inputq)
  /\ IF Head(inputq).kind = "key" THEN HidKbd(Head(inputq)) ELSE Filter(Head(inputq))

\* seq_thread takes the next code.
SeqTake ==
  /\ job = <<>> /\ seqq # <<>>
  /\ job' = Reports(Head(seqq))
  /\ seqq' = Tail(seqq)
  /\ UNCHANGED <<inputq, held, owed>>

\* Slip: the report is dropped when the input queue is full.
SeqReportNoWait ==
  /\ job # <<>>
  /\ inputq' = IF Len(inputq) < InputQueueSize THEN Append(inputq, Head(job)) ELSE inputq
  /\ job' = Tail(job)
  /\ UNCHANGED <<seqq, held, owed>>

\* seq_thread reports a key, waiting for room in the input queue, and sleeps.
SeqReport ==
  /\ job # <<>>
  /\ Len(inputq) < InputQueueSize
  /\ inputq' = Append(inputq, Head(job))
  /\ job' = Tail(job)
  /\ UNCHANGED <<seqq, held, owed>>

SeqNext == Feed \/ InputThread \/ SeqTake \/ SeqReport

SeqSpec == SeqInit /\ [][SeqNext]_seqvars

(***************************************************************************)
(* Both threads run when they can.  seq_thread competes with the drivers   *)
(* for room in the input queue: strong fairness says that events of the    *)
(* wheel and the buttons do not take every free place for good.            *)
(***************************************************************************)
FairSpec == SeqSpec /\ WF_seqvars(InputThread) /\ WF_seqvars(SeqTake) /\ SF_seqvars(SeqReport)
-----------------------------------------------------------------------------
\* The keys that go down in a sequence of events.
KeyPresses(events) ==
  FlattenSeq([i \in DOMAIN events |->
    IF events[i].kind = "key" /\ events[i].down THEN <<events[i].key>> ELSE <<>>])

KeySeqTypeOK ==
  /\ Len(inputq) <= InputQueueSize
  /\ Len(seqq) <= SeqQueueSize
  /\ seqq \in Seq({SeqLeft, SeqRight} \union Presses)
  /\ Len(job) <= 4

(***************************************************************************)
(* The keys of the accepted codes are typed whole, in the order the codes  *)
(* were accepted, none twice and none left out, wherever they are on their *)
(* way through the two queues and the thread; codes are only ever dropped  *)
(* whole, by the full queue in board_filter_cb.                            *)
(***************************************************************************)
KeysInOrder == owed = KeyPresses(inputq) \o KeyPresses(job) \o AllKeys(seqq)

(***************************************************************************)
(* The host never sees two keys of the sequencer down at once, so that a   *)
(* macro cannot turn into a key combination.                               *)
(***************************************************************************)
OneKeyDown == Cardinality(held) <= 1

(***************************************************************************)
(* The host gets the accepted macros key by key: in order, whole, and one  *)
(* key at a time.                                                          *)
(***************************************************************************)
SequencerInv == KeySeqTypeOK /\ KeysInOrder /\ OneKeyDown

(***************************************************************************)
(* A key that went down goes up: the two threads, which feed each other's  *)
(* queue, never wait for one another for good.                             *)
(***************************************************************************)
KeysReleased == held # {} ~> held = {}
=============================================================================

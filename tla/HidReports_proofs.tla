-------------------------- MODULE HidReports_proofs --------------------------
(***************************************************************************)
(* Proofs about the report cache for every device tree: any outputs, any   *)
(* reports, any keys and any motion range.  First that the cache is sound, *)
(* then that it loses, repeats and misses nothing, and last that it gives  *)
(* each output private mailboxes.                                          *)
(***************************************************************************)
EXTENDS HidDelivery, FiniteSetTheorems, TLAPS

(***************************************************************************)
(* The size of the cache array is a natural number.                        *)
(***************************************************************************)
LEMMA CacheLenNat == CacheLen \in Nat
<1>1. Cardinality(Reports) \in Nat
  BY FS_CardinalityType, ReportsAssumption
<1>2. Len(Outputs) \in Nat
  BY OutputsAssumption
<1>3. \A a, b \in Nat : a * b \in Nat
  OBVIOUS
<1> QED
  BY <1>1, <1>2, <1>3 DEF CacheLen

(***************************************************************************)
(* Encoding an event into a slot of the report's own gives a slot.         *)
(***************************************************************************)
LEMMA EncodeType ==
  ASSUME NEW r \in Reports, NEW ev \in Event, NEW e \in Entry,
         held \in [Reports -> SUBSET Keys]
  PROVE  Encode(r, ev, e) \in Entry
<1>1. Apply(e.abs, ev) \in SUBSET Keys
  BY DEF Apply, Entry, Event
<1>2. e.rel \in RelMin .. RelMax /\ ev.delta \in Deltas \union {0}
  BY DEF Entry, Event
<1>3. e.rel + ev.delta \in Int
  <2>1. \A x \in RelMin .. RelMax : x \in Int
    BY RelAssumption
  <2>2. \A x \in Deltas \union {0} : x \in Int
    BY RelAssumption
  <2> QED
    BY <1>2, <2>1, <2>2
<1>4. Clamp(e.rel + ev.delta) \in RelMin .. RelMax
  BY <1>3, RelAssumption DEF Clamp
<1> QED
  BY <1>1, <1>4 DEF Encode, Entry

(***************************************************************************)
(* Handing out a report leaves a cache.                                    *)
(***************************************************************************)
LEMMA CollectedType ==
  ASSUME NEW c \in [Slots -> Entry], NEW i \in Slots
  PROVE  Collected(c, i) \in [Slots -> Entry]
<1> DEFINE rel == IF c[i].src \in RelReports THEN 0 ELSE c[i].rel
<1>1. c[i] \in Entry
  OBVIOUS
<1>2. rel \in RelMin .. RelMax
  BY <1>1, RelAssumption DEF Entry
<1>3. Collected(c, i) = [c EXCEPT ![i] = [[c[i] EXCEPT !.updated = FALSE] EXCEPT !.rel = rel]]
  BY DEF Collected
<1>4. [[c[i] EXCEPT !.updated = FALSE] EXCEPT !.rel = rel] \in Entry
  <2> HIDE DEF rel
  <2> QED
    BY <1>1, <1>2 DEF Entry
<1> QED
  BY <1>3, <1>4

(***************************************************************************)
(* Refreshing a slot gives a slot.                                         *)
(***************************************************************************)
LEMMA RefreshedType ==
  ASSUME TypeOK, upd # Idle, upd.k <= Len(Outputs), NEW i \in Slots
  PROVE  Refreshed(i) \in Entry
<1> DEFINE e == [cache[i] EXCEPT !.src = upd.src, !.out = Outputs[upd.k]]
           new == IF EncodeHere
                  THEN Encode(upd.src, upd.ev, e)
                  ELSE [e EXCEPT !.abs = cache[upd.first].abs,
                                 !.rel = cache[upd.first].rel]
<1>1. upd \in Call
  BY DEF TypeOK
<1>2. Outputs[upd.k] \in OutputSet
  BY <1>1, OutputsAssumption DEF Call, OutputSet
<1>3. e \in Entry
  <2> DEFINE slot == cache[i]
             src == upd.src
             out == Outputs[upd.k]
  <2>1. slot \in Entry
    BY DEF TypeOK
  <2>2. src \in Reports /\ out \in OutputSet
    BY <1>1, <1>2 DEF Call
  <2> HIDE DEF slot, src, out
  <2>3. [slot EXCEPT !.src = src, !.out = out] \in Entry
    BY <2>1, <2>2 DEF Entry
  <2> QED
    BY <2>3 DEF slot, src, out
<1>4. new \in Entry
  <2>1. CASE EncodeHere
    BY <2>1, <1>1, <1>3, EncodeType DEF TypeOK, Call
  <2>2. CASE ~EncodeHere
    <3>1. upd.first \in Slots
      BY <2>2, <1>1, CacheLenNat DEF EncodeHere, Call, Slots
    <3>2. cache[upd.first] \in Entry
      BY <3>1 DEF TypeOK
    <3> HIDE DEF e
    <3> QED
      BY <2>2, <1>3, <3>2 DEF Entry
  <2> QED
    BY <2>1, <2>2
<1>5. Refreshed(i) = IF e.filled /\ new.abs = e.abs /\ new.rel = e.rel
                     THEN e ELSE [new EXCEPT !.filled = TRUE, !.updated = TRUE]
  BY DEF Refreshed
<1> HIDE DEF e, new
<1> QED
  BY <1>3, <1>4, <1>5 DEF Entry

(***************************************************************************)
(* The variables keep their types: slots hold motion within the report's   *)
(* range, and the loop never points outside the cache.                     *)
(***************************************************************************)
LEMMA InitType == Init => TypeOK
<1> SUFFICES ASSUME Init PROVE TypeOK
  OBVIOUS
<1>1. FreeSlot \in Entry
  BY RelAssumption DEF FreeSlot, Entry
<1> QED
  BY <1>1 DEF Init, TypeOK

LEMMA NextType == TypeOK /\ [Next]_vars => TypeOK'
<1> SUFFICES ASSUME TypeOK, [Next]_vars PROVE TypeOK'
  OBVIOUS
<1>1. ASSUME NEW r \in Reports, NEW ev \in Events(r), InputEvent(r, ev)
      PROVE  TypeOK'
  <2>1. ev \in Event
    BY DEF Events, KeyEvents, MoveEvents, Event
  <2>2. Apply(held[r], ev) \in SUBSET Keys
    BY <2>1 DEF TypeOK, Apply, Event
  <2>3. held' \in [Reports -> SUBSET Keys]
    BY <1>1, <2>2 DEF InputEvent, TypeOK
  <2>4. upd' \in Call
    BY <1>1, <2>1, CacheLenNat, OutputsAssumption DEF InputEvent, Call
  <2> QED
    BY <1>1, <2>3, <2>4 DEF InputEvent, TypeOK
<1>2. CASE UpdateOutput
  <2> DEFINE found == SlotFor(cache, upd.src, Outputs[upd.k])
             here == CHOOSE i \in found : TRUE
  <2>1. upd \in Call /\ upd # Idle /\ upd.k <= Len(Outputs)
    BY <1>2 DEF UpdateOutput, TypeOK
  <2>2. cache' \in [Slots -> Entry]
    BY <1>2, <2>1, RefreshedType DEF UpdateOutput, TypeOK
  <2>3. found # {} => here \in 0 .. CacheLen
    <3>1. found \subseteq Slots
      BY DEF SlotFor
    <3>2. found # {} => here \in found
      OBVIOUS
    <3> QED
      BY <3>1, <3>2, CacheLenNat DEF Slots
  <2>4. upd' = [upd EXCEPT !.k = upd.k + 1,
                           !.first = IF found # {} /\ EncodeHere THEN here ELSE upd.first]
    BY <1>2 DEF UpdateOutput
  <2>5. upd.k + 1 \in 1 .. Len(Outputs) + 1
    BY <2>1, OutputsAssumption DEF Call
  <2> HIDE DEF found, here
  <2>6. upd' \in Call
    BY <2>1, <2>3, <2>4, <2>5 DEF Call
  <2> QED
    BY <1>2, <2>2, <2>6 DEF UpdateOutput, TypeOK
<1>3. CASE UpdateDone
  BY <1>3 DEF UpdateDone, TypeOK
<1>4. CASE NotifyWorker
  BY <1>4 DEF NotifyWorker, TypeOK
<1>5. ASSUME NEW o \in OutputSet, GetReport(o)
      PROVE  TypeOK'
  <2>1. PICK i \in NextReport(cache, o) : cache' = Collected(cache, i)
    BY <1>5 DEF GetReport
  <2>2. i \in Slots
    BY DEF NextReport, Pending
  <2> QED
    BY <1>5, <2>1, <2>2, CollectedType DEF GetReport, TypeOK
<1>6. ASSUME NEW o \in OutputSet, NEW r \in Reports, GetReportId(o, r)
      PROVE  TypeOK'
  <2>1. PICK i \in SlotById(cache, o, r) : cache' = Collected(cache, i)
    BY <1>6 DEF GetReportId
  <2>2. i \in Slots
    BY DEF SlotById
  <2> QED
    BY <1>6, <2>1, <2>2, CollectedType DEF GetReportId, TypeOK
<1>7. CASE UNCHANGED vars
  BY <1>7 DEF vars, TypeOK
<1> QED
  BY <1>1, <1>2, <1>3, <1>4, <1>5, <1>6, <1>7 DEF Next, InputSide

(***************************************************************************)
(* hid.c keeps the types of its cache and of the update loop, whatever the *)
(* outputs, reports and events: in particular the accumulated motion never *)
(* leaves the range of the report's field.                                 *)
(***************************************************************************)
THEOREM TypeCorrect == Spec => []TypeOK
BY InitType, NextType, PTL DEF Spec
-----------------------------------------------------------------------------
(***************************************************************************)
(* Every non-empty set of slots has a first one.                           *)
(***************************************************************************)
LEMMA FirstSlot ==
  ASSUME NEW S \in SUBSET Slots, S # {}
  PROVE  \E i \in S : \A j \in S : i <= j
<1>1. S \subseteq Nat
  BY CacheLenNat DEF Slots
<1>2. PICK i \in S : \A j \in S : ~ (<<j, i>> \in OpToRel(<, Nat))
  BY <1>1, NatLessThanWellFounded, WFMin
<1>3. \A j \in S : ~ (j < i)
  BY <1>1, <1>2 DEF OpToRel
<1> QED
  BY <1>1, <1>3

(***************************************************************************)
(* The device tree lists each output once.                                 *)
(***************************************************************************)
LEMMA OutputCount == IsFiniteSet(OutputSet) /\ Cardinality(OutputSet) = Len(Outputs)
<1>1. Outputs \in [1 .. Len(Outputs) -> OutputSet] /\ Len(Outputs) \in Nat
  BY OutputsAssumption
<1>2. Outputs \in Bijection(1 .. Len(Outputs), OutputSet)
  BY <1>1, OutputsAssumption DEF OutputSet, Bijection, Injection, IsInjective, Surjection
<1>3. ExistsBijection(1 .. Len(Outputs), OutputSet)
  BY <1>2 DEF ExistsBijection
<1> QED
  BY <1>1, <1>3, FS_CountingElements, FS_NatBijection

(***************************************************************************)
(* find_cache_idx finds a slot for every report and output: were every     *)
(* slot taken by another pair, the pairs of the other outputs and reports  *)
(* would be as many as all pairs.                                          *)
(***************************************************************************)
LEMMA SlotExists ==
  ASSUME TypeOK, SlotsSound, NEW r \in Reports, NEW o \in OutputSet
  PROVE  \E i \in Slots : Usable(cache, i, r, o)
<1> DEFINE Pairs == Reports \X OutputSet
           Others == Pairs \ {<<r, o>>}
           pair == [i \in Slots |-> <<cache[i].src, cache[i].out>>]
<1> SUFFICES ASSUME \A i \in Slots : ~Usable(cache, i, r, o) PROVE FALSE
  OBVIOUS
<1>1. IsFiniteSet(Pairs) /\ Cardinality(Pairs) = CacheLen
  BY FS_Product, OutputCount, ReportsAssumption DEF CacheLen
<1>2. IsFiniteSet(Others) /\ Cardinality(Others) = CacheLen - 1
  <2>1. <<r, o>> \in Pairs
    OBVIOUS
  <2> HIDE DEF Pairs
  <2> QED
    BY <1>1, <2>1, FS_RemoveElement
<1>3. IsFiniteSet(Slots) /\ Cardinality(Slots) = CacheLen
  <2>1. Slots = 1 .. CacheLen
    BY DEF Slots
  <2> QED
    BY <2>1, CacheLenNat, FS_Interval
<1>4. \A i \in Slots : cache[i].src # NoReport /\ cache[i].out # NoOutput
  BY DEF SlotsSound, Usable, IsSlotOf, FreeSlot
<1>5. \A i \in Slots : cache[i].src \in Reports /\ cache[i].out \in OutputSet
  BY <1>4 DEF TypeOK, Entry
<1>6. \A i \in Slots : pair[i] # <<r, o>>
  BY DEF Usable, IsSlotOf
<1>7. pair \in [Slots -> Others]
  BY <1>5, <1>6
<1>8. PICK i, j \in Slots : i # j /\ pair[i] = pair[j]
  <2> HIDE DEF Others, pair
  <2> QED
    BY <1>2, <1>3, <1>7, CacheLenNat, FS_PigeonHole
<1> QED
  BY <1>4, <1>8 DEF SlotsSound, IsSlotOf

(***************************************************************************)
(* ... and exactly one: the first that is usable.                          *)
(***************************************************************************)
LEMMA OneSlotFor ==
  ASSUME TypeOK, SlotsSound, NEW r \in Reports, NEW o \in OutputSet
  PROVE  \E i \in Slots : SlotFor(cache, r, o) = {i}
<1> DEFINE S == {i \in Slots : Usable(cache, i, r, o)}
<1>1. PICK i \in S : \A j \in S : i <= j
  BY SlotExists, FirstSlot
<1>2. \A j \in Slots : j \in SlotFor(cache, r, o) <=> j = i
  BY <1>1, CacheLenNat DEF SlotFor, Slots
<1> QED
  BY <1>1, <1>2 DEF SlotFor
-----------------------------------------------------------------------------
(***************************************************************************)
(* What an output is shown: the slot of the report, nothing without one,   *)
(* and the same in two caches that agree on whose the slots are.           *)
(***************************************************************************)
LEMMA ShownSlot ==
  ASSUME NEW c, NEW r, NEW o, NEW i \in Slots, IsSlotOf(c, i, r, o),
         \A j \in Slots : IsSlotOf(c, j, r, o) => j = i
  PROVE  ShownIn(c, r, o) = c[i].abs
<1>1. SlotById(c, o, r) = {i}
  BY DEF SlotById, IsSlotOf
<1> QED
  BY <1>1 DEF ShownIn

LEMMA ShownNothing ==
  ASSUME NEW c, NEW r, NEW o, \A j \in Slots : ~IsSlotOf(c, j, r, o)
  PROVE  ShownIn(c, r, o) = {}
<1>1. SlotById(c, o, r) = {}
  BY DEF SlotById, IsSlotOf
<1> QED
  BY <1>1 DEF ShownIn

LEMMA ShownSame ==
  ASSUME NEW c, NEW d, NEW r, NEW o,
         \A i \in Slots : IsSlotOf(c, i, r, o) <=> IsSlotOf(d, i, r, o),
         \A i \in Slots : IsSlotOf(c, i, r, o) => c[i].abs = d[i].abs
  PROVE  ShownIn(c, r, o) = ShownIn(d, r, o)
<1>1. SlotById(c, o, r) = SlotById(d, o, r)
  BY DEF SlotById, IsSlotOf
<1>2. \A i \in SlotById(c, o, r) : c[i].abs = d[i].abs
  BY DEF SlotById, IsSlotOf
<1> QED
  BY <1>1, <1>2 DEF ShownIn

(***************************************************************************)
(* What handing out reports does to the slots: those handed out lose their *)
(* marks and their motion, and nothing else changes.                       *)
(***************************************************************************)
HandedOut(c, d, I) ==
  \A j \in Slots : /\ d[j].src = c[j].src
                   /\ d[j].out = c[j].out
                   /\ d[j].abs = c[j].abs
                   /\ d[j].filled = c[j].filled
                   /\ IF j \in I THEN d[j].rel = 0 /\ ~d[j].updated ELSE d[j] = c[j]

LEMMA CollectedSlots ==
  ASSUME NEW c \in [Slots -> Entry], NEW i \in Slots, c[i].rel # 0 => c[i].src \in RelReports
  PROVE  HandedOut(c, Collected(c, i), {i})
<1> DEFINE rel == IF c[i].src \in RelReports THEN 0 ELSE c[i].rel
<1>1. c[i] \in Entry /\ rel = 0
  OBVIOUS
<1>2. Collected(c, i) = [c EXCEPT ![i] = [[c[i] EXCEPT !.updated = FALSE] EXCEPT !.rel = rel]]
  BY DEF Collected
<1> HIDE DEF rel
<1> QED
  BY <1>1, <1>2 DEF HandedOut, Entry

(***************************************************************************)
(* Handing out reports changes neither whose the slots are nor the keys    *)
(* they show, so the invariant survives it.                                *)
(***************************************************************************)
LEMMA CollectStep ==
  ASSUME CacheInv, TypeOK', NEW I \in SUBSET Slots, \A i \in I : cache[i].src # NoReport,
         HandedOut(cache, cache', I), held' = held, upd' = upd
  PROVE  CacheInv'
<1>3. SlotsSound'
  BY DEF HandedOut, CacheInv, SlotsSound, IsSlotOf
<1>4. LoopSound'
  BY DEF HandedOut, CacheInv, LoopSound
<1>5. MotionMarked'
  BY DEF HandedOut, CacheInv, MotionMarked
<1>6. ASSUME NEW r, NEW o
      PROVE  ShownIn(cache', r, o) = ShownIn(cache, r, o)
  BY ShownSame DEF HandedOut, IsSlotOf
<1>7. EntriesCurrent'
  BY <1>6 DEF CacheInv, EntriesCurrent, Unserved, Shown
<1> QED
  BY <1>3, <1>4, <1>5, <1>7 DEF CacheInv

(***************************************************************************)
(* The slot that find_cache_idx returns for report r and output o: it is   *)
(* either the pair's own, the only one, or a fresh one and the pair has    *)
(* none; everything before it is in use, and by others.                    *)
(***************************************************************************)
FoundSlot(i, r, o) ==
  /\ \A j \in Slots : j < i => cache[j].src # NoReport
  /\ \A j \in Slots : IsSlotOf(cache, j, r, o) => j = i
  /\ \/ IsSlotOf(cache, i, r, o)
     \/ cache[i] = FreeSlot /\ \A j \in Slots : i < j => cache[j].src = NoReport

LEMMA FoundSound ==
  ASSUME TypeOK, SlotsSound, NEW r \in Reports, NEW o \in OutputSet,
         NEW i \in SlotFor(cache, r, o)
  PROVE  FoundSlot(i, r, o)
<1>1. i \in Slots /\ Slots \subseteq Nat
  BY CacheLenNat DEF SlotFor, Slots
<1>2. Usable(cache, i, r, o) /\ \A j \in Slots : j < i => ~Usable(cache, j, r, o)
  BY <1>1, CacheLenNat DEF SlotFor, Slots
<1>3. \A j \in Slots : j < i => cache[j].src # NoReport
  BY <1>1, <1>2 DEF SlotsSound, Usable, IsSlotOf, FreeSlot
<1>4. CASE IsSlotOf(cache, i, r, o)
  <2>1. \A j \in Slots : IsSlotOf(cache, j, r, o) => j = i
    BY <1>1, <1>4, NullAssumption DEF SlotsSound, IsSlotOf
  <2> QED
    BY <1>3, <1>4, <2>1 DEF FoundSlot
<1>5. CASE ~IsSlotOf(cache, i, r, o)
  <2>1. cache[i] = FreeSlot /\ \A j \in Slots : i < j => cache[j].src = NoReport
    BY <1>1, <1>2, <1>5 DEF SlotsSound, Usable, IsSlotOf
  <2>2. \A j \in Slots : IsSlotOf(cache, j, r, o) => ~(i < j)
    BY <2>1, NullAssumption DEF IsSlotOf
  <2>3. \A j \in Slots : IsSlotOf(cache, j, r, o) => ~(j < i)
    BY <1>2 DEF Usable
  <2>4. \A j \in Slots : IsSlotOf(cache, j, r, o) => j = i
    BY <1>1, <2>2, <2>3
  <2> QED
    BY <1>3, <2>1, <2>4 DEF FoundSlot
<1> QED
  BY <1>4, <1>5

(***************************************************************************)
(* The report written into that slot shows the device's present keys and   *)
(* the motion with that of the event, encoded or copied; it is marked      *)
(* unless it was there already and says nothing new.                       *)
(***************************************************************************)
LEMMA RefreshedSound ==
  ASSUME CacheInv, upd # Idle, upd.k <= Len(Outputs),
         NEW i \in Slots, FoundSlot(i, upd.src, Outputs[upd.k])
  PROVE  /\ Refreshed(i).src = upd.src
         /\ Refreshed(i).out = Outputs[upd.k]
         /\ Refreshed(i).abs = held[upd.src]
         /\ Refreshed(i).rel = IF upd.src \in RelReports
                               THEN Clamp(cache[i].rel + upd.ev.delta) ELSE 0
         /\ Refreshed(i).filled
         /\ Refreshed(i).updated <=> \/ cache[i].updated \/ ~cache[i].filled
                                     \/ Refreshed(i).abs # cache[i].abs
                                     \/ Refreshed(i).rel # cache[i].rel
<1> DEFINE r == upd.src
           o == Outputs[upd.k]
           e == [cache[i] EXCEPT !.src = r, !.out = o]
           new == IF EncodeHere
                  THEN Encode(r, upd.ev, e)
                  ELSE [e EXCEPT !.abs = cache[upd.first].abs,
                                 !.rel = cache[upd.first].rel]
<1>1. upd \in Call /\ r \in Reports
  BY DEF CacheInv, TypeOK, Call
<1>2. cache[i] \in Entry /\ o \in OutputSet
  BY <1>1, OutputsAssumption DEF CacheInv, TypeOK, Call, OutputSet
<1>3. e \in Entry /\ e.src = r /\ e.out = o /\ e.abs = cache[i].abs /\ e.rel = cache[i].rel
      /\ e.updated = cache[i].updated /\ e.filled = cache[i].filled
  BY <1>1, <1>2 DEF Entry
<1>4. cache[i].abs = Shown(r, o)
  <2>1. CASE IsSlotOf(cache, i, r, o)
    BY <2>1, ShownSlot DEF FoundSlot, Shown
  <2>2. CASE ~IsSlotOf(cache, i, r, o)
    <3>1. Shown(r, o) = {}
      BY <2>2, ShownNothing DEF FoundSlot, Shown
    <3> QED
      BY <2>2, <3>1 DEF FoundSlot, FreeSlot
  <2> QED
    BY <2>1, <2>2
<1>5. Apply(e.abs, upd.ev) = held[r]
  <2>1. Unserved(r, o)
    BY <1>1, OutputsAssumption DEF Unserved, Call
  <2> QED
    BY <1>1, <1>2, <1>3, <1>4, <2>1 DEF CacheInv, EntriesCurrent
<1>6. e.rel # 0 => e.updated /\ r \in RelReports
  BY <1>3, NullAssumption DEF CacheInv, MotionMarked, FoundSlot, IsSlotOf, FreeSlot
<1> HIDE DEF e
<1>7. /\ new.src = r /\ new.out = o /\ new.abs = held[r]
      /\ new.rel = IF r \in RelReports THEN Clamp(e.rel + upd.ev.delta) ELSE 0
  <2>1. CASE EncodeHere
    <3>1. CASE r \in StateReports
      <4>1. new = [e EXCEPT !.abs = held[r]]
        BY <2>1, <3>1 DEF Encode
      <4>2. r \notin RelReports
        BY <3>1, ReportsAssumption
      <4> HIDE DEF new
      <4> QED
        BY <1>3, <1>6, <4>1, <4>2 DEF Entry
    <3>2. CASE r \notin StateReports
      <4> DEFINE rel == IF r \in RelReports THEN Clamp(e.rel + upd.ev.delta) ELSE e.rel
      <4>1. new = [e EXCEPT !.abs = held[r], !.rel = rel]
        BY <2>1, <3>2, <1>5 DEF Encode
      <4>2. rel = IF r \in RelReports THEN Clamp(e.rel + upd.ev.delta) ELSE 0
        BY <1>6
      <4> HIDE DEF new, rel
      <4> QED
        BY <1>3, <4>1, <4>2 DEF Entry
    <3> QED
      BY <3>1, <3>2
  <2>2. CASE ~EncodeHere
    <3>1. upd.first \in Slots /\ upd.k > 1 /\ r \notin RelReports
      BY <2>2, <1>1, CacheLenNat, OutputsAssumption DEF CacheInv, LoopSound, EncodeHere, Call, Slots
    <3>2. cache[upd.first].src = r /\ cache[upd.first].abs = held[r]
      BY <3>1 DEF CacheInv, LoopSound
    <3>3. cache[upd.first].rel = 0
      BY <3>1, <3>2 DEF CacheInv, MotionMarked
    <3>4. new = [e EXCEPT !.abs = held[r], !.rel = 0]
      BY <2>2, <3>2, <3>3
    <3> HIDE DEF new
    <3> QED
      BY <1>3, <3>1, <3>4 DEF Entry
  <2> QED
    BY <2>1, <2>2
<1>8. Refreshed(i) = IF e.filled /\ new.abs = e.abs /\ new.rel = e.rel
                     THEN e ELSE [new EXCEPT !.filled = TRUE, !.updated = TRUE]
  BY DEF Refreshed, e
<1>9. new \in Entry
  <2>1. CASE EncodeHere
    BY <2>1, <1>1, <1>3, EncodeType DEF CacheInv, TypeOK, Call
  <2>2. CASE ~EncodeHere
    <3>1. upd.first \in Slots
      BY <2>2, <1>1, CacheLenNat DEF EncodeHere, Call, Slots
    <3>2. cache[upd.first] \in Entry
      BY <3>1 DEF CacheInv, TypeOK
    <3> QED
      BY <2>2, <1>3, <3>2 DEF Entry
  <2> QED
    BY <2>1, <2>2
<1> HIDE DEF new
<1> QED
  BY <1>3, <1>6, <1>7, <1>8, <1>9 DEF Entry

(***************************************************************************)
(* One iteration of hid_update_buffers serves one output, with the same    *)
(* event for all of them.                                                  *)
(***************************************************************************)
LEMMA LoopStep ==
  ASSUME CacheInv, UpdateOutput
  PROVE  /\ upd.src \in Reports /\ Outputs[upd.k] \in OutputSet /\ upd.ev \in Event
         /\ upd'.src = upd.src /\ upd'.ev = upd.ev /\ upd'.k = upd.k + 1
         /\ upd # Idle /\ upd' # Idle
         /\ Unserved(upd.src, Outputs[upd.k])
         /\ \A q \in Reports, p \in OutputSet :
              Unserved(q, p)' <=> Unserved(q, p) /\ ~(q = upd.src /\ p = Outputs[upd.k])
<1>1. upd \in Call /\ upd # Idle /\ upd.k <= Len(Outputs) /\ Idle.src # upd.src
  BY NullAssumption DEF UpdateOutput, CacheInv, TypeOK, Idle, Call
<1>2. upd.src \in Reports /\ upd.k \in DOMAIN Outputs /\ Outputs[upd.k] \in OutputSet
  BY <1>1, OutputsAssumption DEF Call, OutputSet
<1>3. \E n : upd' = [upd EXCEPT !.k = upd.k + 1, !.first = n]
  BY DEF UpdateOutput
<1>4. upd'.src = upd.src /\ upd'.ev = upd.ev /\ upd'.k = upd.k + 1 /\ upd' # Idle
  BY <1>1, <1>3 DEF Call
<1>5. upd.k \in Nat /\ Len(Outputs) \in Nat /\ DOMAIN Outputs = 1 .. Len(Outputs)
  BY <1>1, OutputsAssumption DEF Call
<1>6. Unserved(upd.src, Outputs[upd.k])
  BY <1>1, <1>5 DEF Unserved
<1>7. ASSUME NEW q \in Reports, NEW p \in OutputSet
      PROVE  Unserved(q, p)' <=> Unserved(q, p) /\ ~(q = upd.src /\ p = Outputs[upd.k])
  BY <1>1, <1>2, <1>4, <1>5, OutputsAssumption DEF Unserved
<1> QED
  BY <1>1, <1>2, <1>4, <1>6, <1>7 DEF Call

(***************************************************************************)
(* ... and rewrites the one slot found, which first_entry remembers when   *)
(* the report was encoded into it.                                         *)
(***************************************************************************)
LEMMA UpdateSlot ==
  ASSUME CacheInv, UpdateOutput
  PROVE  \E i \in Slots :
           /\ FoundSlot(i, upd.src, Outputs[upd.k])
           /\ cache' = [j \in Slots |-> IF j = i THEN Refreshed(i) ELSE cache[j]]
           /\ upd'.first = IF EncodeHere THEN i ELSE upd.first
<1>1. upd.src \in Reports /\ Outputs[upd.k] \in OutputSet /\ upd \in Call
  BY LoopStep DEF CacheInv, TypeOK
<1>2. PICK i \in Slots : SlotFor(cache, upd.src, Outputs[upd.k]) = {i}
  BY <1>1, OneSlotFor DEF CacheInv
<1>3. FoundSlot(i, upd.src, Outputs[upd.k])
  BY <1>1, <1>2, FoundSound DEF CacheInv
<1>4. cache' = [j \in Slots |-> IF j \in {i} THEN Refreshed(j) ELSE cache[j]]
  BY <1>2 DEF UpdateOutput
<1>5. upd' = [upd EXCEPT !.k = upd.k + 1,
                         !.first = IF {i} # {} /\ EncodeHere
                                   THEN CHOOSE j \in {i} : TRUE ELSE upd.first]
  BY <1>2 DEF UpdateOutput
<1>6. {i} # {} /\ (CHOOSE j \in {i} : TRUE) = i
  OBVIOUS
<1>7. upd'.first = IF EncodeHere THEN i ELSE upd.first
  BY <1>1, <1>5, <1>6 DEF Call
<1> QED
  BY <1>3, <1>4, <1>7

(***************************************************************************)
(* One iteration of hid_update_buffers: the output's slot now shows the    *)
(* device's keys, and the slots of other pairs are as they were.           *)
(***************************************************************************)
LEMMA UpdateStep == CacheInv /\ TypeOK' /\ UpdateOutput => CacheInv'
<1> SUFFICES ASSUME CacheInv, TypeOK', UpdateOutput PROVE CacheInv'
  OBVIOUS
<1> DEFINE r == upd.src
           o == Outputs[upd.k]
<1>1. upd \in Call /\ upd # Idle /\ upd.k <= Len(Outputs) /\ held' = held
  BY DEF UpdateOutput, CacheInv, TypeOK
<1>2. r \in Reports /\ o \in OutputSet
  BY LoopStep
<1>3. PICK i \in Slots : /\ FoundSlot(i, r, o)
                         /\ cache' = [j \in Slots |-> IF j = i THEN Refreshed(i) ELSE cache[j]]
                         /\ upd'.first = IF EncodeHere THEN i ELSE upd.first
  BY UpdateSlot
<1>4. FoundSlot(i, r, o)
  BY <1>3
<1>5. /\ Refreshed(i).src = r
      /\ Refreshed(i).out = o
      /\ Refreshed(i).abs = held[r]
      /\ Refreshed(i).filled
      /\ Refreshed(i).rel # 0 => Refreshed(i).updated /\ r \in RelReports
  BY <1>1, <1>4, RefreshedSound DEF CacheInv, MotionMarked
<1>6. /\ cache'[i].src = r /\ cache'[i].out = o /\ cache'[i].abs = held[r] /\ cache'[i].filled
      /\ cache'[i].rel # 0 => cache'[i].updated /\ r \in RelReports
      /\ \A j \in Slots : j # i => cache'[j] = cache[j]
  BY <1>3, <1>5
<1>7. /\ upd'.src = r /\ upd'.ev = upd.ev /\ upd'.k = upd.k + 1 /\ upd' # Idle
      /\ upd'.first = IF EncodeHere THEN i ELSE upd.first
  BY <1>3, LoopStep
<1> HIDE DEF r, o
<1>8. r # NoReport /\ o # NoOutput
  BY <1>2, NullAssumption
<1>9. Slots \subseteq Nat
  BY CacheLenNat DEF Slots
<1>10. SlotsSound'
  <2>1. ASSUME NEW j \in Slots, cache'[j].src = NoReport
        PROVE  cache'[j] = FreeSlot /\ \A l \in Slots : j < l => cache'[l].src = NoReport
    <3>1. j # i /\ cache[j].src = NoReport
      BY <1>6, <1>8, <2>1
    <3>2. i < j
      BY <1>4, <1>9, <3>1 DEF FoundSlot
    <3> QED
      BY <1>6, <1>9, <3>1, <3>2 DEF CacheInv, SlotsSound
  <2>2. ASSUME NEW j \in Slots, cache'[j].src # NoReport
        PROVE  cache'[j].out # NoOutput /\ cache'[j].filled
    BY <1>6, <1>8, <2>2 DEF CacheInv, SlotsSound
  <2>3. ASSUME NEW j \in Slots, NEW l \in Slots, cache'[j].src # NoReport,
               cache'[l].src = cache'[j].src, cache'[l].out = cache'[j].out
        PROVE  j = l
    <3>1. CASE j # i /\ l # i
      BY <1>6, <2>3, <3>1 DEF CacheInv, SlotsSound, IsSlotOf
    <3>2. CASE j = i
      BY <1>4, <1>6, <2>3, <3>2 DEF FoundSlot, IsSlotOf
    <3>3. CASE l = i
      BY <1>4, <1>6, <2>3, <3>3 DEF FoundSlot, IsSlotOf
    <3> QED
      BY <3>1, <3>2, <3>3
  <2> QED
    BY <2>1, <2>2, <2>3 DEF SlotsSound, IsSlotOf
<1>11. LoopSound'
  <2>1. upd'.k # 1 /\ upd.k \in Nat
    BY <1>1, <1>7 DEF Call
  <2>2. CASE EncodeHere
    BY <1>1, <1>6, <1>7, <2>1, <2>2 DEF LoopSound
  <2>3. CASE ~EncodeHere
    <3>1. upd.first # 0 /\ upd.src \notin RelReports /\ upd.k > 1
      BY <1>1, <2>3, <2>1 DEF EncodeHere, CacheInv, LoopSound, Call
    <3>2. upd.first \in Slots /\ cache[upd.first].src = r /\ cache[upd.first].abs = held[r]
      BY <1>1, <3>1 DEF CacheInv, LoopSound, r
    <3>3. cache'[upd.first].src = r /\ cache'[upd.first].abs = held[r]
      BY <1>6, <3>2
    <3> QED
      BY <1>1, <1>7, <2>1, <2>3, <3>2, <3>3 DEF LoopSound
  <2> QED
    BY <2>2, <2>3
<1>12. MotionMarked'
  BY <1>6 DEF CacheInv, MotionMarked
<1>13. EntriesCurrent'
  <2> SUFFICES ASSUME NEW q \in Reports, NEW p \in OutputSet
               PROVE  IF Unserved(q, p)' THEN Apply(ShownIn(cache', q, p), upd'.ev) = held[q]
                                         ELSE ShownIn(cache', q, p) = held[q]
    BY <1>1 DEF EntriesCurrent, Shown
  <2>1. CASE q = r /\ p = o
    <3>1. ShownIn(cache', q, p) = held[q]
      <4>1. \A j \in Slots : IsSlotOf(cache', j, r, o) => j = i
        BY <1>4, <1>6 DEF FoundSlot, IsSlotOf
      <4>2. IsSlotOf(cache', i, r, o)
        BY <1>6 DEF IsSlotOf
      <4> QED
        BY <1>6, <2>1, <4>1, <4>2, ShownSlot
    <3>2. ~Unserved(q, p)'
      BY <2>1, LoopStep DEF r, o
    <3> QED
      BY <3>1, <3>2
  <2>2. CASE ~(q = r /\ p = o)
    <3>1. \A j \in Slots : IsSlotOf(cache, j, q, p) <=> IsSlotOf(cache', j, q, p)
      BY <1>4, <1>6, <2>2, NullAssumption DEF FoundSlot, IsSlotOf, FreeSlot
    <3>2. \A j \in Slots : IsSlotOf(cache, j, q, p) => cache[j].abs = cache'[j].abs
      BY <1>4, <1>6, <2>2, NullAssumption DEF FoundSlot, IsSlotOf, FreeSlot
    <3>3. ShownIn(cache, q, p) = ShownIn(cache', q, p)
      BY <3>1, <3>2, ShownSame
    <3>4. Unserved(q, p)' <=> Unserved(q, p)
      BY <2>2, LoopStep DEF r, o
    <3> QED
      BY <1>7, <3>3, <3>4 DEF CacheInv, EntriesCurrent, Shown
  <2> QED
    BY <2>1, <2>2
<1> QED
  BY <1>10, <1>11, <1>12, <1>13 DEF CacheInv

(***************************************************************************)
(* A new event: every output's report is behind by that event only.        *)
(***************************************************************************)
LEMMA EventStep ==
  ASSUME CacheInv, TypeOK', NEW r \in Reports, NEW ev, InputEvent(r, ev)
  PROVE  CacheInv'
<1>1. /\ upd = Idle /\ cache' = cache
      /\ held' = [held EXCEPT ![r] = Apply(held[r], ev)]
      /\ upd'.src = r /\ upd'.ev = ev /\ upd'.k = 1 /\ upd'.first = 0
  BY DEF InputEvent
<1>2. upd' # Idle
  BY <1>1, NullAssumption DEF Idle
<1>3. SlotsSound' /\ MotionMarked'
  BY <1>1 DEF CacheInv, SlotsSound, MotionMarked, IsSlotOf
<1>4. LoopSound'
  BY <1>1 DEF LoopSound
<1>5. EntriesCurrent'
  <2> SUFFICES ASSUME NEW q \in Reports, NEW p \in OutputSet
               PROVE  IF Unserved(q, p)' THEN Apply(ShownIn(cache, q, p), ev) = held'[q]
                                         ELSE ShownIn(cache, q, p) = held'[q]
    BY <1>1 DEF EntriesCurrent, Shown
  <2>1. ShownIn(cache, q, p) = held[q]
    BY <1>1 DEF CacheInv, EntriesCurrent, Unserved, Shown
  <2>2. held \in [Reports -> SUBSET Keys]
    BY DEF CacheInv, TypeOK
  <2>3. Unserved(q, p)' <=> q = r
    BY <1>1, <1>2, OutputsAssumption DEF Unserved, OutputSet
  <2> QED
    BY <1>1, <2>1, <2>2, <2>3
<1> QED
  BY <1>3, <1>4, <1>5 DEF CacheInv

LEMMA InvInit == Init => CacheInv
<1> SUFFICES ASSUME Init PROVE CacheInv
  OBVIOUS
<1>1. TypeOK
  BY InitType
<1>2. \A i \in Slots : cache[i] = FreeSlot
  BY DEF Init
<1>3. SlotsSound /\ LoopSound /\ MotionMarked
  BY <1>2 DEF Init, SlotsSound, LoopSound, MotionMarked, FreeSlot
<1>4. ASSUME NEW r \in Reports, NEW o \in OutputSet
      PROVE  Shown(r, o) = {}
  BY <1>2, ShownNothing, NullAssumption DEF Shown, IsSlotOf, FreeSlot
<1>5. EntriesCurrent
  BY <1>4 DEF Init, EntriesCurrent, Unserved
<1> QED
  BY <1>1, <1>3, <1>5 DEF CacheInv

LEMMA InvNext == CacheInv /\ [Next]_vars => CacheInv'
<1> SUFFICES ASSUME CacheInv, [Next]_vars PROVE CacheInv'
  OBVIOUS
<1>1. TypeOK'
  BY NextType DEF CacheInv
<1>2. ASSUME NEW r \in Reports, NEW ev \in Events(r), InputEvent(r, ev)
      PROVE  CacheInv'
  BY <1>1, <1>2, EventStep
<1>3. CASE UpdateOutput
  BY <1>1, <1>3, UpdateStep
<1>4. CASE UpdateDone
  <2>1. upd' = Idle /\ cache' = cache /\ held' = held /\ upd # Idle
    BY <1>4 DEF UpdateDone
  <2>2. upd \in Call /\ upd.k > Len(Outputs)
    BY <1>4 DEF UpdateDone, CacheInv, TypeOK
  <2>3. \A r, o : ~Unserved(r, o)
    BY <2>2, OutputsAssumption DEF Unserved, Call
  <2>4. EntriesCurrent'
    BY <2>1, <2>3 DEF CacheInv, EntriesCurrent, Unserved, Shown
  <2> QED
    BY <1>1, <2>1, <2>4 DEF CacheInv, SlotsSound, LoopSound, MotionMarked, IsSlotOf
<1>5. CASE NotifyWorker
  BY <1>1, <1>5 DEF NotifyWorker, CacheInv, SlotsSound, LoopSound, MotionMarked,
                    EntriesCurrent, Unserved, Shown, IsSlotOf
<1>6. ASSUME NEW o \in OutputSet, GetReport(o)
      PROVE  CacheInv'
  <2>1. PICK i \in NextReport(cache, o) : cache' = Collected(cache, i)
    BY <1>6 DEF GetReport
  <2>2. i \in Slots /\ cache[i].out = o
    BY DEF NextReport, Pending
  <2>3. cache[i].src # NoReport
    BY <2>2, NullAssumption DEF CacheInv, SlotsSound, FreeSlot
  <2>4. HandedOut(cache, cache', {i})
    BY <2>1, <2>2, CollectedSlots DEF CacheInv, TypeOK, MotionMarked
  <2> QED
    BY <1>1, <1>6, <2>2, <2>3, <2>4, CollectStep DEF GetReport
<1>7. ASSUME NEW o \in OutputSet, NEW r \in Reports, GetReportId(o, r)
      PROVE  CacheInv'
  <2>1. PICK i \in SlotById(cache, o, r) : cache' = Collected(cache, i)
    BY <1>7 DEF GetReportId
  <2>2. i \in Slots /\ cache[i].src # NoReport
    BY NullAssumption DEF SlotById
  <2>3. HandedOut(cache, cache', {i})
    BY <2>1, <2>2, CollectedSlots DEF CacheInv, TypeOK, MotionMarked
  <2> QED
    BY <1>1, <1>7, <2>2, <2>3, CollectStep DEF GetReportId
<1>8. CASE UNCHANGED vars
  BY <1>1, <1>8 DEF vars, CacheInv, SlotsSound, LoopSound, MotionMarked,
                    EntriesCurrent, Unserved, Shown, IsSlotOf
<1> QED
  BY <1>2, <1>3, <1>4, <1>5, <1>6, <1>7, <1>8 DEF Next, InputSide

(***************************************************************************)
(* The inductive invariant: the cache is a prefix of slots, one for each   *)
(* pair that reported, and the loop of hid_update_buffers copies from a    *)
(* slot that still shows the event.                                        *)
(***************************************************************************)
THEOREM CacheSound == Spec => []CacheInv
BY InvInit, InvNext, PTL DEF Spec

LEMMA InvNeverFull == CacheInv => CacheNeverFull
<1> SUFFICES ASSUME CacheInv, upd # Idle, upd.k <= Len(Outputs)
             PROVE  SlotFor(cache, upd.src, Outputs[upd.k]) # {}
  BY DEF CacheNeverFull
<1>1. upd.src \in Reports /\ Outputs[upd.k] \in OutputSet
  BY OutputsAssumption DEF CacheInv, TypeOK, Call, OutputSet
<1> QED
  BY <1>1, OneSlotFor DEF CacheInv

(***************************************************************************)
(* find_cache_idx never runs out of slots: "report cache full" (hid.c) is  *)
(* unreachable for every number of outputs and input reports.              *)
(***************************************************************************)
THEOREM NeverFull == Spec => []CacheNeverFull
BY InvNeverFull, CacheSound, PTL

(***************************************************************************)
(* Every output is shown the keys its input devices hold, once the update  *)
(* in progress has served it, however collecting interleaves with the      *)
(* loop of hid_update_buffers.                                             *)
(***************************************************************************)
THEOREM AlwaysCurrent == Spec => []EntriesCurrent
<1>1. CacheInv => EntriesCurrent
  BY DEF CacheInv
<1> QED
  BY <1>1, CacheSound, PTL

(***************************************************************************)
(* Motion that no output has collected stays marked for collection.        *)
(***************************************************************************)
THEOREM MotionNeverStranded == Spec => []MotionMarked
<1>1. CacheInv => MotionMarked
  BY DEF CacheInv
<1> QED
  BY <1>1, CacheSound, PTL
-----------------------------------------------------------------------------
\* No report and output has two slots.
OneEach(c) ==
  \A i, j \in Slots : c[i].src # NoReport /\ IsSlotOf(c, j, c[i].src, c[i].out) => i = j

LEMMA ViewSlot ==
  ASSUME NEW c, NEW r, NEW o, NEW i \in Slots, IsSlotOf(c, i, r, o),
         \A j \in Slots : IsSlotOf(c, j, r, o) => j = i
  PROVE  SlotById(c, o, r) = {i} /\ View(c, r, o) = c[i]
<1>1. SlotById(c, o, r) = {i}
  BY DEF SlotById, IsSlotOf
<1>2. (CHOOSE j \in Slots : IsSlotOf(c, j, r, o)) = i
  OBVIOUS
<1> QED
  BY <1>1, <1>2 DEF View

LEMMA ViewNone ==
  ASSUME NEW c, NEW r, NEW o, \A j \in Slots : ~IsSlotOf(c, j, r, o)
  PROVE  SlotById(c, o, r) = {} /\ View(c, r, o) = FreeSlot
BY DEF View, SlotById, IsSlotOf

LEMMA ViewSame ==
  ASSUME NEW c, NEW d, NEW r, NEW o,
         \A i \in Slots : IsSlotOf(c, i, r, o) <=> IsSlotOf(d, i, r, o),
         \A i \in Slots : IsSlotOf(c, i, r, o) => c[i] = d[i]
  PROVE  View(c, r, o) = View(d, r, o)
<1> DEFINE i == CHOOSE j \in Slots : IsSlotOf(c, j, r, o)
<1>1. i = CHOOSE j \in Slots : IsSlotOf(d, j, r, o)
  BY Zenon
<1>2. (\E j \in Slots : IsSlotOf(c, j, r, o)) => i \in Slots /\ IsSlotOf(c, i, r, o)
  BY Zenon
<1> HIDE DEF i
<1> QED
  BY <1>1, <1>2 DEF View

(***************************************************************************)
(* An output finds one slot of a report, or none: what it is shown, and    *)
(* whether the report is marked for it, is what that slot says.            *)
(***************************************************************************)
LEMMA ViewFacts ==
  ASSUME NEW c, OneEach(c), NEW r \in Reports, NEW o
  PROVE  /\ ShownIn(c, r, o) = View(c, r, o).abs
         /\ (\E i \in SlotById(c, o, r) : c[i].updated) <=> View(c, r, o).updated
         /\ \/ View(c, r, o) = FreeSlot
            \/ \E i \in Slots : View(c, r, o) = c[i] /\ IsSlotOf(c, i, r, o)
<1>1. CASE \A j \in Slots : ~IsSlotOf(c, j, r, o)
  BY <1>1, ViewNone, ShownNothing DEF FreeSlot
<1>2. ASSUME NEW i \in Slots, IsSlotOf(c, i, r, o)
      PROVE  /\ ShownIn(c, r, o) = c[i].abs
             /\ SlotById(c, o, r) = {i}
             /\ View(c, r, o) = c[i]
  <2>1. \A j \in Slots : IsSlotOf(c, j, r, o) => j = i
    BY <1>2, NullAssumption DEF OneEach, IsSlotOf
  <2> QED
    BY <1>2, <2>1, ViewSlot, ShownSlot
<1> QED
  BY <1>1, <1>2

LEMMA ViewType ==
  ASSUME TypeOK, SlotsSound, NEW r \in Reports, NEW o
  PROVE  View(cache, r, o) \in Entry
<1>1. FreeSlot \in Entry
  BY RelAssumption DEF FreeSlot, Entry
<1> QED
  BY <1>1, ViewFacts DEF SlotsSound, OneEach, TypeOK

(***************************************************************************)
(* An iteration of hid_update_buffers, as the outputs see it: for one of   *)
(* them the report shows the present keys and the motion with that of the  *)
(* event, marked unless that is what it showed already; the other reports  *)
(* and the other outputs see nothing of it.                                *)
(***************************************************************************)
Served(was, is, r) ==
  /\ is.abs = held[r]
  /\ is.rel = IF r \in RelReports THEN Clamp(was.rel + upd.ev.delta) ELSE 0
  /\ is.filled
  /\ is.updated <=> was.updated \/ ~was.filled \/ is.abs # was.abs \/ is.rel # was.rel

LEMMA UpdateView ==
  ASSUME CacheInv, UpdateOutput
  PROVE  /\ Served(View(cache, upd.src, Outputs[upd.k]), View(cache', upd.src, Outputs[upd.k]), upd.src)
         /\ \A q \in Reports, p \in OutputSet : ~(q = upd.src /\ p = Outputs[upd.k])
              => View(cache', q, p) = View(cache, q, p)
<1> DEFINE r == upd.src
           o == Outputs[upd.k]
<1>1. upd # Idle /\ upd.k <= Len(Outputs) /\ r \in Reports /\ o \in OutputSet
  BY LoopStep DEF UpdateOutput
<1>2. PICK i \in Slots : /\ FoundSlot(i, r, o)
                         /\ cache' = [j \in Slots |-> IF j = i THEN Refreshed(i) ELSE cache[j]]
  BY UpdateSlot
<1>3. /\ Refreshed(i).src = r
      /\ Refreshed(i).out = o
      /\ Served(cache[i], Refreshed(i), r)
  BY <1>1, <1>2, RefreshedSound DEF Served
<1>4. cache'[i] = Refreshed(i) /\ \A j \in Slots : j # i => cache'[j] = cache[j]
  BY <1>2
<1> HIDE DEF r, o
<1>5. View(cache', r, o) = Refreshed(i)
  <2>1. IsSlotOf(cache', i, r, o) /\ \A j \in Slots : IsSlotOf(cache', j, r, o) => j = i
    BY <1>2, <1>3, <1>4 DEF FoundSlot, IsSlotOf
  <2> QED
    BY <1>4, <2>1, ViewSlot
<1>6. View(cache, r, o) = cache[i]
  <2>1. CASE IsSlotOf(cache, i, r, o)
    BY <1>2, <2>1, ViewSlot DEF FoundSlot
  <2>2. CASE ~IsSlotOf(cache, i, r, o)
    <3>1. cache[i] = FreeSlot /\ \A j \in Slots : ~IsSlotOf(cache, j, r, o)
      BY <1>2, <2>2 DEF FoundSlot
    <3> QED
      BY <3>1, ViewNone
  <2> QED
    BY <2>1, <2>2
<1>7. ASSUME NEW q \in Reports, NEW p \in OutputSet, ~(q = r /\ p = o)
      PROVE  View(cache', q, p) = View(cache, q, p)
  <2>1. ~IsSlotOf(cache, i, q, p) /\ ~IsSlotOf(cache', i, q, p)
    BY <1>2, <1>3, <1>4, <1>7, NullAssumption DEF FoundSlot, IsSlotOf, FreeSlot
  <2>2. \A j \in Slots : IsSlotOf(cache', j, q, p) => IsSlotOf(cache, j, q, p) /\ cache'[j] = cache[j]
    BY <1>4, <2>1 DEF IsSlotOf
  <2>3. \A j \in Slots : IsSlotOf(cache, j, q, p) => IsSlotOf(cache', j, q, p)
    BY <1>4, <2>1 DEF IsSlotOf
  <2> QED
    BY <2>2, <2>3, ViewSame
<1> QED
  BY <1>3, <1>5, <1>6, <1>7 DEF r, o

(***************************************************************************)
(* Collecting, as the outputs see it: they find the slot collected as it   *)
(* is then, without mark and motion, and nothing else changes for anyone.  *)
(***************************************************************************)
LEMMA CollectView ==
  ASSUME NEW c \in [Slots -> Entry], OneEach(c), NEW d \in [Slots -> Entry], NEW i \in Slots,
         c[i].src \in Reports, HandedOut(c, d, {i})
  PROVE  LET r == c[i].src
             o == c[i].out
         IN /\ View(c, r, o) = c[i]
            /\ View(d, r, o) = d[i]
            /\ \A q \in Reports : \A p : ~(q = r /\ p = o) => View(d, q, p) = View(c, q, p)
<1> DEFINE r == c[i].src
           o == c[i].out
<1>1. \A j \in Slots : IsSlotOf(c, j, r, o) => j = i
  BY NullAssumption DEF OneEach, IsSlotOf
<1>2. \A j \in Slots : \A q, p : IsSlotOf(d, j, q, p) <=> IsSlotOf(c, j, q, p)
  BY DEF HandedOut, IsSlotOf
<1>3. View(c, r, o) = c[i] /\ View(d, r, o) = d[i]
  <2>1. IsSlotOf(c, i, r, o)
    BY DEF IsSlotOf
  <2> QED
    BY <1>1, <1>2, <2>1, ViewSlot
<1>4. ASSUME NEW q \in Reports, NEW p, ~(q = r /\ p = o)
      PROVE  View(d, q, p) = View(c, q, p)
  <2>1. ~IsSlotOf(c, i, q, p)
    BY <1>4 DEF IsSlotOf
  <2>2. \A j \in Slots : IsSlotOf(c, j, q, p) => c[j] = d[j]
    BY <2>1 DEF HandedOut
  <2> QED
    BY <1>2, <2>2, ViewSame
<1> QED
  BY <1>3, <1>4

-----------------------------------------------------------------------------
(***************************************************************************)
(* Delivery: what goes into the cache and what comes out of it.            *)
(***************************************************************************)
HistoryType ==
  /\ owed \in [OutputSet -> [Reports -> Int]]
  /\ sat \in [OutputSet -> [Reports -> BOOLEAN]]
  /\ given \in [OutputSet -> [Reports -> SUBSET Keys]]

\* A report that is not marked for an output shows what the output was given.
GivenShown ==
  \A o \in OutputSet, r \in Reports :
    (\E i \in SlotById(cache, o, r) : cache[i].updated) \/ given[o][r] = Shown(r, o)

(***************************************************************************)
(* NothingMissed is not inductive: it says nothing of an output that is    *)
(* still to be served, whose slot may then turn out not to change.  What   *)
(* is kept is that an unmarked slot shows what was given last.             *)
(***************************************************************************)
DeliveryInv == CacheInv /\ HistoryType /\ MotionConserved /\ GivenShown

(***************************************************************************)
(* Motion is counted in integers, in the cache and in the events.          *)
(***************************************************************************)
LEMMA MotionInt == (\A e \in Entry : e.rel \in Int) /\ (\A ev \in Event : ev.delta \in Int)
<1>1. (\A x \in RelMin .. RelMax : x \in Int) /\ (\A x \in Deltas \union {0} : x \in Int)
  BY RelAssumption
<1> QED
  BY <1>1 DEF Entry, Event

(***************************************************************************)
(* The history only watches: every step with it is a step of hid.c.        *)
(***************************************************************************)
LEMMA DNextIsNext == [DNext]_<<vars, history>> => [Next]_vars
BY DEF DNext, DInput, DUpdate, DOther, DGet, DGetId, Next, InputSide

(***************************************************************************)
(* Between two events nothing is under way; an event is under way to every *)
(* output.                                                                 *)
(***************************************************************************)
LEMMA EventLoop ==
  ASSUME TypeOK, NEW r \in Reports, NEW ev, InputEvent(r, ev)
  PROVE  /\ upd'.ev = ev
         /\ \A q \in Reports, p \in OutputSet : ~Unserved(q, p) /\ (Unserved(q, p)' <=> q = r)
<1>1. upd = Idle /\ upd'.src = r /\ upd'.ev = ev /\ upd'.k = 1 /\ upd' # Idle
  BY NullAssumption DEF InputEvent, Idle
<1> QED
  BY <1>1, OutputsAssumption DEF Unserved, OutputSet

LEMMA DoneLoop ==
  ASSUME TypeOK, UpdateDone, NEW q, NEW p
  PROVE  ~Unserved(q, p) /\ ~Unserved(q, p)'
<1>1. upd \in Call /\ upd.k > Len(Outputs) /\ upd' = Idle
  BY DEF UpdateDone, TypeOK
<1> QED
  BY <1>1, OutputsAssumption DEF Unserved, Call

(***************************************************************************)
(* The two history properties, said of the slot that an output finds.      *)
(***************************************************************************)
Balance(cut, owes, rel, underway) == ~cut => owes = rel + underway

Restated ==
  /\ MotionConserved <=>
       \A o \in OutputSet, r \in RelReports :
         Balance(sat[o][r], owed[o][r], View(cache, r, o).rel, Underway(r, o))
  /\ GivenShown <=>
       \A o \in OutputSet, r \in Reports :
         View(cache, r, o).updated \/ given[o][r] = View(cache, r, o).abs

LEMMA Restatement == SlotsSound => Restated
<1> SUFFICES ASSUME SlotsSound PROVE Restated
  OBVIOUS
<1>1. \A r, o : Motion(r, o) = View(cache, r, o).rel
  BY DEF Motion
<1>2. OneEach(cache) /\ RelReports \subseteq Reports
  BY ReportsAssumption DEF SlotsSound, OneEach
<1>3. \A r \in Reports, o \in OutputSet :
        /\ Shown(r, o) = View(cache, r, o).abs
        /\ (\E i \in SlotById(cache, o, r) : cache[i].updated) <=> View(cache, r, o).updated
  BY <1>2, ViewFacts DEF Shown
<1> QED
  BY <1>1, <1>2, <1>3 DEF Restated, MotionConserved, GivenShown, Balance

LEMMA RestatementNext == SlotsSound' => Restated'
BY Restatement, PTL

(***************************************************************************)
(* An event: every output is owed its motion, and it is under way to all.  *)
(***************************************************************************)
LEMMA InputDelivers ==
  ASSUME DeliveryInv, CacheInv', NEW r \in Reports, NEW ev \in Events(r), DInput(r, ev)
  PROVE  DeliveryInv'
<1> USE DEF DeliveryInv
<1>1. Restated /\ Restated'
  BY Restatement, RestatementNext DEF CacheInv
<1>2. /\ cache' = cache /\ sat' = sat /\ given' = given
      /\ owed' = [o \in OutputSet |-> [owed[o] EXCEPT ![r] = IF sat[o][r] THEN 0 ELSE owed[o][r] + ev.delta]]
  BY DEF DInput, InputEvent
<1>3. ev.delta \in Int
  BY RelAssumption DEF Events, KeyEvents, MoveEvents
<1>4. HistoryType'
  BY <1>2, <1>3 DEF HistoryType
<1>5. /\ upd'.ev = ev
      /\ \A q \in Reports, o \in OutputSet : ~Unserved(q, o) /\ (Unserved(q, o)' <=> q = r)
  BY EventLoop DEF DInput, CacheInv
<1>6. GivenShown'
  BY <1>1, <1>2 DEF Restated
<1>7. MotionConserved'
  <2> SUFFICES ASSUME NEW o \in OutputSet, NEW q \in RelReports
               PROVE  Balance(sat'[o][q], owed'[o][q], View(cache', q, o).rel, Underway(q, o)')
    BY <1>1 DEF Restated
  <2>1. q \in Reports
    BY ReportsAssumption
  <2>2. Balance(sat[o][q], owed[o][q], View(cache, q, o).rel, 0)
    BY <1>1, <1>5, <2>1 DEF Restated, Underway
  <2>3. Underway(q, o)' = IF q = r THEN ev.delta ELSE 0
    BY <1>5, <2>1 DEF Underway
  <2>4. View(cache, q, o).rel \in Int
    BY <2>1, ViewType, MotionInt DEF CacheInv
  <2> QED
    BY <1>2, <1>3, <2>1, <2>2, <2>3, <2>4 DEF Balance, HistoryType
<1> QED
  BY <1>4, <1>6, <1>7

(***************************************************************************)
(* An iteration of hid_update_buffers: the motion under way to the output  *)
(* moves into its slot, whole unless the field's limit cuts some off.      *)
(***************************************************************************)
LEMMA UpdateDelivers ==
  ASSUME DeliveryInv, CacheInv', DUpdate
  PROVE  DeliveryInv'
<1> DEFINE r == upd.src
           o == Outputs[upd.k]
           was == View(cache, r, o)
           is == View(cache', r, o)
           cut == sat[o][r] \/ was.rel + upd.ev.delta # Clamp(was.rel + upd.ev.delta)
<1> USE DEF DeliveryInv
<1>1. Restated /\ Restated'
  BY Restatement, RestatementNext DEF CacheInv
<1>2. r \in Reports /\ o \in OutputSet /\ upd.ev \in Event /\ upd'.ev = upd.ev /\ held' = held
  BY LoopStep DEF DUpdate, UpdateOutput
<1>3. /\ Unserved(r, o)
      /\ \A q \in Reports, p \in OutputSet : Unserved(q, p)' <=> Unserved(q, p) /\ ~(q = r /\ p = o)
  BY LoopStep DEF DUpdate
<1>4. /\ Served(was, is, r)
      /\ \A q \in Reports, p \in OutputSet : ~(q = r /\ p = o) => View(cache', q, p) = View(cache, q, p)
  BY UpdateView DEF DUpdate
<1>5. Motion(r, o) = was.rel
  BY DEF Motion
<1>6. /\ sat' = [sat EXCEPT ![o][r] = cut]
      /\ owed' = [owed EXCEPT ![o][r] = IF cut THEN 0 ELSE owed[o][r]]
      /\ given' = given
  BY <1>5 DEF DUpdate
<1>7. was.rel \in Int /\ upd.ev.delta \in Int
  <2>1. was \in Entry
    BY <1>2, ViewType DEF CacheInv
  <2> QED
    BY <1>2, <2>1, MotionInt
<1> HIDE DEF r, o, was, is
<1>8. HistoryType'
  BY <1>2, <1>6 DEF HistoryType
<1>9. GivenShown'
  <2> SUFFICES ASSUME NEW p \in OutputSet, NEW q \in Reports
               PROVE  View(cache', q, p).updated \/ given[p][q] = View(cache', q, p).abs
    BY <1>1, <1>6 DEF Restated
  <2>1. CASE q = r /\ p = o
    BY <1>1, <1>2, <1>4, <2>1 DEF Restated, Served, was, is
  <2>2. CASE ~(q = r /\ p = o)
    BY <1>1, <1>4, <2>2 DEF Restated
  <2> QED
    BY <2>1, <2>2
<1>10. MotionConserved'
  <2> SUFFICES ASSUME NEW p \in OutputSet, NEW q \in RelReports
               PROVE  Balance(sat'[p][q], owed'[p][q], View(cache', q, p).rel, Underway(q, p)')
    BY <1>1 DEF Restated
  <2>1. q \in Reports
    BY ReportsAssumption
  <2>2. Balance(sat[p][q], owed[p][q], View(cache, q, p).rel, Underway(q, p))
    BY <1>1 DEF Restated
  <2>3. CASE q = r /\ p = o
    <3>1. Underway(q, p) = upd.ev.delta /\ Underway(q, p)' = 0
      BY <1>2, <1>3, <2>3 DEF Underway
    <3>2. ~cut => View(cache', q, p).rel = View(cache, q, p).rel + upd.ev.delta
      BY <1>4, <2>3 DEF Served, was, is
    <3>3. sat'[p][q] = cut /\ owed'[p][q] = IF cut THEN 0 ELSE owed[p][q]
      BY <1>2, <1>6, <2>1, <2>3 DEF HistoryType
    <3>4. ~cut => ~sat[p][q]
      BY <2>3
    <3>5. owed[p][q] \in Int
      BY <2>1 DEF HistoryType
    <3> HIDE DEF cut
    <3>6. CASE cut
      BY <3>3, <3>6 DEF Balance
    <3>7. CASE ~cut
      BY <1>7, <2>2, <2>3, <3>1, <3>2, <3>3, <3>4, <3>5, <3>7 DEF Balance, was
    <3> QED
      BY <3>6, <3>7
  <2>4. CASE ~(q = r /\ p = o)
    <3>1. Underway(q, p)' = Underway(q, p)
      BY <1>2, <1>3, <2>1, <2>4 DEF Underway
    <3>2. View(cache', q, p) = View(cache, q, p)
      BY <1>4, <2>1, <2>4
    <3>3. sat'[p][q] = sat[p][q] /\ owed'[p][q] = owed[p][q]
      <4> HIDE DEF cut
      <4> QED
        BY <1>2, <1>6, <2>1, <2>4 DEF HistoryType
    <3> QED
      BY <2>2, <3>1, <3>2, <3>3 DEF Balance
  <2> QED
    BY <2>3, <2>4
<1> QED
  BY <1>8, <1>9, <1>10

(***************************************************************************)
(* Collecting: the output is given what its slot shows and owed what is    *)
(* under way to it; the other outputs are owed what they were.             *)
(***************************************************************************)
LEMMA RecordDelivers ==
  ASSUME DeliveryInv, CacheInv', NEW i \in Slots, cache[i].src \in Reports,
         cache[i].out \in OutputSet, HandedOut(cache, cache', {i}), upd' = upd,
         Record(cache[i].out, i)
  PROVE  DeliveryInv'
<1> DEFINE r == cache[i].src
           o == cache[i].out
           under == Underway(r, o)
<1> USE DEF DeliveryInv
<1>1. Restated /\ Restated'
  BY Restatement, RestatementNext DEF CacheInv
<1>2. OneEach(cache) /\ cache \in [Slots -> Entry] /\ cache' \in [Slots -> Entry]
  BY DEF CacheInv, TypeOK, SlotsSound, OneEach
<1>3. /\ View(cache, r, o) = cache[i]
      /\ View(cache', r, o) = cache'[i]
      /\ \A q \in Reports : \A p : ~(q = r /\ p = o) => View(cache', q, p) = View(cache, q, p)
  BY <1>2, CollectView
<1>4. /\ cache[i] \in Entry /\ cache[i].rel \in Int
      /\ cache'[i].rel = 0 /\ cache'[i].abs = cache[i].abs
  BY <1>2, MotionInt DEF HandedOut
<1>6. \A q, p : Underway(q, p)' = Underway(q, p)
  BY DEF Underway, Unserved
<1>7. /\ owed' = [owed EXCEPT ![o][r] = IF sat[o][r] THEN under ELSE owed[o][r] - cache[i].rel]
      /\ sat' = [sat EXCEPT ![o][r] = FALSE]
      /\ given' = [given EXCEPT ![o][r] = cache[i].abs]
  BY DEF Record
<1>8. under \in Int
  <2>1. Idle \notin Call
    BY NullAssumption DEF Idle, Call
  <2>2. Unserved(r, o) => upd.ev.delta \in Int
    BY <2>1, MotionInt DEF CacheInv, TypeOK, Unserved, Call
  <2> QED
    BY <2>2 DEF Underway
<1> HIDE DEF r, o, under
<1>9. r \in Reports /\ o \in OutputSet
  BY DEF r, o
<1>10. HistoryType'
  BY <1>4, <1>7, <1>8, <1>9 DEF HistoryType, Entry
<1>11. GivenShown'
  <2> SUFFICES ASSUME NEW p \in OutputSet, NEW q \in Reports
               PROVE  View(cache', q, p).updated \/ given'[p][q] = View(cache', q, p).abs
    BY <1>1 DEF Restated
  <2>1. CASE q = r /\ p = o
    BY <1>3, <1>4, <1>7, <1>9, <2>1 DEF HistoryType, Entry
  <2>2. CASE ~(q = r /\ p = o)
    BY <1>1, <1>3, <1>7, <1>9, <2>2 DEF Restated, HistoryType
  <2> QED
    BY <2>1, <2>2
<1>12. MotionConserved'
  <2> SUFFICES ASSUME NEW p \in OutputSet, NEW q \in RelReports
               PROVE  Balance(sat'[p][q], owed'[p][q], View(cache', q, p).rel, Underway(q, p)')
    BY <1>1 DEF Restated
  <2>1. q \in Reports /\ Balance(sat[p][q], owed[p][q], View(cache, q, p).rel, Underway(q, p))
    BY <1>1, ReportsAssumption DEF Restated
  <2>2. CASE q = r /\ p = o
    <3>1. View(cache', q, p).rel = 0 /\ View(cache, q, p).rel = cache[i].rel
      BY <1>3, <1>4, <2>2 DEF Entry
    <3>2. owed'[p][q] = IF sat[p][q] THEN under ELSE owed[p][q] - cache[i].rel
      BY <1>7, <1>9, <2>2 DEF HistoryType
    <3>3. owed[p][q] \in Int /\ Underway(q, p)' = under
      BY <1>6, <2>1, <2>2 DEF HistoryType, under
    <3> QED
      BY <1>4, <1>6, <1>8, <2>1, <3>1, <3>2, <3>3 DEF Balance
  <2>3. CASE ~(q = r /\ p = o)
    <3>1. sat'[p][q] = sat[p][q] /\ owed'[p][q] = owed[p][q]
      BY <1>7, <1>9, <2>1, <2>3 DEF HistoryType
    <3> QED
      BY <1>3, <1>6, <2>1, <2>3, <3>1 DEF Balance
  <2> QED
    BY <2>2, <2>3
<1> QED
  BY <1>10, <1>11, <1>12

LEMMA DeliveryInit == DInit => DeliveryInv
<1> SUFFICES ASSUME DInit PROVE DeliveryInv
  OBVIOUS
<1>1. CacheInv
  BY InvInit DEF DInit
<1>2. HistoryType
  BY DEF DInit, HistoryType
<1>3. \A r \in Reports : \A o : View(cache, r, o) = FreeSlot
  <2>1. \A i \in Slots : cache[i] = FreeSlot
    BY DEF DInit, Init
  <2> QED
    BY <2>1, ViewFacts DEF CacheInv, SlotsSound, OneEach, View, SlotById
<1>4. \A r, o : Underway(r, o) = 0
  BY DEF DInit, Init, Underway, Unserved
<1>5. MotionConserved /\ GivenShown
  BY <1>1, <1>3, <1>4, ReportsAssumption, Restatement
  DEF DInit, Restated, Balance, FreeSlot, CacheInv
<1> QED
  BY <1>1, <1>2, <1>5 DEF DeliveryInv

LEMMA DeliveryNext == DeliveryInv /\ [DNext]_<<vars, history>> => DeliveryInv'
<1> SUFFICES ASSUME DeliveryInv, [DNext]_<<vars, history>> PROVE DeliveryInv'
  OBVIOUS
<1>1. CacheInv /\ CacheInv'
  BY DNextIsNext, InvNext DEF DeliveryInv
<1>2. ASSUME NEW r \in Reports, NEW ev \in Events(r), DInput(r, ev)
      PROVE  DeliveryInv'
  BY <1>1, <1>2, InputDelivers
<1>3. CASE DUpdate
  BY <1>1, <1>3, UpdateDelivers
<1>4. ASSUME cache' = cache, held' = held, UNCHANGED <<owed, sat, given>>,
             \A r, o : Unserved(r, o)' <=> Unserved(r, o), \A r, o : Underway(r, o)' = Underway(r, o)
      PROVE  DeliveryInv'
  BY <1>1, <1>4 DEF history, DeliveryInv, HistoryType, MotionConserved, GivenShown,
                    Motion, Shown
<1>5. CASE DOther
  <2>1. CASE UpdateDone
    <3>1. \A r, o : ~Unserved(r, o) /\ ~Unserved(r, o)'
      BY <1>1, <2>1, DoneLoop DEF CacheInv
    <3> QED
      BY <1>4, <1>5, <2>1, <3>1 DEF DOther, UpdateDone, Underway
  <2>2. CASE NotifyWorker
    BY <1>4, <1>5, <2>2 DEF DOther, NotifyWorker, Underway, Unserved
  <2> QED
    BY <1>5, <2>1, <2>2 DEF DOther
<1>6. ASSUME NEW o \in OutputSet, DGet(o)
      PROVE  DeliveryInv'
  <2>1. PICK i \in NextReport(cache, o) : cache' = Collected(cache, i)
    BY <1>6 DEF DGet, GetReport
  <2>2. PICK j \in NextReport(cache, o) : Record(o, j)
    BY <1>6 DEF DGet
  <2>3. i \in Slots /\ cache[i].out = o /\ i = j
    BY CacheLenNat DEF NextReport, Pending, Slots
  <2>4. cache[i].src \in Reports
    BY <1>1, <2>3, NullAssumption DEF CacheInv, TypeOK, Entry, SlotsSound, FreeSlot
  <2>5. HandedOut(cache, cache', {i})
    BY <1>1, <2>1, <2>3, CollectedSlots DEF CacheInv, TypeOK, MotionMarked
  <2> QED
    BY <1>1, <1>6, <2>2, <2>3, <2>4, <2>5, RecordDelivers DEF DGet, GetReport
<1>7. ASSUME NEW o \in OutputSet, NEW r \in Reports, DGetId(o, r)
      PROVE  DeliveryInv'
  <2>1. PICK i \in SlotById(cache, o, r) : cache' = Collected(cache, i)
    BY <1>7 DEF DGetId, GetReportId
  <2>2. PICK j \in SlotById(cache, o, r) : Record(o, j)
    BY <1>7 DEF DGetId
  <2>3. i \in Slots /\ cache[i].out = o /\ cache[i].src = r /\ i = j
    BY <1>1, NullAssumption DEF SlotById, CacheInv, SlotsSound, IsSlotOf
  <2>4. HandedOut(cache, cache', {i})
    BY <1>1, <2>1, <2>3, CollectedSlots DEF CacheInv, TypeOK, MotionMarked
  <2> QED
    BY <1>1, <1>7, <2>2, <2>3, <2>4, RecordDelivers DEF DGetId, GetReportId
<1>8. CASE UNCHANGED <<vars, history>>
  BY <1>4, <1>8 DEF vars, history, Underway, Unserved
<1> QED
  BY <1>2, <1>3, <1>5, <1>6, <1>7, <1>8 DEF DNext

(***************************************************************************)
(* The inductive invariant of the cache and the history of deliveries.     *)
(***************************************************************************)
THEOREM DeliverySound == DSpec => []DeliveryInv
BY DeliveryInit, DeliveryNext, PTL DEF DSpec

(***************************************************************************)
(* Each output is given the whole motion of a pointing device, once: what  *)
(* waits in its slot and what is under way to it is all it did not         *)
(* collect, for any outputs, interleaving and motion range, unless the     *)
(* field's limit cut some of it off.                                       *)
(***************************************************************************)
THEOREM MotionDelivered == DSpec => []MotionConserved
<1>1. DeliveryInv => MotionConserved
  BY DEF DeliveryInv
<1> QED
  BY <1>1, DeliverySound, PTL

(***************************************************************************)
(* An output with nothing marked for it, and no update about to reach it,  *)
(* was last given the keys that the device holds now.                      *)
(***************************************************************************)
THEOREM KeysDelivered == DSpec => []NothingMissed
<1>1. DeliveryInv => NothingMissed
  BY DEF DeliveryInv, CacheInv, EntriesCurrent, GivenShown, NothingMissed
<1> QED
  BY <1>1, DeliverySound, PTL
-----------------------------------------------------------------------------
(***************************************************************************)
(* The cache seen through one output: a mailbox per report, the event on   *)
(* its way to the output, and what the output was handed.                  *)
(***************************************************************************)
Box(o) == INSTANCE ReportMailbox WITH box <- BoxOf(o), coming <- ComingTo(o), took <- TookBy(o)

LEMMA BoxInit ==
  ASSUME NEW o \in OutputSet PROVE DInit => Box(o)!Init
<1> SUFFICES ASSUME DInit PROVE Box(o)!Init
  OBVIOUS
<1>1. OneEach(cache) /\ \A i \in Slots : cache[i] = FreeSlot
  BY NullAssumption DEF DInit, Init, OneEach, FreeSlot
<1>2. \A r \in Reports : View(cache, r, o) = FreeSlot
  BY <1>1, ViewFacts
<1>3. Mail(FreeSlot) = [abs |-> {}, rel |-> 0, known |-> FALSE, fresh |-> FALSE]
  BY DEF Mail, FreeSlot
<1>4. ComingTo(o) = Box(o)!NoEvent
  BY DEF DInit, Init, ComingTo, Unserved, Box!NoEvent
<1>5. TookBy(o) = Box(o)!Nothing
  BY NullAssumption DEF DInit, TookBy, Nothing, Box!Nothing
<1> QED
  BY <1>2, <1>3, <1>4, <1>5 DEF Box!Init, BoxOf

(***************************************************************************)
(* What leaves an output's slots and the event on its way to it alone, and *)
(* hands it nothing, is not seen in its mailboxes.                         *)
(***************************************************************************)
LEMMA BoxElsewhere ==
  ASSUME NEW o, TookBy(o)' = Box(o)!Nothing, ComingTo(o)' = ComingTo(o),
         \A q \in Reports : View(cache', q, o) = View(cache, q, o)
  PROVE  Box(o)!Next
<1>1. BoxOf(o)' = BoxOf(o)
  BY DEF BoxOf
<1> QED
  BY <1>1 DEF Box!Next, Box!Elsewhere

LEMMA HandedNothing ==
  ASSUME NEW o \in OutputSet, took' = Nothing
  PROVE  TookBy(o)' = Box(o)!Nothing
BY NullAssumption DEF TookBy, Nothing, Box!Nothing

LEMMA SameComing ==
  ASSUME NEW o, upd' = upd
  PROVE  ComingTo(o)' = ComingTo(o)
BY DEF ComingTo, Unserved

(***************************************************************************)
(* An event is announced to every output.                                  *)
(***************************************************************************)
LEMMA InputBox ==
  ASSUME CacheInv, NEW r \in Reports, NEW ev \in Events(r), DInput(r, ev), NEW o \in OutputSet
  PROVE  Box(o)!Next
<1>1. /\ upd'.src = r /\ upd'.ev = ev /\ cache' = cache
      /\ \A q \in Reports : ~Unserved(q, o) /\ (Unserved(q, o)' <=> q = r)
  BY EventLoop DEF DInput, InputEvent, CacheInv
<1>2. ComingTo(o) = Box(o)!NoEvent
  BY <1>1 DEF ComingTo, Box!NoEvent
<1>3. ComingTo(o)' = [src |-> r, ev |-> ev]
  BY <1>1 DEF ComingTo
<1>4. ev \in Box(o)!Changes
  BY DEF Events, KeyEvents, MoveEvents, Box!Changes
<1>5. BoxOf(o)' = BoxOf(o)
  BY <1>1 DEF BoxOf
<1>6. TookBy(o)' = Box(o)!Nothing
  BY HandedNothing DEF DInput
<1>7. ComingTo(o)' \in [src : Reports, ev : Box(o)!Changes]
  BY <1>3, <1>4
<1> QED
  BY <1>2, <1>5, <1>6, <1>7 DEF Box!Next, Box!Announce

(***************************************************************************)
(* Collecting a report hands an output what the mailbox held, and empties  *)
(* it; the other outputs do not see it.                                    *)
(***************************************************************************)
LEMMA CollectBox ==
  ASSUME CacheInv, CacheInv', NEW o \in OutputSet, NEW i \in Slots,
         cache[i].src \in Reports, HandedOut(cache, cache', {i}), upd' = upd,
         Record(cache[i].out, i)
  PROVE  Box(o)!Next
<1> DEFINE r == cache[i].src
           p == cache[i].out
<1>1. cache \in [Slots -> Entry] /\ cache' \in [Slots -> Entry] /\ OneEach(cache)
  BY DEF CacheInv, TypeOK, SlotsSound, OneEach
<1>2. /\ View(cache, r, p) = cache[i]
      /\ View(cache', r, p) = cache'[i]
      /\ \A q \in Reports : \A x : ~(q = r /\ x = p) => View(cache', q, x) = View(cache, q, x)
  BY <1>1, CollectView
<1>3. took' = [out |-> p, src |-> r, abs |-> cache[i].abs, rel |-> cache[i].rel]
  BY DEF Record
<1>4. ComingTo(o)' = ComingTo(o)
  BY SameComing
<1>5. CASE o = p
  <2>1. cache[i] \in Entry /\ cache'[i] \in Entry /\ cache[i].filled
    BY <1>1, NullAssumption DEF CacheInv, SlotsSound
  <2>2. /\ cache'[i].abs = cache[i].abs /\ cache'[i].rel = 0
        /\ cache'[i].filled = cache[i].filled /\ cache'[i].updated = FALSE
    BY <2>1 DEF HandedOut, Entry
  <2>3. Mail(cache'[i]) = Box(o)!Emptied(Mail(cache[i]))
    BY <2>2 DEF Mail, Box!Emptied
  <2>4. BoxOf(o)[r] = Mail(cache[i])
    BY <1>2, <1>5 DEF BoxOf
  <2>5. BoxOf(o)' = [BoxOf(o) EXCEPT ![r] = Box(o)!Emptied(BoxOf(o)[r])]
    <3>1. \A q \in Reports : BoxOf(o)'[q] = IF q = r THEN Mail(cache'[i]) ELSE BoxOf(o)[q]
      BY <1>2, <1>5 DEF BoxOf
    <3>2. /\ BoxOf(o) = [q \in Reports |-> BoxOf(o)[q]]
          /\ BoxOf(o)' = [q \in Reports |-> BoxOf(o)'[q]]
      BY DEF BoxOf
    <3> QED
      BY <2>3, <2>4, <3>1, <3>2
  <2>6. TookBy(o)' = [src |-> r, abs |-> BoxOf(o)[r].abs, rel |-> BoxOf(o)[r].rel]
    BY <1>3, <1>5, <2>4 DEF TookBy, Mail
  <2>7. BoxOf(o)[r].known
    BY <2>1, <2>4 DEF Mail
  <2>8. Box(o)!Collect(r)
    BY <1>4, <2>5, <2>6, <2>7 DEF Box!Collect
  <2> QED
    BY <2>8 DEF Box!Next
<1>6. CASE o # p
  <2>1. TookBy(o)' = Box(o)!Nothing
    BY <1>3, <1>6 DEF TookBy, Box!Nothing
  <2> QED
    BY <1>2, <1>4, <1>6, <2>1, BoxElsewhere
<1> QED
  BY <1>5, <1>6

(***************************************************************************)
(* What an iteration of hid_update_buffers makes of the slot is what the   *)
(* event makes of the mailbox.                                             *)
(***************************************************************************)
LEMMA PostedMail ==
  ASSUME NEW o, NEW r \in Reports, NEW e \in Entry, NEW d \in Entry,
         d.abs = Apply(e.abs, upd.ev), Served(e, d, r)
  PROVE  Mail(d) = Box(o)!Posted(Mail(e), r, upd.ev)
<1> DEFINE fresh == e.updated \/ ~e.filled \/ d.abs # e.abs \/ d.rel # e.rel
<1>1. \A x : Box(o)!Limit(x) = Clamp(x)
  BY DEF Box!Limit, Clamp
<1>2. d.filled = TRUE /\ d.updated = fresh
  BY DEF Served, Entry
<1>3. Mail(e).abs = e.abs /\ Mail(e).rel = e.rel /\ Mail(e).known = e.filled /\ Mail(e).fresh = e.updated
  BY DEF Mail
<1>4. d.rel = IF r \in RelReports THEN Clamp(e.rel + upd.ev.delta) ELSE 0
  BY DEF Served
<1>5. Box(o)!Posted(Mail(e), r, upd.ev) = [abs |-> d.abs, rel |-> d.rel, known |-> TRUE, fresh |-> fresh]
  BY <1>1, <1>3, <1>4 DEF Box!Posted, Apply
<1> HIDE DEF fresh
<1> QED
  BY <1>2, <1>5 DEF Mail

(***************************************************************************)
(* ... so it writes the event into one mailbox of the output it serves,    *)
(* also when the report was copied, and into no other.                     *)
(***************************************************************************)
LEMMA UpdatePosts ==
  ASSUME CacheInv, CacheInv', UpdateOutput, NEW o \in OutputSet
  PROVE  IF o = Outputs[upd.k]
         THEN BoxOf(o)' = [BoxOf(o) EXCEPT ![upd.src] =
                             Box(o)!Posted(BoxOf(o)[upd.src], upd.src, upd.ev)]
         ELSE \A q \in Reports : View(cache', q, o) = View(cache, q, o)
<1> DEFINE r == upd.src
           p == Outputs[upd.k]
           was == View(cache, r, p)
           is == View(cache', r, p)
<1>1. r \in Reports /\ upd.ev \in Event /\ Unserved(r, p) /\ p \in OutputSet
  BY LoopStep
<1>2. /\ Served(was, is, r)
      /\ \A q \in Reports, x \in OutputSet : ~(q = r /\ x = p) => View(cache', q, x) = View(cache, q, x)
  BY UpdateView
<1>3. was \in Entry /\ is \in Entry
  <2>1. \A q \in Reports, x \in OutputSet : View(cache, q, x) \in Entry
    BY ViewType DEF CacheInv
  <2>2. \A q \in Reports, x \in OutputSet : View(cache', q, x) \in Entry
    <3>1. cache' \in [Slots -> Entry] /\ OneEach(cache')
      BY DEF CacheInv, TypeOK, SlotsSound, OneEach
    <3>2. FreeSlot \in Entry
      BY RelAssumption DEF FreeSlot, Entry
    <3> QED
      BY <3>1, <3>2, ViewFacts
  <2> QED
    BY <1>1, <2>1, <2>2
<1>4. is.abs = Apply(was.abs, upd.ev)
  <2>1. Shown(r, p) = was.abs
    <3>1. OneEach(cache)
      BY DEF CacheInv, SlotsSound, OneEach
    <3> QED
      BY <1>1, <3>1, ViewFacts DEF Shown
  <2> QED
    BY <1>1, <1>2, <2>1 DEF CacheInv, EntriesCurrent, Served
<1>5. CASE o = p
  <2>1. Mail(is) = Box(o)!Posted(Mail(was), r, upd.ev)
    BY <1>1, <1>2, <1>3, <1>4, PostedMail
  <2>2. BoxOf(o)[r] = Mail(was)
    BY <1>1, <1>5 DEF BoxOf
  <2>3. \A q \in Reports : BoxOf(o)'[q] = IF q = r THEN Mail(is) ELSE BoxOf(o)[q]
    BY <1>2, <1>5 DEF BoxOf
  <2>4. /\ BoxOf(o) = [q \in Reports |-> BoxOf(o)[q]]
        /\ BoxOf(o)' = [q \in Reports |-> BoxOf(o)'[q]]
    BY DEF BoxOf
  <2> HIDE DEF was, is
  <2>5. BoxOf(o)' = [BoxOf(o) EXCEPT ![r] = Box(o)!Posted(BoxOf(o)[r], r, upd.ev)]
    <3> HIDE DEF r
    <3> QED
      BY <2>1, <2>2, <2>3, <2>4
  <2> QED
    BY <1>5, <2>5
<1>6. CASE o # p
  BY <1>2, <1>6
<1> QED
  BY <1>5, <1>6

(***************************************************************************)
(* It delivers the event to the output it serves; the other outputs do not *)
(* see it, and the event stays on its way to those that were not served.   *)
(***************************************************************************)
LEMMA UpdateBox ==
  ASSUME CacheInv, CacheInv', DUpdate, NEW o \in OutputSet
  PROVE  Box(o)!Next
<1> DEFINE r == upd.src
           p == Outputs[upd.k]
<1> USE DEF DUpdate
<1>1. /\ r \in Reports /\ upd.ev \in Event /\ Unserved(r, p)
      /\ upd'.src = r /\ upd'.ev = upd.ev
      /\ \A q \in Reports, x \in OutputSet : Unserved(q, x)' <=> Unserved(q, x) /\ ~(q = r /\ x = p)
  BY LoopStep
<1>2. TookBy(o)' = Box(o)!Nothing
  BY HandedNothing
<1>3. \A q \in Reports : Unserved(q, o) => q = r
  BY DEF Unserved
<1>4. CASE o = p
  <2>1. ComingTo(o) = [src |-> r, ev |-> upd.ev]
    BY <1>1, <1>4 DEF ComingTo
  <2>2. ComingTo(o)' = Box(o)!NoEvent
    <3>1. \A q \in Reports : ~Unserved(q, o)'
      BY <1>1, <1>3, <1>4
    <3> QED
      BY <3>1 DEF ComingTo, Box!NoEvent
  <2>3. BoxOf(o)' = [BoxOf(o) EXCEPT ![r] = Box(o)!Posted(BoxOf(o)[r], r, upd.ev)]
    BY <1>4, UpdatePosts
  <2>4. Box(o)!Deliver
    BY <1>1, <2>1, <2>2, <2>3 DEF Box!Deliver
  <2> QED
    BY <1>2, <2>4 DEF Box!Next
<1>5. CASE o # p
  <2>1. ComingTo(o)' = ComingTo(o)
    <3>1. \A q \in Reports : Unserved(q, o)' <=> Unserved(q, o)
      BY <1>1, <1>5
    <3> QED
      BY <1>1, <3>1 DEF ComingTo
  <2>2. \A q \in Reports : View(cache', q, o) = View(cache, q, o)
    BY <1>5, UpdatePosts
  <2> QED
    BY <1>2, <2>1, <2>2, BoxElsewhere
<1> QED
  BY <1>4, <1>5

LEMMA NextBox ==
  ASSUME NEW o \in OutputSet
  PROVE  CacheInv /\ CacheInv' /\ [DNext]_<<vars, history>> => [Box(o)!Next]_<<BoxOf(o), ComingTo(o), TookBy(o)>>
<1> SUFFICES ASSUME CacheInv, CacheInv', [DNext]_<<vars, history>>
             PROVE  Box(o)!Next \/ UNCHANGED <<BoxOf(o), ComingTo(o), TookBy(o)>>
  OBVIOUS
<1>1. ASSUME NEW r \in Reports, NEW ev \in Events(r), DInput(r, ev)
      PROVE  Box(o)!Next
  BY <1>1, InputBox
<1>2. CASE DUpdate
  BY <1>2, UpdateBox
<1>3. CASE DOther
  <2>1. TookBy(o)' = Box(o)!Nothing /\ cache' = cache
    BY <1>3, HandedNothing DEF DOther, UpdateDone, NotifyWorker
  <2>2. ComingTo(o)' = ComingTo(o)
    <3>1. CASE UpdateDone
      BY <3>1, DoneLoop DEF CacheInv, ComingTo
    <3>2. CASE NotifyWorker
      BY <3>2, SameComing DEF NotifyWorker
    <3> QED
      BY <1>3, <3>1, <3>2 DEF DOther
  <2> QED
    BY <2>1, <2>2, BoxElsewhere
<1>4. ASSUME NEW p \in OutputSet, DGet(p)
      PROVE  Box(o)!Next
  <2>1. PICK i \in NextReport(cache, p) : cache' = Collected(cache, i)
    BY <1>4 DEF DGet, GetReport
  <2>2. PICK j \in NextReport(cache, p) : Record(p, j)
    BY <1>4 DEF DGet
  <2>3. i \in Slots /\ cache[i].out = p /\ i = j
    BY CacheLenNat DEF NextReport, Pending, Slots
  <2>4. cache[i].src \in Reports
    BY <2>3, NullAssumption DEF CacheInv, TypeOK, Entry, SlotsSound, FreeSlot
  <2>5. HandedOut(cache, cache', {i})
    BY <2>1, <2>3, CollectedSlots DEF CacheInv, TypeOK, MotionMarked
  <2> QED
    BY <1>4, <2>2, <2>3, <2>4, <2>5, CollectBox DEF DGet, GetReport
<1>5. ASSUME NEW p \in OutputSet, NEW r \in Reports, DGetId(p, r)
      PROVE  Box(o)!Next
  <2>1. PICK i \in SlotById(cache, p, r) : cache' = Collected(cache, i)
    BY <1>5 DEF DGetId, GetReportId
  <2>2. PICK j \in SlotById(cache, p, r) : Record(p, j)
    BY <1>5 DEF DGetId
  <2>3. i \in Slots /\ cache[i].out = p /\ cache[i].src = r /\ i = j
    BY NullAssumption DEF SlotById, CacheInv, SlotsSound, IsSlotOf
  <2>4. HandedOut(cache, cache', {i})
    BY <2>1, <2>3, CollectedSlots DEF CacheInv, TypeOK, MotionMarked
  <2> QED
    BY <1>5, <2>2, <2>3, <2>4, CollectBox DEF DGetId, GetReportId
<1>6. CASE UNCHANGED <<vars, history>>
  <2>1. cache' = cache /\ upd' = upd /\ took' = took
    BY <1>6 DEF vars, history
  <2>2. BoxOf(o)' = BoxOf(o) /\ TookBy(o)' = TookBy(o)
    BY <2>1 DEF BoxOf, TookBy
  <2> QED
    BY <2>1, <2>2, SameComing
<1> QED
  BY <1>1, <1>2, <1>3, <1>4, <1>5, <1>6 DEF DNext

(***************************************************************************)
(* The cache implements private mailboxes for each of its outputs, however *)
(* many there are: every event reaches the output's mailbox as it happened *)
(* and once, a mailbox is emptied only by handing what it held to the      *)
(* output itself, and nothing that is done for other outputs shows in it.  *)
(***************************************************************************)
THEOREM EachOutputHasMailboxes ==
  ASSUME NEW o \in OutputSet
  PROVE  DSpec => Box(o)!Spec
<1>1. DInit => Box(o)!Init
  BY BoxInit
<1>2. CacheInv /\ CacheInv' /\ [DNext]_<<vars, history>> => [Box(o)!Next]_(Box(o)!boxvars)
  BY NextBox DEF Box!boxvars
<1>3. DSpec => []CacheInv
  BY DeliverySound, PTL DEF DeliveryInv
<1> QED
  BY <1>1, <1>2, <1>3, PTL DEF DSpec, Box!Spec

(***************************************************************************)
(* ... in particular for the output whose reports are encoded and for the  *)
(* one whose reports are copied last.                                      *)
(***************************************************************************)
THEOREM MailboxesRefined == DSpec => OutputsAreMailboxes
<1>1. FirstOutput \in OutputSet /\ LastOutput \in OutputSet
  BY OutputsAssumption DEF FirstOutput, LastOutput, OutputSet
<1>2. DSpec => Box(FirstOutput)!Spec
  BY <1>1, EachOutputHasMailboxes
<1>3. DSpec => Box(LastOutput)!Spec
  BY <1>1, EachOutputHasMailboxes
<1>4. Box(FirstOutput)!Spec => FirstBox!Spec
  <2>1. Box(FirstOutput)!Init => FirstBox!Init
    BY DEF Box!Init, FirstBox!Init, Box!NoEvent, FirstBox!NoEvent, Box!Nothing, FirstBox!Nothing
  <2>2. [Box(FirstOutput)!Next]_(Box(FirstOutput)!boxvars) => [FirstBox!Next]_(FirstBox!boxvars)
    BY DEF Box!boxvars, FirstBox!boxvars, Box!Next, Box!Announce, Box!Deliver, Box!Elsewhere, Box!Collect, Box!NoEvent, Box!Nothing,
           Box!Changes, Box!Posted, Box!Limit, Box!Emptied,
           FirstBox!Next, FirstBox!Announce, FirstBox!Deliver, FirstBox!Elsewhere, FirstBox!Collect,
           FirstBox!NoEvent, FirstBox!Nothing, FirstBox!Changes, FirstBox!Posted, FirstBox!Limit, FirstBox!Emptied
  <2> QED
    BY <2>1, <2>2, PTL DEF Box!Spec, FirstBox!Spec
<1>5. Box(LastOutput)!Spec => LastBox!Spec
  <2>1. Box(LastOutput)!Init => LastBox!Init
    BY DEF Box!Init, LastBox!Init, Box!NoEvent, LastBox!NoEvent, Box!Nothing, LastBox!Nothing
  <2>2. [Box(LastOutput)!Next]_(Box(LastOutput)!boxvars) => [LastBox!Next]_(LastBox!boxvars)
    BY DEF Box!boxvars, LastBox!boxvars, Box!Next, Box!Announce, Box!Deliver, Box!Elsewhere, Box!Collect, Box!NoEvent, Box!Nothing,
           Box!Changes, Box!Posted, Box!Limit, Box!Emptied,
           LastBox!Next, LastBox!Announce, LastBox!Deliver, LastBox!Elsewhere, LastBox!Collect,
           LastBox!NoEvent, LastBox!Nothing, LastBox!Changes, LastBox!Posted, LastBox!Limit, LastBox!Emptied
  <2> QED
    BY <2>1, <2>2, PTL DEF Box!Spec, LastBox!Spec
<1> QED
  BY <1>2, <1>3, <1>4, <1>5, PTL DEF OutputsAreMailboxes
=============================================================================

---------------------------- MODULE Queues_proofs ----------------------------
(***************************************************************************)
(* Proofs about two parts that hand things from one thread to another      *)
(* through bounded queues: the XInput class, whose host can always send    *)
(* and sees the last event that it could be sent, for every size of its    *)
(* pools, and the macro sequencer, whose host gets each macro whole, in    *)
(* order and key by key, for every length of its queues.                   *)
(***************************************************************************)
EXTENDS XInput, KeySequencer, SequenceTheorems, FiniteSetTheorems, WellFoundedInduction, TLAPS

\* The newest report on the IN endpoint, or the one polled last when there is
\* none, shows the last event.
LastQueued ==
  ~dropped => /\ in = <<>> => sees = last
              /\ in # <<>> => in[Len(in)] = last

Flags ==
  /\ enabled \in BOOLEAN /\ suspended \in BOOLEAN /\ dropped \in BOOLEAN /\ outWork \in BOOLEAN
  /\ sees \subseteq Buttons /\ last \subseteq Buttons

OutPool == out \in Nat /\ outDone \in Nat /\ out + outDone <= BufCount

InPool == in \in Seq(SUBSET Buttons) /\ inDone \in Nat /\ Len(in) + inDone <= BufCount

Control == ctrl \in {0, 1} /\ leaked \in 0 .. CtrlCount

(***************************************************************************)
(* XInputInv alone is not inductive: what the host sees once it has taken  *)
(* every report depends on the report that waits last.                     *)
(***************************************************************************)
XInputSound == Flags /\ OutPool /\ InPool /\ Control /\ OutReady /\ LastQueued

LEMMA XInputSoundMeans == XInputSound => XInputInv
BY DEF XInputSound, Flags, OutPool, InPool, Control, LastQueued, XInputInv, TypeOK, LastEventSeen

LEMMA XInputSoundInit == Init => XInputSound
<1> SUFFICES ASSUME Init PROVE XInputSound
  OBVIOUS
<1>1. BufCount \in Nat /\ CtrlCount \in Nat
  BY XInputAssumption
<1>2. Flags /\ OutReady /\ LastQueued
  BY DEF Init, Flags, OutReady, LastQueued
<1>3. OutPool /\ InPool /\ Control
  BY <1>1, EmptySeq DEF Init, OutPool, InPool, Control
<1> QED
  BY <1>2, <1>3 DEF XInputSound

\* A report that the controller takes is the newest one.
LEMMA ReportSent ==
  ASSUME XInputSound, NEW shown \in SUBSET Buttons, SendReport(shown), UNCHANGED <<enabled, suspended, outVars, ctrlVars>>
  PROVE  XInputSound'
<1>1. UNCHANGED <<enabled, suspended, outWork, out, outDone, ctrl, leaked, inDone, sees>> /\ last' = shown
  BY DEF SendReport, outVars, ctrlVars
<1>2. Flags' /\ OutPool' /\ Control' /\ OutReady'
  BY <1>1 DEF SendReport, XInputSound, Flags, OutPool, Control, OutReady
<1>3. CASE Len(in) + inDone < BufCount /\ enabled /\ ~suspended
  <2>1. in' = Append(in, shown) /\ dropped' = FALSE
    BY <1>3 DEF SendReport
  <2>2. in \in Seq(SUBSET Buttons) /\ inDone \in Nat /\ BufCount \in Nat /\ Len(in) \in Nat
    BY XInputAssumption DEF XInputSound, InPool
  <2>3. /\ in' \in Seq(SUBSET Buttons) /\ in' # <<>>
        /\ Len(in') = Len(in) + 1 /\ in'[Len(in')] = shown
    BY <2>1, <2>2, AppendProperties
  <2>4. InPool'
    BY <1>1, <1>3, <2>2, <2>3 DEF InPool
  <2>5. LastQueued'
    BY <1>1, <2>3 DEF LastQueued
  <2> QED
    BY <1>2, <2>4, <2>5 DEF XInputSound
<1>4. CASE ~(Len(in) + inDone < BufCount /\ enabled /\ ~suspended)
  <2>1. in' = in /\ dropped' = TRUE
    BY <1>4 DEF SendReport
  <2>2. InPool' /\ LastQueued'
    BY <1>1, <2>1 DEF XInputSound, InPool, LastQueued
  <2> QED
    BY <1>2, <2>2 DEF XInputSound
<1> QED
  BY <1>3, <1>4

\* The host takes the oldest report.
LEMMA ReportPolled ==
  ASSUME XInputSound, HostPolls
  PROVE  XInputSound'
<1>1. /\ UNCHANGED <<enabled, suspended, outWork, out, outDone, ctrl, leaked, last, dropped>>
      /\ in # <<>> /\ sees' = Head(in) /\ in' = Tail(in) /\ inDone' = inDone + 1
  BY DEF HostPolls, outVars, ctrlVars
<1>2. in \in Seq(SUBSET Buttons) /\ inDone \in Nat /\ BufCount \in Nat /\ Len(in) \in Nat \ {0}
  BY <1>1, XInputAssumption, EmptySeq DEF XInputSound, InPool
<1>3. /\ Head(in) = in[1] /\ Head(in) \in SUBSET Buttons
      /\ in' \in Seq(SUBSET Buttons) /\ Len(in') = Len(in) - 1
      /\ \A i \in 1 .. Len(in') : in'[i] = in[i + 1]
  BY <1>1, <1>2, HeadTailProperties
<1>4. Flags' /\ OutPool' /\ Control' /\ OutReady'
  BY <1>1, <1>3 DEF XInputSound, Flags, OutPool, Control, OutReady
<1>5. InPool'
  BY <1>1, <1>2, <1>3 DEF XInputSound, InPool
<1>6. LastQueued'
  <2>1. CASE Len(in) = 1
    <3>1. in' = <<>>
      BY <1>3, <2>1, EmptySeq
    <3> QED
      BY <1>1, <1>3, <2>1, <3>1 DEF XInputSound, LastQueued
  <2>2. CASE Len(in) # 1
    <3>1. in' # <<>> /\ in'[Len(in')] = in[Len(in)]
      BY <1>2, <1>3, <2>2, EmptySeq
    <3> QED
      BY <1>1, <3>1 DEF XInputSound, LastQueued
  <2> QED
    BY <2>1, <2>2
<1> QED
  BY <1>4, <1>5, <1>6 DEF XInputSound

\* The OUT transfer: the work item that submits it gives up without a buffer,
\* but then one is on its way back that will run the work item again.
LEMMA OutKept ==
  ASSUME XInputSound, OutDone \/ OutHandler \/ HostSends \/ Enable
  PROVE  XInputSound'
<1>1. UNCHANGED <<suspended, in, inDone, sees, last, dropped, ctrl, leaked>>
  BY DEF OutDone, OutHandler, HostSends, Enable, inVars, ctrlVars
<1>2. InPool' /\ Control' /\ LastQueued'
  BY <1>1 DEF XInputSound, InPool, Control, LastQueued
<1>3. out \in Nat /\ outDone \in Nat /\ out + outDone <= BufCount /\ BufCount \in Nat \ {0}
  BY XInputAssumption DEF XInputSound, OutPool
<1>4. \/ OutDone /\ outWork' /\ outWork' \in BOOLEAN /\ enabled' = enabled
      \/ OutHandler /\ outWork' \in BOOLEAN /\ enabled' = enabled
      \/ HostSends /\ outWork' = outWork /\ enabled' = enabled
      \/ Enable /\ outWork' /\ outWork' \in BOOLEAN /\ enabled' \in BOOLEAN
  BY DEF OutDone, OutHandler, HostSends, Enable
<1>5. Flags'
  BY <1>1, <1>4 DEF XInputSound, Flags
<1>6. ASSUME OutDone, outWork' PROVE OutPool' /\ OutReady'
  <2>1. OutPool'
    BY <1>3, <1>6 DEF OutDone, OutPool
  <2> QED
    BY <1>6, <2>1 DEF OutReady
<1>7. ASSUME OutHandler, enabled' = enabled PROVE OutPool' /\ OutReady'
  <2>1. outDone' = outDone
    BY <1>7 DEF OutHandler
  <2>2. CASE out + outDone < BufCount /\ enabled
    <3>1. out' = out + 1
      BY <1>7, <2>2 DEF OutHandler
    <3>2. OutPool' /\ out' + outDone' > 0
      BY <1>3, <2>1, <2>2, <3>1 DEF OutPool
    <3> QED
      BY <3>2 DEF OutReady
  <2>3. CASE ~(out + outDone < BufCount) /\ enabled
    <3>1. out' = out
      BY <1>7, <2>3 DEF OutHandler
    <3>2. OutPool' /\ out' + outDone' > 0
      BY <1>3, <2>1, <2>3, <3>1 DEF OutPool
    <3> QED
      BY <3>2 DEF OutReady
  <2>4. CASE ~enabled
    <3>1. out' = out
      BY <1>7, <2>4 DEF OutHandler
    <3>2. OutPool'
      BY <1>3, <2>1, <3>1 DEF OutPool
    <3> QED
      BY <1>7, <2>4, <3>2 DEF OutReady
  <2> QED
    BY <2>2, <2>3, <2>4
<1>8. ASSUME HostSends, outWork' = outWork, enabled' = enabled PROVE OutPool' /\ OutReady'
  <2>1. OutPool' /\ out' + outDone' > 0
    BY <1>3, <1>8 DEF HostSends, OutPool
  <2> QED
    BY <2>1 DEF OutReady
<1>9. ASSUME Enable, outWork' PROVE OutPool' /\ OutReady'
  <2>1. OutPool'
    BY <1>3, <1>9 DEF Enable, OutPool
  <2> QED
    BY <1>9, <2>1 DEF OutReady
<1> QED
  BY <1>2, <1>4, <1>5, <1>6, <1>7, <1>8, <1>9 DEF XInputSound

LEMMA InterfaceDown ==
  ASSUME XInputSound, Disable
  PROVE  XInputSound'
<1>1. /\ UNCHANGED <<suspended, outWork, ctrl, leaked, sees, last>> /\ enabled' = FALSE
      /\ out' = 0 /\ outDone' = outDone + out
      /\ in' = <<>> /\ inDone' = inDone + Len(in)
      /\ dropped' <=> dropped \/ in # <<>>
  BY DEF Disable, ctrlVars
<1>2. Flags' /\ Control' /\ OutReady'
  BY <1>1 DEF Disable, XInputSound, Flags, Control, OutReady
<1>3. OutPool'
  BY <1>1, XInputAssumption DEF XInputSound, OutPool
<1>4. in \in Seq(SUBSET Buttons) /\ inDone \in Nat /\ Len(in) \in Nat /\ Len(in) + inDone <= BufCount
  BY DEF XInputSound, InPool
<1>5. InPool'
  BY <1>1, <1>4, EmptySeq, XInputAssumption DEF InPool
<1>6. LastQueued'
  BY <1>1 DEF XInputSound, LastQueued
<1> QED
  BY <1>2, <1>3, <1>5, <1>6 DEF XInputSound

LEMMA XInputStep ==
  ASSUME XInputSound, Next
  PROVE  XInputSound'
<1>1. ASSUME ButtonEvent \/ OtherEvent PROVE XInputSound'
  <2>1. UNCHANGED <<enabled, suspended, outVars, ctrlVars>> /\ \E shown \in SUBSET Buttons : SendReport(shown)
    BY <1>1 DEF ButtonEvent, OtherEvent, XInputCb
  <2> QED
    BY <2>1, ReportSent
<1>2. ASSUME InDone PROVE XInputSound'
  <2>1. UNCHANGED <<enabled, suspended, outWork, out, outDone, ctrl, leaked, in, sees, last, dropped>>
    BY <1>2 DEF InDone, outVars, ctrlVars
  <2>2. in \in Seq(SUBSET Buttons) /\ inDone \in Nat /\ Len(in) \in Nat /\ Len(in) + inDone <= BufCount
    BY DEF XInputSound, InPool
  <2>3. InPool'
    BY <1>2, <2>1, <2>2, XInputAssumption DEF InDone, InPool
  <2> QED
    BY <2>1, <2>3 DEF XInputSound, Flags, OutPool, Control, OutReady, LastQueued
<1>3. ASSUME \E known \in BOOLEAN : ControlToHost(known) PROVE XInputSound'
  <2>1. UNCHANGED <<enabled, suspended, outWork, out, outDone, inDone, in, sees, last, dropped>>
    BY <1>3 DEF ControlToHost, outVars, inVars
  <2>2. Control'
    BY <1>3, XInputAssumption DEF ControlToHost, XInputSound, Control
  <2> QED
    BY <2>1, <2>2 DEF XInputSound, Flags, OutPool, InPool, OutReady, LastQueued
<1>4. ASSUME ControlDone PROVE XInputSound'
  BY <1>4 DEF ControlDone, outVars, inVars, XInputSound, Flags, OutPool, InPool, Control, OutReady, LastQueued
<1>5. ASSUME SuspendResume PROVE XInputSound'
  BY <1>5 DEF SuspendResume, outVars, inVars, ctrlVars, XInputSound, Flags, OutPool, InPool, Control, OutReady,
     LastQueued
<1> QED
  BY <1>1, <1>2, <1>3, <1>4, <1>5, ReportPolled, OutKept, InterfaceDown DEF Next

\* The inductive invariant of the class.
THEOREM XInputStaysSound == Spec => []XInputSound
<1>1. XInputSound /\ UNCHANGED vars => XInputSound'
  BY DEF vars, outVars, inVars, ctrlVars, XInputSound, Flags, OutPool, InPool, Control, OutReady, LastQueued
<1>2. XInputSound /\ [Next]_vars => XInputSound'
  BY <1>1, XInputStep
<1> QED
  BY XInputSoundInit, <1>2, PTL DEF Spec

\* Through every configuration, suspend, cancelled transfer and empty pool,
\* xinput.c keeps an OUT transfer for the host, or one on its way; and a host
\* that took every report sees the last event, unless that event's own report
\* was refused or cancelled.
THEOREM HostServed == Spec => []XInputInv
BY XInputStaysSound, XInputSoundMeans, PTL
-----------------------------------------------------------------------------
(***************************************************************************)
(* Induction, on the natural numbers and on sequences, for a set: a set of *)
(* numbers that holds 0 and each successor holds them all, and so does a   *)
(* set of sequences that holds the empty one and each longer one.          *)
(***************************************************************************)
LEMMA NatSetInduction ==
  ASSUME NEW S, 0 \in S, \A n \in Nat : n \in S => n + 1 \in S
  PROVE  \A n \in Nat : n \in S
<1> SUFFICES ASSUME \E n \in Nat : n \notin S PROVE FALSE
  OBVIOUS
<1> DEFINE T == {n \in Nat : n \notin S}
<1>1. PICK x \in T : \A y \in T : ~ (<<y, x>> \in OpToRel(<, Nat))
  <2>1. T \subseteq Nat /\ T # {}
    OBVIOUS
  <2>2. IsWellFoundedOn(OpToRel(<, Nat), Nat)
    BY NatLessThanWellFounded
  <2> QED
    BY <2>1, <2>2, WFMin
<1>2. x \in Nat /\ x # 0
  OBVIOUS
<1>3. x - 1 \in Nat /\ (x - 1) + 1 = x /\ x - 1 < x
  BY <1>2
<1>4. x - 1 \notin T
  BY <1>1, <1>2, <1>3 DEF OpToRel
<1> QED
  BY <1>1, <1>3, <1>4

LEMMA SeqSetInduction ==
  ASSUME NEW A, NEW T, <<>> \in T,
         \A s \in Seq(A), a \in A : s \in T => Append(s, a) \in T
  PROVE  \A s \in Seq(A) : s \in T
<1> DEFINE S == {n \in Nat : \A s \in Seq(A) : Len(s) = n => s \in T}
<1>1. 0 \in S
  BY EmptySeq
<1>2. ASSUME NEW n \in Nat, n \in S PROVE n + 1 \in S
  <2> SUFFICES ASSUME NEW s \in Seq(A), Len(s) = n + 1 PROVE s \in T
    OBVIOUS
  <2> DEFINE f == SubSeq(s, 1, n)
  <2>1. f \in Seq(A) /\ Len(f) = n /\ s[n + 1] \in A
    OBVIOUS
  <2>2. s = Append(f, s[n + 1])
    OBVIOUS
  <2> QED
    BY <1>2, <2>1, <2>2
<1>3. \A n \in Nat : n \in S
  <2> HIDE DEF S
  <2> QED
    BY <1>1, <1>2, NatSetInduction
<1> QED
  BY <1>3

(***************************************************************************)
(* FlattenSeq one sequence at a time: it is defined by a recursive         *)
(* function, which exists because its initial parts do.                    *)
(***************************************************************************)
Flattens(A, ss, f) ==
  /\ f \in [0 .. Len(ss) -> Seq(A)]
  /\ f[0] = <<>>
  /\ \A i \in 1 .. Len(ss) : f[i] = f[i - 1] \o ss[i]

LEMMA FlattensExists ==
  ASSUME NEW A, NEW ss \in Seq(Seq(A))
  PROVE  \E f : Flattens(A, ss, f)
<1> DEFINE T == {s \in Seq(Seq(A)) : \E f : Flattens(A, s, f)}
<1>1. <<>> \in T
  <2> DEFINE f == [i \in 0 .. Len(<<>>) |-> <<>>]
  <2>1. Flattens(A, <<>>, f)
    BY DEF Flattens
  <2> QED
    BY <2>1
<1>2. ASSUME NEW s \in Seq(Seq(A)), NEW a \in Seq(A), s \in T PROVE Append(s, a) \in T
  <2>1. PICK f : Flattens(A, s, f)
    BY <1>2
  <2> DEFINE t == Append(s, a)
             g == [i \in 0 .. Len(t) |-> IF i <= Len(s) THEN f[i] ELSE f[Len(s)] \o a]
  <2>2. t \in Seq(Seq(A)) /\ Len(t) = Len(s) + 1 /\ Len(s) \in Nat /\ t[Len(s) + 1] = a
        /\ \A i \in 1 .. Len(s) : t[i] = s[i]
    OBVIOUS
  <2>3. f[Len(s)] \in Seq(A) /\ \A i \in 0 .. Len(s) : f[i] \in Seq(A)
    <3>1. f \in [0 .. Len(s) -> Seq(A)]
      BY <2>1 DEF Flattens
    <3>2. Len(s) \in 0 .. Len(s)
      BY <2>2
    <3> HIDE DEF t
    <3> QED
      BY <3>1, <3>2
  <2>4. f[Len(s)] \o a \in Seq(A)
    BY <2>3
  <2>5. g \in [0 .. Len(t) -> Seq(A)]
    BY <2>2, <2>3, <2>4
  <2>6. /\ \A i \in 0 .. Len(s) : g[i] = f[i]
        /\ g[Len(s) + 1] = f[Len(s)] \o a
    BY <2>2
  <2>7. g[0] = <<>>
    BY <2>1, <2>2, <2>6 DEF Flattens
  <2> HIDE DEF g, t
  <2>8. ASSUME NEW i \in 1 .. Len(t) PROVE g[i] = g[i - 1] \o t[i]
    <3>1. CASE i = Len(s) + 1
      <4>1. i - 1 = Len(s) /\ Len(s) \in 0 .. Len(s)
        BY <2>2, <3>1
      <4>2. g[i] = f[Len(s)] \o a /\ g[i - 1] = f[Len(s)] /\ t[i] = a
        BY <2>2, <2>6, <3>1, <4>1
      <4> QED
        BY <4>2
    <3>2. CASE i # Len(s) + 1
      <4>1. i \in 1 .. Len(s) /\ i - 1 \in 0 .. Len(s) /\ i \in 0 .. Len(s)
        BY <2>2, <3>2
      <4>2. f[i] = f[i - 1] \o s[i]
        BY <2>1, <4>1 DEF Flattens
      <4> QED
        BY <2>2, <2>6, <4>1, <4>2
    <3> QED
      BY <3>1, <3>2
  <2>9. Flattens(A, t, g)
    BY <2>5, <2>7, <2>8 DEF Flattens
  <2> QED
    BY <2>2, <2>9 DEF t
<1> QED
  <2> HIDE DEF T
  <2>1. \A s \in Seq(Seq(A)) : s \in T
    BY <1>1, <1>2, SeqSetInduction
  <2> QED
    BY <2>1 DEF T

LEMMA FlattensUnique ==
  ASSUME NEW A, NEW ss \in Seq(Seq(A)), NEW f, Flattens(A, ss, f)
  PROVE  FlattenSeq(ss) = f[Len(ss)]
<1> DEFINE flatten[i \in 1 .. Len(ss)] == IF i = 1 THEN ss[i] ELSE flatten[i - 1] \o ss[i]
<1>1. FlattenSeq(ss) = IF Len(ss) = 0 THEN ss ELSE flatten[Len(ss)]
  BY DEF FlattenSeq
<1>2. CASE Len(ss) = 0
  BY <1>1, <1>2, EmptySeq DEF Flattens
<1>3. CASE Len(ss) # 0
  <2> DEFINE g == [i \in 1 .. Len(ss) |-> f[i]]
             Def(h) == [i \in 1 .. Len(ss) |-> IF i = 1 THEN ss[i] ELSE h[i - 1] \o ss[i]]
             N == Len(ss)
  <2>1. N \in Nat /\ N >= 1 /\ \A i \in 1 .. N : ss[i] \in Seq(A)
    BY <1>3
  <2>2. ASSUME NEW i \in 1 .. N PROVE f[i] = IF i = 1 THEN ss[i] ELSE g[i - 1] \o ss[i]
    <3>1. CASE i = 1
      <4>1. f[1] = f[0] \o ss[1] /\ f[0] = <<>> /\ ss[1] \in Seq(A)
        <5>1. 1 \in 1 .. Len(ss) /\ 1 - 1 = 0
          BY <2>1
        <5> QED
          BY <2>1, <5>1 DEF Flattens
      <4>2. <<>> \o ss[1] = ss[1]
        BY <4>1, ConcatEmptySeq
      <4> QED
        BY <3>1, <4>1, <4>2
    <3>2. CASE i # 1
      <4>1. f[i] = f[i - 1] \o ss[i]
        BY DEF Flattens
      <4>2. g[i - 1] = f[i - 1]
        BY <2>1, <3>2
      <4> QED
        BY <3>2, <4>1, <4>2
    <3> QED
      BY <3>1, <3>2
  <2>3. g = Def(g)
    BY <2>2
  <2>4. flatten = CHOOSE h : h = Def(h)
    OBVIOUS
  <2>5. flatten = Def(flatten)
    <3> HIDE DEF g, Def
    <3> QED
      BY <2>3, <2>4
  <2>6. \A i \in 1 .. N : flatten[i] = IF i = 1 THEN ss[i] ELSE flatten[i - 1] \o ss[i]
    <3> HIDE DEF flatten
    <3> QED
      BY <2>5
  <2>7. ASSUME NEW i \in 1 .. N PROVE f[i] = IF i = 1 THEN ss[i] ELSE f[i - 1] \o ss[i]
    <3>1. CASE i = 1
      BY <2>2, <3>1
    <3>2. CASE i # 1
      <4>1. g[i - 1] = f[i - 1]
        BY <2>1, <3>2
      <4> HIDE DEF g
      <4> QED
        BY <2>2, <3>2, <4>1
    <3> QED
      BY <3>1, <3>2
  <2> HIDE DEF flatten, g, Def, N
  <2> DEFINE S == {n \in Nat : 1 <= n /\ n <= N => flatten[n] = f[n]}
  <2>8. 0 \in S
    OBVIOUS
  <2>9. ASSUME NEW n \in Nat, n \in S PROVE n + 1 \in S
    <3> SUFFICES ASSUME n + 1 <= N PROVE flatten[n + 1] = f[n + 1]
      OBVIOUS
    <3>1. n + 1 \in 1 .. N /\ (n + 1) - 1 = n
      BY <2>1
    <3>2. flatten[n + 1] = IF n + 1 = 1 THEN ss[n + 1] ELSE flatten[n] \o ss[n + 1]
      BY <2>6, <3>1
    <3>3. f[n + 1] = IF n + 1 = 1 THEN ss[n + 1] ELSE f[n] \o ss[n + 1]
      BY <2>7, <3>1
    <3>4. n + 1 = 1 \/ flatten[n] = f[n]
      BY <2>9, <2>1, <3>1
    <3> QED
      BY <3>2, <3>3, <3>4
  <2>10. \A n \in Nat : n \in S
    <3> HIDE DEF S
    <3> QED
      BY <2>8, <2>9, NatSetInduction
  <2>11. flatten[N] = f[N]
    BY <2>1, <2>10
  <2> QED
    BY <1>1, <1>3, <2>11 DEF N
<1> QED
  BY <1>2, <1>3

LEMMA FlattenAppend ==
  ASSUME NEW A, NEW ss \in Seq(Seq(A)), NEW a \in Seq(A)
  PROVE  /\ FlattenSeq(ss) \in Seq(A)
         /\ FlattenSeq(<<>>) = <<>>
         /\ FlattenSeq(Append(ss, a)) = FlattenSeq(ss) \o a
<1> DEFINE t == Append(ss, a)
           N == Len(ss)
<1>1. t \in Seq(Seq(A)) /\ Len(t) = N + 1 /\ N \in Nat /\ t[N + 1] = a /\ \A i \in 1 .. N : t[i] = ss[i]
  OBVIOUS
<1>2. PICK f : Flattens(A, t, f)
  BY <1>1, FlattensExists
<1> HIDE DEF t
<1> DEFINE g == [i \in 0 .. N |-> f[i]]
<1>3. f \in [0 .. Len(t) -> Seq(A)] /\ f[0] = <<>>
  BY <1>2 DEF Flattens
<1>4. ASSUME NEW i \in 1 .. N + 1 PROVE f[i] = f[i - 1] \o t[i]
  BY <1>1, <1>2 DEF Flattens
<1>5. g \in [0 .. N -> Seq(A)] /\ g[0] = <<>> /\ g[N] = f[N] /\ f[N] \in Seq(A)
  BY <1>1, <1>3
<1>6. ASSUME NEW i \in 1 .. N PROVE g[i] = g[i - 1] \o ss[i]
  <2>1. i \in 0 .. N /\ i - 1 \in 0 .. N /\ i \in 1 .. N + 1
    BY <1>1
  <2>2. f[i] = f[i - 1] \o t[i]
    BY <1>4, <2>1
  <2> QED
    BY <1>1, <2>1, <2>2
<1>7. Flattens(A, ss, g)
  BY <1>5, <1>6 DEF Flattens
<1>8. FlattenSeq(ss) = f[N]
  BY <1>5, <1>7, FlattensUnique
<1>9. FlattenSeq(t) = f[N + 1]
  BY <1>1, <1>2, FlattensUnique
<1>10. f[N + 1] = f[N] \o a
  <2>1. N + 1 \in 1 .. N + 1 /\ (N + 1) - 1 = N
    BY <1>1
  <2> QED
    BY <1>1, <1>4, <2>1
<1>11. FlattenSeq(<<>>) = <<>>
  BY EmptySeq DEF FlattenSeq
<1> QED
  BY <1>5, <1>8, <1>9, <1>10, <1>11 DEF t

LEMMA AppendAfter ==
  ASSUME NEW A, NEW s \in Seq(A), NEW t \in Seq(A), NEW a \in A
  PROVE  /\ s \o t \in Seq(A) /\ Append(t, a) \in Seq(A)
         /\ s \o Append(t, a) = Append(s \o t, a)
<1>1. s \o t \in Seq(A) /\ Append(t, a) \in Seq(A) /\ <<a>> \in Seq(A)
  BY ConcatProperties
<1>2. Append(t, a) = t \o <<a>>
  BY AppendIsConcat
<1> DEFINE st == s \o t
<1>3. (s \o t) \o <<a>> = s \o (t \o <<a>>)
  BY <1>1, ConcatAssociative
<1>4. Append(st, a) = st \o <<a>>
  <2> HIDE DEF st
  <2>1. st \in Seq(A)
    BY <1>1 DEF st
  <2> QED
    BY <2>1, AppendIsConcat
<1> QED
  BY <1>1, <1>2, <1>3, <1>4

LEMMA ThreeJoined ==
  ASSUME NEW A
  PROVE  \A x, y, z \in Seq(A) : (x \o y) \o z = x \o (y \o z)
<1>1. ASSUME NEW x \in Seq(A), NEW y \in Seq(A), NEW z \in Seq(A)
      PROVE  (x \o y) \o z = x \o (y \o z)
  BY ConcatAssociative
<1> QED
  BY <1>1

LEMMA FlattenConcat ==
  ASSUME NEW A
  PROVE  \A ss, tt \in Seq(Seq(A)) : FlattenSeq(ss \o tt) = FlattenSeq(ss) \o FlattenSeq(tt)
<1>1. \A x, y, z \in Seq(A) : (x \o y) \o z = x \o (y \o z)
  BY ThreeJoined
<1> SUFFICES ASSUME NEW ss \in Seq(Seq(A)), NEW tt \in Seq(Seq(A))
             PROVE  FlattenSeq(ss \o tt) = FlattenSeq(ss) \o FlattenSeq(tt)
  OBVIOUS
<1> DEFINE T == {t \in Seq(Seq(A)) : FlattenSeq(ss \o t) = FlattenSeq(ss) \o FlattenSeq(t)}
<1>2. <<>> \in T
  <2>1. ss \o <<>> = ss
    BY ConcatEmptySeq
  <2>2. FlattenSeq(ss) \in Seq(A) /\ FlattenSeq(<<>>) = <<>>
    BY FlattenAppend, EmptySeq
  <2>3. FlattenSeq(ss) \o <<>> = FlattenSeq(ss)
    BY <2>2, ConcatEmptySeq
  <2>4. <<>> \in Seq(Seq(A))
    BY EmptySeq
  <2> QED
    BY <2>1, <2>2, <2>3, <2>4
<1>3. ASSUME NEW t \in Seq(Seq(A)), NEW a \in Seq(A), t \in T PROVE Append(t, a) \in T
  <2>1. /\ ss \o t \in Seq(Seq(A)) /\ Append(t, a) \in Seq(Seq(A))
        /\ ss \o Append(t, a) = Append(ss \o t, a)
    <3> DEFINE C == Seq(A)
    <3>1. ss \in Seq(C) /\ t \in Seq(C) /\ a \in C
      OBVIOUS
    <3> HIDE DEF C
    <3>2. /\ ss \o t \in Seq(C) /\ Append(t, a) \in Seq(C)
          /\ ss \o Append(t, a) = Append(ss \o t, a)
      BY <3>1, AppendAfter
    <3> QED
      BY <3>2 DEF C
  <2> DEFINE st == ss \o t
  <2>2. FlattenSeq(Append(st, a)) = FlattenSeq(st) \o a
    <3> HIDE DEF st
    <3>1. st \in Seq(Seq(A))
      BY <2>1 DEF st
    <3> QED
      BY <3>1, FlattenAppend
  <2>3. FlattenSeq(Append(t, a)) = FlattenSeq(t) \o a
    BY FlattenAppend
  <2> DEFINE fs == FlattenSeq(ss)
             ft == FlattenSeq(t)
  <2>4. fs \in Seq(A) /\ ft \in Seq(A)
    BY FlattenAppend
  <2>5. FlattenSeq(st) = fs \o ft
    BY <1>3
  <2> HIDE DEF fs, ft, st
  <2>6. (fs \o ft) \o a = fs \o (ft \o a)
    BY <1>1, <2>4
  <2>7. FlattenSeq(Append(st, a)) = fs \o FlattenSeq(Append(t, a))
    BY <2>2, <2>3, <2>5, <2>6 DEF ft
  <2>8. FlattenSeq(ss \o Append(t, a)) = FlattenSeq(ss) \o FlattenSeq(Append(t, a))
    BY <2>1, <2>7 DEF st, fs
  <2> QED
    BY <2>1, <2>8
<1> HIDE DEF T
<1>4. \A t \in Seq(Seq(A)) : t \in T
  BY <1>2, <1>3, SeqSetInduction
<1> QED
  BY <1>4 DEF T

(***************************************************************************)
(* What each element of a sequence becomes, joined.                        *)
(***************************************************************************)
Joined(g, s) == FlattenSeq([i \in DOMAIN s |-> g[s[i]]])

Parts(A, B, g) == g \in [A -> Seq(B)]

LEMMA EachMapped ==
  ASSUME NEW A, NEW C, NEW g \in [A -> C], NEW s \in Seq(A)
  PROVE  /\ [i \in DOMAIN s |-> g[s[i]]] \in Seq(C)
         /\ Len([i \in DOMAIN s |-> g[s[i]]]) = Len(s)
OBVIOUS

LEMMA JoinedConcat ==
  ASSUME NEW A, NEW B, NEW g, Parts(A, B, g), NEW s \in Seq(A), NEW t \in Seq(A)
  PROVE  /\ Joined(g, s) \in Seq(B)
         /\ Joined(g, s \o t) = Joined(g, s) \o Joined(g, t)
<1> DEFINE gs == [i \in DOMAIN s |-> g[s[i]]]
           gt == [i \in DOMAIN t |-> g[t[i]]]
           gst == [i \in DOMAIN (s \o t) |-> g[(s \o t)[i]]]
<1>1. gs \in Seq(Seq(B)) /\ gt \in Seq(Seq(B)) /\ Len(gs) = Len(s) /\ Len(gt) = Len(t)
  <2> DEFINE C == Seq(B)
  <2>1. g \in [A -> C]
    BY DEF Parts
  <2> HIDE DEF C
  <2>2. gs \in Seq(C) /\ Len(gs) = Len(s)
    BY <2>1, EachMapped
  <2>3. gt \in Seq(C) /\ Len(gt) = Len(t)
    BY <2>1, EachMapped
  <2> QED
    BY <2>2, <2>3 DEF C
<1>2. gst \in Seq(Seq(B)) /\ Len(gst) = Len(s) + Len(t)
  <2>1. s \o t \in Seq(A) /\ Len(s \o t) = Len(s) + Len(t)
    BY ConcatProperties
  <2> DEFINE C == Seq(B)
  <2>2. g \in [A -> C]
    BY DEF Parts
  <2> HIDE DEF C
  <2>3. gst \in Seq(C) /\ Len(gst) = Len(s \o t)
    BY <2>1, <2>2, EachMapped
  <2> HIDE DEF gst
  <2> QED
    BY <2>1, <2>3 DEF C
<1>3. gs \o gt \in Seq(Seq(B)) /\ Len(gs \o gt) = Len(s) + Len(t)
  <2> HIDE DEF gs, gt
  <2>1. gs \o gt \in Seq(Seq(B)) /\ Len(gs \o gt) = Len(gs) + Len(gt)
    BY <1>1, ConcatProperties
  <2> QED
    BY <1>1, <2>1
<1>4. ASSUME NEW i \in 1 .. Len(s) + Len(t) PROVE gst[i] = (gs \o gt)[i]
  <2>1. (gs \o gt)[i] = IF i <= Len(s) THEN gs[i] ELSE gt[i - Len(s)]
    <3> HIDE DEF gs, gt
    <3> QED
      BY <1>1, ConcatProperties
  <2>2. (s \o t)[i] = IF i <= Len(s) THEN s[i] ELSE t[i - Len(s)]
    BY ConcatProperties
  <2>3. gst[i] = g[(s \o t)[i]]
    <3>1. i \in DOMAIN (s \o t)
      BY ConcatProperties
    <3> QED
      BY <3>1
  <2>4. CASE i <= Len(s)
    <3>1. gs[i] = g[s[i]]
      BY <2>4
    <3> HIDE DEF gst, gs, gt
    <3> QED
      BY <2>1, <2>2, <2>3, <2>4, <3>1
  <2>5. CASE ~ (i <= Len(s))
    <3>1. gt[i - Len(s)] = g[t[i - Len(s)]]
      BY <2>5
    <3> HIDE DEF gst, gs, gt
    <3> QED
      BY <2>1, <2>2, <2>3, <2>5, <3>1
  <2> QED
    BY <2>4, <2>5
<1>5. gst = gs \o gt
  <2> HIDE DEF gst, gs, gt
  <2> QED
    BY <1>2, <1>3, <1>4, SeqEqual
<1>6. Joined(g, s) = FlattenSeq(gs) /\ Joined(g, t) = FlattenSeq(gt) /\ Joined(g, s \o t) = FlattenSeq(gst)
  BY DEF Joined
<1> HIDE DEF gst, gs, gt
<1>7. FlattenSeq(gs \o gt) = FlattenSeq(gs) \o FlattenSeq(gt)
  BY <1>1, FlattenConcat
<1>8. FlattenSeq(gs) \in Seq(B)
  BY <1>1, FlattenAppend, EmptySeq
<1> QED
  BY <1>5, <1>6, <1>7, <1>8

LEMMA JoinedEmpty ==
  ASSUME NEW g
  PROVE  Joined(g, <<>>) = <<>>
<1>1. [i \in DOMAIN <<>> |-> g[<<>>[i]]] = <<>>
  OBVIOUS
<1>2. FlattenSeq(<<>>) = <<>>
  BY EmptySeq, FlattenAppend
<1> QED
  BY <1>1, <1>2 DEF Joined

LEMMA JoinedOne ==
  ASSUME NEW A, NEW B, NEW g, Parts(A, B, g), NEW a \in A
  PROVE  Joined(g, <<a>>) = g[a]
<1>1. [i \in DOMAIN <<a>> |-> g[<<a>>[i]]] = Append(<<>>, g[a])
  OBVIOUS
<1>2. <<>> \in Seq(Seq(B)) /\ g[a] \in Seq(B)
  BY EmptySeq DEF Parts
<1>3. FlattenSeq(Append(<<>>, g[a])) = <<>> \o g[a]
  BY <1>2, FlattenAppend
<1>4. <<>> \o g[a] = g[a]
  BY <1>2, ConcatEmptySeq
<1> QED
  BY <1>1, <1>3, <1>4 DEF Joined

LEMMA JoinedAppend ==
  ASSUME NEW A, NEW B, NEW g, Parts(A, B, g), NEW s \in Seq(A), NEW a \in A
  PROVE  Joined(g, Append(s, a)) = Joined(g, s) \o g[a]
<1>1. Append(s, a) = s \o <<a>> /\ <<a>> \in Seq(A)
  BY AppendIsConcat
<1>2. Joined(g, <<a>>) = g[a]
  BY JoinedOne
<1>3. ASSUME NEW t \in Seq(A) PROVE Joined(g, s \o t) = Joined(g, s) \o Joined(g, t)
  BY JoinedConcat
<1> QED
  BY <1>1, <1>2, <1>3

LEMMA JoinedHead ==
  ASSUME NEW A, NEW B, NEW g, Parts(A, B, g), NEW s \in Seq(A), s # <<>>
  PROVE  Joined(g, s) = g[Head(s)] \o Joined(g, Tail(s))
<1>1. Head(s) \in A /\ Tail(s) \in Seq(A) /\ <<Head(s)>> \in Seq(A)
  BY HeadTailProperties
<1>2. s = <<Head(s)>> \o Tail(s)
  <2>1. Len(<<Head(s)>> \o Tail(s)) = Len(s) /\ <<Head(s)>> \o Tail(s) \in Seq(A)
    BY <1>1
  <2>2. \A i \in 1 .. Len(s) : s[i] = (<<Head(s)>> \o Tail(s))[i]
    BY <1>1
  <2> QED
    BY <2>1, <2>2, SeqEqual
<1>3. Joined(g, <<Head(s)>>) = g[Head(s)]
  BY <1>1, JoinedOne
<1>4. Joined(g, <<Head(s)>> \o Tail(s)) = Joined(g, <<Head(s)>>) \o Joined(g, Tail(s))
  <2> DEFINE h == <<Head(s)>>
             r == Tail(s)
  <2>1. h \in Seq(A) /\ r \in Seq(A)
    BY <1>1
  <2> HIDE DEF h, r
  <2>2. Joined(g, h \o r) = Joined(g, h) \o Joined(g, r)
    BY <2>1, JoinedConcat
  <2> QED
    BY <2>2 DEF h, r
<1> QED
  BY <1>2, <1>3, <1>4
-----------------------------------------------------------------------------
(***************************************************************************)
(* The macro sequencer.  What the queues and the thread hold is stated     *)
(* with the sets of things they hold.                                      *)
(***************************************************************************)
AllCodes == {SeqLeft, SeqRight, SeqP5, SeqX, SeqGraveU}

KeyNames == {"left", "right", "p", "5", "x", "grave", "u"}

KeyEvent == {Key(k, d) : k \in KeyNames, d \in BOOLEAN}

SourceEvent == {Wheel(v) : v \in WheelValues} \union {Press(c) : c \in Presses} \union {Other}

Event == KeyEvent \union SourceEvent

\* The key events among some events, in order.
KeyEvents(events) == FlattenSeq([i \in DOMAIN events |-> IF events[i].kind = "key" THEN <<events[i]>> ELSE <<>>])

\* What each of the four operators on sequences makes of an element.
PressOf == [e \in Event |-> IF e.kind = "key" /\ e.down THEN <<e.key>> ELSE <<>>]

KeyEventOf == [e \in Event |-> IF e.kind = "key" THEN <<e>> ELSE <<>>]

KeysOf == [c \in AllCodes |-> Keys(c)]

TypedOf == [k \in KeyNames |-> <<Key(k, TRUE), Key(k, FALSE)>>]

LEMMA CodeKeys ==
  ASSUME NEW c \in AllCodes
  PROVE  Keys(c) \in Seq(KeyNames) /\ Len(Keys(c)) <= 2
<1>1. Keys(c) \in {<<"left">>, <<"right">>, <<"p", "5">>, <<"x">>, <<"grave", "u">>}
  BY DEF Keys, AllCodes
<1>2. /\ <<"left">> \in Seq(KeyNames) /\ <<"right">> \in Seq(KeyNames) /\ <<"x">> \in Seq(KeyNames)
      /\ <<"p", "5">> \in Seq(KeyNames) /\ <<"grave", "u">> \in Seq(KeyNames)
  BY DEF KeyNames
<1>3. /\ Len(<<"left">>) = 1 /\ Len(<<"right">>) = 1 /\ Len(<<"x">>) = 1
      /\ Len(<<"p", "5">>) = 2 /\ Len(<<"grave", "u">>) = 2
  OBVIOUS
<1>4. ASSUME NEW q \in {<<"left">>, <<"right">>, <<"p", "5">>, <<"x">>, <<"grave", "u">>}
      PROVE  q \in Seq(KeyNames) /\ Len(q) <= 2
  <2>1. CASE q = <<"left">>
    BY <1>2, <1>3, <2>1
  <2>2. CASE q = <<"right">>
    BY <1>2, <1>3, <2>2
  <2>3. CASE q = <<"p", "5">>
    BY <1>2, <1>3, <2>3
  <2>4. CASE q = <<"x">>
    BY <1>2, <1>3, <2>4
  <2>5. CASE q = <<"grave", "u">>
    BY <1>2, <1>3, <2>5
  <2> QED
    BY <2>1, <2>2, <2>3, <2>4, <2>5
<1> QED
  BY <1>1, <1>4

LEMMA EventKinds ==
  ASSUME NEW e \in Event
  PROVE  /\ e.kind = "key" => /\ e \in KeyEvent
                              /\ e.key \in KeyNames /\ e.down \in BOOLEAN
                              /\ e = Key(e.key, e.down)
         /\ e.kind # "key" => e \in SourceEvent
<1>1. CASE e \in KeyEvent
  <2>1. PICK k \in KeyNames, d \in BOOLEAN : e = Key(k, d)
    BY <1>1 DEF KeyEvent
  <2>2. e.kind = "key" /\ e.key = k /\ e.down = d
    BY <2>1 DEF Key
  <2> QED
    BY <1>1, <2>1, <2>2
<1>2. CASE e \in SourceEvent
  <2>1. e.kind # "key"
    BY <1>2 DEF SourceEvent, Wheel, Press, Other
  <2> QED
    BY <1>2, <2>1
<1> QED
  BY <1>1, <1>2 DEF Event

LEMMA KeyTyped ==
  ASSUME NEW k \in KeyNames, NEW d \in BOOLEAN
  PROVE  Key(k, d) \in KeyEvent /\ Key(k, d) \in Event
BY DEF KeyEvent, Event

LEMMA TwoInSeq ==
  ASSUME NEW A, NEW a \in A, NEW b \in A
  PROVE  /\ <<a, b>> \in Seq(A)
         /\ <<a>> \in Seq(A)
         /\ <<a, b>> = <<a>> \o <<b>>
<1>1. <<a, b>> \in Seq(A) /\ <<a>> \in Seq(A)
  OBVIOUS
<1>2. <<a, b>> = Append(<<a>>, b)
  OBVIOUS
<1>3. Append(<<a>>, b) = <<a>> \o <<b>>
  BY <1>1, AppendIsConcat
<1> QED
  BY <1>1, <1>2, <1>3

\* What is joined from keys, or from their events, may be grouped either way.
LEMMA KeysAssociate ==
  /\ \A x, y, z \in Seq(KeyNames) : (x \o y) \o z = x \o (y \o z)
  /\ \A x, y, z \in Seq(KeyEvent) : (x \o y) \o z = x \o (y \o z)
<1>1. \A x, y, z \in Seq(KeyNames) : (x \o y) \o z = x \o (y \o z)
  BY ThreeJoined
<1>2. \A x, y, z \in Seq(KeyEvent) : (x \o y) \o z = x \o (y \o z)
  BY ThreeJoined
<1> QED
  BY <1>1, <1>2

\* Two sequences that are the same start and go on the same way.
LEMMA SameHead ==
  ASSUME NEW A, NEW a \in A, NEW b \in A, NEW s \in Seq(A), NEW t \in Seq(A),
         <<a>> \o s = <<b>> \o t
  PROVE  a = b /\ s = t
<1>1. (<<a>> \o s)[1] = a /\ (<<b>> \o t)[1] = b
  OBVIOUS
<1>2. a = b
  BY <1>1
<1> DEFINE h == <<a>>
<1>3. h \in Seq(A)
  OBVIOUS
<1>4. h \o s = h \o t
  BY <1>2
<1> HIDE DEF h
<1>5. \A x, y, z \in Seq(A) : x \o y = x \o z => y = z
  BY ConcatSimplifications
<1>6. s = t
  BY <1>3, <1>4, <1>5
<1> QED
  BY <1>2, <1>6

LEMMA PartsTyped ==
  /\ Parts(Event, KeyNames, PressOf)
  /\ Parts(Event, KeyEvent, KeyEventOf)
  /\ Parts(AllCodes, KeyNames, KeysOf)
  /\ Parts(KeyNames, KeyEvent, TypedOf)
<1>1. ASSUME NEW e \in Event PROVE PressOf[e] \in Seq(KeyNames)
  <2>1. CASE e.kind = "key" /\ e.down
    <3>1. PressOf[e] = <<e.key>> /\ e.key \in KeyNames
      BY <2>1, EventKinds DEF PressOf
    <3> QED
      BY <3>1
  <2>2. CASE ~ (e.kind = "key" /\ e.down)
    <3>1. PressOf[e] = <<>>
      BY <2>2 DEF PressOf
    <3> QED
      BY <3>1, EmptySeq
  <2> QED
    BY <2>1, <2>2
<1>2. ASSUME NEW e \in Event PROVE KeyEventOf[e] \in Seq(KeyEvent)
  <2>1. CASE e.kind = "key"
    <3>1. KeyEventOf[e] = <<e>> /\ e \in KeyEvent
      BY <2>1, EventKinds DEF KeyEventOf
    <3> QED
      BY <3>1
  <2>2. CASE e.kind # "key"
    <3>1. KeyEventOf[e] = <<>>
      BY <2>2 DEF KeyEventOf
    <3> QED
      BY <3>1, EmptySeq
  <2> QED
    BY <2>1, <2>2
<1>3. ASSUME NEW k \in KeyNames PROVE TypedOf[k] \in Seq(KeyEvent)
  <2>1. TypedOf[k] = <<Key(k, TRUE), Key(k, FALSE)>>
    BY DEF TypedOf
  <2>2. Key(k, TRUE) \in KeyEvent /\ Key(k, FALSE) \in KeyEvent
    BY KeyTyped
  <2>3. <<Key(k, TRUE), Key(k, FALSE)>> \in Seq(KeyEvent)
    BY <2>2, TwoInSeq
  <2> QED
    BY <2>1, <2>3
<1>4. Parts(Event, KeyNames, PressOf)
  BY <1>1 DEF Parts, PressOf
<1>5. Parts(Event, KeyEvent, KeyEventOf)
  BY <1>2 DEF Parts, KeyEventOf
<1>6. Parts(AllCodes, KeyNames, KeysOf)
  BY CodeKeys DEF Parts, KeysOf
<1>7. Parts(KeyNames, KeyEvent, TypedOf)
  BY <1>3 DEF Parts, TypedOf
<1> QED
  BY <1>4, <1>5, <1>6, <1>7

LEMMA OperatorsJoin ==
  /\ \A s \in Seq(Event) : KeyPresses(s) = Joined(PressOf, s) /\ KeyEvents(s) = Joined(KeyEventOf, s)
  /\ \A s \in Seq(AllCodes) : AllKeys(s) = Joined(KeysOf, s)
  /\ \A s \in Seq(KeyNames) : Typed(s) = Joined(TypedOf, s)
<1>1. ASSUME NEW s \in Seq(Event) PROVE KeyPresses(s) = Joined(PressOf, s)
  <2>1. \A i \in DOMAIN s : PressOf[s[i]] = IF s[i].kind = "key" /\ s[i].down THEN <<s[i].key>> ELSE <<>>
    BY DEF PressOf
  <2>2. [i \in DOMAIN s |-> PressOf[s[i]]]
          = [i \in DOMAIN s |-> IF s[i].kind = "key" /\ s[i].down THEN <<s[i].key>> ELSE <<>>]
    BY <2>1
  <2> QED
    BY <2>2 DEF KeyPresses, Joined
<1>2. ASSUME NEW s \in Seq(Event) PROVE KeyEvents(s) = Joined(KeyEventOf, s)
  <2>1. \A i \in DOMAIN s : KeyEventOf[s[i]] = IF s[i].kind = "key" THEN <<s[i]>> ELSE <<>>
    BY DEF KeyEventOf
  <2>2. [i \in DOMAIN s |-> KeyEventOf[s[i]]] = [i \in DOMAIN s |-> IF s[i].kind = "key" THEN <<s[i]>> ELSE <<>>]
    BY <2>1
  <2> QED
    BY <2>2 DEF KeyEvents, Joined
<1>3. ASSUME NEW s \in Seq(AllCodes) PROVE AllKeys(s) = Joined(KeysOf, s)
  <2>1. \A i \in DOMAIN s : KeysOf[s[i]] = Keys(s[i])
    BY DEF KeysOf
  <2>2. [i \in DOMAIN s |-> KeysOf[s[i]]] = [i \in DOMAIN s |-> Keys(s[i])]
    BY <2>1
  <2> QED
    BY <2>2 DEF AllKeys, Joined
<1>4. ASSUME NEW s \in Seq(KeyNames) PROVE Typed(s) = Joined(TypedOf, s)
  <2>1. ASSUME NEW i \in DOMAIN s PROVE TypedOf[s[i]] = <<Key(s[i], TRUE), Key(s[i], FALSE)>>
    <3>1. s[i] \in KeyNames
      OBVIOUS
    <3>2. \A k \in KeyNames : TypedOf[k] = <<Key(k, TRUE), Key(k, FALSE)>>
      BY DEF TypedOf
    <3> QED
      BY <3>1, <3>2
  <2>2. [i \in DOMAIN s |-> TypedOf[s[i]]] = [i \in DOMAIN s |-> <<Key(s[i], TRUE), Key(s[i], FALSE)>>]
    BY <2>1
  <2> QED
    BY <2>2 DEF Typed, Joined
<1> QED
  BY <1>1, <1>2, <1>3, <1>4

LEMMA OperatorsConcat ==
  /\ \A s, t \in Seq(Event) :
       /\ Joined(PressOf, s \o t) = Joined(PressOf, s) \o Joined(PressOf, t)
       /\ Joined(KeyEventOf, s \o t) = Joined(KeyEventOf, s) \o Joined(KeyEventOf, t)
  /\ \A s, t \in Seq(AllCodes) : Joined(KeysOf, s \o t) = Joined(KeysOf, s) \o Joined(KeysOf, t)
  /\ \A s, t \in Seq(KeyNames) : Joined(TypedOf, s \o t) = Joined(TypedOf, s) \o Joined(TypedOf, t)
<1>1. ASSUME NEW s \in Seq(Event), NEW t \in Seq(Event)
      PROVE  Joined(PressOf, s \o t) = Joined(PressOf, s) \o Joined(PressOf, t)
  <2>1. Parts(Event, KeyNames, PressOf)
    BY PartsTyped
  <2> QED
    BY <2>1, JoinedConcat
<1>2. ASSUME NEW s \in Seq(Event), NEW t \in Seq(Event)
      PROVE  Joined(KeyEventOf, s \o t) = Joined(KeyEventOf, s) \o Joined(KeyEventOf, t)
  <2>1. Parts(Event, KeyEvent, KeyEventOf)
    BY PartsTyped
  <2> QED
    BY <2>1, JoinedConcat
<1>3. ASSUME NEW s \in Seq(AllCodes), NEW t \in Seq(AllCodes)
      PROVE  Joined(KeysOf, s \o t) = Joined(KeysOf, s) \o Joined(KeysOf, t)
  <2>1. Parts(AllCodes, KeyNames, KeysOf)
    BY PartsTyped
  <2> QED
    BY <2>1, JoinedConcat
<1>4. ASSUME NEW s \in Seq(KeyNames), NEW t \in Seq(KeyNames)
      PROVE  Joined(TypedOf, s \o t) = Joined(TypedOf, s) \o Joined(TypedOf, t)
  <2>1. Parts(KeyNames, KeyEvent, TypedOf)
    BY PartsTyped
  <2> QED
    BY <2>1, JoinedConcat
<1> QED
  BY <1>1, <1>2, <1>3, <1>4

(***************************************************************************)
(* Typing keys and looking at which go down gives the keys back; a key     *)
(* event that is set aside for what it presses need not be picked first.   *)
(***************************************************************************)
LEMMA PressesTyped ==
  ASSUME NEW k \in KeyNames
  PROVE  /\ TypedOf[k] = <<Key(k, TRUE)>> \o <<Key(k, FALSE)>>
         /\ TypedOf[k] \in Seq(KeyEvent) /\ TypedOf[k] \in Seq(Event)
         /\ Joined(PressOf, TypedOf[k]) = <<k>>
         /\ Joined(PressOf, <<Key(k, FALSE)>>) = <<>>
<1> DEFINE d == Key(k, TRUE)
           u == Key(k, FALSE)
<1>1. d \in KeyEvent /\ u \in KeyEvent /\ d \in Event /\ u \in Event
  BY KeyTyped
<1>2. PressOf[d] = <<k>> /\ PressOf[u] = <<>>
  BY <1>1 DEF PressOf, Key
<1>3. TypedOf[k] = <<d, u>>
  BY DEF TypedOf
<1> HIDE DEF d, u
<1>4. <<d, u>> = <<d>> \o <<u>> /\ <<d>> \in Seq(Event) /\ <<u>> \in Seq(Event)
  BY <1>1, TwoInSeq
<1>5. Joined(PressOf, <<d>>) = <<k>> /\ Joined(PressOf, <<u>>) = <<>>
  BY <1>1, <1>2, JoinedOne, PartsTyped
<1>6. Joined(PressOf, <<d>> \o <<u>>) = Joined(PressOf, <<d>>) \o Joined(PressOf, <<u>>)
  BY <1>4, OperatorsConcat
<1>7. <<k>> \o <<>> = <<k>>
  OBVIOUS
<1>8. <<d, u>> \in Seq(KeyEvent) /\ <<d, u>> \in Seq(Event)
  BY <1>1, TwoInSeq
<1> QED
  BY <1>3, <1>4, <1>5, <1>6, <1>7, <1>8 DEF d, u

LEMMA TypedPresses ==
  ASSUME NEW ks \in Seq(KeyNames)
  PROVE  /\ Typed(ks) \in Seq(KeyEvent) /\ Typed(ks) \in Seq(Event)
         /\ KeyPresses(Typed(ks)) = ks
<1> DEFINE T == {s \in Seq(KeyNames) : Joined(PressOf, Joined(TypedOf, s)) = s}
<1>1. <<>> \in T
  BY JoinedEmpty, EmptySeq
<1>2. ASSUME NEW s \in Seq(KeyNames), NEW k \in KeyNames, s \in T PROVE Append(s, k) \in T
  <2>1. Joined(TypedOf, Append(s, k)) = Joined(TypedOf, s) \o TypedOf[k]
    BY JoinedAppend, PartsTyped
  <2>2. Joined(TypedOf, s) \in Seq(KeyEvent)
    BY JoinedConcat, PartsTyped
  <2>3. Joined(TypedOf, s) \in Seq(Event)
    BY <2>2 DEF Event
  <2>4. Joined(PressOf, Joined(TypedOf, s) \o TypedOf[k])
          = Joined(PressOf, Joined(TypedOf, s)) \o Joined(PressOf, TypedOf[k])
    BY <2>3, PressesTyped, OperatorsConcat
  <2>5. s \o <<k>> = Append(s, k) /\ Append(s, k) \in Seq(KeyNames)
    BY AppendIsConcat
  <2> QED
    BY <1>2, <2>1, <2>4, <2>5, PressesTyped
<1>3. ks \in T
  <2> HIDE DEF T
  <2> QED
    BY <1>1, <1>2, SeqSetInduction
<1>4. Joined(TypedOf, ks) \in Seq(KeyEvent)
  BY JoinedConcat, PartsTyped
<1>5. Joined(TypedOf, ks) \in Seq(Event)
  BY <1>4 DEF Event
<1> QED
  BY <1>3, <1>4, <1>5, OperatorsJoin

\* Each key is pressed and released.
LEMMA TypedLength ==
  ASSUME NEW ks \in Seq(KeyNames)
  PROVE  Len(Typed(ks)) = 2 * Len(ks)
<1> DEFINE T == {s \in Seq(KeyNames) : Len(Joined(TypedOf, s)) = 2 * Len(s)}
<1>1. <<>> \in T
  <2>1. Len(Joined(TypedOf, <<>>)) = 0 /\ Len(<<>>) = 0 /\ 0 = 2 * 0
    BY JoinedEmpty
  <2> QED
    BY <2>1, EmptySeq
<1>2. ASSUME NEW s \in Seq(KeyNames), NEW k \in KeyNames, s \in T PROVE Append(s, k) \in T
  <2>1. Joined(TypedOf, Append(s, k)) = Joined(TypedOf, s) \o TypedOf[k]
    BY JoinedAppend, PartsTyped
  <2>2. Joined(TypedOf, s) \in Seq(KeyEvent) /\ TypedOf[k] \in Seq(KeyEvent)
    BY JoinedConcat, PartsTyped, PressesTyped
  <2>3. Len(TypedOf[k]) = 2
    <3>1. TypedOf[k] = <<Key(k, TRUE), Key(k, FALSE)>>
      BY DEF TypedOf
    <3> QED
      BY <3>1
  <2>4. Len(Joined(TypedOf, Append(s, k))) = Len(Joined(TypedOf, s)) + 2
    <3>1. Len(Joined(TypedOf, s) \o TypedOf[k]) = Len(Joined(TypedOf, s)) + Len(TypedOf[k])
      BY <2>2, ConcatProperties
    <3> QED
      BY <2>1, <2>3, <3>1
  <2>5. Append(s, k) \in Seq(KeyNames) /\ Len(Append(s, k)) = Len(s) + 1 /\ Len(s) \in Nat
    OBVIOUS
  <2>6. Len(Joined(TypedOf, s)) = 2 * Len(s)
    BY <1>2
  <2>7. Len(Joined(TypedOf, Append(s, k))) = 2 * Len(Append(s, k))
    BY <2>4, <2>5, <2>6
  <2> QED
    BY <2>5, <2>7
<1>3. ks \in T
  <2> HIDE DEF T
  <2> QED
    BY <1>1, <1>2, SeqSetInduction
<1> QED
  BY <1>3, OperatorsJoin

\* The keys that go down in two sequences of events, one after the other.
LEMMA PressesConcat ==
  ASSUME NEW s \in Seq(Event), NEW t \in Seq(Event)
  PROVE  s \o t \in Seq(Event) /\ KeyPresses(s \o t) = KeyPresses(s) \o KeyPresses(t)
<1> DEFINE st == s \o t
<1>1. st \in Seq(Event)
  BY ConcatProperties
<1>2. Joined(PressOf, st) = Joined(PressOf, s) \o Joined(PressOf, t)
  BY OperatorsConcat
<1> HIDE DEF st
<1>3. KeyPresses(st) = Joined(PressOf, st)
  BY <1>1, OperatorsJoin
<1>4. KeyPresses(s) = Joined(PressOf, s)
  BY OperatorsJoin
<1>5. KeyPresses(t) = Joined(PressOf, t)
  BY OperatorsJoin
<1>6. KeyPresses(st) = KeyPresses(s) \o KeyPresses(t)
  BY <1>2, <1>3, <1>4, <1>5
<1> QED
  BY <1>1, <1>6 DEF st

LEMMA PressesOfKeyEvents ==
  ASSUME NEW s \in Seq(Event)
  PROVE  /\ KeyEvents(s) \in Seq(KeyEvent) /\ KeyEvents(s) \in Seq(Event)
         /\ KeyPresses(KeyEvents(s)) = KeyPresses(s)
<1> DEFINE T == {t \in Seq(Event) : Joined(PressOf, Joined(KeyEventOf, t)) = Joined(PressOf, t)}
<1>1. <<>> \in T
  BY JoinedEmpty, EmptySeq
<1>2. ASSUME NEW t \in Seq(Event), NEW e \in Event, t \in T PROVE Append(t, e) \in T
  <2> DEFINE ke == Joined(KeyEventOf, t)
             pe == Joined(PressOf, t)
  <2>1. ke \in Seq(KeyEvent) /\ pe \in Seq(KeyNames)
    BY JoinedConcat, PartsTyped
  <2>2. ke \in Seq(Event)
    BY <2>1 DEF Event
  <2>3. Joined(KeyEventOf, Append(t, e)) = ke \o KeyEventOf[e]
    BY JoinedAppend, PartsTyped
  <2>4. Joined(PressOf, Append(t, e)) = pe \o PressOf[e]
    BY JoinedAppend, PartsTyped
  <2>5. Joined(PressOf, ke) = pe
    BY <1>2
  <2>6. Joined(PressOf, ke \o KeyEventOf[e]) = pe \o PressOf[e]
    <3> HIDE DEF ke, pe
    <3>1. CASE e.kind = "key"
      <4>1. KeyEventOf[e] = <<e>> /\ <<e>> \in Seq(Event)
        BY <3>1 DEF KeyEventOf
      <4>2. Joined(PressOf, ke \o <<e>>) = Joined(PressOf, ke) \o Joined(PressOf, <<e>>)
        BY <2>2, <4>1, OperatorsConcat
      <4>3. Joined(PressOf, <<e>>) = PressOf[e]
        BY JoinedOne, PartsTyped
      <4> QED
        BY <2>5, <4>1, <4>2, <4>3
    <3>2. CASE e.kind # "key"
      <4>1. KeyEventOf[e] = <<>> /\ PressOf[e] = <<>>
        BY <3>2 DEF KeyEventOf, PressOf
      <4>2. ke \o <<>> = ke /\ pe \o <<>> = pe
        BY <2>1, ConcatEmptySeq
      <4> QED
        BY <2>5, <4>1, <4>2
    <3> QED
      BY <3>1, <3>2
  <2>7. Append(t, e) \in Seq(Event)
    OBVIOUS
  <2>8. Joined(PressOf, Joined(KeyEventOf, Append(t, e))) = Joined(PressOf, Append(t, e))
    BY <2>3, <2>4, <2>6
  <2> QED
    BY <2>7, <2>8
<1>3. s \in T
  <2> HIDE DEF T
  <2> QED
    BY <1>1, <1>2, SeqSetInduction
<1>4. KeyEvents(s) \in Seq(KeyEvent)
  BY JoinedConcat, PartsTyped, OperatorsJoin
<1>5. KeyEvents(s) \in Seq(Event)
  BY <1>4 DEF Event
<1> QED
  BY <1>3, <1>4, <1>5, OperatorsJoin

(***************************************************************************)
(* What moving an event, a code or a key does to the operators.            *)
(***************************************************************************)
LEMMA EventMoves ==
  ASSUME NEW q \in Seq(Event)
  PROVE  /\ \A e \in Event : KeyEvents(Append(q, e)) = IF e.kind = "key" THEN KeyEvents(q) \o <<e>> ELSE KeyEvents(q)
         /\ q # <<>> => KeyEvents(q) = IF Head(q).kind = "key" THEN <<Head(q)>> \o KeyEvents(Tail(q)) ELSE KeyEvents(Tail(q))
<1>1. \A e \in Event : KeyEventOf[e] = IF e.kind = "key" THEN <<e>> ELSE <<>>
  BY DEF KeyEventOf
<1>2. \A t \in Seq(Event) : KeyEvents(t) \in Seq(KeyEvent)
  BY PressesOfKeyEvents
<1>3. ASSUME NEW e \in Event
      PROVE  KeyEvents(Append(q, e)) = IF e.kind = "key" THEN KeyEvents(q) \o <<e>> ELSE KeyEvents(q)
  <2>1. Append(q, e) \in Seq(Event)
    OBVIOUS
  <2>2. KeyEvents(Append(q, e)) = KeyEvents(q) \o KeyEventOf[e]
    <3>1. Joined(KeyEventOf, Append(q, e)) = Joined(KeyEventOf, q) \o KeyEventOf[e]
      BY <2>1, JoinedAppend, PartsTyped
    <3> QED
      BY <2>1, <3>1, OperatorsJoin
  <2>3. KeyEvents(q) \o <<>> = KeyEvents(q)
    BY <1>2, ConcatEmptySeq
  <2> QED
    BY <1>1, <2>2, <2>3
<1>4. ASSUME q # <<>>
      PROVE  KeyEvents(q) = IF Head(q).kind = "key" THEN <<Head(q)>> \o KeyEvents(Tail(q)) ELSE KeyEvents(Tail(q))
  <2>1. Head(q) \in Event /\ Tail(q) \in Seq(Event)
    BY <1>4, HeadTailProperties
  <2>2. KeyEvents(q) = KeyEventOf[Head(q)] \o KeyEvents(Tail(q))
    <3>1. Joined(KeyEventOf, q) = KeyEventOf[Head(q)] \o Joined(KeyEventOf, Tail(q))
      BY <1>4, <2>1, JoinedHead, PartsTyped
    <3> QED
      BY <2>1, <3>1, OperatorsJoin
  <2>3. <<>> \o KeyEvents(Tail(q)) = KeyEvents(Tail(q))
    BY <1>2, <2>1, ConcatEmptySeq
  <2> QED
    BY <1>1, <2>1, <2>2, <2>3
<1> QED
  BY <1>3, <1>4

LEMMA CodeMoves ==
  ASSUME NEW q \in Seq(AllCodes)
  PROVE  /\ AllKeys(q) \in Seq(KeyNames)
         /\ \A t \in Seq(AllCodes) : AllKeys(q \o t) = AllKeys(q) \o AllKeys(t)
         /\ q # <<>> => AllKeys(q) = Keys(Head(q)) \o AllKeys(Tail(q))
<1>1. AllKeys(q) \in Seq(KeyNames)
  BY JoinedConcat, PartsTyped, OperatorsJoin
<1>2. ASSUME NEW t \in Seq(AllCodes) PROVE AllKeys(q \o t) = AllKeys(q) \o AllKeys(t)
  <2> DEFINE qt == q \o t
  <2>1. qt \in Seq(AllCodes)
    BY ConcatProperties
  <2>2. Joined(KeysOf, qt) = Joined(KeysOf, q) \o Joined(KeysOf, t)
    BY OperatorsConcat
  <2> HIDE DEF qt
  <2>3. AllKeys(qt) = Joined(KeysOf, qt)
    BY <2>1, OperatorsJoin
  <2>4. AllKeys(q) = Joined(KeysOf, q) /\ AllKeys(t) = Joined(KeysOf, t)
    BY OperatorsJoin
  <2> QED
    BY <2>2, <2>3, <2>4 DEF qt
<1>3. ASSUME q # <<>> PROVE AllKeys(q) = Keys(Head(q)) \o AllKeys(Tail(q))
  <2>1. Head(q) \in AllCodes /\ Tail(q) \in Seq(AllCodes)
    BY <1>3, HeadTailProperties
  <2>2. AllKeys(q) = KeysOf[Head(q)] \o AllKeys(Tail(q))
    <3>1. Joined(KeysOf, q) = KeysOf[Head(q)] \o Joined(KeysOf, Tail(q))
      BY <1>3, <2>1, JoinedHead, PartsTyped
    <3> QED
      BY <2>1, <3>1, OperatorsJoin
  <2>3. KeysOf[Head(q)] = Keys(Head(q))
    BY <2>1 DEF KeysOf
  <2> QED
    BY <2>2, <2>3
<1> QED
  BY <1>1, <1>2, <1>3

LEMMA TypedMoves ==
  ASSUME NEW s \in Seq(KeyNames)
  PROVE  /\ \A t \in Seq(KeyNames) : Typed(s \o t) = Typed(s) \o Typed(t)
         /\ s # <<>> => Typed(s) = <<Key(Head(s), TRUE)>> \o (<<Key(Head(s), FALSE)>> \o Typed(Tail(s)))
         /\ s = <<>> => Typed(s) = <<>>
<1>1. ASSUME NEW t \in Seq(KeyNames) PROVE Typed(s \o t) = Typed(s) \o Typed(t)
  <2> DEFINE qt == s \o t
  <2>1. qt \in Seq(KeyNames)
    BY ConcatProperties
  <2>2. Joined(TypedOf, qt) = Joined(TypedOf, s) \o Joined(TypedOf, t)
    BY OperatorsConcat
  <2> HIDE DEF qt
  <2>3. Typed(qt) = Joined(TypedOf, qt)
    BY <2>1, OperatorsJoin
  <2>4. Typed(s) = Joined(TypedOf, s) /\ Typed(t) = Joined(TypedOf, t)
    BY OperatorsJoin
  <2> QED
    BY <2>2, <2>3, <2>4 DEF qt
<1>2. ASSUME s # <<>> PROVE Typed(s) = <<Key(Head(s), TRUE)>> \o (<<Key(Head(s), FALSE)>> \o Typed(Tail(s)))
  <2> DEFINE k == Head(s)
             d == <<Key(k, TRUE)>>
             u == <<Key(k, FALSE)>>
             rest == Typed(Tail(s))
  <2>1. k \in KeyNames /\ Tail(s) \in Seq(KeyNames)
    BY <1>2, HeadTailProperties
  <2>2. Typed(s) = TypedOf[k] \o rest
    <3>1. Joined(TypedOf, s) = TypedOf[Head(s)] \o Joined(TypedOf, Tail(s))
      BY <1>2, <2>1, JoinedHead, PartsTyped
    <3> QED
      BY <2>1, <3>1, OperatorsJoin
  <2>3. TypedOf[k] = d \o u
    BY <2>1, PressesTyped
  <2>4. d \in Seq(KeyEvent) /\ u \in Seq(KeyEvent) /\ rest \in Seq(KeyEvent)
    <3>1. Key(k, TRUE) \in KeyEvent /\ Key(k, FALSE) \in KeyEvent
      BY <2>1, KeyTyped
    <3>2. rest \in Seq(KeyEvent)
      BY <2>1, TypedPresses
    <3> QED
      BY <3>1, <3>2, TwoInSeq
  <2> HIDE DEF d, u, rest
  <2>5. (d \o u) \o rest = d \o (u \o rest)
    BY <2>4, KeysAssociate
  <2> QED
    BY <2>2, <2>3, <2>5 DEF d, u, rest
<1>3. ASSUME s = <<>> PROVE Typed(s) = <<>>
  BY <1>3, JoinedEmpty, OperatorsJoin
<1> QED
  BY <1>1, <1>2, <1>3

(***************************************************************************)
(* The inductive invariant.  What is on its way to hid_kbd_cb, in the      *)
(* input queue and in the thread, is the release of the key that is down,  *)
(* if one is, and then some keys typed one after the other; those keys and *)
(* the ones of the codes that wait are what is owed.  That no two keys are *)
(* down at once needs the order of everything that is on its way.          *)
(***************************************************************************)
SequencerTypes ==
  /\ inputq \in Seq(Event) /\ Len(inputq) <= InputQueueSize
  /\ seqq \in Seq({SeqLeft, SeqRight} \union Presses) /\ Len(seqq) <= SeqQueueSize
  /\ job \in Seq(KeyEvent) /\ Len(job) <= 4

OnTheWay(down, events, keys) ==
  \/ down = {} /\ events = Typed(keys)
  \/ \E k \in KeyNames : down = {k} /\ events = <<Key(k, FALSE)>> \o Typed(keys)

SequencerSound ==
  /\ SequencerTypes
  /\ \E keys \in Seq(KeyNames) :
       /\ OnTheWay(held, KeyEvents(inputq) \o job, keys)
       /\ owed = keys \o AllKeys(seqq)

LEMMA CodesKnown ==
  ASSUME NEW q \in Seq({SeqLeft, SeqRight} \union Presses)
  PROVE  q \in Seq(AllCodes)
BY KeySequencerAssumption DEF AllCodes

LEMMA SequencerSoundMeans == SequencerSound => SequencerInv
<1> SUFFICES ASSUME SequencerSound PROVE SequencerInv
  OBVIOUS
<1>1. PICK keys \in Seq(KeyNames) : /\ OnTheWay(held, KeyEvents(inputq) \o job, keys)
                                    /\ owed = keys \o AllKeys(seqq)
  BY DEF SequencerSound
<1>2. SequencerTypes
  BY DEF SequencerSound
<1>3. KeySeqTypeOK
  BY <1>2 DEF KeySeqTypeOK, SequencerTypes
<1>4. OneKeyDown
  <2>1. held = {} \/ \E k \in KeyNames : held = {k}
    BY <1>1 DEF OnTheWay
  <2>2. Cardinality({}) = 0 /\ \A k : Cardinality({k}) = 1
    BY FS_EmptySet, FS_Singleton
  <2>3. Cardinality(held) = 0 \/ Cardinality(held) = 1
    BY <2>1, <2>2
  <2> QED
    BY <2>3 DEF OneKeyDown
<1>5. KeyPresses(inputq) \o KeyPresses(job) = keys
  <2> DEFINE w == KeyEvents(inputq)
  <2>1. w \in Seq(Event) /\ job \in Seq(Event) /\ KeyPresses(w) = KeyPresses(inputq)
    BY <1>2, PressesOfKeyEvents DEF SequencerTypes, Event
  <2>2. KeyPresses(w \o job) = KeyPresses(w) \o KeyPresses(job)
    <3> HIDE DEF w
    <3> QED
      BY <2>1, PressesConcat
  <2>3. KeyPresses(w \o job) = keys
    <3>1. CASE held = {} /\ w \o job = Typed(keys)
      BY <3>1, TypedPresses
    <3>2. ASSUME NEW k \in KeyNames, w \o job = <<Key(k, FALSE)>> \o Typed(keys)
          PROVE  KeyPresses(w \o job) = keys
      <4> DEFINE u == <<Key(k, FALSE)>>
      <4>1. u \in Seq(Event) /\ Typed(keys) \in Seq(Event)
        BY KeyTyped, TwoInSeq, TypedPresses
      <4>2. Joined(PressOf, u) = <<>>
        BY PressesTyped
      <4> HIDE DEF u
      <4>3. KeyPresses(u \o Typed(keys)) = KeyPresses(u) \o KeyPresses(Typed(keys))
        BY <4>1, PressesConcat
      <4>4. KeyPresses(u) = <<>>
        BY <4>1, <4>2, OperatorsJoin
      <4>5. KeyPresses(Typed(keys)) = keys
        BY TypedPresses
      <4>6. <<>> \o keys = keys
        BY ConcatEmptySeq
      <4> QED
        BY <3>2, <4>3, <4>4, <4>5, <4>6 DEF u
    <3> QED
      BY <1>1, <3>1, <3>2 DEF OnTheWay
  <2> QED
    BY <2>1, <2>2, <2>3
<1>6. KeysInOrder
  BY <1>1, <1>5 DEF KeysInOrder
<1> QED
  BY <1>3, <1>4, <1>6 DEF SequencerInv

LEMMA SequencerInitially == SeqInit => SequencerSound
<1> SUFFICES ASSUME SeqInit PROVE SequencerSound
  OBVIOUS
<1>1. SequencerTypes
  BY KeySequencerAssumption, EmptySeq DEF SeqInit, SequencerTypes
<1>2. KeyEvents(<<>>) = <<>> /\ AllKeys(<<>>) = <<>> /\ Typed(<<>>) = <<>>
  BY JoinedEmpty, EmptySeq, OperatorsJoin
<1>3. <<>> \o <<>> = <<>>
  OBVIOUS
<1>4. OnTheWay(held, KeyEvents(inputq) \o job, <<>>) /\ owed = <<>> \o AllKeys(seqq)
  BY <1>2, <1>3 DEF SeqInit, OnTheWay
<1> QED
  BY <1>1, <1>4, EmptySeq DEF SequencerSound

\* What a driver reports is no key event and stays out of the way.
LEMMA FeedKeeps ==
  ASSUME SequencerSound, Feed
  PROVE  SequencerSound'
<1>1. PICK e \in SourceEvent : inputq' = Append(inputq, e)
  BY DEF Feed, SourceEvent
<1>2. e \in Event /\ e.kind # "key"
  BY DEF Event, SourceEvent, Wheel, Press, Other
<1>3. SequencerTypes /\ Len(inputq) < InputQueueSize /\ UNCHANGED <<seqq, job, held, owed>>
  BY DEF Feed, SequencerSound
<1>4. SequencerTypes'
  BY <1>1, <1>2, <1>3, KeySequencerAssumption DEF SequencerTypes
<1>5. KeyEvents(inputq') = KeyEvents(inputq)
  BY <1>1, <1>2, <1>3, EventMoves DEF SequencerTypes
<1> QED
  BY <1>3, <1>4, <1>5 DEF SequencerSound

\* A report moves from the thread to the end of the queue: the order of what is
\* on its way does not change.
LEMMA ReportKeeps ==
  ASSUME SequencerSound, SeqReport
  PROVE  SequencerSound'
<1>1. /\ SequencerTypes /\ job # <<>> /\ Len(inputq) < InputQueueSize
      /\ inputq' = Append(inputq, Head(job)) /\ job' = Tail(job) /\ UNCHANGED <<seqq, held, owed>>
  BY DEF SeqReport, SequencerSound
<1>2. /\ Head(job) \in KeyEvent /\ Tail(job) \in Seq(KeyEvent) /\ Len(Tail(job)) = Len(job) - 1
      /\ <<Head(job)>> \in Seq(KeyEvent)
  BY <1>1, HeadTailProperties DEF SequencerTypes
<1>3. Head(job) \in Event /\ Head(job).kind = "key"
  <2>1. Head(job) \in Event
    BY <1>2 DEF Event
  <2> QED
    BY <1>2, <2>1 DEF KeyEvent, Key
<1>4. SequencerTypes'
  <2>1. inputq' \in Seq(Event) /\ Len(inputq') <= InputQueueSize
    BY <1>1, <1>3, KeySequencerAssumption DEF SequencerTypes
  <2>2. job' \in Seq(KeyEvent) /\ Len(job') <= 4
    BY <1>1, <1>2 DEF SequencerTypes
  <2> QED
    BY <1>1, <2>1, <2>2 DEF SequencerTypes
<1>5. KeyEvents(inputq') \o job' = KeyEvents(inputq) \o job
  <2>1. KeyEvents(inputq') = KeyEvents(inputq) \o <<Head(job)>>
    BY <1>1, <1>3, EventMoves DEF SequencerTypes
  <2>2. KeyEvents(inputq) \in Seq(KeyEvent)
    BY <1>1, PressesOfKeyEvents DEF SequencerTypes
  <2>3. job = <<Head(job)>> \o Tail(job)
    <3> DEFINE j == <<Head(job)>> \o Tail(job)
    <3>1. job \in Seq(KeyEvent) /\ j \in Seq(KeyEvent) /\ Len(j) = Len(job)
      BY <1>1, <1>2 DEF SequencerTypes
    <3>2. \A i \in 1 .. Len(job) : job[i] = j[i]
      BY <1>1, <1>2 DEF SequencerTypes
    <3> HIDE DEF j
    <3>3. job = j
      BY <3>1, <3>2, SeqEqual
    <3> QED
      BY <3>3 DEF j
  <2>4. (KeyEvents(inputq) \o <<Head(job)>>) \o Tail(job) = KeyEvents(inputq) \o (<<Head(job)>> \o Tail(job))
    BY <1>2, <2>2, KeysAssociate
  <2> QED
    BY <1>1, <2>1, <2>3, <2>4
<1> QED
  BY <1>1, <1>4, <1>5 DEF SequencerSound

\* A code becomes what is typed for it, behind all that is on its way.
LEMMA TakeKeeps ==
  ASSUME SequencerSound, SeqTake
  PROVE  SequencerSound'
<1>1. /\ SequencerTypes /\ job = <<>> /\ seqq # <<>>
      /\ job' = Typed(Keys(Head(seqq))) /\ seqq' = Tail(seqq) /\ UNCHANGED <<inputq, held, owed>>
  BY DEF SeqTake, Reports, SequencerSound
<1>2. PICK keys \in Seq(KeyNames) : /\ OnTheWay(held, KeyEvents(inputq) \o job, keys)
                                    /\ owed = keys \o AllKeys(seqq)
  BY DEF SequencerSound
<1> DEFINE C == {SeqLeft, SeqRight} \union Presses
           more == Keys(Head(seqq))
           w == KeyEvents(inputq)
<1>3. Head(seqq) \in C /\ Tail(seqq) \in Seq(C) /\ Len(Tail(seqq)) = Len(seqq) - 1
  BY <1>1, HeadTailProperties DEF SequencerTypes
<1>4. seqq \in Seq(AllCodes) /\ Head(seqq) \in AllCodes /\ Tail(seqq) \in Seq(AllCodes)
  <2>1. seqq \in Seq(AllCodes)
    BY <1>1, CodesKnown DEF SequencerTypes
  <2> QED
    BY <1>1, <2>1, HeadTailProperties
<1>5. more \in Seq(KeyNames) /\ Len(more) <= 2
  BY <1>4, CodeKeys
<1>6. AllKeys(seqq) = more \o AllKeys(Tail(seqq)) /\ AllKeys(Tail(seqq)) \in Seq(KeyNames)
  BY <1>1, <1>4, CodeMoves
<1> HIDE DEF more
<1>7. Typed(more) \in Seq(KeyEvent) /\ Len(Typed(more)) <= 4
  <2>1. Typed(more) \in Seq(KeyEvent) /\ Len(Typed(more)) = 2 * Len(more)
    BY <1>5, TypedPresses, TypedLength
  <2>2. Len(more) \in Nat
    BY <1>5
  <2> QED
    BY <1>5, <2>1, <2>2
<1>8. SequencerTypes'
  <2>1. seqq' \in Seq(C) /\ Len(seqq') <= SeqQueueSize
    BY <1>1, <1>3, KeySequencerAssumption DEF SequencerTypes
  <2>2. job' \in Seq(KeyEvent) /\ Len(job') <= 4
    BY <1>1, <1>7 DEF more
  <2> QED
    BY <1>1, <2>1, <2>2 DEF SequencerTypes
<1>9. w \in Seq(KeyEvent) /\ w \o <<>> = w
  <2>1. w \in Seq(KeyEvent)
    BY <1>1, PressesOfKeyEvents DEF SequencerTypes
  <2> QED
    BY <2>1, ConcatEmptySeq
<1>10. keys \o more \in Seq(KeyNames) /\ Typed(keys \o more) = Typed(keys) \o Typed(more)
  BY <1>5, ConcatProperties, TypedMoves
<1>11. OnTheWay(held', KeyEvents(inputq') \o job', keys \o more)
  <2>1. job' = Typed(more) /\ KeyEvents(inputq') = w /\ held' = held
    BY <1>1 DEF more
  <2>2. Typed(keys) \in Seq(KeyEvent)
    BY TypedPresses
  <2> HIDE DEF w
  <2>3. CASE held = {} /\ w = Typed(keys)
    BY <1>10, <2>1, <2>3 DEF OnTheWay
  <2>4. ASSUME NEW k \in KeyNames, held = {k}, w = <<Key(k, FALSE)>> \o Typed(keys)
        PROVE  OnTheWay(held', KeyEvents(inputq') \o job', keys \o more)
    <3>1. <<Key(k, FALSE)>> \in Seq(KeyEvent)
      BY KeyTyped, TwoInSeq
    <3>2. (<<Key(k, FALSE)>> \o Typed(keys)) \o Typed(more) = <<Key(k, FALSE)>> \o (Typed(keys) \o Typed(more))
      BY <1>7, <2>2, <3>1, KeysAssociate
    <3> QED
      BY <1>10, <2>1, <2>4, <3>2 DEF OnTheWay
  <2> QED
    BY <1>1, <1>2, <1>9, <2>3, <2>4 DEF OnTheWay, w
<1>12. owed' = (keys \o more) \o AllKeys(seqq')
  <2> DEFINE later == AllKeys(Tail(seqq))
  <2>1. later \in Seq(KeyNames) /\ AllKeys(seqq) = more \o later /\ AllKeys(seqq') = later
    BY <1>1, <1>6
  <2>2. owed' = keys \o AllKeys(seqq)
    BY <1>1, <1>2
  <2> HIDE DEF later
  <2>3. (keys \o more) \o later = keys \o (more \o later)
    BY <1>5, <2>1, KeysAssociate
  <2> QED
    BY <2>1, <2>2, <2>3
<1> QED
  BY <1>8, <1>10, <1>11, <1>12 DEF SequencerSound

\* board_filter_cb accepts no more codes than there is room for.
LEMMA AcceptedFits ==
  ASSUME SequencerTypes, NEW e \in SourceEvent
  PROVE  /\ Accepted(e) \in Seq({SeqLeft, SeqRight} \union Presses)
         /\ Len(seqq) + Len(Accepted(e)) <= SeqQueueSize
<1> DEFINE C == {SeqLeft, SeqRight} \union Presses
           W == Wanted(e)
           n == Smaller(Len(W), SeqQueueSize - Len(seqq))
<1>1. W \in Seq(C)
  <2>1. CASE \E v \in WheelValues : e = Wheel(v)
    <3>1. PICK v \in WheelValues : e = Wheel(v)
      BY <2>1
    <3>2. e.kind = "wheel" /\ e.value = v
      BY <3>1 DEF Wheel
    <3>3. W = [i \in 1 .. Magnitude(v) |-> IF v > 0 THEN SeqLeft ELSE SeqRight]
      BY <3>2 DEF Wanted
    <3>4. Magnitude(v) \in Nat
      BY KeySequencerAssumption DEF Magnitude
    <3> HIDE DEF W
    <3> QED
      BY <3>3, <3>4
  <2>2. CASE \E c \in Presses : e = Press(c)
    <3>1. PICK c \in Presses : e = Press(c)
      BY <2>2
    <3>2. W = <<c>>
      BY <3>1 DEF Press, Wanted
    <3> HIDE DEF W
    <3> QED
      BY <3>2
  <2>3. CASE e = Other
    <3>1. W = <<>>
      BY <2>3 DEF Other, Wanted
    <3> QED
      BY <3>1, EmptySeq
  <2> QED
    BY <2>1, <2>2, <2>3 DEF SourceEvent
<1> HIDE DEF W, C
<1>2. Len(W) \in Nat /\ Len(seqq) \in Nat /\ Len(seqq) <= SeqQueueSize /\ SeqQueueSize \in Nat
  BY <1>1, KeySequencerAssumption DEF SequencerTypes
<1>3. n \in Nat /\ n <= Len(W) /\ Len(seqq) + n <= SeqQueueSize
  BY <1>2 DEF Smaller
<1>4. Accepted(e) = SubSeq(W, 1, n)
  BY DEF Accepted, W
<1> HIDE DEF n
<1>5. SubSeq(W, 1, n) \in Seq(C) /\ Len(SubSeq(W, 1, n)) = n
  BY <1>1, <1>3
<1> QED
  BY <1>3, <1>4, <1>5 DEF C

\* The keys of the accepted codes are owed behind all the others.
LEMMA FilterKeeps ==
  ASSUME SequencerSound, InputThread, Head(inputq).kind # "key"
  PROVE  SequencerSound'
<1> DEFINE e == Head(inputq)
           C == {SeqLeft, SeqRight} \union Presses
           A == Accepted(e)
<1>1. /\ SequencerTypes /\ inputq # <<>> /\ inputq' = Tail(inputq)
      /\ seqq' = seqq \o A /\ owed' = owed \o AllKeys(A) /\ UNCHANGED <<job, held>>
  BY DEF InputThread, Filter, SequencerSound
<1>2. PICK keys \in Seq(KeyNames) : /\ OnTheWay(held, KeyEvents(inputq) \o job, keys)
                                    /\ owed = keys \o AllKeys(seqq)
  BY DEF SequencerSound
<1>3. e \in Event /\ Tail(inputq) \in Seq(Event) /\ Len(Tail(inputq)) = Len(inputq) - 1
  BY <1>1, HeadTailProperties DEF SequencerTypes
<1>4. e \in SourceEvent
  BY <1>3, EventKinds
<1>5. A \in Seq(C) /\ Len(seqq) + Len(A) <= SeqQueueSize
  BY <1>1, <1>4, AcceptedFits
<1>6. KeyEvents(inputq') = KeyEvents(inputq)
  BY <1>1, EventMoves DEF SequencerTypes
<1> HIDE DEF A, C
<1>7. SequencerTypes'
  <2>1. inputq' \in Seq(Event) /\ Len(inputq') <= InputQueueSize
    BY <1>1, <1>3, KeySequencerAssumption DEF SequencerTypes
  <2>2. seqq' \in Seq(C) /\ Len(seqq') <= SeqQueueSize
    BY <1>1, <1>5, ConcatProperties DEF SequencerTypes, C
  <2> QED
    BY <1>1, <2>1, <2>2 DEF SequencerTypes, C
<1>8. owed' = keys \o AllKeys(seqq')
  <2>1. seqq \in Seq(AllCodes) /\ A \in Seq(AllCodes)
    BY <1>1, <1>5, CodesKnown DEF SequencerTypes, C
  <2>2. AllKeys(seqq \o A) = AllKeys(seqq) \o AllKeys(A) /\ AllKeys(seqq) \in Seq(KeyNames) /\ AllKeys(A) \in Seq(KeyNames)
    BY <2>1, CodeMoves
  <2> DEFINE first == AllKeys(seqq)
             then == AllKeys(A)
  <2>3. first \in Seq(KeyNames) /\ then \in Seq(KeyNames) /\ AllKeys(seqq') = first \o then
    BY <1>1, <2>2
  <2>4. owed' = (keys \o first) \o then
    BY <1>1, <1>2
  <2> HIDE DEF first, then
  <2>5. (keys \o first) \o then = keys \o (first \o then)
    BY <2>3, KeysAssociate
  <2> QED
    BY <2>3, <2>4, <2>5
<1> QED
  BY <1>1, <1>2, <1>6, <1>7, <1>8 DEF SequencerSound

\* hid_kbd_cb sees what is next on its way: the release of the key that is
\* down, or the press of the key that is owed first.
LEMMA KbdKeeps ==
  ASSUME SequencerSound, InputThread, Head(inputq).kind = "key"
  PROVE  SequencerSound'
<1> DEFINE e == Head(inputq)
           rest == KeyEvents(Tail(inputq)) \o job
<1>1. /\ SequencerTypes /\ inputq # <<>> /\ inputq' = Tail(inputq) /\ UNCHANGED <<seqq, job>>
      /\ held' = IF e.down THEN held \union {e.key} ELSE held \ {e.key}
      /\ owed' = IF e.down /\ owed # <<>> /\ Head(owed) = e.key THEN Tail(owed) ELSE owed
  BY DEF InputThread, HidKbd, SequencerSound
<1>2. PICK keys \in Seq(KeyNames) : /\ OnTheWay(held, KeyEvents(inputq) \o job, keys)
                                    /\ owed = keys \o AllKeys(seqq)
  BY DEF SequencerSound
<1>3. e \in Event /\ Tail(inputq) \in Seq(Event) /\ Len(Tail(inputq)) = Len(inputq) - 1
  BY <1>1, HeadTailProperties DEF SequencerTypes
<1>4. e \in KeyEvent
  BY <1>3, EventKinds
<1>5. SequencerTypes'
  BY <1>1, <1>3, KeySequencerAssumption DEF SequencerTypes
<1>6. rest \in Seq(KeyEvent) /\ KeyEvents(inputq) \o job = <<e>> \o rest
  <2> DEFINE w == KeyEvents(Tail(inputq))
  <2>1. KeyEvents(inputq) = <<e>> \o w
    BY <1>1, EventMoves DEF SequencerTypes
  <2>2. w \in Seq(KeyEvent) /\ <<e>> \in Seq(KeyEvent) /\ job \in Seq(KeyEvent)
    BY <1>1, <1>3, <1>4, PressesOfKeyEvents, TwoInSeq DEF SequencerTypes
  <2> HIDE DEF w, e
  <2>3. (<<e>> \o w) \o job = <<e>> \o (w \o job) /\ w \o job \in Seq(KeyEvent)
    BY <2>2, KeysAssociate, ConcatProperties
  <2> QED
    BY <2>1, <2>3 DEF w
<1>7. KeyEvents(inputq') \o job' = rest
  BY <1>1
<1>8. AllKeys(seqq) \in Seq(KeyNames)
  BY <1>1, CodesKnown, CodeMoves DEF SequencerTypes
<1> HIDE DEF e, rest
<1>9. ASSUME NEW k \in KeyNames, held = {k}, <<e>> \o rest = <<Key(k, FALSE)>> \o Typed(keys)
       PROVE  SequencerSound'
  <2>1. Key(k, FALSE) \in KeyEvent /\ Typed(keys) \in Seq(KeyEvent)
    BY KeyTyped, TypedPresses
  <2>2. e = Key(k, FALSE) /\ rest = Typed(keys)
    <3> DEFINE d == Key(k, FALSE)
               r == Typed(keys)
    <3>1. d \in KeyEvent /\ r \in Seq(KeyEvent) /\ <<e>> \o rest = <<d>> \o r
      BY <1>9, <2>1
    <3> HIDE DEF d, r
    <3>2. e = d /\ rest = r
      BY <1>4, <1>6, <3>1, SameHead
    <3> QED
      BY <3>2 DEF d, r
  <2>3. e.down = FALSE /\ e.key = k
    BY <2>2 DEF Key
  <2>4. held' = {} /\ owed' = owed
    BY <1>1, <1>9, <2>3 DEF e
  <2>5. OnTheWay(held', KeyEvents(inputq') \o job', keys)
    BY <1>7, <2>2, <2>4 DEF OnTheWay
  <2> QED
    BY <1>1, <1>2, <1>5, <2>4, <2>5 DEF SequencerSound
<1>10. ASSUME held = {}, <<e>> \o rest = Typed(keys)
       PROVE  SequencerSound'
  <2>1. keys # <<>>
    <3>1. <<e>> \o rest # <<>>
      <4>1. <<e>> \in Seq(KeyEvent) /\ <<e>> # <<>>
        BY <1>4
      <4> QED
        BY <1>6, <4>1, ConcatEqualIffEmpty
    <3> QED
      BY <1>10, <3>1, TypedMoves
  <2> DEFINE h == Head(keys)
             more == Tail(keys)
             after == <<Key(h, FALSE)>> \o Typed(more)
  <2>2. h \in KeyNames /\ more \in Seq(KeyNames) /\ keys = <<h>> \o more
    BY <2>1, HeadTailProperties
  <2>3. Typed(keys) = <<Key(h, TRUE)>> \o after
    BY <2>1, TypedMoves
  <2>4. after \in Seq(KeyEvent) /\ Key(h, TRUE) \in KeyEvent
    <3>1. <<Key(h, FALSE)>> \in Seq(KeyEvent) /\ Typed(more) \in Seq(KeyEvent) /\ Key(h, TRUE) \in KeyEvent
      BY <2>2, KeyTyped, TwoInSeq, TypedPresses
    <3> QED
      BY <3>1, ConcatProperties
  <2> HIDE DEF after
  <2>5. e = Key(h, TRUE) /\ rest = after
    <3> DEFINE d == Key(h, TRUE)
    <3>1. d \in KeyEvent /\ <<e>> \o rest = <<d>> \o after
      BY <1>10, <2>3, <2>4
    <3> HIDE DEF d, h
    <3>2. e = d /\ rest = after
      BY <1>4, <1>6, <2>4, <3>1, SameHead
    <3> QED
      BY <3>2 DEF d
  <2>6. e.down = TRUE /\ e.key = h
    BY <2>5 DEF Key
  <2>7. held' = {h}
    BY <1>1, <1>10, <2>6 DEF e
  <2>8. owed # <<>> /\ Head(owed) = h /\ Tail(owed) = more \o AllKeys(seqq)
    <3> HIDE DEF h, more
    <3>1. owed = <<h>> \o (more \o AllKeys(seqq))
      <4>1. <<h>> \in Seq(KeyNames)
        BY <2>2
      <4> QED
        BY <1>2, <1>8, <2>2, <4>1, KeysAssociate
    <3>2. more \o AllKeys(seqq) \in Seq(KeyNames)
      BY <1>8, <2>2, ConcatProperties
    <3>3. ASSUME NEW s \in Seq(KeyNames) PROVE <<h>> \o s # <<>> /\ Head(<<h>> \o s) = h /\ Tail(<<h>> \o s) = s
      BY <2>2
    <3> QED
      BY <3>1, <3>2, <3>3
  <2>9. owed' = more \o AllKeys(seqq')
    BY <1>1, <2>6, <2>8 DEF e
  <2>10. OnTheWay(held', KeyEvents(inputq') \o job', more)
    BY <1>7, <2>2, <2>5, <2>7 DEF OnTheWay, after
  <2> QED
    BY <1>5, <2>2, <2>9, <2>10 DEF SequencerSound
<1> QED
  BY <1>2, <1>6, <1>9, <1>10 DEF OnTheWay

LEMMA SequencerStep == SequencerSound /\ [SeqNext]_seqvars => SequencerSound'
<1> SUFFICES ASSUME SequencerSound, [SeqNext]_seqvars PROVE SequencerSound'
  OBVIOUS
<1>1. CASE Feed
  BY <1>1, FeedKeeps
<1>2. CASE InputThread
  BY <1>2, FilterKeeps, KbdKeeps
<1>3. CASE SeqTake
  BY <1>3, TakeKeeps
<1>4. CASE SeqReport
  BY <1>4, ReportKeeps
<1>5. CASE UNCHANGED seqvars
  BY <1>5 DEF seqvars, SequencerSound, SequencerTypes
<1> QED
  BY <1>1, <1>2, <1>3, <1>4, <1>5 DEF SeqNext

(***************************************************************************)
(* The sequencer's invariant holds for every length of the two queues, any *)
(* wheel motion that board_filter_cb can count and any buttons.            *)
(***************************************************************************)
THEOREM SequencerStaysSound == SeqSpec => []SequencerSound
<1> QED
  BY SequencerInitially, SequencerStep, PTL DEF SeqSpec

(***************************************************************************)
(* The host gets the accepted macros whole, in order and one key at a      *)
(* time, through two bounded queues that the two threads fill for each     *)
(* other.                                                                  *)
(***************************************************************************)
THEOREM MacrosTypedWhole == SeqSpec => []SequencerInv
<1> QED
  BY SequencerStaysSound, SequencerSoundMeans, PTL

(***************************************************************************)
(* The safety that KeysReleased rests on: while a key is down, the next    *)
(* key event that hid_kbd_cb sees is its release, which waits in the input *)
(* queue or is what seq_thread reports next; wheel and button events may   *)
(* be in front of it, the press of another key never.                      *)
(***************************************************************************)
ReleaseNext ==
  \A k \in held : LET coming == KeyEvents(inputq) \o job
                  IN coming # <<>> /\ Head(coming) = Key(k, FALSE)

THEOREM ReleaseComesNext == SeqSpec => []ReleaseNext
<1>1. SequencerSound => ReleaseNext
  <2> SUFFICES ASSUME SequencerSound, NEW h \in held
               PROVE  KeyEvents(inputq) \o job # <<>> /\ Head(KeyEvents(inputq) \o job) = Key(h, FALSE)
    BY DEF ReleaseNext
  <2>1. PICK keys \in Seq(KeyNames) : OnTheWay(held, KeyEvents(inputq) \o job, keys)
    BY DEF SequencerSound
  <2>2. PICK k \in KeyNames : held = {k} /\ KeyEvents(inputq) \o job = <<Key(k, FALSE)>> \o Typed(keys)
    BY <2>1 DEF OnTheWay
  <2> DEFINE rest == Typed(keys)
  <2>3. rest \in Seq(KeyEvent)
    BY <2>1, TypedPresses
  <2> HIDE DEF rest
  <2>4. ASSUME NEW e \in KeyEvent PROVE <<e>> \o rest # <<>> /\ Head(<<e>> \o rest) = e
    BY <2>3
  <2>5. Key(k, FALSE) \in KeyEvent
    BY <2>2, KeyTyped
  <2> QED
    BY <2>2, <2>4, <2>5 DEF rest
<1> QED
  BY <1>1, SequencerStaysSound, PTL
=============================================================================

-------------------------- MODULE ConnPower_proofs --------------------------
(***************************************************************************)
(* Proof of RefInv: the use count of a connect-on device follows the USB   *)
(* and the Bluetooth link, for every length of the message queue.          *)
(*                                                                         *)
(* What matters is the order in which the messages wait: each invariant    *)
(* about the queue is one of four patterns, and the lemmas say once what   *)
(* taking and publishing a message does to them.                           *)
(***************************************************************************)
EXTENDS ConnPower, SequenceTheorems, TLAPS

Has(s, m) == \E i \in DOMAIN s : s[i] = m

\* Every m is followed by an n, or preceded by one; two of m have an n between
\* them; no n comes before an m.
Followed(s, m, n) == \A i \in DOMAIN s : s[i] = m => \E j \in DOMAIN s : i < j /\ s[j] = n

Preceded(s, m, n) == \A k \in DOMAIN s : s[k] = m => \E j \in DOMAIN s : j < k /\ s[j] = n

Between(s, m, n) ==
  \A i, k \in DOMAIN s : i < k /\ s[i] = m /\ s[k] = m => \E j \in DOMAIN s : i < j /\ j < k /\ s[j] = n

NotBefore(s, n, m) == \A j, k \in DOMAIN s : j < k /\ s[k] = m => s[j] # n

LEMMA NothingWaits ==
  ASSUME NEW m, NEW n
  PROVE  /\ ~Has(<<>>, m)
         /\ Followed(<<>>, m, n) /\ Preceded(<<>>, m, n) /\ Between(<<>>, m, n) /\ NotBefore(<<>>, n, m)
BY DEF Has, Followed, Preceded, Between, NotBefore

LEMMA TailIndices ==
  ASSUME NEW S, NEW s \in Seq(S), s # <<>>
  PROVE  LET t == Tail(s)
         IN /\ \A i \in DOMAIN t : i \in Nat \ {0} /\ i + 1 \in DOMAIN s /\ t[i] = s[i + 1]
            /\ \A i \in DOMAIN s : i = 1 \/ (i \in Nat \ {0} /\ i - 1 \in DOMAIN t /\ s[i] = t[i - 1])
            /\ 1 \in DOMAIN s /\ s[1] = Head(s)
<1> DEFINE t == Tail(s)
<1>1. /\ t \in Seq(S) /\ Len(t) = Len(s) - 1 /\ \A i \in 1 .. Len(t) : t[i] = s[i + 1]
      /\ Head(s) = s[1]
  BY HeadTailProperties
<1>2. DOMAIN t = 1 .. Len(t) /\ DOMAIN s = 1 .. Len(s) /\ Len(s) \in Nat \ {0} /\ Len(t) \in Nat
  BY <1>1, EmptySeq, LenProperties
<1> HIDE DEF t
<1>3. \A i \in DOMAIN t : i \in Nat \ {0} /\ i + 1 \in DOMAIN s /\ t[i] = s[i + 1]
  BY <1>1, <1>2
<1>4. ASSUME NEW i \in DOMAIN s, i # 1
      PROVE  i \in Nat \ {0} /\ i - 1 \in DOMAIN t /\ s[i] = t[i - 1]
  <2>1. i - 1 \in DOMAIN t /\ i \in Nat \ {0} /\ i - 1 \in Nat /\ (i - 1) + 1 = i
    BY <1>1, <1>2, <1>4
  <2> QED
    BY <1>3, <2>1
<1> QED
  BY <1>1, <1>2, <1>3, <1>4 DEF t

(***************************************************************************)
(* Taking the first message: what it says of the ones behind it.           *)
(***************************************************************************)
Taking(s, t, h, m, n) ==
  /\ Has(s, m) <=> h = m \/ Has(t, m)
  /\ Followed(s, m, n) => Followed(t, m, n) /\ (h = m => Has(t, n))
  /\ Between(s, m, n) => Between(t, m, n) /\ (h = m => Preceded(t, m, n))
  /\ Preceded(s, m, n) => h # m /\ (h # n => Preceded(t, m, n))
  /\ NotBefore(s, n, m) => NotBefore(t, n, m) /\ (h = n => ~Has(t, m))

LEMMA TailTakes ==
  ASSUME NEW S, NEW s \in Seq(S), s # <<>>, NEW m, NEW n, m # n
  PROVE  Taking(s, Tail(s), Head(s), m, n)
<1> DEFINE t == Tail(s)
           h == Head(s)
<1>1. /\ \A i \in DOMAIN t : i \in Nat \ {0} /\ i + 1 \in DOMAIN s /\ t[i] = s[i + 1]
      /\ \A i \in DOMAIN s : i = 1 \/ (i \in Nat \ {0} /\ i - 1 \in DOMAIN t /\ s[i] = t[i - 1])
      /\ 1 \in DOMAIN s /\ s[1] = h
  BY TailIndices
<1> HIDE DEF t, h
<1>2. Has(s, m) <=> h = m \/ Has(t, m)
  BY <1>1 DEF Has
<1>3. ASSUME Followed(s, m, n)
      PROVE  Followed(t, m, n) /\ (h = m => Has(t, n))
  <2>1. ASSUME NEW i \in DOMAIN t, t[i] = m
        PROVE  \E j \in DOMAIN t : i < j /\ t[j] = n
    <3>1. PICK j \in DOMAIN s : i + 1 < j /\ s[j] = n
      BY <1>1, <1>3, <2>1 DEF Followed
    <3>2. j - 1 \in DOMAIN t /\ t[j - 1] = n /\ i < j - 1
      BY <1>1, <3>1, <2>1
    <3> QED
      BY <3>2
  <2>2. ASSUME h = m
        PROVE  Has(t, n)
    <3>1. PICK j \in DOMAIN s : 1 < j /\ s[j] = n
      BY <1>1, <1>3, <2>2 DEF Followed
    <3>2. j - 1 \in DOMAIN t /\ t[j - 1] = n
      BY <1>1, <3>1, <2>2
    <3> QED
      BY <3>2 DEF Has
  <2> QED
    BY <2>1, <2>2 DEF Followed
<1>4. ASSUME Between(s, m, n)
      PROVE  Between(t, m, n) /\ (h = m => Preceded(t, m, n))
  <2>1. ASSUME NEW i \in DOMAIN t, NEW k \in DOMAIN t, i < k, t[i] = m, t[k] = m
        PROVE  \E j \in DOMAIN t : i < j /\ j < k /\ t[j] = n
    <3>1. i + 1 \in DOMAIN s /\ k + 1 \in DOMAIN s /\ i + 1 < k + 1 /\ s[i + 1] = m /\ s[k + 1] = m
      BY <1>1, <2>1
    <3>2. PICK j \in DOMAIN s : i + 1 < j /\ j < k + 1 /\ s[j] = n
      BY <1>4, <3>1 DEF Between
    <3>3. j - 1 \in DOMAIN t /\ t[j - 1] = n /\ i < j - 1 /\ j - 1 < k
      BY <1>1, <3>2, <2>1
    <3> QED
      BY <3>3
  <2>2. ASSUME h = m, NEW k \in DOMAIN t, t[k] = m
        PROVE  \E j \in DOMAIN t : j < k /\ t[j] = n
    <3>1. 1 \in DOMAIN s /\ k + 1 \in DOMAIN s /\ 1 < k + 1 /\ s[1] = m /\ s[k + 1] = m
      BY <1>1, <2>2
    <3>2. PICK j \in DOMAIN s : 1 < j /\ j < k + 1 /\ s[j] = n
      BY <1>4, <3>1 DEF Between
    <3>3. j - 1 \in DOMAIN t /\ t[j - 1] = n /\ j - 1 < k
      BY <1>1, <3>2, <2>2
    <3> QED
      BY <3>3
  <2> QED
    BY <2>1, <2>2 DEF Between, Preceded
<1>5. ASSUME Preceded(s, m, n)
      PROVE  h # m /\ (h # n => Preceded(t, m, n))
  <2>1. h # m
    BY <1>1, <1>5 DEF Preceded
  <2>2. ASSUME h # n, NEW k \in DOMAIN t, t[k] = m
        PROVE  \E j \in DOMAIN t : j < k /\ t[j] = n
    <3>1. PICK j \in DOMAIN s : j < k + 1 /\ s[j] = n
      BY <1>1, <1>5, <2>2 DEF Preceded
    <3>2. j - 1 \in DOMAIN t /\ t[j - 1] = n /\ j - 1 < k
      BY <1>1, <3>1, <2>2
    <3> QED
      BY <3>2
  <2> QED
    BY <2>1, <2>2 DEF Preceded
<1>6. ASSUME NotBefore(s, n, m)
      PROVE  NotBefore(t, n, m) /\ (h = n => ~Has(t, m))
  <2>1. NotBefore(t, n, m)
    BY <1>1, <1>6 DEF NotBefore
  <2>2. h = n => ~Has(t, m)
    BY <1>1, <1>6 DEF NotBefore, Has
  <2> QED
    BY <2>1, <2>2
<1>7. Taking(s, t, h, m, n)
  BY <1>2, <1>3, <1>4, <1>5, <1>6 DEF Taking
<1> QED
  BY <1>7 DEF t, h

(***************************************************************************)
(* Publishing a message x behind the others.                               *)
(***************************************************************************)
Publishing(s, t, x, m, n) ==
  /\ Has(t, m) <=> Has(s, m) \/ x = m
  /\ x = n \/ (x # m /\ Followed(s, m, n)) => Followed(t, m, n)
  /\ Between(s, m, n) /\ (x # m \/ Followed(s, m, n)) => Between(t, m, n)
  /\ Preceded(s, m, n) /\ (x # m \/ Has(s, n)) => Preceded(t, m, n)
  /\ NotBefore(s, n, m) /\ (x # m \/ ~Has(s, n)) => NotBefore(t, n, m)

LEMMA AppendIndices ==
  ASSUME NEW S, NEW s \in Seq(S), NEW x \in S
  PROVE  LET t == Append(s, x)
             e == Len(s) + 1
         IN /\ \A i \in DOMAIN s : i \in Nat /\ i < e /\ i \in DOMAIN t /\ t[i] = s[i]
            /\ \A i \in DOMAIN t : i = e \/ (i \in DOMAIN s /\ t[i] = s[i])
            /\ e \in Nat /\ e \in DOMAIN t /\ t[e] = x
<1> DEFINE t == Append(s, x)
<1>1. /\ t \in Seq(S) /\ Len(t) = Len(s) + 1 /\ t[Len(s) + 1] = x
      /\ \A i \in 1 .. Len(s) : t[i] = s[i]
  BY AppendProperties
<1>2. DOMAIN t = 1 .. Len(t) /\ DOMAIN s = 1 .. Len(s) /\ Len(s) \in Nat
  BY <1>1, LenProperties
<1> HIDE DEF t
<1>3. /\ \A i \in DOMAIN s : i \in Nat /\ i < Len(s) + 1 /\ i \in DOMAIN t
      /\ \A i \in DOMAIN t : i = Len(s) + 1 \/ i \in DOMAIN s
      /\ Len(s) + 1 \in Nat /\ Len(s) + 1 \in DOMAIN t
  BY <1>1, <1>2
<1> QED
  BY <1>1, <1>2, <1>3 DEF t

LEMMA AppendPublishes ==
  ASSUME NEW S, NEW s \in Seq(S), NEW x \in S, NEW m, NEW n, m # n
  PROVE  Publishing(s, Append(s, x), x, m, n)
<1> DEFINE t == Append(s, x)
           e == Len(s) + 1
<1>1. /\ \A i \in DOMAIN s : i \in Nat /\ i < e /\ i \in DOMAIN t /\ t[i] = s[i]
      /\ \A i \in DOMAIN t : i = e \/ (i \in DOMAIN s /\ t[i] = s[i])
      /\ e \in Nat /\ e \in DOMAIN t /\ t[e] = x
  BY AppendIndices
<1> HIDE DEF t, e
<1>2. Has(t, m) <=> Has(s, m) \/ x = m
  BY <1>1 DEF Has
<1>3. ASSUME x = n \/ (x # m /\ Followed(s, m, n))
      PROVE  Followed(t, m, n)
  <2> SUFFICES ASSUME NEW i \in DOMAIN t, t[i] = m
               PROVE  \E j \in DOMAIN t : i < j /\ t[j] = n
    BY DEF Followed
  <2>1. i \in DOMAIN s /\ s[i] = m
    BY <1>1, <1>3
  <2>2. CASE x = n
    BY <1>1, <2>1, <2>2
  <2>3. CASE x # m /\ Followed(s, m, n)
    BY <1>1, <2>1, <2>3 DEF Followed
  <2> QED
    BY <1>3, <2>2, <2>3
<1>4. ASSUME Between(s, m, n), x # m \/ Followed(s, m, n)
      PROVE  Between(t, m, n)
  <2> SUFFICES ASSUME NEW i \in DOMAIN t, NEW k \in DOMAIN t, i < k, t[i] = m, t[k] = m
               PROVE  \E j \in DOMAIN t : i < j /\ j < k /\ t[j] = n
    BY DEF Between
  <2>1. i \in DOMAIN s /\ s[i] = m
    BY <1>1
  <2>2. CASE k = e
    <3>1. Followed(s, m, n)
      BY <1>1, <1>4, <2>2
    <3>2. PICK j \in DOMAIN s : i < j /\ s[j] = n
      BY <2>1, <3>1 DEF Followed
    <3> QED
      BY <1>1, <2>2, <3>2
  <2>3. CASE k # e
    <3>1. PICK j \in DOMAIN s : i < j /\ j < k /\ s[j] = n
      BY <1>1, <1>4, <2>1, <2>3 DEF Between
    <3> QED
      BY <1>1, <3>1
  <2> QED
    BY <2>2, <2>3
<1>5. ASSUME Preceded(s, m, n), x # m \/ Has(s, n)
      PROVE  Preceded(t, m, n)
  <2> SUFFICES ASSUME NEW k \in DOMAIN t, t[k] = m
               PROVE  \E j \in DOMAIN t : j < k /\ t[j] = n
    BY DEF Preceded
  <2>1. CASE k = e
    BY <1>1, <1>5, <2>1 DEF Has
  <2>2. CASE k # e
    BY <1>1, <1>5, <2>2 DEF Preceded
  <2> QED
    BY <2>1, <2>2
<1>6. ASSUME NotBefore(s, n, m), x # m \/ ~Has(s, n)
      PROVE  NotBefore(t, n, m)
  <2> SUFFICES ASSUME NEW j \in DOMAIN t, NEW k \in DOMAIN t, j < k, t[k] = m
               PROVE  t[j] # n
    BY DEF NotBefore
  <2>1. j \in DOMAIN s /\ t[j] = s[j]
    BY <1>1
  <2>2. CASE k = e
    BY <1>1, <1>6, <2>1, <2>2 DEF Has
  <2>3. CASE k # e
    BY <1>1, <1>6, <2>1, <2>3 DEF NotBefore
  <2> QED
    BY <2>2, <2>3
<1>7. Publishing(s, t, x, m, n)
  BY <1>2, <1>3, <1>4, <1>5, <1>6 DEF Publishing
<1> QED
  BY <1>7 DEF t

\* What the patterns say of a queue in which m waits, or does not.
LEMMA WhatWaits ==
  ASSUME NEW s, NEW m, NEW n
  PROVE  /\ Followed(s, m, n) /\ Has(s, m) => Has(s, n)
         /\ Preceded(s, m, n) /\ Has(s, m) => Has(s, n)
         /\ ~Has(s, m) => Followed(s, m, n) /\ Preceded(s, m, n)
BY DEF Has, Followed, Preceded
-----------------------------------------------------------------------------
(***************************************************************************)
(* The inductive invariant.  Resume and suspend messages alternate, the    *)
(* last one tells the state of the bus; cable messages alternate too, and  *)
(* no resume waits behind a cable message.  The use count stands for the   *)
(* Bluetooth link, and at most one reference more.                         *)
(***************************************************************************)
ConnFlags ==
  /\ canDetectVbus \in BOOLEAN /\ vbus \in BOOLEAN /\ vbusReady \in BOOLEAN
  /\ connected \in BOOLEAN /\ ble \in BOOLEAN /\ unplugged \in BOOLEAN
  /\ bus \in {BusOff, Suspended, Active}

ConnQueue == msgs \in Seq(Msg) /\ Len(msgs) <= MaxMsgs

Idle == usage = BleRefs
Taken == usage = BleRefs + 1

RefCount == usage \in Nat /\ (Idle \/ Taken) /\ (canDetectVbus => (Taken <=> connected))

BusOrder ==
  /\ bus # Active => Followed(msgs, ResumeMsg, SuspendMsg)
  /\ bus = Active => Followed(msgs, SuspendMsg, ResumeMsg)

BusQuiet == ~Has(msgs, ResumeMsg) /\ ~Has(msgs, SuspendMsg)

WithCable == canDetectVbus =>
  /\ ~vbusReady => bus = BusOff
  /\ vbusReady => Preceded(msgs, VbusReadyMsg, VbusRemovedMsg)
  /\ Between(msgs, VbusReadyMsg, VbusRemovedMsg)
  /\ ~vbus => Followed(msgs, VbusReadyMsg, VbusRemovedMsg)
  /\ ~vbus /\ vbusReady => Has(msgs, VbusRemovedMsg)
  /\ NotBefore(msgs, VbusReadyMsg, ResumeMsg)
  /\ NotBefore(msgs, VbusRemovedMsg, ResumeMsg)
  /\ Has(msgs, ResumeMsg) => vbusReady

CableSettled == canDetectVbus /\ BusQuiet =>
  /\ bus = Active => connected
  /\ bus # Active /\ ~unplugged => ~connected

WithoutCable == ~canDetectVbus =>
  /\ vbus /\ ~connected /\ ~vbusReady /\ ~unplugged
  /\ ~Has(msgs, VbusReadyMsg) /\ ~Has(msgs, VbusRemovedMsg)
  /\ Between(msgs, ResumeMsg, SuspendMsg) /\ Between(msgs, SuspendMsg, ResumeMsg)
  /\ Idle => Preceded(msgs, SuspendMsg, ResumeMsg)
  /\ Taken => Preceded(msgs, ResumeMsg, SuspendMsg)
  /\ BusQuiet => (Taken <=> bus = Active)

ConnSound ==
  /\ ConnFlags /\ ConnQueue /\ RefCount
  /\ BusOrder /\ WithCable /\ CableSettled /\ WithoutCable

LEMMA Names ==
  /\ Active # BusOff /\ Active # Suspended /\ BusOff # Suspended
  /\ ResumeMsg # SuspendMsg /\ ResumeMsg # ResetMsg /\ SuspendMsg # ResetMsg
  /\ VbusReadyMsg # VbusRemovedMsg /\ VbusReadyMsg # ResumeMsg /\ VbusReadyMsg # SuspendMsg
  /\ VbusReadyMsg # ResetMsg /\ VbusRemovedMsg # ResumeMsg /\ VbusRemovedMsg # SuspendMsg
  /\ VbusRemovedMsg # ResetMsg
BY DEF Active, BusOff, Suspended, ResumeMsg, SuspendMsg, ResetMsg, VbusReadyMsg, VbusRemovedMsg

\* One reference more and none more exclude each other; getting and putting
\* one, and the Bluetooth link's own.
LEMMA CountSteps ==
  ASSUME RefCount, ConnFlags
  PROVE  /\ ~(Idle /\ Taken)
         /\ usage \in 0 .. 2
         /\ Idle /\ Get /\ ble' = ble => usage' \in Nat /\ Taken' /\ ~Idle'
         /\ Taken /\ Put /\ ble' = ble => usage' \in Nat /\ Idle' /\ ~Taken'
         /\ ~ble /\ ble' /\ Get => usage' \in Nat /\ (Idle' <=> Idle) /\ (Taken' <=> Taken)
         /\ ble /\ ~ble' /\ Put => usage' \in Nat /\ (Idle' <=> Idle) /\ (Taken' <=> Taken)
<1> USE DEF RefCount, Idle, Taken, BleRefs, Get, Put
<1>1. ~(Idle /\ Taken) /\ usage \in 0 .. 2
  OBVIOUS
<1>2. Idle /\ Get /\ ble' = ble => usage' \in Nat /\ Taken' /\ ~Idle'
  OBVIOUS
<1>3. Taken /\ Put /\ ble' = ble => usage' \in Nat /\ Idle' /\ ~Taken'
  OBVIOUS
<1>4. ~ble /\ ble' /\ Get => usage' \in Nat /\ (Idle' <=> Idle) /\ (Taken' <=> Taken)
  OBVIOUS
<1>5. ble /\ ~ble' /\ Put => usage' \in Nat /\ (Idle' <=> Idle) /\ (Taken' <=> Taken)
  OBVIOUS
<1> QED
  BY <1>1, <1>2, <1>3, <1>4, <1>5

LEMMA ConnSoundInit == Init => ConnSound
<1> SUFFICES ASSUME Init PROVE ConnSound
  OBVIOUS
<1>1. msgs = <<>> /\ ConnQueue
  BY ConnPowerAssumption DEF Init, ConnQueue
<1>2. /\ ~Has(msgs, ResumeMsg) /\ ~Has(msgs, VbusReadyMsg) /\ ~Has(msgs, VbusRemovedMsg)
      /\ Followed(msgs, ResumeMsg, SuspendMsg) /\ Followed(msgs, SuspendMsg, ResumeMsg)
      /\ Followed(msgs, VbusReadyMsg, VbusRemovedMsg)
      /\ Preceded(msgs, ResumeMsg, SuspendMsg) /\ Preceded(msgs, SuspendMsg, ResumeMsg)
      /\ Between(msgs, ResumeMsg, SuspendMsg) /\ Between(msgs, SuspendMsg, ResumeMsg)
      /\ Between(msgs, VbusReadyMsg, VbusRemovedMsg)
      /\ NotBefore(msgs, VbusReadyMsg, ResumeMsg) /\ NotBefore(msgs, VbusRemovedMsg, ResumeMsg)
  BY <1>1, NothingWaits
<1>3. ConnFlags
  BY DEF Init, ConnFlags
<1>4. RefCount /\ (Taken <=> usage = 1)
  BY DEF Init, RefCount, Idle, Taken, BleRefs
<1>5. WithCable /\ CableSettled /\ BusOrder
  BY <1>2, Names DEF Init, WithCable, CableSettled, BusOrder
<1>6. ~canDetectVbus => (usage = 1 <=> bus = Active)
  BY Names DEF Init
<1>7. WithoutCable
  BY <1>2, <1>4, <1>6 DEF Init, WithoutCable
<1> QED
  BY <1>1, <1>3, <1>4, <1>5, <1>7 DEF ConnSound

(***************************************************************************)
(* The queue's part of a step, for the patterns of the invariant.          *)
(***************************************************************************)
LEMMA TakeQueue ==
  ASSUME ConnQueue, Take
  PROVE  /\ ConnQueue'
         /\ Taking(msgs, msgs', Head(msgs), ResumeMsg, SuspendMsg)
         /\ Taking(msgs, msgs', Head(msgs), SuspendMsg, ResumeMsg)
         /\ Taking(msgs, msgs', Head(msgs), VbusReadyMsg, VbusRemovedMsg)
         /\ Taking(msgs, msgs', Head(msgs), VbusRemovedMsg, VbusReadyMsg)
         /\ Taking(msgs, msgs', Head(msgs), ResumeMsg, VbusReadyMsg)
         /\ Taking(msgs, msgs', Head(msgs), ResumeMsg, VbusRemovedMsg)
<1>1. msgs \in Seq(Msg) /\ msgs # <<>> /\ msgs' = Tail(msgs)
  BY DEF ConnQueue, Take
<1>2. msgs' \in Seq(Msg) /\ Len(msgs') = Len(msgs) - 1 /\ Len(msgs) \in Nat
  BY <1>1, HeadTailProperties, LenProperties
<1>3. ConnQueue'
  BY <1>2, ConnPowerAssumption DEF ConnQueue
<1>4. \A m, n : m # n => Taking(msgs, msgs', Head(msgs), m, n)
  BY <1>1, TailTakes
<1> QED
  BY <1>3, <1>4, Names

LEMMA PublishQueue ==
  ASSUME ConnQueue, NEW x \in Msg, Publish(x)
  PROVE  /\ ConnQueue'
         /\ Publishing(msgs, msgs', x, ResumeMsg, SuspendMsg)
         /\ Publishing(msgs, msgs', x, SuspendMsg, ResumeMsg)
         /\ Publishing(msgs, msgs', x, VbusReadyMsg, VbusRemovedMsg)
         /\ Publishing(msgs, msgs', x, VbusRemovedMsg, VbusReadyMsg)
         /\ Publishing(msgs, msgs', x, ResumeMsg, VbusReadyMsg)
         /\ Publishing(msgs, msgs', x, ResumeMsg, VbusRemovedMsg)
<1>1. msgs \in Seq(Msg) /\ Len(msgs) < MaxMsgs /\ msgs' = Append(msgs, x)
  BY DEF ConnQueue, Publish
<1>2. msgs' \in Seq(Msg) /\ Len(msgs') = Len(msgs) + 1 /\ Len(msgs) \in Nat
  BY <1>1, AppendProperties, LenProperties
<1>3. ConnQueue'
  BY <1>1, <1>2, ConnPowerAssumption DEF ConnQueue
<1>4. \A m, n : m # n => Publishing(msgs, msgs', x, m, n)
  BY <1>1, AppendPublishes
<1> QED
  BY <1>3, <1>4, Names

LEMMA HeadWaits ==
  ASSUME ConnQueue, Take
  PROVE  Has(msgs, Head(msgs))
BY TailIndices DEF ConnQueue, Take, Has

(***************************************************************************)
(* Every step keeps the invariant: the bus and the cable.                  *)
(***************************************************************************)
LEMMA BusStep ==
  ASSUME ConnSound, Bus, UNCHANGED canDetectVbus
  PROVE  ConnSound'
<1> USE DEF ConnSound
<1>1. UNCHANGED <<ble, usage, connected, unplugged, vbusReady>>
  BY DEF Bus, Plug, Unplug, BusResume, BusSuspend, BusReset, hardware
<1>2. RefCount' /\ (Idle' <=> Idle) /\ (Taken' <=> Taken)
  BY <1>1 DEF RefCount, Idle, Taken, BleRefs
<1>3. ConnFlags'
  BY <1>1 DEF ConnFlags, Bus, Plug, Unplug, BusResume, BusSuspend, BusReset, hardware
<1>4. CASE Plug
  <2>1. VbusReadyMsg \in Msg /\ Publish(VbusReadyMsg) /\ bus' = bus /\ vbus' /\ ~vbus /\ canDetectVbus
    BY <1>4 DEF Plug, Msg
  <2> QED
    BY <1>1, <1>2, <1>3, <2>1, PublishQueue, Names
    DEF Publishing, BusOrder, WithCable, CableSettled, WithoutCable, BusQuiet
<1>5. CASE Unplug
  <2>1. VbusRemovedMsg \in Msg /\ Publish(VbusRemovedMsg) /\ bus' = bus /\ ~vbus' /\ vbus /\ canDetectVbus
    BY <1>5 DEF Unplug, Msg
  <2> QED
    BY <1>1, <1>2, <1>3, <2>1, PublishQueue, Names
    DEF Publishing, BusOrder, WithCable, CableSettled, WithoutCable, BusQuiet
<1>6. CASE BusResume
  <2>1. /\ ResumeMsg \in Msg /\ Publish(ResumeMsg) /\ bus' = Active /\ bus = Suspended /\ vbus' = vbus /\ vbus
        /\ ~Has(msgs, VbusRemovedMsg)
    BY <1>6 DEF BusResume, Msg, Has
  <2>2. Has(msgs, ResumeMsg) => Has(msgs, SuspendMsg)
    BY <2>1, WhatWaits, Names DEF BusOrder
  <2>3. canDetectVbus => vbusReady /\ ~Has(msgs, VbusReadyMsg)
    BY <2>1, WhatWaits, Names DEF WithCable
  <2> QED
    BY <1>1, <1>2, <1>3, <2>1, <2>2, <2>3, PublishQueue, Names
    DEF Publishing, BusOrder, WithCable, CableSettled, WithoutCable, BusQuiet, RefCount
<1>7. CASE BusSuspend
  <2>1. SuspendMsg \in Msg /\ Publish(SuspendMsg) /\ bus' = Suspended /\ bus = Active /\ vbus' = vbus
    BY <1>7 DEF BusSuspend, Msg
  <2>2. Has(msgs, SuspendMsg) => Has(msgs, ResumeMsg)
    BY <2>1, WhatWaits DEF BusOrder
  <2>3. BusOrder' /\ CableSettled'
    BY <1>1, <2>1, PublishQueue, Names DEF Publishing, BusOrder, CableSettled, BusQuiet
  <2>4. WithCable'
    BY <1>1, <2>1, PublishQueue, Names DEF Publishing, WithCable
  <2>5. ~canDetectVbus => (Idle => Has(msgs, ResumeMsg))
    BY <2>1, <2>2, CountSteps DEF WithoutCable, BusQuiet
  <2>6. WithoutCable'
    BY <1>1, <1>2, <2>1, <2>5, PublishQueue, Names DEF Publishing, BusOrder, WithoutCable, BusQuiet
  <2> QED
    BY <1>1, <1>2, <1>3, <2>1, <2>3, <2>6, <2>4, PublishQueue
<1>8. CASE BusReset
  <2>1. ResetMsg \in Msg /\ Publish(ResetMsg) /\ bus' = bus /\ vbus' = vbus
    BY <1>8 DEF BusReset, Msg, hardware
  <2> QED
    BY <1>1, <1>2, <1>3, <2>1, PublishQueue, Names
    DEF Publishing, BusOrder, WithCable, CableSettled, WithoutCable, BusQuiet
<1> QED
  BY <1>4, <1>5, <1>6, <1>7, <1>8 DEF Bus

(***************************************************************************)
(* The messages, in the order the bus sent them.                           *)
(***************************************************************************)
LEMMA VbusStep ==
  ASSUME ConnSound, VbusMsg, UNCHANGED canDetectVbus
  PROVE  ConnSound'
<1> USE DEF ConnSound
<1>1. Take /\ UNCHANGED <<vbus, connected, ble, usage>>
  BY DEF VbusMsg
<1>2. RefCount' /\ (Idle' <=> Idle) /\ (Taken' <=> Taken)
  BY <1>1 DEF RefCount, Idle, Taken, BleRefs
<1>3. ConnFlags'
  BY <1>1 DEF ConnFlags, VbusMsg
<1>4. Has(msgs, Head(msgs))
  BY <1>1, HeadWaits
<1>5. CASE Head(msgs) = VbusReadyMsg /\ vbusReady' = TRUE /\ bus' \in {Suspended, BusOff} /\ UNCHANGED unplugged
  <2>1. canDetectVbus
    BY <1>4, <1>5 DEF WithoutCable
  <2>2. bus = BusOff
    BY <1>1, <1>5, <2>1, TakeQueue DEF Taking, WithCable
  <2>3. BusOrder' /\ CableSettled'
    BY <1>1, <1>5, <2>2, TakeQueue, Names DEF Taking, BusOrder, CableSettled, BusQuiet
  <2>4. WithCable'
    BY <1>1, <1>5, <2>1, TakeQueue, Names DEF Taking, WithCable
  <2> QED
    BY <1>1, <1>2, <1>3, <2>1, <2>3, <2>4, TakeQueue DEF WithoutCable
<1>6. CASE Head(msgs) = VbusRemovedMsg /\ vbusReady' = FALSE /\ bus' = BusOff /\ unplugged' = (unplugged \/ connected)
  <2>1. canDetectVbus
    BY <1>4, <1>6 DEF WithoutCable
  <2>2. ~Has(msgs', ResumeMsg)
    BY <1>1, <1>6, <2>1, TakeQueue DEF Taking, WithCable
  <2>3. BusOrder'
    BY <1>6, <2>2, WhatWaits, Names DEF BusOrder
  <2>4. CableSettled'
    BY <1>1, <1>6, Names DEF CableSettled
  <2>5. WithCable'
    BY <1>1, <1>6, <2>1, <2>2, TakeQueue, Names DEF Taking, WithCable
  <2> QED
    BY <1>1, <1>2, <1>3, <2>1, <2>3, <2>4, <2>5, TakeQueue DEF WithoutCable
<1> QED
  BY <1>5, <1>6 DEF VbusMsg

LEMMA ResumeStep ==
  ASSUME ConnSound, Resume, UNCHANGED canDetectVbus
  PROVE  ConnSound'
<1> USE DEF ConnSound
<1>1. Take /\ Head(msgs) = ResumeMsg /\ UNCHANGED <<vbus, bus, vbusReady, ble, unplugged>>
  BY DEF Resume, hardware
<1>2. Has(msgs, ResumeMsg)
  BY <1>1, HeadWaits
<1>3. bus # Active => Has(msgs', SuspendMsg)
  BY <1>1, TakeQueue DEF Taking, BusOrder
<1>4. BusOrder'
  BY <1>1, TakeQueue DEF Taking, BusOrder
<1>5. WithCable'
  BY <1>1, <1>2, TakeQueue, Names DEF Taking, WithCable
<1>6. CASE canDetectVbus
  <2>1. vbusReady
    BY <1>2, <1>6 DEF WithCable
  <2>2. connected' = TRUE /\ (IF connected THEN usage' = usage ELSE Get)
    BY <1>6, <2>1 DEF Resume, ConnFlags
  <2>3. connected => Taken /\ usage' = usage
    BY <1>6, <2>2 DEF RefCount
  <2>4. ~connected => Idle /\ Get
    BY <1>6, <2>2 DEF RefCount
  <2>5. usage' \in Nat /\ Taken'
    <3>1. CASE connected
      BY <1>1, <2>3, <3>1 DEF RefCount, Taken, BleRefs
    <3>2. CASE ~connected
      BY <1>1, <2>4, <3>2, CountSteps
    <3> QED
      BY <3>1, <3>2
  <2>6. RefCount'
    BY <2>2, <2>5 DEF RefCount
  <2>7. ConnFlags'
    BY <1>1, <2>2 DEF ConnFlags
  <2>8. CableSettled'
    BY <1>1, <1>3, <2>2 DEF CableSettled, BusQuiet
  <2> QED
    BY <1>1, <1>4, <1>5, <1>6, <2>6, <2>7, <2>8, TakeQueue DEF WithoutCable
<1>7. CASE ~canDetectVbus
  <2>1. Get /\ connected' = connected
    BY <1>7 DEF Resume
  <2>2. Idle
    BY <1>1, <1>7, TakeQueue DEF Taking, RefCount, WithoutCable
  <2>3. usage' \in Nat /\ Taken' /\ ~Idle'
    BY <1>1, <2>1, <2>2, CountSteps
  <2>4. RefCount' /\ ConnFlags'
    BY <1>1, <1>7, <2>1, <2>3 DEF RefCount, ConnFlags
  <2>5. WithoutCable'
    BY <1>1, <1>3, <1>7, <2>1, <2>3, TakeQueue, Names DEF Taking, WithoutCable, BusQuiet
  <2> QED
    BY <1>1, <1>4, <1>5, <1>7, <2>4, <2>5, TakeQueue DEF CableSettled
<1> QED
  BY <1>6, <1>7

LEMMA SuspendStep ==
  ASSUME ConnSound, Suspend, UNCHANGED canDetectVbus
  PROVE  ConnSound'
<1> USE DEF ConnSound
<1>1. Take /\ Head(msgs) = SuspendMsg /\ UNCHANGED <<vbus, bus, vbusReady, ble>>
  BY DEF Suspend, hardware
<1>2. Has(msgs, SuspendMsg)
  BY <1>1, HeadWaits
<1>3. bus = Active => Has(msgs', ResumeMsg)
  BY <1>1, TakeQueue DEF Taking, BusOrder
<1>4. BusOrder'
  BY <1>1, TakeQueue DEF Taking, BusOrder
<1>5. WithCable'
  BY <1>1, TakeQueue, Names DEF Taking, WithCable
<1>6. CASE canDetectVbus
  <2>1. IF connected THEN Put /\ connected' = FALSE /\ unplugged' = FALSE ELSE UNCHANGED <<usage, connected, unplugged>>
    BY <1>6 DEF Suspend
  <2>2. connected' = FALSE /\ ConnFlags'
    BY <1>1, <2>1 DEF ConnFlags
  <2>3. usage' \in Nat /\ Idle' /\ ~Taken'
    <3>1. CASE connected
      BY <1>1, <1>6, <2>1, <3>1, CountSteps DEF RefCount
    <3>2. CASE ~connected
      <4>1. usage' = usage /\ Idle /\ ~Taken
        BY <1>6, <2>1, <3>2 DEF RefCount
      <4> QED
        BY <1>1, <4>1 DEF RefCount, Idle, Taken, BleRefs
    <3> QED
      BY <3>1, <3>2
  <2>4. RefCount'
    BY <2>2, <2>3 DEF RefCount
  <2>5. CableSettled'
    BY <1>1, <1>3, <2>2 DEF CableSettled, BusQuiet
  <2> QED
    BY <1>1, <1>4, <1>5, <1>6, <2>2, <2>4, <2>5, TakeQueue DEF WithoutCable
<1>7. CASE ~canDetectVbus
  <2>1. Put /\ UNCHANGED <<connected, unplugged>>
    BY <1>7 DEF Suspend
  <2>2. Taken
    BY <1>1, <1>7, TakeQueue DEF Taking, RefCount, WithoutCable
  <2>3. usage' \in Nat /\ Idle' /\ ~Taken'
    BY <1>1, <2>1, <2>2, CountSteps
  <2>4. RefCount' /\ ConnFlags'
    BY <1>1, <1>7, <2>1, <2>3 DEF RefCount, ConnFlags
  <2>5. WithoutCable'
    BY <1>1, <1>3, <1>7, <2>1, <2>3, TakeQueue, Names DEF Taking, WithoutCable, BusQuiet
  <2> QED
    BY <1>1, <1>4, <1>5, <1>7, <2>4, <2>5, TakeQueue DEF CableSettled
<1> QED
  BY <1>6, <1>7

LEMMA ResetStep ==
  ASSUME ConnSound, Reset, UNCHANGED canDetectVbus
  PROVE  ConnSound'
<1> USE DEF ConnSound
<1>1. Take /\ Head(msgs) = ResetMsg /\ UNCHANGED <<vbus, bus, vbusReady, connected, ble, usage, unplugged>>
  BY DEF Reset, hardware
<1>2. RefCount' /\ (Idle' <=> Idle) /\ (Taken' <=> Taken) /\ ConnFlags'
  BY <1>1 DEF RefCount, Idle, Taken, BleRefs, ConnFlags
<1>3. BusOrder' /\ CableSettled'
  BY <1>1, TakeQueue, Names DEF Taking, BusOrder, CableSettled, BusQuiet
<1>4. WithCable'
  BY <1>1, TakeQueue, Names DEF Taking, WithCable
<1>5. WithoutCable'
  BY <1>1, <1>2, TakeQueue, Names DEF Taking, WithoutCable, BusQuiet
<1> QED
  BY <1>1, <1>2, <1>3, <1>4, <1>5, TakeQueue

\* The Bluetooth link takes and drops its own reference and no other.
LEMMA BleStep ==
  ASSUME ConnSound, BleConnected \/ BleDisconnected, UNCHANGED canDetectVbus
  PROVE  ConnSound'
<1> USE DEF ConnSound
<1>1. UNCHANGED <<vbus, bus, msgs, vbusReady, connected, unplugged>> /\ ble' \in BOOLEAN
  BY DEF BleConnected, BleDisconnected, hardware
<1>2. usage' \in Nat /\ (Idle' <=> Idle) /\ (Taken' <=> Taken)
  BY CountSteps DEF BleConnected, BleDisconnected
<1>3. ConnFlags' /\ ConnQueue' /\ RefCount'
  BY <1>1, <1>2 DEF ConnFlags, ConnQueue, RefCount
<1>4. BusOrder' /\ WithCable' /\ CableSettled'
  BY <1>1 DEF BusOrder, WithCable, CableSettled, BusQuiet
<1>5. WithoutCable'
  BY <1>1, <1>2 DEF WithoutCable, BusQuiet
<1> QED
  BY <1>3, <1>4, <1>5

LEMMA ConnSoundNext == ConnSound /\ [Next]_vars => ConnSound'
<1> SUFFICES ASSUME ConnSound, [Next]_vars PROVE ConnSound'
  OBVIOUS
<1>1. CASE UNCHANGED vars
  BY <1>1 DEF vars, hardware, ConnSound, ConnFlags, ConnQueue, RefCount, Idle, Taken, BleRefs, BusOrder,
     WithCable, CableSettled, WithoutCable, BusQuiet
<1>2. CASE Next
  BY <1>2, BusStep, VbusStep, ResumeStep, SuspendStep, ResetStep, BleStep DEF Next, MsgCb
<1> QED
  BY <1>1, <1>2

(***************************************************************************)
(* In every reachable state the queue tells the state of the bus, and the  *)
(* use count follows the links (usbd_msg_cb with pm_control_cb).           *)
(***************************************************************************)
THEOREM ConnStaysSound == Spec => []ConnSound
BY ConnSoundInit, ConnSoundNext, PTL DEF Spec

LEMMA ConnSoundRefs == ConnSound => RefInv
<1> SUFFICES ASSUME ConnSound PROVE RefInv
  OBVIOUS
<1> USE DEF ConnSound
<1>1. usage \in 0 .. 2 /\ ~(Idle /\ Taken)
  BY CountSteps
<1>2. ConnTypeOK
  BY <1>1 DEF ConnTypeOK, ConnFlags, ConnQueue
<1>3. RefsExact
  <2>1. CASE connected
    BY <2>1 DEF RefsExact, RefCount, Idle, Taken, BleRefs
  <2>2. CASE ~connected
    BY <2>2 DEF RefsExact, RefCount, Idle, Taken, BleRefs
  <2> QED
    BY <2>1, <2>2
<1>4. NoStolenPut
  <2> SUFFICES ASSUME ~canDetectVbus, msgs # <<>>, Head(msgs) = SuspendMsg
               PROVE  usage > BleRefs
    BY DEF NoStolenPut
  <2>1. msgs \in Seq(Msg)
    BY DEF ConnQueue
  <2>2. Taking(msgs, Tail(msgs), SuspendMsg, SuspendMsg, ResumeMsg)
    BY <2>1, TailTakes, Names
  <2>3. Taken
    BY <2>2 DEF Taking, WithoutCable, RefCount
  <2> QED
    BY <2>3 DEF Taken, BleRefs
<1>5. msgs = <<>> => BusQuiet
  BY NothingWaits DEF BusQuiet
<1>6. ble => usage > 0
  BY DEF RefCount, Idle, Taken, BleRefs
<1>7. Taken => usage > 0
  BY DEF Taken, BleRefs
<1>8. PoweredInUse
  BY <1>5, <1>6, <1>7 DEF PoweredInUse, CableSettled, WithoutCable, RefCount, ConnFlags
<1>9. Idle /\ ~ble => usage = 0
  BY DEF Idle, BleRefs
<1>10. ReleasedWhenIdle
  <2> SUFFICES ASSUME msgs = <<>>, bus # Active, ~ble, ~unplugged
               PROVE  Idle
    BY <1>9 DEF ReleasedWhenIdle
  <2> QED
    BY <1>5 DEF CableSettled, WithoutCable, RefCount, ConnFlags
<1> QED
  BY <1>2, <1>3, <1>4, <1>8, <1>10 DEF RefInv

(***************************************************************************)
(* However cable, bus and Bluetooth changes interleave with the messages   *)
(* that wait, the input devices run for each host that can use them and    *)
(* for no other, and no put takes a reference that is not its own.         *)
(***************************************************************************)
THEOREM RefsAgree == Spec => []RefInv
BY ConnStaysSound, ConnSoundRefs, PTL
=============================================================================

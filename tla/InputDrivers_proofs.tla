------------------------ MODULE InputDrivers_proofs -------------------------
(***************************************************************************)
(* Proofs about the three input drivers and about what hosts write to them *)
(* for every set of keys and buttons, size of the six-key report, wheel    *)
(* motion and threshold.                                                   *)
(***************************************************************************)
EXTENDS InputDrivers, FiniteSetTheorems, SequenceTheorems, TLAPS

-----------------------------------------------------------------------------
(***************************************************************************)
(* The wheel.  DebounceInv is inductive; its last conjunct, that the       *)
(* remembered direction is the one last passed on, is what the action      *)
(* property TurnsNeedThreshold needs.                                      *)
(***************************************************************************)
LEMMA DebounceInit == Init => DebounceInv
<1> SUFFICES ASSUME Init PROVE DebounceInv
  OBVIOUS
<1>1. MotionKept /\ 0 \in Int
  BY WheelAssumption DEF Init, MotionKept, Magnitude
<1>2. WheelTypeOK
  BY <1>1 DEF Init, WheelTypeOK
<1>3. DirectionExpires /\ state = lastDir
  BY DEF Init, DirectionExpires
<1> QED
  BY <1>1, <1>2, <1>3 DEF DebounceInv

\* A wheel event passes on all that is held back, or adds to it below the
\* threshold.
LEMMA WheelStep ==
  ASSUME DebounceInv, NEW d \in Deltas, Wheel(d)
  PROVE  DebounceInv'
<1> USE WheelAssumption DEF DebounceInv, WheelTypeOK, MotionKept, DirectionExpires
<1> d \in Int
  OBVIOUS
<1>1. CASE ~enabled
  BY <1>1 DEF Wheel, debounce
<1>2. CASE enabled
  <2> DEFINE total == value + d
  <2>1. total \in Int /\ balance + d = total
    OBVIOUS
  <2>2. Debounced(d) /\ balance' = balance + d - out' /\ UNCHANGED enabled
    BY <1>2 DEF Wheel
  <2>3. CASE Passes(total)
    <3>1. out' = total /\ value' = 0 /\ timer' = TRUE
          /\ state' = Direction(total) /\ lastDir' = Direction(total)
      BY <2>2, <2>3 DEF Debounced
    <3>2. Direction(total) \in {Idle, Up, Down}
      BY DEF Direction
    <3>3. balance' = 0
      BY <2>1, <2>2, <3>1
    <3> QED
      BY <2>1, <2>2, <3>1, <3>2, <3>3 DEF Magnitude
  <2>4. CASE ~Passes(total)
    <3>1. out' = 0 /\ value' = total /\ state' = state /\ lastDir' = lastDir /\ timer' = TRUE
      BY <2>2, <2>4 DEF Debounced
    <3>2. Magnitude(total) < WheelTh
      BY <2>1, <2>4 DEF Passes, Magnitude
    <3>3. balance' = total
      BY <2>1, <2>2, <3>1
    <3> QED
      BY <2>1, <2>2, <3>1, <3>2, <3>3
  <2> QED
    BY <2>3, <2>4
<1> QED
  BY <1>1, <1>2

LEMMA DebounceStep == DebounceInv /\ [Next]_vars => DebounceInv'
<1> SUFFICES ASSUME DebounceInv, [Next]_vars PROVE DebounceInv'
  OBVIOUS
<1> USE WheelAssumption
  DEF DebounceInv, WheelTypeOK, MotionKept, DirectionExpires
<1>1. CASE \E d \in Deltas : Wheel(d)
  BY <1>1, WheelStep
<1>2. CASE MiddleButton
  BY <1>2 DEF MiddleButton, Magnitude
<1>3. CASE DebounceWorker
  <2>1. WheelTypeOK'
    <3>1. timer' \in BOOLEAN /\ enabled' \in BOOLEAN
      BY <1>3, Zenon DEF DebounceWorker
    <3>2. out' \in Int
      BY <1>3, SMT DEF DebounceWorker
    <3> QED
      BY <1>3, <3>1, <3>2, Zenon DEF DebounceWorker
  <2>2. MotionKept'
    BY <1>3 DEF DebounceWorker, Magnitude
  <2> QED
    BY <1>3, <2>1, <2>2 DEF DebounceWorker
<1>4. CASE \E on \in BOOLEAN : DebounceSet(on)
  BY <1>4 DEF DebounceSet, debounce
<1>5. CASE UNCHANGED vars
  BY <1>5 DEF vars, debounce
<1> QED
  BY <1>1, <1>2, <1>3, <1>4, <1>5 DEF Next

\* Motion passed on against the last direction reached the threshold: it was
\* not let through by the direction the debounce remembers.
LEMMA TurnStep ==
  ASSUME DebounceInv, [Next]_vars, enabled, ~UNCHANGED vars, out' # 0,
         Direction(out') # lastDir
  PROVE  Magnitude(out') >= WheelTh
<1> USE WheelAssumption DEF DebounceInv, WheelTypeOK
<1>1. PICK d \in Deltas : Wheel(d)
  BY DEF Next, MiddleButton, DebounceWorker, DebounceSet, vars
<1>2. Debounced(d)
  BY <1>1 DEF Wheel
<1> DEFINE total == value + d
<1>3. total \in Int /\ Passes(total) /\ out' = total
  BY <1>2 DEF Debounced
<1>4. ~(state = Up /\ total > 0) /\ ~(state = Down /\ total < 0)
  BY <1>3 DEF Direction
<1> QED
  BY <1>3, <1>4 DEF Passes

(***************************************************************************)
(* The debounce keeps its invariant for every threshold and motion.        *)
(***************************************************************************)
THEOREM DebounceSound == Spec => []DebounceInv
  BY DebounceInit, DebounceStep, PTL DEF Spec

(***************************************************************************)
(* hid_mouse_wheel_debounce neither loses motion nor reports it twice, and *)
(* never holds back the threshold or more.                                 *)
(***************************************************************************)
THEOREM NoMotionLost == Spec => []MotionKept
<1>1. DebounceInv => MotionKept
  BY DEF DebounceInv
<1> QED
  BY <1>1, DebounceSound, PTL

(***************************************************************************)
(* While a direction lets small motion through, debounce_dwork is          *)
(* scheduled to end it.                                                    *)
(***************************************************************************)
THEOREM DirectionEnds == Spec => []DirectionExpires
<1>1. DebounceInv => DirectionExpires
  BY DEF DebounceInv
<1> QED
  BY <1>1, DebounceSound, PTL

(***************************************************************************)
(* With the debounce on, motion against the last reported direction, or    *)
(* after a rest, passes on in amounts of the threshold or more.            *)
(***************************************************************************)
THEOREM NoJitter == Spec => TurnsNeedThreshold
<1>1. DebounceInv /\ [Next]_vars =>
        [enabled /\ out' # 0 /\ Direction(out') # lastDir => Magnitude(out') >= WheelTh]_vars
  BY TurnStep
<1> QED
  BY <1>1, DebounceSound, PTL DEF Spec, TurnsNeedThreshold

-----------------------------------------------------------------------------
(***************************************************************************)
(* The keyboard.  The six-key report is a function of the bits, and the    *)
(* bits and modifiers are the held keys; so what is left to show is that   *)
(* the scan gives each held key a place of its own.                        *)
(***************************************************************************)
Place(c, keys) == Cardinality({d \in keys : d <= c})

LEMMA PlaceOrdered ==
  ASSUME NEW keys \in SUBSET Nat, IsFiniteSet(keys), NEW c \in keys
  PROVE  /\ Place(c, keys) \in 1 .. Cardinality(keys)
         /\ \A d \in keys : c < d => Place(c, keys) < Place(d, keys)
<1> DEFINE Below(e) == {d \in keys : d <= e}
<1>1. \A e \in keys : IsFiniteSet(Below(e)) /\ Cardinality(Below(e)) \in Nat
                      /\ Cardinality(Below(e)) <= Cardinality(keys)
  <2> SUFFICES ASSUME NEW e \in keys
               PROVE  IsFiniteSet(Below(e)) /\ Cardinality(Below(e)) \in Nat
                      /\ Cardinality(Below(e)) <= Cardinality(keys)
    OBVIOUS
  <2>1. Below(e) \in SUBSET keys
    OBVIOUS
  <2> QED
    BY <2>1, FS_Subset, FS_CardinalityType
<1>2. Cardinality(Below(c)) # 0
  BY <1>1, FS_EmptySet
<1>3. Cardinality(keys) \in Nat
  BY FS_CardinalityType
<1>4. ASSUME NEW d \in keys, c < d PROVE Cardinality(Below(c)) < Cardinality(Below(d))
  <2>1. c \in Nat /\ d \in Nat /\ \A e \in keys : e \in Nat
    OBVIOUS
  <2>2. \A e \in keys : e <= c => e <= d
    BY <1>4, <2>1
  <2>3. d <= d /\ ~(d <= c)
    BY <1>4, <2>1
  <2>4. Below(c) \in SUBSET Below(d) /\ d \in Below(d) /\ d \notin Below(c)
    BY <2>2, <2>3
  <2>5. Cardinality(Below(c)) <= Cardinality(Below(d)) /\ Cardinality(Below(d)) # Cardinality(Below(c))
    BY <1>1, <2>4, FS_Subset
  <2> QED
    BY <1>1, <2>5
<1> HIDE DEF Below
<1>5. \A e : Place(e, keys) = Cardinality(Below(e))
  BY DEF Place, Below
<1> QED
  BY <1>1, <1>2, <1>3, <1>4, <1>5

\* Each place up to the number of held keys is taken.
LEMMA PlacesTaken ==
  ASSUME NEW keys \in SUBSET Nat, IsFiniteSet(keys), NEW i \in 1 .. Cardinality(keys)
  PROVE  KeyAt(i, keys) \in keys /\ Place(KeyAt(i, keys), keys) = i
<1> DEFINE n == Cardinality(keys)
           f == [c \in keys |-> Place(c, keys)]
<1>1. n \in Nat /\ IsFiniteSet(1 .. n) /\ Cardinality(1 .. n) = n
  <2>1. n \in Nat
    BY FS_CardinalityType
  <2> QED
    BY <2>1, FS_Interval
<1>2. f \in [keys -> 1 .. n]
  BY PlaceOrdered
<1>3. \A c, d \in keys : f[c] = f[d] => c = d
  <2> SUFFICES ASSUME NEW c \in keys, NEW d \in keys, f[c] = f[d] PROVE c = d
    OBVIOUS
  <2>1. ~(c < d) /\ ~(d < c)
    BY <1>1, PlaceOrdered
  <2> QED
    BY <2>1
<1>4. f \in Injection(keys, 1 .. n)
  BY <1>2, <1>3 DEF Injection, IsInjective
<1>5. f \in Surjection(keys, 1 .. n)
  BY <1>1, <1>4, FS_Injection
<1>6. \E c \in keys : f[c] = i
  BY <1>5 DEF Surjection
<1>7. \E c \in keys : Cardinality({d \in keys : d <= c}) = i
  BY <1>6 DEF Place
<1> QED
  BY <1>7 DEF KeyAt, Place

\* Each held key has a place.
LEMMA KeyPlaced ==
  ASSUME NEW keys \in SUBSET Nat, IsFiniteSet(keys), NEW c \in keys
  PROVE  \E i \in 1 .. Cardinality(keys) : KeyAt(i, keys) = c
<1> DEFINE i == Place(c, keys)
<1>1. i \in 1 .. Cardinality(keys)
  BY PlaceOrdered
<1>2. KeyAt(i, keys) \in keys /\ Place(KeyAt(i, keys), keys) = i
  BY <1>1, PlacesTaken
<1> DEFINE k == KeyAt(i, keys)
<1>3. k \in keys /\ Place(k, keys) = i /\ Place(c, keys) = i
  BY <1>2
<1>4. c \in Nat /\ k \in Nat
  BY <1>3
<1>5. i \in Int
  BY <1>1
<1> HIDE DEF i, k
<1>6. k < c => Place(k, keys) < Place(c, keys)
  BY <1>3, PlaceOrdered
<1>7. c < k => Place(c, keys) < Place(k, keys)
  BY <1>3, PlaceOrdered
<1>8. k = c
  BY <1>3, <1>4, <1>5, <1>6, <1>7
<1> QED
  BY <1>1, <1>8 DEF k, i

LEMMA HeldCodes ==
  ASSUME NEW keys \in SUBSET Codes
  PROVE  /\ keys \in SUBSET Nat /\ 0 \notin keys /\ IsFiniteSet(keys)
         /\ Cardinality(keys) \in Nat /\ CodesSize \in Nat \ {0}
         /\ Rollover # 0 /\ Rollover \in Nat
BY KbdAssumption, FS_Subset, FS_CardinalityType

\* The six-key report, from any keys.
LEMMA SixKeysShown ==
  ASSUME NEW keys \in SUBSET Codes, NEW shown, shown = SixKeyCodes(keys)
  PROVE  /\ shown \in [1 .. CodesSize -> Codes \union {0, Rollover}]
         /\ Cardinality(keys) > CodesSize => {shown[i] : i \in 1 .. CodesSize} \ {0} = {Rollover}
         /\ Cardinality(keys) <= CodesSize =>
              /\ {shown[i] : i \in 1 .. CodesSize} \ {0} = keys
              /\ \A i, j \in 1 .. CodesSize : i # j /\ shown[i] # 0 => shown[i] # shown[j]
<1> DEFINE n == Cardinality(keys)
<1>1. /\ keys \in SUBSET Nat /\ 0 \notin keys /\ IsFiniteSet(keys)
      /\ n \in Nat /\ CodesSize \in Nat \ {0} /\ Rollover # 0
  BY HeldCodes
<1>2. \A i \in 1 .. n : KeyAt(i, keys) \in keys /\ Place(KeyAt(i, keys), keys) = i
  BY <1>1, PlacesTaken
<1>3. CASE n > CodesSize
  <2>1. shown = [i \in 1 .. CodesSize |-> Rollover]
    BY <1>3 DEF SixKeyCodes
  <2>2. 1 \in 1 .. CodesSize
    BY <1>1
  <2>3. {shown[i] : i \in 1 .. CodesSize} \ {0} = {Rollover}
    BY <1>1, <2>1, <2>2
  <2>4. shown \in [1 .. CodesSize -> Codes \union {0, Rollover}] /\ ~(n <= CodesSize)
    BY <1>1, <1>3, <2>1
  <2> QED
    BY <2>3, <2>4
<1>4. CASE n <= CodesSize
  <2>1. shown = [i \in 1 .. CodesSize |-> IF i <= n THEN KeyAt(i, keys) ELSE 0]
    BY <1>1, <1>4 DEF SixKeyCodes
  <2>2. \A i \in 1 .. CodesSize : (i <= n => shown[i] = KeyAt(i, keys)) /\ (i > n => shown[i] = 0)
    BY <1>1, <2>1
  <2>3. \A i \in 1 .. CodesSize : i <= n => shown[i] \in keys /\ Place(shown[i], keys) = i
    BY <1>1, <1>2, <2>2
  <2>4. shown \in [1 .. CodesSize -> Codes \union {0, Rollover}]
    <3>1. \A i \in 1 .. CodesSize : shown[i] \in keys \/ shown[i] = 0
      BY <1>1, <2>2, <2>3
    <3>2. DOMAIN shown = 1 .. CodesSize /\ shown = [i \in DOMAIN shown |-> shown[i]]
      BY <2>1
    <3> QED
      BY <3>1, <3>2
  <2>5. {shown[i] : i \in 1 .. CodesSize} \ {0} = keys
    <3>1. \A c \in keys : \E i \in 1 .. CodesSize : shown[i] = c
      <4> SUFFICES ASSUME NEW c \in keys PROVE \E i \in 1 .. CodesSize : shown[i] = c
        OBVIOUS
      <4>1. PICK i \in 1 .. n : KeyAt(i, keys) = c
        BY <1>1, KeyPlaced
      <4>2. i \in 1 .. CodesSize /\ i <= n
        BY <1>1, <1>4
      <4> QED
        BY <2>2, <4>1, <4>2
    <3>2. \A i \in 1 .. CodesSize : shown[i] # 0 => shown[i] \in keys
      BY <1>1, <2>2, <2>3
    <3> QED
      BY <1>1, <3>1, <3>2
  <2>6. ASSUME NEW i \in 1 .. CodesSize, NEW j \in 1 .. CodesSize, i # j, shown[i] # 0
        PROVE  shown[i] # shown[j]
    <3>1. i <= n /\ Place(shown[i], keys) = i
      BY <1>1, <2>2, <2>3, <2>6
    <3>2. CASE j <= n
      BY <2>3, <2>6, <3>1, <3>2
    <3>3. CASE j > n
      BY <2>2, <2>6, <3>3
    <3> QED
      BY <1>1, <3>2, <3>3
  <2> QED
    BY <1>1, <1>4, <2>4, <2>5, <2>6
<1>5. n > CodesSize \/ n <= CodesSize
  BY <1>1
<1>6. n > CodesSize <=> ~(n <= CodesSize)
  BY <1>1
<1> HIDE DEF n
<1> QED
  BY <1>3, <1>4, <1>5, <1>6 DEF n

KbdSound ==
  /\ nkro \in BOOLEAN
  /\ bits = heldKeys \intersect Codes /\ modifiers = heldKeys \intersect Modifiers
  /\ codes = IF nkro THEN [i \in 1 .. CodesSize |-> 0] ELSE SixKeyCodes(bits)
  /\ mediaCode \in (heldKeys \intersect MediaKeys) \union {NoMedia}

LEMMA KbdSoundMeans == KbdSound => KbdInv
<1> SUFFICES ASSUME KbdSound PROVE KbdInv
  OBVIOUS
<1> USE DEF KbdSound
<1>1. bits \in SUBSET Codes
  OBVIOUS
<1>2. CodesSize \in Nat \ {0} /\ Cardinality(bits) \in Nat
  BY <1>1, HeldCodes
<1>3. CASE nkro
  <2>1. codes = [i \in 1 .. CodesSize |-> 0]
    BY <1>3
  <2>2. KbdTypeOK
    BY <2>1 DEF KbdTypeOK
  <2>3. ReportShowsHeld
    BY <1>3 DEF ReportShowsHeld
  <2> QED
    BY <2>2, <2>3 DEF KbdInv, MediaShownHeld
<1>4. CASE ~nkro
  <2>1. codes = SixKeyCodes(bits)
    BY <1>4
  <2> HIDE DEF KbdSound
  <2>2. /\ codes \in [1 .. CodesSize -> Codes \union {0, Rollover}]
        /\ Cardinality(bits) > CodesSize => {codes[i] : i \in 1 .. CodesSize} \ {0} = {Rollover}
        /\ Cardinality(bits) <= CodesSize =>
             /\ {codes[i] : i \in 1 .. CodesSize} \ {0} = bits
             /\ \A i, j \in 1 .. CodesSize : i # j /\ codes[i] # 0 => codes[i] # codes[j]
    BY <1>1, <2>1, SixKeysShown
  <2> USE DEF KbdSound
  <2>3. KbdTypeOK
    BY <2>2 DEF KbdTypeOK
  <2>4. Cardinality(bits) > CodesSize \/ Cardinality(bits) <= CodesSize
    BY <1>2
  <2>5. ReportShowsHeld
    BY <1>2, <1>4, <2>2, <2>4 DEF ReportShowsHeld, ShownKeys
  <2> QED
    BY <2>3, <2>5 DEF KbdInv, MediaShownHeld
<1> QED
  BY <1>3, <1>4

LEMMA KbdSoundInit == KbdInit => KbdSound
<1> SUFFICES ASSUME KbdInit PROVE KbdSound
  OBVIOUS
<1>1. Cardinality({}) = 0 /\ CodesSize \in Nat
  BY FS_EmptySet, KbdAssumption
<1>2. SixKeyCodes({}) = [i \in 1 .. CodesSize |-> 0]
  BY <1>1 DEF SixKeyCodes
<1> QED
  BY <1>2 DEF KbdInit, KbdSound

LEMMA KbdStep ==
  ASSUME KbdSound, KbdNext
  PROVE  KbdSound'
<1>1. PICK k \in Keys, down \in BOOLEAN : KbdEvent(k, down)
  BY DEF KbdNext
<1> USE DEF KbdSound
<1>2. nkro' = nkro /\ heldKeys' = BitWritten(heldKeys, k, down)
  BY <1>1 DEF KbdEvent
<1>3. bits' = heldKeys' \intersect Codes
  BY <1>1, <1>2 DEF KbdEvent, BitWritten
<1>4. modifiers' = heldKeys' \intersect Modifiers
  BY <1>1, <1>2 DEF KbdEvent, BitWritten
<1>5. codes' = IF nkro THEN codes ELSE SixKeyCodes(bits')
  <2>1. CASE k \in Refused
    <3>1. bits' = bits /\ codes' = codes
      BY <1>1, <2>1, KbdAssumption DEF KbdEvent
    <3> QED
      BY <3>1 DEF KbdSound
  <2>2. CASE k \notin Refused
    BY <1>1, <2>2 DEF KbdEvent
  <2> QED
    BY <2>1, <2>2
<1>6. SixKeyCodes(bits)' = SixKeyCodes(bits')
  BY DEF SixKeyCodes, KeyAt
<1>7. codes' = IF nkro' THEN [i \in 1 .. CodesSize |-> 0] ELSE SixKeyCodes(bits)'
  BY <1>2, <1>5, <1>6
<1>8. mediaCode' \in (heldKeys' \intersect MediaKeys) \union {NoMedia}
  BY <1>1, <1>2 DEF KbdEvent, MediaCode, BitWritten
<1> QED
  BY <1>2, <1>3, <1>4, <1>7, <1>8

-----------------------------------------------------------------------------
(***************************************************************************)
(* The gamepad.  Once a direction button was used, the hat is that of the  *)
(* direction buttons that are held.                                        *)
(***************************************************************************)
PadSound ==
  /\ sent \in BOOLEAN /\ dpad \in BOOLEAN
  /\ hatBits = heldButtons \intersect Directions
  /\ buttons \subseteq Buttons
  /\ hat = IF dpad THEN HatOf(hatBits) ELSE 0
  /\ x \in 0 .. 255

\* The direction of every set of direction buttons.
LEMMA HatDirection ==
  ASSUME NEW held
  PROVE  LET h == HatOf(held \intersect Directions)
             right == (IF DpadRight \in held THEN 1 ELSE 0) - (IF DpadLeft \in held THEN 1 ELSE 0)
             up == (IF DpadUp \in held THEN 1 ELSE 0) - (IF DpadDown \in held THEN 1 ELSE 0)
         IN /\ h \in 0 .. 8
            /\ IF \/ held \intersect Directions = {}
                  \/ {DpadUp, DpadDown} \subseteq held \/ {DpadLeft, DpadRight} \subseteq held
               THEN h = 8
               ELSE h \in 0 .. 7 /\ HatRight(h) = right /\ HatUp(h) = up
<1> DEFINE b == held \intersect Directions
<1> USE DEF Directions, DpadUp, DpadDown, DpadLeft, DpadRight
<1>1. \A d \in Directions : d \in b <=> d \in held
  OBVIOUS
<1>2. CASE {"up", "down"} \subseteq held \/ {"left", "right"} \subseteq held
  <2>1. {"up", "down"} \subseteq b \/ {"left", "right"} \subseteq b
    BY <1>2
  <2> HIDE DEF b
  <2>2. HatOf(b) = 8
    BY <2>1 DEF HatOf
  <2> QED
    BY <1>2, <2>2 DEF b
<1>3. CASE ~({"up", "down"} \subseteq held) /\ ~({"left", "right"} \subseteq held)
  <2>0. b \in {{}, {"up"}, {"up", "right"}, {"right"}, {"right", "down"}, {"down"}, {"down", "left"}, {"left"}, {"left", "up"}}
    BY <1>3
  <2>1. CASE b = {}
    <3>1. "up" \notin held /\ "down" \notin held /\ "left" \notin held /\ "right" \notin held
      BY <1>1, <2>1
    <3>2. HatOf(b) = 8
      BY <2>1 DEF HatOf
    <3> QED
      BY <1>3, <2>1, <3>1, <3>2 DEF HatRight, HatUp
  <2>2. CASE b = {"up"}
    <3>1. "up" \in held /\ "down" \notin held /\ "left" \notin held /\ "right" \notin held
      BY <1>1, <2>2
    <3>2. HatOf(b) = 0
      BY <2>2 DEF HatOf
    <3> QED
      BY <1>3, <2>2, <3>1, <3>2 DEF HatRight, HatUp
  <2>3. CASE b = {"up", "right"}
    <3>1. "up" \in held /\ "down" \notin held /\ "left" \notin held /\ "right" \in held
      BY <1>1, <2>3
    <3>2. HatOf(b) = 1
      BY <2>3 DEF HatOf
    <3> QED
      BY <1>3, <2>3, <3>1, <3>2 DEF HatRight, HatUp
  <2>4. CASE b = {"right"}
    <3>1. "up" \notin held /\ "down" \notin held /\ "left" \notin held /\ "right" \in held
      BY <1>1, <2>4
    <3>2. HatOf(b) = 2
      BY <2>4 DEF HatOf
    <3> QED
      BY <1>3, <2>4, <3>1, <3>2 DEF HatRight, HatUp
  <2>5. CASE b = {"right", "down"}
    <3>1. "up" \notin held /\ "down" \in held /\ "left" \notin held /\ "right" \in held
      BY <1>1, <2>5
    <3>2. HatOf(b) = 3
      BY <2>5 DEF HatOf
    <3> QED
      BY <1>3, <2>5, <3>1, <3>2 DEF HatRight, HatUp
  <2>6. CASE b = {"down"}
    <3>1. "up" \notin held /\ "down" \in held /\ "left" \notin held /\ "right" \notin held
      BY <1>1, <2>6
    <3>2. HatOf(b) = 4
      BY <2>6 DEF HatOf
    <3> QED
      BY <1>3, <2>6, <3>1, <3>2 DEF HatRight, HatUp
  <2>7. CASE b = {"down", "left"}
    <3>1. "up" \notin held /\ "down" \in held /\ "left" \in held /\ "right" \notin held
      BY <1>1, <2>7
    <3>2. HatOf(b) = 5
      BY <2>7 DEF HatOf
    <3> QED
      BY <1>3, <2>7, <3>1, <3>2 DEF HatRight, HatUp
  <2>8. CASE b = {"left"}
    <3>1. "up" \notin held /\ "down" \notin held /\ "left" \in held /\ "right" \notin held
      BY <1>1, <2>8
    <3>2. HatOf(b) = 6
      BY <2>8 DEF HatOf
    <3> QED
      BY <1>3, <2>8, <3>1, <3>2 DEF HatRight, HatUp
  <2>9. CASE b = {"left", "up"}
    <3>1. "up" \in held /\ "down" \notin held /\ "left" \in held /\ "right" \notin held
      BY <1>1, <2>9
    <3>2. HatOf(b) = 7
      BY <2>9 DEF HatOf
    <3> QED
      BY <1>3, <2>9, <3>1, <3>2 DEF HatRight, HatUp
  <2> QED
    BY <2>0, <2>1, <2>2, <2>3, <2>4, <2>5, <2>6, <2>7, <2>8, <2>9
<1> QED
  BY <1>2, <1>3

LEMMA PadSoundMeans == PadSound => PadInv
<1> SUFFICES ASSUME PadSound PROVE PadInv
  OBVIOUS
<1>1. dpad => hat = HatOf(heldButtons \intersect Directions)
  BY DEF PadSound
<1>2. hat \in 0 .. 8
  BY <1>1, HatDirection DEF PadSound
<1>3. HatPoints
  BY <1>1, HatDirection DEF HatPoints, Component, Opposed
<1>4. GamepadTypeOK
  BY <1>2 DEF PadSound, GamepadTypeOK
<1> QED
  BY <1>3, <1>4 DEF PadInv

LEMMA PadSoundInit == PadInit => PadSound
<1> SUFFICES ASSUME PadInit PROVE PadSound
  OBVIOUS
<1>1. x \in 0 .. 255
  BY DEF PadInit
<1>2. hat = IF dpad THEN HatOf(hatBits) ELSE 0
  BY DEF PadInit
<1> QED
  BY <1>1, <1>2 DEF PadInit, PadSound

LEMMA PadStep ==
  ASSUME PadSound, PadNext
  PROVE  PadSound'
<1>1. ASSUME NEW k \in Directions \union Buttons, NEW down \in BOOLEAN, KeyEvent(k, down)
      PROVE  PadSound'
  <2>1. heldButtons' = ButtonWritten(heldButtons, k, down) /\ sent' = TRUE /\ x' = x
    BY <1>1 DEF KeyEvent, DpadEvent, ButtonEvent
  <2>2. CASE k \in Directions
    <3>1. DpadEvent(k, down)
      BY <1>1, <2>2 DEF KeyEvent
    <3>2. /\ hatBits' = ButtonWritten(hatBits, k, down) /\ hat' = HatOf(hatBits')
          /\ dpad' = TRUE /\ buttons' = buttons
      BY <3>1 DEF DpadEvent
    <3>3. hatBits' = heldButtons' \intersect Directions
      BY <2>1, <2>2, <3>2 DEF PadSound, ButtonWritten
    <3> QED
      BY <2>1, <3>2, <3>3 DEF PadSound
  <2>3. CASE k \notin Directions
    <3>1. ButtonEvent(k, down)
      BY <1>1, <2>3 DEF KeyEvent
    <3>2. /\ hatBits' = hatBits /\ hat' = hat /\ dpad' = dpad
          /\ buttons' = ButtonWritten(buttons, k, down)
      BY <3>1 DEF ButtonEvent
    <3>3. hatBits' = heldButtons' \intersect Directions
      BY <2>1, <2>3, <3>2 DEF PadSound, ButtonWritten
    <3>4. buttons' \subseteq Buttons
      BY <2>3, <3>2 DEF PadSound, ButtonWritten
    <3> QED
      BY <2>1, <3>2, <3>3, <3>4 DEF PadSound
  <2> QED
    BY <2>2, <2>3
<1>2. ASSUME NEW v \in AxisValues, AbsEvent(v)
      PROVE  PadSound'
  <2>1. x' \in 0 .. 255
    BY <1>2, AxisAssumption DEF AbsEvent, ClampedAxis
  <2>2. sent' = TRUE /\ UNCHANGED <<hatBits, hat, buttons, heldButtons, dpad>>
    BY <1>2 DEF AbsEvent
  <2> QED
    BY <2>1, <2>2 DEF PadSound
<1> QED
  BY <1>1, <1>2 DEF PadNext

-----------------------------------------------------------------------------
(***************************************************************************)
(* The hosts.  A write of two registers goes twice through the queue of    *)
(* the bus, and each host has one; so the report that came last is done    *)
(* last, provided no write fails.  The invariant says, for each state of   *)
(* the queue, which of the two writes came last and what it has done.      *)
(***************************************************************************)
Bytes == {0, 1, 2}
Regs == {"x", "y"}

HostFlags ==
  /\ ledCb \in BOOLEAN /\ featCb \in BOOLEAN /\ patReady \in BOOLEAN
  /\ caps \in BOOLEAN /\ failed \in BOOLEAN
  /\ resX \in {Low, High} /\ resY \in {Low, High}
  /\ lastLeds \in Bytes \union {NoReport} /\ lastMode \in Bytes \union {NoReport}
  /\ enabled \in BOOLEAN

BusIdle ==
  /\ bus = <<>>
  /\ ~failed => /\ enabled <=> HighRes(lastMode)
                /\ resX = Resolution(lastMode) /\ resY = Resolution(lastMode)

OneWrites(h, b, r) ==
  /\ bus = <<Write(h, b, r)>>
  /\ ~failed => lastMode = b /\ (r = "y" => resX = Resolution(b))

BothWrite(h, b, r, g, c, s) ==
  /\ h # g /\ bus = <<Write(h, b, r), Write(g, c, s)>>
  /\ ~failed => \/ s = "x" /\ lastMode = c
                \/ r = "x" /\ s = "y" /\ lastMode = b
                \/ r = "y" /\ s = "y" /\ lastMode = c /\ resX = Resolution(c)

BusSound ==
  \/ BusIdle
  \/ \E h \in Hosts, b \in Bytes, r \in Regs : OneWrites(h, b, r)
  \/ \E h, g \in Hosts, b, c \in Bytes, r, s \in Regs : BothWrite(h, b, r, g, c, s)

HostSound == HostFlags /\ LedShowsLast /\ BusSound

LEMMA BusCalls ==
  /\ \A a : Head(<<a>>) = a /\ Tail(<<a>>) = <<>> /\ Append(<<>>, a) = <<a>>
  /\ \A a, b : Head(<<a, b>>) = a /\ Tail(<<a, b>>) = <<b>>
  /\ \A a, b : <<a>> # <<>> /\ <<a, b>> # <<>>
OBVIOUS

LEMMA SecondCall ==
  ASSUME NEW a, NEW b
  PROVE  Append(<<a>>, b) = <<a, b>>
<1> DEFINE S == {a, b}
           s == Append(<<a>>, b)
           t == <<a, b>>
<1>1. /\ <<a>> \in Seq(S) /\ Len(<<a>>) = 1 /\ <<a>>[1] = a /\ b \in S
      /\ t \in Seq(S) /\ Len(t) = 2 /\ t[1] = a /\ t[2] = b
  OBVIOUS
<1>2. s \in Seq(S) /\ Len(s) = 2 /\ s[1] = a /\ s[2] = b
  <2>1. /\ s \in Seq(S) /\ Len(s) = Len(<<a>>) + 1
        /\ \A i \in 1 .. Len(<<a>>) : s[i] = <<a>>[i]
        /\ s[Len(<<a>>) + 1] = b
    BY <1>1, AppendProperties
  <2> QED
    BY <1>1, <2>1
<1> HIDE DEF s, t, S
<1>3. \A i \in 1 .. 2 : s[i] = t[i]
  BY <1>1, <1>2
<1>4. s = t
  BY <1>1, <1>2, <1>3, SeqEqual
<1> QED
  BY <1>4 DEF s, t

LEMMA WriteFields ==
  \A h, b, r : Write(h, b, r).host = h /\ Write(h, b, r).byte = b /\ Write(h, b, r).reg = r
BY DEF Write

LEMMA PayloadBytes ==
  \A payload \in Payloads : payload # <<>> => payload[1] \in Bytes
BY DEF Payloads, Bytes

\* A feature report gets in behind the other host's write.
LEMMA FeatureStep ==
  ASSUME HostSound, NEW h \in Hosts, NEW id \in Ids, NEW payload \in Payloads,
         \A i \in DOMAIN bus : bus[i].host # h,
         SetFeature(h, id, payload), UNCHANGED <<ledCb, featCb, patReady>>
  PROVE  HostSound'
<1> DEFINE n == payload[1]
<1>1. /\ lastMode' = n /\ bus' = Append(bus, Write(h, n, "x"))
      /\ failed' = (failed /\ bus # <<>>)
      /\ UNCHANGED <<resX, resY, caps, lastLeds, enabled>>
  BY DEF SetFeature, ledVars, vars
<1>2. n \in Bytes
  <2>1. Len(payload) = 1
    BY DEF SetFeature
  <2>2. payload # <<>>
    BY <2>1
  <2> QED
    BY <2>2, PayloadBytes
<1> HIDE DEF n
<1>3. HostFlags' /\ LedShowsLast'
  BY <1>1, <1>2 DEF HostSound, HostFlags, LedShowsLast
<1>4. CASE BusIdle
  <2>1. bus' = <<Write(h, n, "x")>>
    BY <1>1, <1>4, BusCalls DEF BusIdle
  <2>2. OneWrites(h, n, "x")'
    BY <1>1, <2>1 DEF OneWrites
  <2> QED
    BY <1>2, <1>3, <2>2 DEF HostSound, BusSound, Regs
<1>5. ASSUME NEW g \in Hosts, NEW b \in Bytes, NEW r \in Regs, OneWrites(g, b, r)
      PROVE  HostSound'
  <2>1. bus = <<Write(g, b, r)>>
    BY <1>5 DEF OneWrites
  <2>2. bus' = <<Write(g, b, r), Write(h, n, "x")>>
    BY <1>1, <2>1, SecondCall
  <2>3. 1 \in DOMAIN bus /\ bus[1] = Write(g, b, r)
    BY <2>1
  <2>4. g # h
    BY <2>3, WriteFields
  <2>5. BothWrite(g, b, r, h, n, "x")'
    BY <1>1, <2>2, <2>4 DEF BothWrite
  <2> QED
    BY <1>2, <1>3, <2>5 DEF HostSound, BusSound, Regs
<1>6. ASSUME NEW g \in Hosts, NEW f \in Hosts, NEW b, NEW c, NEW r, NEW s, BothWrite(g, b, r, f, c, s)
      PROVE  FALSE
  <2>1. bus = <<Write(g, b, r), Write(f, c, s)>> /\ g # f
    BY <1>6 DEF BothWrite
  <2>2. 1 \in DOMAIN bus /\ bus[1] = Write(g, b, r) /\ 2 \in DOMAIN bus /\ bus[2] = Write(f, c, s)
    BY <2>1
  <2>3. g # h /\ f # h
    BY <2>2, WriteFields
  <2> QED
    BY <2>1, <2>3 DEF Hosts
<1> QED
  BY <1>4, <1>5, <1>6 DEF HostSound, BusSound

LEMMA OutputStep ==
  ASSUME HostSound, NEW id, NEW payload \in Payloads, OutReport(id, payload), UNCHANGED <<ledCb, featCb, patReady>>
  PROVE  HostSound'
<1>1. UNCHANGED <<bus, resX, resY, lastMode, failed, enabled>>
  BY DEF OutReport, modeVars, vars
<1>2. BusSound'
  BY <1>1 DEF HostSound, BusSound, BusIdle, OneWrites, BothWrite
<1>3. /\ caps' \in BOOLEAN /\ lastLeds' \in Bytes \union {NoReport}
      /\ LedShowsLast'
  <2>1. CASE payload = <<>>
    BY <2>1 DEF OutReport, LedShowsLast
  <2>2. CASE payload # <<>>
    BY <2>2, PayloadBytes DEF OutReport, LedShowsLast, CapsLock
  <2> QED
    BY <2>1, <2>2
<1>4. HostFlags'
  BY <1>1, <1>3 DEF HostSound, HostFlags
<1> QED
  BY <1>2, <1>3, <1>4 DEF HostSound

\* The write of the register r of byte b, of host h, ends.
LEMMA WriteEnds ==
  ASSUME HostSound, NEW ok \in BOOLEAN, BusWritten(ok),
         NEW h \in Hosts, NEW b \in Bytes, NEW r \in Regs, Head(bus) = Write(h, b, r)
  PROVE  /\ HostFlags' /\ LedShowsLast'
         /\ lastMode' = lastMode
         /\ ~failed' => ok /\ ~failed
         /\ ok /\ r = "x" => /\ bus' = Append(Tail(bus), Write(h, b, "y"))
                             /\ resX' = Resolution(b) /\ resY' = resY /\ enabled' = enabled
         /\ ok /\ r = "y" => /\ bus' = Tail(bus)
                             /\ resY' = Resolution(b) /\ resX' = resX /\ (enabled' <=> HighRes(b))
         /\ ~ok => bus' = Tail(bus)
<1>1. Head(bus).host = h /\ Head(bus).byte = b /\ Head(bus).reg = r
  BY WriteFields
<1>2. UNCHANGED <<ledCb, featCb, patReady, caps, lastLeds, lastMode>> /\ failed' = (failed \/ ~ok)
  BY DEF BusWritten, ledVars
<1>3. /\ resX' = IF ok /\ r = "x" THEN Resolution(b) ELSE resX
      /\ resY' = IF ok /\ r = "y" THEN Resolution(b) ELSE resY
  BY <1>1 DEF BusWritten
<1>4. CASE ok /\ r = "x"
  <2>1. bus' = Append(Tail(bus), Write(h, b, "y")) /\ enabled' = enabled
    BY <1>1, <1>4 DEF BusWritten, vars
  <2>2. resX' = Resolution(b) /\ resY' = resY /\ r # "y"
    BY <1>3, <1>4
  <2>3. HostFlags' /\ LedShowsLast'
    BY <1>2, <2>1, <2>2 DEF HostSound, HostFlags, LedShowsLast, Resolution
  <2> QED
    BY <1>2, <1>4, <2>1, <2>2, <2>3
<1>5. CASE ~(ok /\ r = "x")
  <2>1. bus' = Tail(bus) /\ enabled' = HighRes(b)
    BY <1>1, <1>5 DEF BusWritten, FeatDone, DebounceSet
  <2>2. resX' = resX /\ resY' \in {resY, Resolution(b)}
    BY <1>3, <1>5
  <2>3. HostFlags' /\ LedShowsLast'
    BY <1>2, <2>1, <2>2 DEF HostSound, HostFlags, LedShowsLast, Resolution, HighRes
  <2> QED
    BY <1>2, <1>3, <1>5, <2>1, <2>2, <2>3
<1> QED
  BY <1>4, <1>5

LEMMA BusStep ==
  ASSUME HostSound, NEW ok \in BOOLEAN, BusWritten(ok)
  PROVE  HostSound'
<1>1. bus # <<>>
  BY DEF BusWritten
<1>2. ASSUME NEW h \in Hosts, NEW b \in Bytes, NEW r \in Regs, OneWrites(h, b, r)
      PROVE  HostSound'
  <2>1. bus = <<Write(h, b, r)>> /\ Head(bus) = Write(h, b, r) /\ Tail(bus) = <<>>
    BY <1>2, BusCalls DEF OneWrites
  <2>2. CASE ok /\ r = "x"
    <3>1. bus' = <<Write(h, b, "y")>> /\ resX' = Resolution(b)
      BY <2>1, <2>2, WriteEnds, BusCalls
    <3>2. OneWrites(h, b, "y")'
      BY <1>2, <2>1, <3>1, WriteEnds DEF OneWrites
    <3> QED
      BY <2>1, <3>2, WriteEnds DEF HostSound, BusSound, Regs
  <2>3. CASE ok /\ r = "y"
    <3>1. bus' = <<>> /\ resY' = Resolution(b) /\ resX' = resX /\ (enabled' <=> HighRes(b))
      BY <2>1, <2>3, WriteEnds
    <3>2. ~failed' => lastMode' = b /\ resX' = Resolution(b)
      BY <1>2, <2>1, <2>3, <3>1, WriteEnds DEF OneWrites
    <3>3. BusIdle'
      BY <3>1, <3>2 DEF BusIdle
    <3> QED
      BY <2>1, <3>3, WriteEnds DEF HostSound, BusSound
  <2>4. CASE ~ok
    <3>1. bus' = <<>> /\ failed'
      BY <2>1, <2>4, WriteEnds
    <3> QED
      BY <2>1, <3>1, WriteEnds DEF HostSound, BusSound, BusIdle
  <2>5. r = "x" \/ r = "y"
    BY DEF Regs
  <2> QED
    BY <2>2, <2>3, <2>4, <2>5
<1>3. ASSUME NEW h \in Hosts, NEW g \in Hosts, NEW b \in Bytes, NEW c \in Bytes, NEW r \in Regs, NEW s \in Regs,
             BothWrite(h, b, r, g, c, s)
      PROVE  HostSound'
  <2>1. /\ h # g /\ bus = <<Write(h, b, r), Write(g, c, s)>>
        /\ Head(bus) = Write(h, b, r) /\ Tail(bus) = <<Write(g, c, s)>>
    BY <1>3, BusCalls DEF BothWrite
  <2>2. CASE ok /\ r = "x"
    <3>1. bus' = <<Write(g, c, s), Write(h, b, "y")>> /\ resX' = Resolution(b)
      <4>1. bus' = Append(Tail(bus), Write(h, b, "y")) /\ resX' = Resolution(b)
        BY <2>1, <2>2, WriteEnds
      <4> DEFINE first == Write(g, c, s)
                 second == Write(h, b, "y")
      <4>2. Tail(bus) = <<first>>
        BY <2>1
      <4>3. Append(<<first>>, second) = <<first, second>>
        BY SecondCall
      <4> QED
        BY <4>1, <4>2, <4>3
    <3>2. ~failed' => (s = "x" /\ lastMode' = c) \/ (s = "y" /\ lastMode' = b)
      BY <1>3, <2>1, <2>2, WriteEnds DEF BothWrite
    <3>3. BothWrite(g, c, s, h, b, "y")'
      BY <2>1, <3>1, <3>2 DEF BothWrite
    <3> QED
      BY <2>1, <3>3, WriteEnds DEF HostSound, BusSound, Regs
  <2>3. CASE ok /\ r = "y"
    <3>1. bus' = <<Write(g, c, s)>> /\ resX' = resX
      BY <2>1, <2>3, WriteEnds
    <3>2. ~failed' => lastMode' = c /\ (s = "y" => resX' = Resolution(c))
      BY <1>3, <2>1, <2>3, <3>1, WriteEnds DEF BothWrite
    <3>3. OneWrites(g, c, s)'
      BY <3>1, <3>2 DEF OneWrites
    <3> QED
      BY <2>1, <3>3, WriteEnds DEF HostSound, BusSound
  <2>4. CASE ~ok
    <3>1. bus' = <<Write(g, c, s)>> /\ failed'
      BY <2>1, <2>4, WriteEnds
    <3>2. OneWrites(g, c, s)'
      BY <3>1 DEF OneWrites
    <3> QED
      BY <2>1, <3>2, WriteEnds DEF HostSound, BusSound
  <2>5. r = "x" \/ r = "y"
    BY DEF Regs
  <2> QED
    BY <2>2, <2>3, <2>4, <2>5
<1> QED
  BY <1>1, <1>2, <1>3 DEF HostSound, BusSound, BusIdle

LEMMA HostStep ==
  ASSUME HostSound, HostNext
  PROVE  HostSound'
<1>1. ASSUME RegisterLedCb \/ RegisterFeatCb PROVE HostSound'
  <2>1. ledCb' \in BOOLEAN /\ featCb' \in BOOLEAN
    BY <1>1 DEF RegisterLedCb, RegisterFeatCb, HostSound, HostFlags
  <2>2. UNCHANGED <<patReady, caps, lastLeds, bus, resX, resY, lastMode, failed, enabled>>
    BY <1>1 DEF RegisterLedCb, RegisterFeatCb, ledVars, modeVars, vars
  <2> QED
    BY <2>1, <2>2 DEF HostSound, HostFlags, LedShowsLast, BusSound, BusIdle, OneWrites, BothWrite
<1>2. ASSUME NEW h \in Hosts, NEW id \in Ids, NEW payload \in Payloads, HostWrites(h, id, payload)
      PROVE  HostSound'
  BY <1>2, OutputStep, FeatureStep DEF HostWrites
<1> QED
  BY <1>1, <1>2, BusStep DEF HostNext

LEMMA HostSoundInit == HostInit /\ Init => HostSound
<1> SUFFICES ASSUME HostInit, Init PROVE HostSound
  OBVIOUS
<1>1. NoReport # 1
  BY HostReportsAssumption
<1>2. BusIdle
  BY <1>1 DEF HostInit, Init, BusIdle, HighRes, Resolution
<1>3. HostFlags /\ LedShowsLast
  BY DEF HostInit, Init, HostFlags, LedShowsLast
<1> QED
  BY <1>2, <1>3 DEF HostSound, BusSound

LEMMA HostSoundMeans == HostSound => HostReportsInv
<1> SUFFICES ASSUME HostSound PROVE HostReportsInv
  OBVIOUS
<1>1. \A b \in Bytes : b \in 0 .. 255
  BY DEF Bytes
<1> DEFINE Item == [host : Hosts, byte : 0 .. 255, reg : {"x", "y"}]
<1>2. \A h \in Hosts, b \in Bytes, r \in Regs : Write(h, b, r) \in Item
  BY <1>1 DEF Write, Regs
<1> HIDE DEF Item
<1>3. bus \in Seq(Item) /\ Len(bus) <= 2
  <2>1. CASE BusIdle
    BY <2>1 DEF BusIdle
  <2>2. ASSUME NEW h \in Hosts, NEW b \in Bytes, NEW r \in Regs, OneWrites(h, b, r)
        PROVE  bus \in Seq(Item) /\ Len(bus) <= 2
    BY <1>2, <2>2 DEF OneWrites
  <2>3. ASSUME NEW h \in Hosts, NEW g \in Hosts, NEW b \in Bytes, NEW c \in Bytes, NEW r \in Regs, NEW s \in Regs,
               BothWrite(h, b, r, g, c, s)
        PROVE  bus \in Seq(Item) /\ Len(bus) <= 2
    BY <1>2, <2>3 DEF BothWrite
  <2> QED
    BY <2>1, <2>2, <2>3 DEF HostSound, BusSound
<1>4. /\ {lastLeds, lastMode} \subseteq (0 .. 255) \union {NoReport}
      /\ {resX, resY} \subseteq {Low, High}
  BY <1>1 DEF HostSound, HostFlags
<1>5. HostTypeOK
  BY <1>3, <1>4 DEF HostSound, HostFlags, HostTypeOK, Item
<1>6. ModeFollows
  <2> SUFFICES ASSUME bus = <<>>, ~failed
               PROVE  LET high == lastMode # NoReport /\ HighRes(lastMode)
                      IN enabled = high /\ {resX, resY} = {IF high THEN High ELSE Low}
    BY DEF ModeFollows
  <2>1. BusIdle
    BY BusCalls DEF HostSound, BusSound, OneWrites, BothWrite
  <2>2. HighRes(lastMode) => lastMode # NoReport
    BY HostReportsAssumption DEF HighRes
  <2>3. (enabled <=> HighRes(lastMode)) /\ resX = Resolution(lastMode) /\ resY = Resolution(lastMode)
    BY <2>1 DEF BusIdle
  <2>4. enabled \in BOOLEAN
    BY DEF HostSound, HostFlags
  <2> QED
    BY <2>2, <2>3, <2>4 DEF Resolution
<1> QED
  BY <1>5, <1>6 DEF HostSound, HostReportsInv

-----------------------------------------------------------------------------
(***************************************************************************)
(* The input device: the encoders share no state, and what the hosts do to *)
(* the wheel is to turn its debounce on and off.                           *)
(***************************************************************************)
DriverNext == KbdInput \/ WheelInput \/ PadInput \/ HostOutput

EncodersSound == KbdSound /\ PadSound /\ (driver = HostSide => HostSound)

LEMMA HostIsWheel == HostNext => [Next]_vars
<1> SUFFICES ASSUME HostNext PROVE [Next]_vars
  OBVIOUS
<1>1. \A byte : HighRes(byte) \in BOOLEAN
  BY DEF HighRes
<1>2. (\E on \in BOOLEAN : DebounceSet(on)) \/ UNCHANGED vars
  BY <1>1 DEF HostNext, RegisterLedCb, RegisterFeatCb, HostWrites, OutReport, SetFeature, BusWritten, FeatDone
<1> QED
  BY <1>2 DEF Next

LEMMA EncodersKept ==
  ASSUME EncodersSound, [DriverNext]_driverVars
  PROVE  EncodersSound'
<1>1. UNCHANGED kbdvars => KbdSound'
  BY DEF kbdvars, EncodersSound, KbdSound, SixKeyCodes, KeyAt
<1>2. UNCHANGED padvars => PadSound'
  BY DEF padvars, EncodersSound, PadSound
<1>3. UNCHANGED <<vars, hostvars>> => (HostSound => HostSound')
  BY DEF vars, hostvars, ledVars, modeVars, HostSound, HostFlags, LedShowsLast, BusSound, BusIdle, OneWrites,
     BothWrite
<1>4. driver' = driver
  BY DEF DriverNext, KbdInput, WheelInput, PadInput, HostOutput, driverVars
<1>5. CASE KbdInput
  BY <1>2, <1>3, <1>4, <1>5, KbdStep DEF KbdInput, EncodersSound
<1>6. CASE WheelInput
  <2>1. driver # HostSide
    BY <1>6 DEF WheelInput, HidMouse, HostSide
  <2> QED
    BY <1>1, <1>2, <1>4, <1>6, <2>1 DEF WheelInput, EncodersSound
<1>7. CASE PadInput
  BY <1>1, <1>3, <1>4, <1>7, PadStep DEF PadInput, EncodersSound
<1>8. CASE HostOutput
  BY <1>1, <1>2, <1>4, <1>8, HostStep DEF HostOutput, EncodersSound
<1>9. CASE UNCHANGED driverVars
  BY <1>1, <1>2, <1>3, <1>4, <1>9 DEF driverVars, EncodersSound
<1> QED
  BY <1>5, <1>6, <1>7, <1>8, <1>9 DEF DriverNext

(***************************************************************************)
(* The inductive invariant of keyboard, gamepad and host writes.           *)
(***************************************************************************)
THEOREM EncodersStaySound == DriverSpec => []EncodersSound
<1>1. DriverInit => EncodersSound
  BY KbdSoundInit, PadSoundInit, HostSoundInit DEF DriverInit, EncodersSound
<1>2. EncodersSound /\ [DriverNext]_driverVars => EncodersSound'
  BY EncodersKept
<1>3. DriverSpec => DriverInit /\ [][DriverNext]_driverVars
  BY DEF DriverSpec, DriverNext
<1> QED
  BY <1>1, <1>2, <1>3, PTL

(***************************************************************************)
(* hid_kbd.c and hid_gamepad.c show the host exactly what is held: no key  *)
(* is stuck or missing, also on the way down from a rollover, whatever the *)
(* number of keys and places, and the hat points where the directions do.  *)
(***************************************************************************)
THEOREM HeldIsShown == DriverSpec => []ReportsShowHeld
<1>1. EncodersSound => ReportsShowHeld
  BY KbdSoundMeans, PadSoundMeans DEF EncodersSound, ReportsShowHeld
<1> QED
  BY <1>1, EncodersStaySound, PTL

(***************************************************************************)
(* LED, sensor and debounce end up in the mode of the report that came     *)
(* last, however the writes of the two hosts overlap on the sensor's bus.  *)
(***************************************************************************)
THEOREM LastWriterObeyed == DriverSpec => []HostsObeyed
<1>1. EncodersSound => HostsObeyed
  BY HostSoundMeans DEF EncodersSound, HostsObeyed
<1> QED
  BY <1>1, EncodersStaySound, PTL

(***************************************************************************)
(* In the device, too, the wheel does what WheelDebounce describes alone.  *)
(***************************************************************************)
THEOREM WheelInDevice == DriverSpec => Spec
<1>1. DriverInit => Init
  BY DEF DriverInit
<1>2. [DriverNext]_driverVars => [Next]_vars
  BY HostIsWheel DEF DriverNext, KbdInput, WheelInput, PadInput, HostOutput, driverVars
<1>3. DriverSpec => DriverInit /\ [][DriverNext]_driverVars
  BY DEF DriverSpec, DriverNext
<1> QED
  BY <1>1, <1>2, <1>3, PTL DEF Spec

(***************************************************************************)
(* The debounce neither loses nor repeats motion and lets only real turns  *)
(* through, whenever the hosts turn it on and off.                         *)
(***************************************************************************)
THEOREM DeviceDebounces == DriverSpec => []DebounceInv /\ TurnsNeedThreshold
BY WheelInDevice, DebounceSound, NoJitter, PTL
=============================================================================

------------------------------ MODULE KbdReport -----------------------------
(***************************************************************************)
(* The keyboard encoder (hid_kbd.c): key events become the six-key or the  *)
(* N-key report, and the media report.  HidReports has the same encoder    *)
(* without the formats.                                                    *)
(***************************************************************************)
EXTENDS Integers, FiniteSets

CONSTANTS
  Codes,     \* HID codes of the ordinary keys
  Modifiers, \* the modifier keys
  MediaKeys, \* the keys with a media code, which stands for the key
  Refused,   \* the keys whose HID code has no bit, from 128 up
  CodesSize, \* HID_KBD_KEYS_CODES_SIZE
  Rollover,  \* HID_ROLLOVER_CODE
  NoMedia    \* the media code of no key

ASSUME KbdAssumption ==
  /\ Codes \subseteq Nat \ {0} /\ IsFiniteSet(Codes)
  /\ Refused \intersect Codes = {}
  /\ CodesSize \in Nat \ {0}
  /\ Rollover \in Nat \ (Codes \union {0})

VARIABLES
  nkro,      \* the device has no report_data: the N-key format
  bits,      \* report_data->bits, or the bits of the N-key report
  modifiers, \* report->modifiers
  codes,     \* report->codes of the six-key report
  mediaCode, \* media_code, as copied to the media report
  heldKeys   \* the keys that are down (history)

kbdvars == <<nkro, bits, modifiers, codes, mediaCode, heldKeys>>

Keys == Codes \union Modifiers \union MediaKeys \union Refused

KbdInit ==
  /\ nkro \in BOOLEAN
  /\ bits = {} /\ modifiers = {}
  /\ codes = [i \in 1 .. CodesSize |-> 0]
  /\ mediaCode = NoMedia
  /\ heldKeys = {}

\* A bit set of a report, with the bit of the event written.
BitWritten(set, k, down) == IF down THEN set \union {k} ELSE set \ {k}

\* The i-th held key of the scan, which goes over all the bits in their order.
KeyAt(i, keys) == CHOOSE c \in keys : Cardinality({d \in keys : d <= c}) = i

\* Slip: the places after the last held key are not cleared.
SixKeyCodesUncleared(keys) ==
  [i \in 1 .. CodesSize |->
     IF Cardinality(keys) > CodesSize THEN Rollover
     ELSE IF i <= Cardinality(keys) THEN KeyAt(i, keys) ELSE codes[i]]

\* hid_kbd_input_process: the codes of the held keys, or the rollover pattern.
SixKeyCodes(keys) ==
  [i \in 1 .. CodesSize |->
     IF Cardinality(keys) > CodesSize THEN Rollover
     ELSE IF i <= Cardinality(keys) THEN KeyAt(i, keys) ELSE 0]

\* hid_kbd_input_process_media: one code, cleared by the release of any key
\* that has one.
MediaCode(k, down) ==
  IF k \in MediaKeys THEN (IF down THEN k ELSE NoMedia) ELSE mediaCode

\* hid_kbd_cb: a key goes down, or up.  For a refused key hid_kbd_update_bits
\* returns -EINVAL, and both encoders return that in place of a size: nothing
\* but a modifier was written.
KbdEvent(k, down) ==
  /\ down # (k \in heldKeys)
  /\ heldKeys' = BitWritten(heldKeys, k, down)
  /\ modifiers' = IF k \in Modifiers THEN BitWritten(modifiers, k, down) ELSE modifiers
  /\ bits' = IF k \in Codes THEN BitWritten(bits, k, down) ELSE bits
  /\ codes' = IF nkro \/ k \in Refused THEN codes ELSE SixKeyCodes(bits')
  /\ mediaCode' = MediaCode(k, down)
  /\ UNCHANGED nkro

KbdNext == \E k \in Keys, down \in BOOLEAN : KbdEvent(k, down)
-----------------------------------------------------------------------------
KbdTypeOK ==
  /\ nkro \in BOOLEAN
  /\ bits \subseteq Codes /\ modifiers \subseteq Modifiers
  /\ codes \in [1 .. CodesSize -> Codes \union {0, Rollover}]
  /\ mediaCode \in MediaKeys \union {NoMedia}

\* The keys the host takes to be down, or that there are too many of them.
ShownKeys == {codes[i] : i \in 1 .. CodesSize} \ {0}

(***************************************************************************)
(* The host sees exactly the held keys, also on the way down from more     *)
(* keys than the six-key report has places for: none is missing, none is   *)
(* stuck, none takes two places, and modifiers show through a rollover.    *)
(***************************************************************************)
ReportShowsHeld ==
  /\ modifiers = heldKeys \intersect Modifiers
  /\ nkro => bits = heldKeys \intersect Codes
  /\ ~nkro => IF Cardinality(heldKeys \intersect Codes) > CodesSize
              THEN ShownKeys = {Rollover}
              ELSE /\ ShownKeys = heldKeys \intersect Codes
                   /\ \A i, j \in 1 .. CodesSize : i # j /\ codes[i] # 0 => codes[i] # codes[j]

(***************************************************************************)
(* No media key is stuck: the one slot of the media report shows a key     *)
(* that is held, or none.  It may show none while one is held, after the   *)
(* release of another.                                                     *)
(***************************************************************************)
MediaShownHeld == mediaCode \in heldKeys \union {NoMedia}

(***************************************************************************)
(* Both reports of the keyboard show the keys as they are held.            *)
(***************************************************************************)
KbdInv == KbdTypeOK /\ ReportShowsHeld /\ MediaShownHeld
=============================================================================

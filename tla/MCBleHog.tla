------------------------------ MODULE MCBleHog ------------------------------
(***************************************************************************)
(* A Bluetooth device with a gamepad and a keyboard report, as on the      *)
(* zalpakka board.                                                         *)
(***************************************************************************)
EXTENDS BleHog

CONSTANTS bleout, gamepad, kbd

MCOutputs == <<bleout>>

MCReports == {<<gamepad, 1>>, <<kbd, 3>>}

MCState == {<<kbd, 3>>}
=============================================================================

---------------------------- MODULE MCHidSystem ----------------------------
(***************************************************************************)
(* One keyboard report, both outputs.                                      *)
(***************************************************************************)
EXTENDS HidSystem

CONSTANTS bleout, usbout, kbd

MCOutputs == <<bleout, usbout>>

MCReports == {<<kbd, 2>>}
=============================================================================

---------------------------- MODULE MCHidReports ----------------------------
(***************************************************************************)
(* A hid device with a keyboard report and a mouse report and two outputs, *)
(* Bluetooth first, as on the ploopy board.                                *)
(***************************************************************************)
EXTENDS HidDelivery

CONSTANTS ble, usb, kbd, mouse

MCOutputs == <<ble, usb>>

MCReports == {<<kbd, 2>>, <<mouse, 1>>}

MCRelReports == {<<mouse, 1>>}

MCDeltas == {-1, 1}
=============================================================================

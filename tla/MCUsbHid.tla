------------------------------ MODULE MCUsbHid ------------------------------
(***************************************************************************)
(* A wired keyboard with a boot report and a media report, as on the       *)
(* darfon and wasd_kbd boards.                                             *)
(***************************************************************************)
EXTENDS UsbHid

CONSTANTS usbout, kbd

MCOutputs == <<usbout>>

Kbd == <<kbd, 1>>

Media == <<kbd, 2>>

MCReports == {Kbd, Media}
=============================================================================

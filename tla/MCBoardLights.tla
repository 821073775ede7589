---------------------------- MODULE MCBoardLights ----------------------------
(***************************************************************************)
(* A USB and Bluetooth board with two LEDs, and a Bluetooth board with one.*)
(***************************************************************************)
EXTENDS BoardLights

TwoLeds == [leds |-> {Status, Activity},
            codes |-> {Input, BtConnected, Usb, Charging, Full, Disconnected}]

OneLed == [leds |-> {Status},
           codes |-> {Boot, Input, BtConnected, BtDisconnected, Charging, Full, Disconnected}]

MCBoards == {TwoLeds, OneLed}

MCCallers == {"main", "bluetooth", "workqueue"}
=============================================================================

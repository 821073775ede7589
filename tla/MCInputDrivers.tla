--------------------------- MODULE MCInputDrivers ---------------------------
EXTENDS InputDrivers

CONSTANTS shift, mute, volumeup

MCDrivers == {HidKbd, HidMouse, HidGamepad, HostSide}

PadOnly == {HidGamepad}

MCCodes == {4, 5, 7, 9}
MCModifiers == {shift}
MCMediaKeys == {mute, volumeup}
MCRefused == {volumeup}

MCButtons == {"south", "east"}
MCAxisValues == {0, 127, 255, 256}

\* Steps that reach, just miss and overshoot the threshold, in both directions.
MCDeltas == {-46, -44, -1, 1, 44, 46}
=============================================================================

--------------------------- MODULE MCInputSources ---------------------------
(***************************************************************************)
(* The instance for TLC: one button a group; angles below, within and      *)
(* above the travel; charge times on both sides of the threshold; the ends *)
(* of a 12-bit converter.                                                  *)
(***************************************************************************)
EXTENDS InputSources

CONSTANTS up, left
MCGroup1 == {up}
MCGroup2 == {left}

MCAngles == {<<70, 0>>, <<80, 500000>>, <<105, 900000>>, <<110, 0>>}

MCCharges == {3, 10, 11}
MCRotations == {-5, -1, 3}

MCRawValues == {0, 4095}
=============================================================================

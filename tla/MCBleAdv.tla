------------------------------ MODULE MCBleAdv ------------------------------
(***************************************************************************)
(* Two hosts, and the options of ds2_retrofit, of kbd_matrix and big_stick,*)
(* and directed advertising without disconnecting, which no board uses.    *)
(***************************************************************************)
EXTENDS BleAdv

CONSTANTS h1, h2

MCPeers == {h1, h2}

Build(paired, disconnect, empty, directed) ==
  [maxPaired |-> paired, disconnectBonded |-> disconnect,
   emptyAdBonded |-> empty, directedAd |-> directed]

MCBuilds == {Build(2, TRUE, FALSE, FALSE), Build(1, TRUE, TRUE, FALSE),
             Build(1, FALSE, TRUE, TRUE)}

MCChargerStates == {Disconnected, Charging, Full}
=============================================================================

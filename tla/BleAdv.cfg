SPECIFICATION FairSpec
CONSTANTS
  AutoPoweroffTime = 3
  Disconnected = Disconnected
  Charging = Charging
  Full = Full
  ChargerStates <- MCChargerStates
  ReadErrors = TRUE
  WdtWindow = 5
  h1 = h1
  h2 = h2
  Peers <- MCPeers
  NoPeer = NoPeer
  Builds <- MCBuilds
  UnpairTimeout = 2
INVARIANTS PowerInv AdvInv
PROPERTIES CountdownsWhole AlwaysReachable SwitchesOff
CHECK_DEADLOCK FALSE

CONSTANTS
  bleout = bleout
  gamepad = gamepad
  kbd = kbd
  HostReads = TRUE
  NoReport = NoReport
  NoOutput = NoOutput
  Outputs <- MCOutputs
  Reports <- MCReports
  RelReports = {}
  StateReports <- MCState
  Keys = {a}
  Deltas = {}
  RelMin = 0
  RelMax = 0
  HogOut = bleout
  NotifyMayFail = TRUE
SPECIFICATION HogOnlySpec
INVARIANTS HogInv HogNoSilentLoss HogNoLostWakeup

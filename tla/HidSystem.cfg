CONSTANTS
  bleout = bleout
  usbout = usbout
  kbd = kbd
  HostReads = FALSE
  NoReport = NoReport
  NoOutput = NoOutput
  Outputs <- MCOutputs
  Reports <- MCReports
  RelReports = {}
  StateReports = {}
  Keys = {a}
  Deltas = {}
  RelMin = 0
  RelMax = 0
  HogOut = bleout
  UsbOut = usbout
  BootReport = NoReport
  NotifyMayFail = TRUE
  SubmitMayFail = TRUE
SPECIFICATION SystemFairSpec
INVARIANT NoCrossLoss
PROPERTIES HostsCatchUp DriversPrivate

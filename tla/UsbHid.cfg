CONSTANTS
  usbout = usbout
  kbd = kbd
  HostReads = TRUE
  NoReport = NoReport
  NoOutput = NoOutput
  Outputs <- MCOutputs
  Reports <- MCReports
  RelReports = {}
  StateReports <- MCReports
  Keys = {a}
  Deltas = {}
  RelMin = 0
  RelMax = 0
  UsbOut = usbout
  BootReport <- Kbd
  SubmitMayFail = TRUE
SPECIFICATION UsbOnlySpec
INVARIANTS UsbInv UsbNoSilentLoss UsbNoLostWakeup

CONSTANTS
  ble = ble
  usb = usb
  kbd = kbd
  mouse = mouse
  HostReads = TRUE
  NoReport = NoReport
  NoOutput = NoOutput
  Outputs <- MCOutputs
  Reports <- MCReports
  RelReports <- MCRelReports
  StateReports = {}
  Keys = {a}
  Deltas <- MCDeltas
  RelMin = 0
  RelMax = 1
SPECIFICATION DSpec
INVARIANTS CacheInv CacheNeverFull MotionConserved NothingMissed
PROPERTIES OutputsAreMailboxes

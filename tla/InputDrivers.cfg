SPECIFICATION DriverSpec
CONSTANTS
  shift = shift
  mute = mute
  volumeup = volumeup
  NoMedia = NoMedia
  Codes <- MCCodes
  Modifiers <- MCModifiers
  MediaKeys <- MCMediaKeys
  Refused <- MCRefused
  CodesSize = 2
  Rollover = 1
  Buttons <- MCButtons
  AxisValues <- MCAxisValues
  Usb = Usb
  Ble = Ble
  OutputId = OutputId
  FeatureId = FeatureId
  NoReport = NoReport
  WheelTh = 45
  Deltas <- MCDeltas
  Drivers <- MCDrivers
INVARIANTS ReportsShowHeld DebounceInv HostsObeyed
PROPERTIES TurnsNeedThreshold

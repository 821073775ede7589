SPECIFICATION LightsSpec
CONSTANTS
  Status = Status
  Activity = Activity
  Boot = Boot
  Input = Input
  BtConnected = BtConnected
  BtDisconnected = BtDisconnected
  BtUnpaired = BtUnpaired
  Usb = Usb
  Poweroff = Poweroff
  Charging = Charging
  Full = Full
  Disconnected = Disconnected
  QueueSize = 3
  Boards <- MCBoards
  Pixels = 2
  Level = 8
  Cycles = 5
  Callers <- MCCallers
INVARIANTS BlinkerInv EffectsInv
PROPERTY StripGoesDark

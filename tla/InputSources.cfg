SPECIFICATION SourcesSpec
CONSTANTS
  ForceAwakeTimeout = 30
  up = up
  left = left
  Group1 <- MCGroup1
  Group2 <- MCGroup2
  HoldoffTime = 2
  MaxLate = 2
  Wrap = 6
  Angles <- MCAngles
  Charges <- MCCharges
  Rotations <- MCRotations
  InputQueueSize = 2
  Channels = 2
  RawValues <- MCRawValues
INVARIANTS SensorInv ScanInv RotationKept CalInv
PROPERTIES ExpiresOnlyIdle Rests ReportsApart StickFollows TouchFollows

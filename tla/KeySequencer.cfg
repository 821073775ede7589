SPECIFICATION FairSpec
CONSTANTS
  SeqLeft = SeqLeft
  SeqRight = SeqRight
  SeqP5 = SeqP5
  SeqX = SeqX
  SeqGraveU = SeqGraveU
  SeqQueueSize = 2
  InputQueueSize = 2
  WheelValues <- MCWheelValues
  Presses <- MCPresses
INVARIANT SequencerInv
PROPERTIES KeysReleased

SPECIFICATION Spec
CONSTANTS
  HasBle = TRUE
  MaxMsgs = 5
INVARIANT RefInv

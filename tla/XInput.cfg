SPECIFICATION Spec
CONSTANTS
  Buttons <- MCButtons
  BufCount = 3
  CtrlCount = 2
INVARIANT XInputInv
PROPERTY OutRearmed

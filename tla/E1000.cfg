SPECIFICATION Spec
CONSTANTS
  NRx = 4
  NTx = 3
  MaxRx = 7
  MaxTx = 6
CHECK_DEADLOCK FALSE
INVARIANTS
  RingsCorrect
  FrameHasWakeup
PROPERTIES
  FramesHandedOver
  FramesSent

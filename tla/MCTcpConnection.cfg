\* A connection that was destroyed does nothing any more.
SPECIFICATION Spec
CHECK_DEADLOCK FALSE
CONSTANTS
  MsgLen = 2
  highWaterMark_ = 3
  Settings <- MCSettings
INVARIANTS
  AssertsHold
  BytesInOrder
  UpDownOnce
PROPERTIES
  ClosingEnds

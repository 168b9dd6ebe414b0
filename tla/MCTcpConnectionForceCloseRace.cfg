SPECIFICATION Spec
CHECK_DEADLOCK FALSE
CONSTANTS
  MsgLen = 2
  highWaterMark_ = 2
  Settings <- RaceSettings
INVARIANT FoundInMap

CONSTANTS
  wakeupChannel_ = wakeupChannel_
  NULL = NULL
  Owner = t1
  Thread = {t1}
  Conn = {c1, c2}
  Functor <- ConnFunctors
  Channel = {}
SPECIFICATION EndSpec
CHECK_DEADLOCK FALSE
INVARIANT DtorFindsDisconnected

CONSTANTS
  Parts = {"EventLoopThread"}
  t1 = t1
  t2 = t2
  f1 = f1
  f2 = f2
  f3 = f3
  ch1 = ch1
  wakeupChannel_ = wakeupChannel_
  NULL = NULL
  Owner = t1
  Thread <- MCThread
  Functor <- MCFunctor
  Channel <- MCChannel
  a1 = a1
  a2 = a2
  Free = Free
  Interval = {0, 1}
  MaxSeq = 2
  MaxTime = 3
  MaxPending = 2
SPECIFICATION MCSpec
PROPERTY DtorEnds

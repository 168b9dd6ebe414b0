\* A pool stays stopped, and nobody has to append lines.
SPECIFICATION MCSpec
CHECK_DEADLOCK FALSE
CONSTANTS
  w1 = w1
  w2 = w2
  c1 = c1
  c2 = c2
  MaxTasks = 5
  maxQueueSize_ = 2
  MaxLines = 10
  BufferSize = 3
  MaxBuffers = 3
  NULL = NULL
  MaxThreads = 2
  p1 = p1
  p2 = p2
  p3 = p3
  q1 = q1
  q2 = q2
  q3 = q3
  x = x
  Unbounded = Unbounded
  Capacity = 2
  Producer <- MCProducer
  Consumer <- MCConsumer
  Item <- MCItem
  MaxObjects = 2
INVARIANTS
  NoStuckConsumer
  NoStuckProducer
  AssertsHold
  NoStuckThread
  OnceInOrder
  NoDangling
PROPERTIES
  WaitsEnd

\* Who was destroyed does nothing any more, users have said what they had to say, and calls come to an end.
SPECIFICATION Spec
CHECK_DEADLOCK FALSE
CONSTANTS
  Parts = {"TcpServer", "TcpClient", "RpcChannel", "Simple", "ZlibStream"}
  Peers = {p1, p2, p3}
  Base = base
  Threads = {base, other}
  MaxLoops = 3
  Limit = 3
  MaxOthers = 2
  retry_ = TRUE
  kInitRetryDelayMs = 1
  kMaxRetryDelayMs = 3
  LoopCalls = {"connect", "disconnect", "stop"}
  ThreadCalls = {"connect", "disconnect", "stop"}
  MaxConnects = 2
  MaxCalls = 3
  MaxPeer = 3
  c1 = c1
  c2 = c2
  c3 = c3
  Chars = 2
  Columns = 1
  TimeSize = 3
  Times = {7, 123}
  Window = 4
  MaxSent = 3
  MaxMessages = 3
  FirstSize = 1
  LastSize = 4
  MaxBytes = 8
INVARIANTS
  AssertsHold
  NoDescriptorLeaked
  DoesAsTold
  OwnAnswerOnce
  ExamplesRight
  CompressedInOrder
PROPERTIES
  Served

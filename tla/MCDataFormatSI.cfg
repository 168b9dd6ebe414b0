CONSTANTS
  Byte = {0, 1}
  Zero = 0
  CR = 0
  LF = 1
  kCheapPrepend = 2
  kInitialSize = 2
  ExtraSize = 2
  IntSizes = {1, 2}
  MaxReadable = 3
  MaxData = 2
  Parts = {"LogStream"}
  rollSize_ = 2
  flushInterval_ = 1
  checkEveryN_ = 2
  kRollPerSeconds_ = 4
  StdioSize = 3
  MaxFileLines = 4
  MaxTime = 4
  MaxFaults = 1
  Threads = {t1, t2}
  LogZones = {UTC, CST}
  UTC = UTC
  Levels = {2, 5}
  FATAL = 5
  kSmallBuffer = 14
  kMaxNumericSize = 4
  NumberLen = 2
  Sinks = {out, async}
  Stdout = out
  MaxSecond = 2
  MaxLogLines = 2
  MaxSets = 1
  Units = {5}
  kBufferSize = 2
  MaxSizes = {0, 1, 3, 4, 5}
  MaxLength = 5
  MaxWrites = 2
  MaxLines = 5
  kHeaderLen = 2
  kChecksumLen = 1
  kMaxMessageLen = 4
  tag_ = "tag"
  TagLen = 1
  MaxFrames = 2
  Letters = {"p", "t"}
  Tids = {1, 2, 3}
  MaxPath = 5
  MaxAdds = 2
  MaxMoves = 1
SPECIFICATION MCSpec
CHECK_DEADLOCK FALSE
INVARIANT AtMost5

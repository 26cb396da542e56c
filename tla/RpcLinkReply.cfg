SPECIFICATION RpcSpec
CONSTANTS
  IOThreads = {t1, t2}
  Handles = {h1, h2}
  NoSocket = nosock
  MaxTimers = 2
  MaxDrops = 1
  MaxBuf = 1
  MaxQueue = 1
  Overtaking = TRUE
  Hurried = FALSE
PROPERTIES ReplyExpected
CHECK_DEADLOCK FALSE

SPECIFICATION PartsSpec
CONSTANTS
  NBufs = 9
  MaxMsgs = 5
  Objects = {a, b, c}
  NoObject = none
  TimeCD = 2
  TimeAll = 4
  Elapses = {1, 3}
  MaxLate = 4
  Heedless = FALSE
  MaxEntries = 6
INVARIANTS BuffersApart BuffersThere
PROPERTIES ImplementsFifoLog FlushedInTime StopReturns RightCalls TakeTurns Served
CHECK_DEADLOCK FALSE

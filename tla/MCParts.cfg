SPECIFICATION PartsSpec
CONSTANTS
  CheapPrepend = 2
  InitialSize = 2
  MaxSize = 6
  MaxLen = 3
  ByteMod = 3
  RecvSize = 8
  BodySizes = {1, 2}
  MaxMsgs = 4
  MaxLinks = 2
  AnyCut = FALSE
  OpCodes = {1, 2}
  Bodies <- MCBodies
  MaxCalls = 3
  Things = {o1, o2}
  Holders = {h1, h2}
  Watchers = {w1}
  NoThing = nil
  Funcs = {"main", "reload"}
  Tables = {"path"}
  MaxLoads = 3
  Keys = {"k1", "k2", "flag"}
  MaxPairs = 2
  Timers = {1, 2}
  Size <- MCSize
  Tick = 2
  Word = 16
  Delays = {1, 7, 12}
  Periods <- MCPeriods
  Frames = {1, 5}
  Skews = {0, 1}
  MaxTime = 16
  IndexNum = 1
  MaxCnt = 4
  AutoMod = 3
  VOID = void
  Garbage = garbage
  MaxLevel = 2
  MaxLvCnt = 1
  MaxChunks = 2
  PoolThreads = {pt1, pt2}
  PageCnt = 2
  MaxPages = 3
  NULL = null
CONSTRAINT FewReads
INVARIANTS BufferHolds LinkInOrder AnswersMatch OwnersAgree LuaAsFound
           TimersPlaced NotOverdue FindsOwn OneBlock CellsOnce
CHECK_DEADLOCK FALSE

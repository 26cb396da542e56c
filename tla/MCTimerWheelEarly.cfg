SPECIFICATION WheelSpec
CONSTANTS
  Timers = {1, 2}
  Size <- MCSize
  Tick = 2
  Word = 16
  Delays = {1, 4, 7, 12}
  Periods <- MCPeriods
  Frames = {1, 2, 5}
  Skews = {0, 1}
  MaxTime = 22
INVARIANTS NotEarly

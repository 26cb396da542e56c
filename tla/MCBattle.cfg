SPECIFICATION PartsSpec
CONSTANTS
  p1 = p1  p2 = p2  p3 = p3  s1 = s1  s2 = s2  s3 = s3
  g1 = g1  g2 = g2  g3 = g3  c1 = c1  c2 = c2  c3 = c3
  NoPid = NoPid  NoCell = NoCell  NoSlot = NoSlot
  TeamCnt = 2  TeamMod = 3
  Pids = {p1, p2}
  Slots = {s1, s2}
  Requests <- MCRequests
  MaxRooms = 1
  MaxTimers = 1
  RoomPlayerMin = 1
  RoomPlayerMax = 4
  Guids = {g1, g2, g3}
  Owner <- TwoProcesses
  Cells = {c1, c2}
  QueueMax = 2
INVARIANTS AgentsAccounted OneLinkPerPlayer
PROPERTIES LoginEnters
CHECK_DEADLOCK FALSE

SPECIFICATION FairSpec
CONSTANTS
  p1 = p1  p2 = p2  p3 = p3  s1 = s1  s2 = s2  s3 = s3
  NoPid = NoPid
  Pids = {p1, p2}
  Slots = {s1, s2}
  Requests <- MCPairRequests
  MaxRooms = 2
  MaxTimers = 2
  TeamCnt = 2
  TeamMod = 3
  RoomPlayerMin = 2
  RoomPlayerMax = 4
PROPERTIES ImplementsDirectory TimeoutReaps

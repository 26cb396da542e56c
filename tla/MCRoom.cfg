SPECIFICATION Spec
CONSTANTS
  p1 = p1  p2 = p2  p3 = p3  s1 = s1  s2 = s2  s3 = s3
  NoPid = NoPid
  Pids <- MCPids
  Slots <- MCSlots
  Requests <- MCRequests
  MaxRooms = 1
  MaxTimers = 1
  TeamCnt = 2
  TeamMod = 3
  RoomPlayerMin = 1
  RoomPlayerMax = 4
SYMMETRY Symmetry
INVARIANTS TypeOK MembersAgree WaitsOnce ViewsAgree NobodyLost WaitTeamFits

CONSTANTS
  MaxLink = 2
  PreLink = 1
  PreAccept = 1
  Workers = {w1, w2}
  Assist = assist
  Logic = logic
  Clients = {c1, c2}
  NoClient = none
  Handles = {h1, h2}
  NoSocket = nosock
  AcceptExFails = FALSE
  MaxPeers = 1
  MaxUnits = 2
SPECIFICATION ServSpec
SYMMETRY Symm
CONSTRAINT FewUnits
INVARIANTS CountersAgree OwnPlayer OverlappedFree SentInOrder

SPECIFICATION LinkSpec
CONSTANTS
  CheapPrepend = 2
  RecvSize = 8
  BodySizes = {1, 2}
  MaxMsgs = 4
  MaxLinks = 1
  AnyCut = TRUE
INVARIANT UpInOrder
CHECK_DEADLOCK FALSE

CONSTANTS
  Request <- Requests
  Data <- DataBytes
  TextSize <- TextSizes
  BoundarySize = 2
  BufferSize = 42
  MaxPieces = 3
SPECIFICATION ParserSpec
INVARIANTS
  GetAsSent
  PostAsSent
  NeverWaitsInVain
\* A connection may be closed, and its client may send no more.
CHECK_DEADLOCK FALSE

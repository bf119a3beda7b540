CONSTANTS
  Conn = {c1, c2, c3}
  User = {u1, u2}
  Sub = sub
  Unset = unset
  NoConn = noconn
  Kind = {u1, u2, "move"}
  MaxRequests = 3
SYMMETRY Interchangeable
INIT Init
NEXT Next
INVARIANTS
  SyncReachesAll
  SharedByTurns
  IntactByTurns
  AbortedByOverlap
\* The server ends when the assertion fails.
CHECK_DEADLOCK FALSE

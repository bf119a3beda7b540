CONSTANTS
  u = u
  v = v
  User = {u, v}
  Conn = {c1, c2}
  Up = Up
  Here = Here
  Name <- Names
  NoConn = NoConn
  Nowhere = Nowhere
  RootLength = 9
  Path <- Paths
  MaxRequests = 2
  Tree <- Trees
  StartDir <- Starts
SPECIFICATION Spec
SYMMETRY Symmetry
INVARIANT RootIsShown
CHECK_DEADLOCK FALSE

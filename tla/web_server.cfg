CONSTANTS
  Fd = {1, 2}
  Worker = {w1, w2}
  Main = main
  Session = {a, b}
  QueueMax = 1
  ConnectionMax = 2
  UnsignedRange = 8
  MaxAccept = 3
SYMMETRY Interchangeable
INIT Init
NEXT Next
INVARIANTS
  OneOwner
  TokensMatch
  FaultExplained
  SessionsExact
  CountExact
\* Next stops for good after a fault, and when every accept has been used.
CHECK_DEADLOCK FALSE

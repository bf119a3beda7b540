CONSTANTS
  Fd = {1, 2}
  Worker = {w1, w2}
  Main = main
  Session = {a}
  QueueMax = 1
  ConnectionMax = 2
  UnsignedRange = 4
  MaxAccept = 2
SPECIFICATION Spec
PROPERTIES
  AllEnd
  AllServed
\* Next stops for good after a fault, and when every accept has been used.
CHECK_DEADLOCK FALSE

CONSTANTS
  Writer = {w}
  Log = log
  MaxLines = 2
  Capacity = 2
  MaxWrites = 7
  MaxDay = 2
  MaxRestarts = 1
SPECIFICATION Spec
INVARIANTS
  EachLineOnce
  InOrder
  OverfullByQueue
PROPERTY
  TakenIsWritten
\* Writing ends with the last line.
CHECK_DEADLOCK FALSE

CONSTANTS
  Timer = {t1, t2, t3, t4}
  Worker = {w1, w2}
  Null = null
  Lease = 1
  MaxTime = 2
SYMMETRY Interchangeable
SPECIFICATION Spec
INVARIANTS
  TypeOK
  LinksAgree
  NoTimerLost
  AscendingUnlessRaced
  FaultExplained
PROPERTY TickComplete
\* Next stops for good after a fault, and when every timer has been used.
CHECK_DEADLOCK FALSE

CONSTANTS
  Item = {x, y}
  Thread = {t1, t2, t3}
  Capacity = 3
  Nobody = nobody
SYMMETRY Interchangeable
SPECIFICATION Spec
INVARIANTS
  IndicesAgree
  NoneSleepsOverItems
PROPERTY
  ImplementsFifo
\* front and back stop everything.
CHECK_DEADLOCK FALSE

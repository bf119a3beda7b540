CONSTANTS
  Worker = {w1, w2, w3}
  MaxWork = 4
SPECIFICATION FairPoolSpec
INVARIANT OnlyMissedSleep
PROPERTIES ServedUnlessAllMissed
CHECK_DEADLOCK FALSE

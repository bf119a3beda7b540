CONSTANTS
  User = {u1, u2}
  Password = {p1}
  Unfit = {u2}
  Worker = {w1, w2, w3}
  Connection = {c1, c2, c3}
  Nobody = Nobody
  None = None
SPECIFICATION Spec
SYMMETRY Symmetry
VIEW Recent
INVARIANTS PoolExact MkdirSucceeds HomeOrCut
CHECK_DEADLOCK FALSE

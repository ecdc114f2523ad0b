CONSTANTS
  t1 = t1
  t2 = t2
  u = u
  Traces = {t1, u}
  Unmeasured = {u}
  Closers = {c1}
  Reopeners = {x1}
  Ingests = {i1}
  Sweeps = {s1}
  NumPages = 1
  PageOf <- MCPageOf
SPECIFICATION Spec
INVARIANT OnlyStragglersFlagged
CHECK_DEADLOCK FALSE

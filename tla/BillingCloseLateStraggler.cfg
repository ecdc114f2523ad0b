CONSTANTS
  t1 = t1
  t2 = t2
  u = u
  Traces = {t1, t2}
  Unmeasured = {}
  Closers = {c1}
  Reopeners = {x1}
  Ingests = {i1, i2}
  Sweeps = {s1}
  NumPages = 1
  PageOf <- MCPageOf
SPECIFICATION Spec
INVARIANT ClosedDaysSumToBill
CHECK_DEADLOCK FALSE

CONSTANTS
  t1 = t1
  t2 = t2
  u = u
  Traces = {t1}
  Unmeasured = {}
  Closers = {c1, c2}
  Reopeners = {x1}
  Ingests = {i1}
  Sweeps = {s1}
  NumPages = 1
  PageOf <- MCPageOf
SPECIFICATION Spec
INVARIANT BilledIsResolved
CHECK_DEADLOCK FALSE

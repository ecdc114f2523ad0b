CONSTANTS
  t1 = t1
  t2 = t2
  u = u
  Traces = {t1, t2, u}
  Unmeasured = {u}
  Closers = {c1, c2}
  Reopeners = {x1}
  Ingests = {i1, i2}
  Sweeps = {s1}
  NumPages = 2
  PageOf <- MCPageOf
SPECIFICATION Spec
SYMMETRY CallSymmetry
INVARIANTS
  TypeOK
  CloseBillsWhatItSaw
  AdjudicatedByScan
  LateIsFlagged
  ResolvedOnceBilled
  AbsorptionNamesItsBill
  RecloseKeepsBilled
CHECK_DEADLOCK FALSE

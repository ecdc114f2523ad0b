CONSTANTS
  r1 = r1
  r2 = r2
  Attempts = {a1, a2}
  Reopens = {x1}
  Records = {r1, r2}
  NumPages = 2
  PageOf <- MCPageOf
SPECIFICATION LossySpec
INVARIANT PublishedIntact
CHECK_DEADLOCK FALSE

CONSTANTS
  r1 = r1
  r2 = r2
  Attempts = {a1, a2, a3}
  Reopens = {x1, x2}
  Records = {r1, r2}
  NumPages = 2
  PageOf <- MCPageOf
SPECIFICATION Spec
SYMMETRY CallSymmetry
INVARIANTS
  TypeOK
  PublishedIntact
  VersionsGapless
  AuditTellsLifecycle
  NoLeftovers
  NoWedge
PROPERTY ImplementsLedger
CHECK_DEADLOCK FALSE

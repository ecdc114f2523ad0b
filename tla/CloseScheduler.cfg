CONSTANTS
  LastMonth = 3
  OverAtStart = 2
  Runbooks = {r1}
  MaxReopens = 1
  MaxArrivals = 1
  MaxFailures = 1
SPECIFICATION FairSpec
INVARIANTS
  TypeOK
  OldestFirst
PROPERTIES
  HoldIsRespected
  ImplementsCalendar
  EveryDueMonthCloses
CHECK_DEADLOCK FALSE

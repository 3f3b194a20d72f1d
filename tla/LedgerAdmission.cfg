SPECIFICATION FairSpec
CONSTANTS
  MonthStart <- ShortMonths
  Events = {e1, e2}
  OldRuns = {e2}
  Payloads = {b1, b2}
  Requests = {q1, q2}
  RunLimit = 2
  Ceilings = {1}
  NoLimit = NoLimit
  NoRow = NoRow
  NoRun = NoRun
  Passes = {p1}
  AnchorDays = {2}
  Start = 3
  MaxDay = 3
  Retention = 1
  ScanLimit = 1
  MaxDeaths = 1
CHECK_DEADLOCK FALSE
INVARIANTS
  AnswersAreTrue
PROPERTIES
  AdmissionsKeepTheLimits
  ReservationsDrain

SPECIFICATION Spec
CONSTANTS
  MonthStart <- ShortMonths
  Events = {e1, e2}
  OldRuns = {}
  Payloads = {b1}
  Requests = {q1}
  RunLimit = 1
  Ceilings = {}
  NoLimit = NoLimit
  NoRow = NoRow
  NoRun = NoRun
  Passes = {p1}
  AnchorDays = {2}
  Start = 3
  MaxDay = 3
  Retention = 5
  ScanLimit = 3
  MaxDeaths = 0
CHECK_DEADLOCK FALSE
INVARIANT NoUnitSoldTwice

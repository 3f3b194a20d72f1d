SPECIFICATION Spec
CONSTANTS
  MonthStart <- ShortMonths
  Events = {e1, e2}
  OldRuns = {e1}
  Payloads = {b1}
  Requests = {q1}
  RunLimit = 2
  Ceilings = {}
  NoLimit = NoLimit
  NoRow = NoRow
  NoRun = NoRun
  Passes = {p1}
  AnchorDays = {1, 2}
  Start = 3
  MaxDay = 4
  Retention = 1
  ScanLimit = 3
  MaxDeaths = 1
CHECK_DEADLOCK FALSE
INVARIANTS
  TypeOK
  NeverOvercharged
  SettleFindsItsRow
PROPERTIES
  NeverReturned

SPECIFICATION Spec
CONSTANTS
  Runs = {r1}
  Workers = {w1, w2}
  MaxObservations = 2
  Backoff <- MCBackoff
  DeadlineGrace = 1
  Observations <- AllLooks
  Window = 2
  Lease = 2
  FinaliseDelay = 1
  MaxRunsPerTick = 2
  MaxCallsPerTick = 1
  RunLimit = 2
  OtherUnits = 1
  MaxTime = 5
  Horizon = 5
  MaxFaults = 1
SYMMETRY Symmetry
INVARIANTS TypeOK PendingIsScheduled UnscheduledIsAnnounced AnnouncementsAreTrue ShownAssertionsAreTheDeciders SettledOnce
PROPERTIES DecidedStaysDecided ObservationBudget ImplementsVerdict
CHECK_DEADLOCK FALSE

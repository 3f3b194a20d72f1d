SPECIFICATION FairSpec
CONSTANTS
  Runs = {r1, r2, r3}
  Workers = {w1}
  MaxObservations = 2
  Backoff <- MCBackoff
  DeadlineGrace = 1
  Observations <- OneLook
  Window = 2
  Lease = 2
  FinaliseDelay = 1
  MaxRunsPerTick = 2
  MaxCallsPerTick = 1
  RunLimit = 3
  OtherUnits = 0
  MaxTime = 6
  Horizon = 0
  MaxFaults = 1
PROPERTIES EveryRunDecided EveryDecisionFinalised
CHECK_DEADLOCK FALSE

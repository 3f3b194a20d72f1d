SPECIFICATION FairSpec
CONSTANTS
  Keys = {k1, k2}
  Dispatchers = {d1, d2}
  MaxAttempts = 2
  Backoff <- MCBackoff
  Lease = 1
  MaxOutbox = 1
  MaxTime = 8
  Horizon = 1
  MaxFaults = 2
INVARIANTS OneDispatcherPerAttempt DispatchedWasAccepted DeadHadItsAttempts
PROPERTIES EveryEventSettled
CHECK_DEADLOCK FALSE

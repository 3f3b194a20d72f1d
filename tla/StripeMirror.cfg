SPECIFICATION FairSpec
CONSTANTS
    Histories <- MCHistories
    Workers = {w1, w2}
    MaxFaults = 1
    MaxPasses = 1
    NoRow = NoRow
INVARIANTS
    SnapshotConverges
    ServedHoldsItsAllowance
PROPERTIES
    CanceledIsTerminal
    NewestWins
    EveryEventHandled
CHECK_DEADLOCK FALSE

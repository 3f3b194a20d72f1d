SPECIFICATION FairSpec
CONSTANTS
    Workspaces = {a}
    Holding <- MCHolding
    Grace = 1
    Ceiling = 2
    Limit = 1
    MaxPending = 2
    Attempts = 3
    MaxTime = 2
    MaxRequests = 2
    MaxFaults = 1
    Uses = {"sessions", "due"}
    MaxUse = 1
    None = None
INVARIANTS
    AnnouncedIsGone
    AnnouncedOnce
    DoneIsEmpty
PROPERTIES
    CancelledIsKept
    IndexedIsCarriedOut
CHECK_DEADLOCK FALSE

SPECIFICATION Spec
CONSTANTS
    Workspaces = {a}
    Holding <- MCHolding
    Grace = 1
    Ceiling = 2
    Limit = 1
    MaxPending = 2
    Attempts = 3
    MaxTime = 2
    MaxRequests = 1
    MaxFaults = 0
    Uses = {"source_events"}
    MaxUse = 1
    None = None
INVARIANTS
    AnnouncedIsGone
CHECK_DEADLOCK FALSE

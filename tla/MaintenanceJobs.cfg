SPECIFICATION FairSpec
CONSTANTS
    d1 = d1
    d2 = d2
    None = None
    Devices = {d1, d2}
    Submissions = {1, 2}
    Instant <- MCInstant
    Unreadable = {2}
    Lease = 3
    Work = 1
    Overrun = 4
    Tolerance = 1
    Attempts = 2
    Reports = {"passed"}
    Long = {}
    MaxFaults = 2
    MaxRevoked = 1
INVARIANTS
    ResultOfLastLease
    ReplayIsKnown
PROPERTIES
    EndedStays
    RevokedPostsNothing
    EveryJobEnds
CHECK_DEADLOCK FALSE

SPECIFICATION Spec
CONSTANTS
    r1 = r1
    r2 = r2
    late = late
    broken = broken
    a1 = a1
    a2 = a2
    a3 = a3
    c1 = c1
    c2 = c2
    c3 = c3
    Refunds = {r1, r2}
    Reasons = {late, broken}
    Approvals = {a1, a2, a3}
    Of <- MCOf
    Clicks = {c1, c2, c3}
    MaxFaults = 2
SYMMETRY Symmetry
INVARIANTS
    OneCallPerApproval
    RefundedAsApproved
    MovedAgainIsApprovedAgain
CHECK_DEADLOCK FALSE

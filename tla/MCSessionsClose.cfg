CONSTANTS
    u1 = u1
    a1 = a1
    a2 = a2
    r1 = r1
    r2 = r2
    k1 = k1
    k2 = k2
    k3 = k3
    l1 = l1
    l2 = l2
    None = None
    Users <- OneUser
    Admins <- TwoAdmins
    TokenIds <- TwoTokens
    LogIds <- TwoLogs
    Requests <- TwoRequests
    RefreshTtl = 3
    ImpersonationTtl = 2
    MaxTime = 1
    ClockLag = 0
    MayFail = FALSE
SPECIFICATION FairSpec
CHECK_DEADLOCK FALSE
PROPERTIES ClosesOwnPair CloserEndsARow

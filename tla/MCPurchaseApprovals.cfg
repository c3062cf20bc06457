CONSTANTS
    p1 = p1
    c1 = c1
    c2 = c2
    r1 = r1
    r2 = r2
    None = None
    Parents <- OneParent
    Approvals <- TwoApprovals
    Requests <- TwoRequests
    ApprovalTtl = 2
    MaxTime = 3
SPECIFICATION FairSpec
INVARIANTS TypeOK OnlyOverdueExpires
PROPERTIES ExpiryIsAnnounced ImplementsLifecycle

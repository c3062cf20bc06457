CONSTANTS
    t1 = t1
    t2 = t2
    e1 = e1
    e2 = e2
    r1 = r1
    r2 = r2
    l1 = l1
    l2 = l2
    l3 = l3
    box = box
    None = None
    Mailbox <- SameMailbox
    Trainers <- TwoTrainers
    Emails <- TwoSpellings
    Registered <- OneAccount
    LinkIds <- TwoLinks
    Requests <- TwoRequests
    InviteTtl = 1
    MaxTime = 1
    MayFail = TRUE
SPECIFICATION FairSpec
CHECK_DEADLOCK FALSE
INVARIANTS TypeOK UsedLinkBroughtCoach NoOrphanedAccount
PROPERTIES ImplementsLedger HandlersAnswer

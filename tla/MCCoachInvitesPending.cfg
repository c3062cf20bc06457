CONSTANTS
    t1 = t1
    t2 = t2
    e1 = e1
    e2 = e2
    r1 = r1
    r2 = r2
    l1 = l1
    l2 = l2
    l3 = l3
    box = box
    None = None
    Mailbox <- SameMailbox
    Trainers <- OneTrainer
    Emails <- OneEmail
    Registered <- NoAccount
    LinkIds <- ThreeLinks
    Requests <- TwoRequests
    InviteTtl = 1
    MaxTime = 1
    MayFail = TRUE
SYMMETRY Symmetry
SPECIFICATION Spec
CHECK_DEADLOCK FALSE
INVARIANTS OnePendingInvite

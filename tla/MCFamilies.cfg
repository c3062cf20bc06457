CONSTANTS
    Users = {u1, u2, u3}
    Profiles = {p1, p2}
    Trainers = {t1}
    Drafts = {d1, d2}
    MaxDrafts = 1
    Requests = {r1, r2}
    None = None
SPECIFICATION Spec
SYMMETRY Symmetry
INVARIANTS TypeOK ParentsAreAdults DraftBringsTrainer
PROPERTIES RemovedStaysRemoved DraftsAreSingleUse ChildLoginsAreChecked

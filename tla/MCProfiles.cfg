CONSTANTS
    Files = {f1, f2, f3}
    Slugs = {s1, s2, s3}
    Taken = {s3}
    MaxSlugRetries = 1
    Saves = {k1, k2, k3}
    Requests = {r1, r2}
    None = None
SPECIFICATION Spec
SYMMETRY Symmetry
INVARIANTS TypeOK PicturesExist FilesAccounted OneSchedule
PROPERTY PageKeepsAddress
CHECK_DEADLOCK FALSE

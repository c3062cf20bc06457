CONSTANTS
    Members = {m1, m2}
    Filters = {f1, f2}
    Jobs = {j1, j2, j3}
    MaxMoves = 4
    None = None
SPECIFICATION Spec
INVARIANTS TypeOK ListIsCurrent TimesStayTheirs BrandingIsCurrent
PROPERTY PageSettles
CHECK_DEADLOCK FALSE

CONSTANTS
    Rows = {i1, i2, i3}
    Calls = {c1, c2}
    Tabs = {t1, t2}
    MaxSends = 4
    None = None
SPECIFICATION Spec
SYMMETRY Symmetry
INVARIANTS TypeOK PairsMatch ContextFollows WaitersAreServed
CHECK_DEADLOCK FALSE

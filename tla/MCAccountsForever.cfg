CONSTANTS
    Users = {u1}
    Tokens = {k1, k2}
    Requests = {r1, r2}
    None = None
SPECIFICATION Spec
PROPERTY DeletedForever

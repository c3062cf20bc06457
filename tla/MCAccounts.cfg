CONSTANTS
    Users = {u1}
    Tokens = {k1, k2, k3}
    Requests = {r1, r2}
    None = None
SPECIFICATION Spec
SYMMETRY Symmetry
INVARIANTS TypeOK DeletionRecorded UsedTokenHadEffect AccountsCanBeEntered
PROPERTY RedemptionsAreChecked

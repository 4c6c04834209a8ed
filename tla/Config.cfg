SPECIFICATION Spec
CONSTANTS
    Versions = {1, 2}
    Scopes = {pune}
    Requests = {r1, r2}
    People = {a, b}
    Workers = {w1}
    MaxCrashes = 1
    Offered <- AllOps
INVARIANT TypeOK
INVARIANT LiveWasApproved
PROPERTY ActivationDisplaces
SYMMETRY Symmetry
CHECK_DEADLOCK FALSE

SPECIFICATION Spec
CONSTANTS
    Employees = {e1, e2}
    MaxBatch = 2
    Workers = {w1, w2}
    MaxActs = 3
    MaxCrashes = 1
    Offered <- AllOps
INVARIANT TypeOK
INVARIANT RetryIsReal
INVARIANT PaidIffConfirmed
SYMMETRY Symmetry
CHECK_DEADLOCK FALSE

SPECIFICATION Spec
CONSTANTS
    Periods = {1, 2}
    People = {a, b, c}
    Policies <- SignPolicies
    Carries = {k}
    Workers = {w1}
    Offered <- AllOps
    MaxStamp = 2
    MaxHolds = 1
    MaxCrashes = 1
CONSTRAINT Scope
INVARIANT TypeOK
INVARIANT MakerChecker
INVARIANT SettledAsRecorded
SYMMETRY Symmetry
CHECK_DEADLOCK FALSE

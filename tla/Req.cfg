SPECIFICATION Spec
CONSTANTS
    Reqs = {r1}
    Legacy = {r1}
    Workers = {w1, w2}
    Managers = {m1}
    MDs = {d1}
    Rungs = {0, 2}
    MaxVacancy = 2
    Figures <- MCFigures
    MaxActual = 1
    MaxSigns = 2
    MaxVer = 1
    MaxCrashes = 1
    Offered <- AllOps
CONSTRAINT Scope
INVARIANT TypeOK
INVARIANT EveryReqHasJd
INVARIANT CoApproved
INVARIANT LadderComplete
INVARIANT NoneStranded
INVARIANT ApprovedBarIsSignedBar
SYMMETRY WorkerSymmetry
CHECK_DEADLOCK FALSE

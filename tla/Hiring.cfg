SPECIFICATION Spec
CONSTANTS
    Cands = {c1}
    Offers = {o1, o2}
    Workers = {w1, w2}
    MaxCtc = 2
    MaxCode = 2
    MaxCrashes = 1
    Offered <- Ops
CONSTRAINT Scope
INVARIANT TypeOK
INVARIANT OneEmployee
INVARIANT StageEarned
INVARIANT ClaimsAreTrue
INVARIANT SentAtApprovedFigure
PROPERTY ImplementsHire
SYMMETRY Symmetry
CHECK_DEADLOCK FALSE

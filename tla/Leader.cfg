SPECIFICATION Spec
CONSTANTS
    Leaders = {l1}
    Givers = {g1}
    MaxNow = 2
    MaxMint = 2
    Workers = {w1, w2}
    MaxCrashes = 1
INVARIANT TypeOK
INVARIANT OneResponseEach
INVARIANT SubmittedIsAnswered
INVARIANT FrozenIsWhole
PROPERTY PublishedIsFinal
SYMMETRY Symmetry
CHECK_DEADLOCK FALSE

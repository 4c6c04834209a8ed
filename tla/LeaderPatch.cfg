SPECIFICATION Spec
CONSTANTS
    Leaders = {l1}
    Givers = {g1}
    MaxNow = 3
    MaxMint = 1
    Workers = {w1}
    MaxCrashes = 0
PROPERTY NoFeedbackOncePublished
CHECK_DEADLOCK FALSE

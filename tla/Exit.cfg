SPECIFICATION FairSpec
CONSTANTS
    Cases = {s1}
    Kinds = {"standard", "access"}
    Workers = {w1}
    Cron = cron
    MaxCrashes = 1
    Offered <- AllOps
INVARIANT TypeOK
INVARIANT EarlyLeaveApproved
INVARIANT ClosureHolds
PROPERTY LoginEndsWithLastDay
CHECK_DEADLOCK FALSE

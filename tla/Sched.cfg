SPECIFICATION FairSpec
CONSTANTS
    Procs = {p1, p2}
    MaxDay = 2
    MaxTrouble = 1
    Order <- FeedAndSweep
INVARIANT JobsTypeOK
INVARIANT OneRunner
PROPERTY NeverReplayed
PROPERTY SweepRuns
PROPERTY FailedRunRetried

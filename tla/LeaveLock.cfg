SPECIFICATION Spec
CONSTANTS
    Dates = {1, 2}
    Off = {}
    Marks = {"Present"}
    Leaves = {l1, l2}
    Regs = {r1}
    Ods = {o1}
    RegLevels = {1, 2}
    OdLevels = {1, 2}
    Deciders = {m, h}
    Batches = {1}
    MaxGrant = 2
    Workers = {w1}
    MaxActs = 5
    MaxCrashes = 0
    Offered <- AllOps
PROPERTY NoNewDayUnderLock
SYMMETRY Symmetry
CHECK_DEADLOCK FALSE

SPECIFICATION Spec
CONSTANTS
    Dates = {1}
    Off = {}
    Marks = {"Present", "Absent"}
    Leaves = {l1}
    Regs = {r1}
    Ods = {o1}
    RegLevels = {1}
    OdLevels = {1}
    Deciders = {m, h}
    Batches = {}
    MaxGrant = 2
    Workers = {w1, w2}
    MaxActs = 6
    MaxCrashes = 1
    Offered <- DayOps
PROPERTY LockedDaysFrozen
SYMMETRY WorkerSymmetry
CHECK_DEADLOCK FALSE

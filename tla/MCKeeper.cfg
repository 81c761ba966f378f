SPECIFICATION Spec
CONSTANTS
    r1 = r1
    r2 = r2
    None = None
    Recipients = {r1, r2}
    Ids = {1, 2}
    MaxEntries = 2
    Limit = 1
    NewTtl = 3
    Threshold = 1
    ExtendTo = 3
    MaxCursor = 2
    MaxFaults = 1
INVARIANTS TypeOK CoveredBehindCursor LapsesOnlyBehindCursor
PROPERTIES FirstSweepReachesAll

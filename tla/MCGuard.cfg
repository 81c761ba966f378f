SPECIFICATION Spec
CONSTANTS
    t1 = t1
    t2 = t2
    None = None
    Tabs = {t1, t2}
    Clicks = {1, 2}
    MaxRecords = 2
    MaxReloads = 1
SYMMETRY Symm
INVARIANTS TypeOK ExclusiveAcrossTabs RecordCoversFlow MutexOutlivesOnlyExpired
PROPERTIES OnlyTheHolderPutsDown
CHECK_DEADLOCK FALSE

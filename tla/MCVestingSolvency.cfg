SPECIFICATION Spec
CONSTANTS
    r1 = r1
    r2 = r2
    s1 = s1
    s2 = s2
    tokA = tokA
    tokB = tokB
    MaxI128 = 1000
    Recipients = {r1, r2}
    Senders = {s1, s2}
    Tokens = {tokA}
    Ids = {1, 2, 3}
    Indices = {1, 2}
    Amounts = {3}
    Parts = {1, 3}
    Windows <- StepWindows
    LegacyLists <- NoOldEntry
    MaxBatchSize = 2
    MaxSchedulesPerRecipient = 2
    Masks = {{}}
    MaxTime = 4
INVARIANTS Solvent
CHECK_DEADLOCK FALSE

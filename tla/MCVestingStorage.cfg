SPECIFICATION Spec
CONSTANTS
    r1 = r1
    r2 = r2
    s1 = s1
    s2 = s2
    tokA = tokA
    tokB = tokB
    MaxI128 = 5
    Recipients = {r1, r2}
    Senders = {s1, s2}
    Tokens = {tokA, tokB}
    Ids = {1, 2, 3}
    Indices = {1, 2}
    Amounts = {3}
    Parts = {2}
    Windows <- OneWindow
    LegacyLists <- OneOldEntry
    MaxBatchSize = 2
    MaxSchedulesPerRecipient = 2
    Masks = {{}}
    MaxTime = 3
INVARIANTS TypeOK BatchNamesDepositor CustodyIsExact StoredHoldsValue BatchRevokeHitsTargets ClaimAllIsComplete
CHECK_DEADLOCK FALSE

SPECIFICATION Spec
CONSTANTS
    r1 = r1
    r2 = r2
    s1 = s1
    s2 = s2
    tokA = tokA
    tokB = tokB
    MaxI128 = 5
    Recipients = {r1, r2}
    Senders = {s1}
    Tokens = {tokA}
    Ids = {1, 2, 3}
    Indices = {1, 2}
    Amounts = {3}
    Parts = {2}
    Windows <- OneWindow
    LegacyLists <- PartlyClaimed
    MaxBatchSize = 2
    MaxSchedulesPerRecipient = 2
    Masks = {{}, {"claim"}}
    MaxTime = 3
PROPERTIES ImplementsLedger
CHECK_DEADLOCK FALSE

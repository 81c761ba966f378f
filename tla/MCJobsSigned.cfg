SPECIFICATION FairSpec
CONSTANTS
    p1 = p1
    p2 = p2
    j1 = j1
    j2 = j2
    j3 = j3
    w1 = w1
    w2 = w2
    None = None
    Payments = {p1, p2}
    Jobs = {j1}
    Workers = {w1, w2}
    Requests <- TwoPayments
    ServerAccount = FALSE
    Malformed <- SecondUnparseable
    BadSeqLimit = 0
    FeeRetryLimit = 0
    MaxFaults = 2
    MaxLedger = 2
    MaxPool = 2
INVARIANTS TypeOK PaidOnce SuccessIsOnLedger ProgressIsExact ClaimIsExclusive
PROPERTIES JobSettles
CHECK_DEADLOCK FALSE

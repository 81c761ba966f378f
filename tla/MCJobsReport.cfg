SPECIFICATION Spec
CONSTANTS
    p1 = p1
    p2 = p2
    j1 = j1
    j2 = j2
    j3 = j3
    w1 = w1
    w2 = w2
    None = None
    Payments = {p1, p2}
    Jobs = {j1, j2}
    Workers = {w1}
    Requests <- TwoPayments
    ServerAccount = TRUE
    Malformed = {}
    BadSeqLimit = 1
    FeeRetryLimit = 1
    MaxFaults = 0
    MaxLedger = 3
    MaxPool = 2
INVARIANTS ReportIsExact
CHECK_DEADLOCK FALSE

SPECIFICATION Spec
CONSTANTS
    p1 = p1
    p2 = p2
    j1 = j1
    j2 = j2
    j3 = j3
    w1 = w1
    w2 = w2
    None = None
    Payments = {p1}
    Jobs = {j1}
    Workers = {w1, w2}
    Requests <- OnePayment
    ServerAccount = TRUE
    Malformed = {}
    BadSeqLimit = 1
    FeeRetryLimit = 1
    MaxFaults = 1
    MaxLedger = 2
    MaxPool = 2
INVARIANTS PaidOnce
SYMMETRY AnyWorker
CHECK_DEADLOCK FALSE

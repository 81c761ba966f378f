SPECIFICATION Spec
CONSTANTS
    b1 = b1
    b2 = b2
    None = None
    MaxOpen = 2
    Bodies = {b1, b2}
    Limit = 2
    Earlier = {0, 1}
    MaxPosts = 2
    MaxLapses = 1
    ErrorLimit = 2
    MaxPolls = 2
SYMMETRY Symm
INVARIANTS TypeOK OneJobPerKey AnswerFitsRequest LimitHolds ShownIsReached BlockIsWatched
CHECK_DEADLOCK FALSE

SPECIFICATION Spec
CONSTANTS
    alice = alice
    bob = bob
    MaxI128 = 1000
    Ids <- MCIds
    Accounts = {alice, bob}
    Amounts <- MCAmounts
    Windows <- MCWindows
    Legacy <- MCLegacy
    MaxTime = 5
INVARIANTS TypeOK BooksBalance NothingTrapped NeverAhead
PROPERTIES EarnedIsPaid
CHECK_DEADLOCK FALSE

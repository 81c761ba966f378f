SPECIFICATION Spec
CONSTANTS
    ann = ann
    bob = bob
    None = None
    v1 = v1
    v2 = v2
    xlm = xlm
    usdc = usdc
    Accounts = {ann, bob}
    Hashes = {v2}
    Deployed = v1
    Tokens = {xlm}
    Timelocks = {1, 2, 3}
    MinUpgradeTimelock = 2
    Fees <- MCFees
    MaxTime = 4
INVARIANTS TypeOK NeverFrozen NominationIsCurrent
PROPERTIES RenouncedForGood UpgradesAreReviewed
CHECK_DEADLOCK FALSE

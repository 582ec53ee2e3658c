SPECIFICATION ScrapeSpec
CONSTANTS
    leaves = leaves
    alice = alice
    Undefined = Undefined
    Urls <- MCUrl
    Hash = {leaves, alice}
    Asks <- MCAsks
    MaxChanges = 1
INVARIANTS
    Complete
CHECK_DEADLOCK FALSE

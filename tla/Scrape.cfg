SPECIFICATION ScrapeSpec
CONSTANTS
    leaves = leaves
    alice = alice
    Undefined = Undefined
    Urls <- MCUrls
    Hash = {leaves, alice}
    Asks <- MCAsks
    MaxChanges = 1
INVARIANTS
    AllReported
    CountsTrue
PROPERTIES
    ResultsStay
    CallsBack
CHECK_DEADLOCK FALSE

SPECIFICATION FairSpec
CONSTANTS
    Worker = {w1, w2}
    Tag <- Tags
    Account <- Accounts
    FirstTags <- TagSets
    FirstAccounts <- OneAccount
    BatchSize = 2
    MinCluster = 1
    TagLabels <- Themes
    AccountLabels <- OneNoise
    Hdbscan = TRUE
    MaxRetries = 1
    MaxRequests = 2
    MaxFaults = 1
    w1 = w1
    w2 = w2
CHECK_DEADLOCK FALSE
INVARIANTS
    TypeOK
    DuplicatesOverlap
    ScrollComplete
PROPERTIES
    Refilled

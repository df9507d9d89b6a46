SPECIFICATION FairSpec
CONSTANTS
    Client = {c1}
    NumKeys = 2
    Capacity = 1
    Unit = 2
    BucketTtl = 2
    Cool429 = 2
    CoolAuth = 3
    MaxSkew = 1
    c1 = c1
INVARIANTS TypeOK RateBound KeyRests
PROPERTIES FailsLast RequestsEnd

SPECIFICATION FairSpec
CONSTANTS
    Post <- FourPosts
    KwScore <- KeywordRanks
    VecOrders <- OneOrder
    Undated = {}
    Lead <- AllPast
    KwLimit = 2
    VecLimit = 2
    PageLimit = 1
    RrfK = 1
    Scale = 12
    Tolerance = 8
    MaxAge = 1
    Reader = {r1}
    Crawled = {1, 2, 3}
    Indexed = {1}
    KwOrder <- Keywords
    VecOrder <- Neighbours
    Boost <- NoBoosts
    Boosts <- BoostsOfOne
    Explicit = {1}
    Ttl = 2
    MaxCompute = 1
    MaxEvents = 1
    MaxFaults = 1
    PrefixLimit = 1
    NearestLimit = 2
    Levels <- Usage
    Cosines <- Similarities
    r1 = r1
INVARIANTS
    TypeOK
    StaleBound
    WalksPartition
    
PROPERTIES
    WalkEnds

SPECIFICATION Spec
CONSTANTS
    Api = {a1, a2}
    MaxUpsets = 1
    Indexer = {i1, i2}
    Post <- ThreePosts
    Account = {x}
    Owner <- OneOwner
    Window = 1
    Target = 3
    MaxJobs = 3
    FirstSfw <- Below
    WINDOW_TOKENS = 5
    OVERLAP_TOKENS = 2
    ENCODER_TOKENS = 3
    MaxTokens = 16
    Image <- Images
    Readable <- Opened
    Phash <- Hashes
    MaxImages = 3
    Tag <- Tags
    a1 = a1
    a2 = a2
    i1 = i1
    i2 = i2
    x = x
SYMMETRY Symmetric
CHECK_DEADLOCK FALSE
INVARIANTS
    TypeOK
    RaceHasWinner
    FreshAfterQuietJob
    TextsCovered
    ImagesAligned

SPECIFICATION Spec
CONSTANTS
    a = a
    z = z
    a1 = a1
    a2 = a2
    a3 = a3
    a4 = a4
    z1 = z1
    z2 = z2
    None = None
    Workers = {w1, w2}
    Blogs = {a}
    SeedBlogs = {a}
    Posts = {a1, a2, a3}
    BlogOf <- BlogOfA
    Stamp <- StampA
    Sources <- SourcesA
    Video = {}
    Explicit = {a3}
    Target = 1
    PageSize = 1
    MaxRetries = 0
    MaxFail = 3
    MaxAborts = 2
SYMMETRY WorkerSymmetry
INVARIANTS
    TypeOK
    OvershootBound
    NothingSkipped
    LossBounded
    DeadHasFailed
PROPERTIES
    NsfwIsFinal
    CursorGoesBack
    BudgetSpec

SPECIFICATION Spec
CONSTANTS
    a = a
    z = z
    a1 = a1
    a2 = a2
    a3 = a3
    a4 = a4
    z1 = z1
    z2 = z2
    None = None
    Workers = {w1, w2}
    Blogs = {a, z}
    SeedBlogs = {a}
    Posts = {a2, z2}
    BlogOf <- BlogOfAZ
    Stamp <- StampAZ
    Sources <- SourcesAZ
    Video = {}
    Explicit = {}
    Target = 3
    PageSize = 1
    MaxRetries = 1
    MaxFail = 0
    MaxAborts = 0
SYMMETRY WorkerSymmetry
INVARIANTS
    SourcesKnown
PROPERTIES
    RowsKept

SPECIFICATION Spec
CONSTANTS
    a = a
    z = z
    a1 = a1
    a2 = a2
    a3 = a3
    a4 = a4
    z1 = z1
    z2 = z2
    None = None
    Workers = {w1}
    Blogs = {a, z}
    SeedBlogs = {a}
    Posts = {a1, a2, z1}
    BlogOf <- BlogOfAZ
    Stamp <- StampAZ
    Sources <- SourcesAZ
    Video = {}
    Explicit = {}
    Target = 3
    PageSize = 2
    MaxRetries = 1
    MaxFail = 1
    MaxAborts = 1
INVARIANTS
    CrashSafe

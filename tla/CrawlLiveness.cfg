SPECIFICATION FairSpec
CONSTANTS
    a = a
    z = z
    a1 = a1
    a2 = a2
    a3 = a3
    a4 = a4
    z1 = z1
    z2 = z2
    None = None
    Workers = {w1}
    Blogs = {a, z}
    SeedBlogs = {a}
    Posts = {a1, a2, a3, z1}
    BlogOf <- BlogOfAZ
    Stamp <- StampTies
    Sources <- SourcesAZ
    Video = {a3}
    Explicit = {z1}
    Target = 2
    PageSize = 2
    MaxRetries = 0
    MaxFail = 4
    MaxAborts = 1
PROPERTIES
    TaskEnds
    BlogSettles
    PausedResumed

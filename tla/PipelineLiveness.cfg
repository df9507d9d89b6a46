SPECIFICATION FairSpec
CONSTANTS
    p = p
    q = q
    safe = safe
    lewd = lewd
    other = other
    None = None
    Workers = {w1}
    Posts = {p}
    Photos <- PhotosPQ
    HasText = {p}
    Explicit = {lewd}
    HasSession = TRUE
    MaxRetries = 1
    MaxFaults = 1
PROPERTIES
    Processed

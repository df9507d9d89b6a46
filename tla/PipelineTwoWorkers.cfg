SPECIFICATION Spec
CONSTANTS
    p = p
    q = q
    safe = safe
    lewd = lewd
    other = other
    None = None
    Workers = {w1, w2}
    Posts = {p}
    Photos <- PhotosPQ
    HasText = {p}
    Explicit = {lewd}
    HasSession = FALSE
    MaxRetries = 0
    MaxFaults = 1
SYMMETRY WorkerSymmetry
INVARIANTS
    TypeOK
    ExplicitNotIndexed
    HalfDoneIsRepaired
    LateWritesBounded

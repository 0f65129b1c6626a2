\* Two files planned onto one path, one of them under two row ids.
SPECIFICATION Spec
CONSTANTS
    a = a
    b = b
    a1 = a1
    a2 = a2
    b1 = b1
    P = P
    Q = Q
    NoPath = NoPath
    NoRow = NoRow
    NoId = NoId
    NoCopy = NoCopy
    Mixed = Mixed
    File = {a, b}
    Id = {a1, a2, b1}
    Path = {P, Q}
    FileOf <- MCFileOf
    Dest <- Shared
    MaxBuild = 1
    Summed = {a, b}
    Saves = {}
    MaxAttempts = 2
    MaxLimit = 2
    Faults = {}
    Ops = {"sync", "keep", "delete", "limit"}
INVARIANTS
    ClaimsHoldApart
    PathsApart
PROPERTIES
    OnlyOwnerTouches
CHECK_DEADLOCK FALSE

\* A pause between the rename and the statement that records it.
SPECIFICATION Spec
CONSTANTS
    a = a
    b = b
    a1 = a1
    a2 = a2
    b1 = b1
    P = P
    Q = Q
    NoPath = NoPath
    NoRow = NoRow
    NoId = NoId
    NoCopy = NoCopy
    Mixed = Mixed
    File = {a}
    Id = {a1}
    Path = {P, Q}
    FileOf <- MCFileOf
    Dest <- InPlace
    MaxBuild = 2
    Summed = {a}
    Saves = {}
    MaxAttempts = 2
    MaxLimit = 1
    Faults = {}
    Ops = {"sync", "publish", "pause"}
INVARIANTS
    CopyIsKept
CHECK_DEADLOCK FALSE

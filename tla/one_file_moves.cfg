\* One file whose new build is stored under another name; it can be
\* dropped and planned again under a second row id, and the process stops,
\* crashes and starts.
SPECIFICATION Spec
CONSTANTS
    a = a
    b = b
    a1 = a1
    a2 = a2
    b1 = b1
    P = P
    Q = Q
    NoPath = NoPath
    NoRow = NoRow
    NoId = NoId
    NoCopy = NoCopy
    Mixed = Mixed
    File = {a}
    Id = {a1, a2}
    Path = {P, Q}
    FileOf <- MCFileOf
    Dest <- Renamed
    MaxBuild = 2
    Summed = {a}
    Saves = {}
    MaxAttempts = 2
    MaxLimit = 1
    Faults = {"retry"}
    Ops = {"sync", "unplan", "pause", "stop", "crash", "publish"}
INVARIANTS
    DoneIsOnDisk
    PauseIsNotLost
    CopyIsKept
PROPERTIES
    PromiseIsKept
CHECK_DEADLOCK FALSE

\* Liveness for one file.
SPECIFICATION FairSpec
CONSTANTS
    a = a
    b = b
    a1 = a1
    a2 = a2
    b1 = b1
    P = P
    Q = Q
    NoPath = NoPath
    NoRow = NoRow
    NoId = NoId
    NoCopy = NoCopy
    Mixed = Mixed
    File = {a}
    Id = {a1}
    Path = {P}
    FileOf <- MCFileOf
    Dest <- InPlace
    MaxBuild = 2
    Summed = {a}
    Saves = {}
    MaxAttempts = 2
    MaxLimit = 1
    Faults = {"retry"}
    Ops = {"sync", "publish", "pause", "vanish", "retry", "check"}

    
PROPERTIES
    PauseDrains
    PlannerReturns
    QueueMoves
    LossIsRepaired
CHECK_DEADLOCK FALSE

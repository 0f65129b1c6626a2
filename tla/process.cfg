SPECIFICATION FairSpec
CONSTANTS
    Intervals = {1, 2}
    MaxAge = 2
    MaxWish = 2
    Casts <- Meetings
    Sources = {"queue", "scheduler", "http", "main"}
    MaxRecords = 1
    Capacity = 1
    MaxRows = 1
    PruneEvery = 2
INVARIANTS
    TableIsBounded
    NewestAreKept
    LastWordsAreWritten
PROPERTIES
    TriggerIsHeard
    IntervalIsKept
    ShutdownEnds
CHECK_DEADLOCK FALSE

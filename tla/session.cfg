SPECIFICATION FairSpec
CONSTANTS
    r1 = r1
    r2 = r2
    l1 = l1
    l2 = l2
    g1 = g1
    First = First
    Nobody = Nobody
    Free = Free
    Requests = {r1}
    Casts <- Meetings
    GameRequests = {g1}
    SignIns = {l1}
    MaxIssued = 3
    MaxSession = 2
    MaxTries = 2
    Ops = {"expire", "crash", "logout", "lost", "revoke", "hangup"}
INVARIANTS
    StoredIsLive
    RefreshIsValid
    ErrorIsEarned
PROPERTIES
    SessionsEnd
    RequestsEnd

CHECK_DEADLOCK FALSE

\* Liveness: one request on a game and a change of the settings.
SPECIFICATION FairSpec
CONSTANTS
    c1 = c1
    e1 = e1
    Nobody = Nobody
    Full = Full
    Game = {1}
    Bought = {1}
    Change = {c1}
    Edit = {e1}
    Pauser = {}
    NewSettings <- Several
    FirstSettings <- All
    Answers = {"keep", "delete"}
    EditKinds = {"select", "deselect", "optin", "optout", "sync"}
    IdSets <- One
    Ops = {"download"}
INVARIANTS
    WantedIsTracked
PROPERTIES
    RequestsEnd
    SyncsEnd
    Settles
CHECK_DEADLOCK FALSE

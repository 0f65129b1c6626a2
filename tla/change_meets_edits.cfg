\* One change of the settings, two requests on a game, and syncs, while clients
\* go away, syncs of requests run out of time, and the user logs out and in.
SPECIFICATION Spec
CONSTANTS
    c1 = c1
    e1 = e1
    e2 = e2
    Nobody = Nobody
    Full = Full
    Game = {1}
    Bought = {1}
    Change = {c1}
    Edit = {e1, e2}
    Pauser = {}
    NewSettings <- Several
    FirstSettings <- All
    Answers = {"keep"}
    EditKinds = {"select", "deselect", "sync"}
    IdSets <- One
    Ops = {"hangup", "expire", "relogin"}
INVARIANTS
    PlansAreCurrent
    TrackedIsWanted
    ChangeIsAlone
CHECK_DEADLOCK FALSE

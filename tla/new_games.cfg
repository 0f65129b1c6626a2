\* Two requests on the same two games, a pause, and a game bought later, without
\* interruptions.
SPECIFICATION Spec
CONSTANTS
    e1 = e1
    e2 = e2
    p1 = p1
    Nobody = Nobody
    Full = Full
    Game = {1, 2, 3}
    Bought = {1, 2}
    Change = {}
    Edit = {e1, e2}
    Pauser = {p1}
    NewSettings <- JustAll
    FirstSettings <- SelectedNew
    Answers = {"keep"}
    EditKinds = {"deselect"}
    IdSets <- OneOrBoth
    Ops = {"buy", "due"}
INVARIANTS
    OldGamesStayUnselected
    NewGamesAreSelected
    NoCircularWait
CHECK_DEADLOCK FALSE

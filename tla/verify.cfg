SPECIFICATION FairSpec
CONSTANTS
    Files <- Two
    Games = {"one", "two"}
    GameOf <- GameOfTwo
    OsOf <- OsOfTwo
    NoOs = "none"
    Built <- SecondOnly
    Summed <- Two
    VerifyBudget = 1
    VerifyInterval = 2
    MaxRelease = 1
    Troubles = {"request", "stop", "game", "drop", "unmount"}
    MaxTrouble = 1
INVARIANTS
    BudgetIsSpentFirst
PROPERTIES
    RefetchIsEarned
    ReplacementIsNoticed

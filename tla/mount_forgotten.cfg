SPECIFICATION Spec
CONSTANTS
    Files <- Two
    Games = {"one", "two"}
    GameOf <- GameOfTwo
    OsOf <- OsOfTwo
    NoOs = "none"
    Built <- SecondOnly
    Summed <- Two
    VerifyBudget = 1
    VerifyInterval = 2
    MaxRelease = 0
    Troubles = {"game", "unmount"}
    MaxTrouble = 2
PROPERTY MountIsRespected

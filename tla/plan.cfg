CONSTANTS
    Platform = {"windows", "mac", "linux"}
    GalaxyPlatform = {"windows", "mac"}
    Order = {"first", "other"}
    Language = {"en", "de", "fr"}
    English = "en"
    Dlc = {"dlc"}
    Base = "base"
    Client = {"c1", "c2"}
    NoClient = "none"
    Unasked = "unasked"
    ClientOf <- Galaxy
    Listing <- AllFiles
    NewSettings <- Wishes
    NewOptions <- OptIns
    FirstCatalogue <- Begin
    FirstCloud <- Cloud
    MaxPublished = 1
    Ops = {}
SPECIFICATION Spec
PROPERTIES
    ChangeSparesWanted
    SyncedIsWanted
    AnInstallerStays
    SavesSurvive

\* Two instances that restart with any of seven environments, and a request of Info.
CONSTANTS
    undefined = undefined
    User = {"alice", "bob"}
    UlidMaps = {"{}"}
    integer <- Integer
    Trues = {"true", "TRUE"}
    testers <- Testers
    matches <- Matches
    Instance = {i1, i2}
    Environment <- Environments
    Probe = {q1}
    Checked = {"AzureCosmosDB", "blob"}
    settingOf <- SettingOf
    nowhere = "nowhere"
SPECIFICATION FairSpec
INVARIANTS
    TypeOK
    InfoTellsTheServices
    HealthyServes
    OffUnlessAsked
    WideningKeepsTheView
PROPERTIES
    InfoEnds

CONSTANTS
    Tenants = {a}
    NoTenant = none
    Questions = {"question"}
    Window = 2
    Pool = 1
    Faults = {"flush"}
    MaxQuestions = 1
    MaxMessages = 3
SPECIFICATION FairSpec
PROPERTY HistoryBestEffort

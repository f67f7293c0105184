CONSTANTS
    Tenants = {a}
    NoTenant = none
    Questions = {"question"}
    Window = 6
    Pool = 1
    Faults = {}
    MaxQuestions = 1
    MaxMessages = 3
SPECIFICATION FairSpec
PROPERTY GreetingLeftOut

CONSTANTS
    Tenants = {a}
    NoTenant = none
    Questions = {"question", "huge"}
    Window = 2
    Pool = 1
    Faults = {"auth", "call", "flush", "commit", "crash", "disconnect"}
    MaxQuestions = 3
    MaxMessages = 7
SPECIFICATION FairSpec
INVARIANTS TypeOK HistoryTruthful TypingTruthful ConnectionsReturned
PROPERTIES HistoryIsPast TypingEnds

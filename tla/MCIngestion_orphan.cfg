SPECIFICATION Spec
CONSTANTS
    Users = {u1}
    Workers = {w1}
    NoWorker = NoWorker
    Parts = {p1}
    Vectorised = TRUE
    EmptyOutput = TRUE
    Operations = {"confirm", "reprocess"}
    FaultKinds = {}
    MaxTries = 1
    MaxBatches = 2
    MaxRequests = 3
    MaxFaults = 0
    MaxRevision = 0
INVARIANT NoOrphanWhenDone
CHECK_DEADLOCK FALSE

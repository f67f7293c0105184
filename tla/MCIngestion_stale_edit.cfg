SPECIFICATION Spec
CONSTANTS
    Users = {u1, u2}
    Workers = {w1}
    NoWorker = NoWorker
    Parts = {p1}
    Vectorised = TRUE
    EmptyOutput = FALSE
    Operations = {"confirm", "patch"}
    FaultKinds = {}
    MaxTries = 1
    MaxBatches = 2
    MaxRequests = 2
    MaxFaults = 0
    MaxRevision = 1
INVARIANT EditsReachQdrant
CHECK_DEADLOCK FALSE

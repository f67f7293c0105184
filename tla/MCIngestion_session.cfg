SPECIFICATION FairSpec
CONSTANTS
    Users = {u1, u2}
    Workers = {w1, w2}
    NoWorker = NoWorker
    Parts = {p1, p2}
    Vectorised = TRUE
    EmptyOutput = TRUE
    Operations = {"confirm", "reject", "reprocess", "patch"}
    FaultKinds = {"crash", "error", "duplicate", "exhaust", "enqueue"}
    MaxTries = 2
    MaxBatches = 2
    MaxRequests = 2
    MaxFaults = 1
    MaxRevision = 1
INVARIANTS TypeOK VectorsExact NoSilentConfirm NoSilentUpload WholeConversions SearchableWhenDone
PROPERTIES ImplementsVectorSync ConfirmResolved UploadResolved
CHECK_DEADLOCK FALSE

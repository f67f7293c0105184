CONSTANTS
    d = d
    e = e
    m = m
    n = n
    none = none
    Docs = {d, e}
    Questions = {}
    Runs = {1}
    Size <- MCSize
    Namings <- MCNamings
    Names = {m, n}
    NoName = none
    Slots = 2
    Attempts = 1
    BatchSize = 2
    PageSize = 2
    MaxConversions = 2
    MaxFaults = 1
SPECIFICATION Spec
INVARIANT OneMajorityName
PROPERTY ImplementsVectorSync
CHECK_DEADLOCK FALSE

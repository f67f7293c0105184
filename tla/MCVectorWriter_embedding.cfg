CONSTANTS
    d = d
    e = e
    m = m
    n = n
    none = none
    Docs = {d}
    Questions = {q}
    Runs = {1, 2}
    Size <- MCSmallSize
    Namings <- MCSmallNamings
    Names = {m, n}
    NoName = none
    Slots = 1
    Attempts = 2
    BatchSize = 2
    PageSize = 2
    MaxConversions = 2
    MaxFaults = 1
SPECIFICATION FairSpec
INVARIANT SlotsConserved
PROPERTIES RunEnds QuestionEnds

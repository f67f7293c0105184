CONSTANTS
    d = d
    p = p
    Docs = {d, p}
    Pdfs = {p}
    Texts <- MCTexts
    Saves = {s1}
    Generic = Generic
    SegmentMax = 3
    MaxRetries = 2
    Life = 2
    Margin = 1
    Minute = 2
    MaxTime = 2
    MaxRuns <- MCRuns
    MaxFaults = 1
SPECIFICATION FairSpec
INVARIANTS WholeText   OneRefresh
PROPERTY ConversionEnds
CHECK_DEADLOCK FALSE

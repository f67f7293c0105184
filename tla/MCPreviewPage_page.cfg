CONSTANTS
    Sessions = {a, b}
    NoSession = none
    CodeOnly = {b}
    Slots = {c1, c2}
    UserOps = {"confirm", "reject", "all", "bulk"}
    WorkerOps = {"convert"}
    MaxErrors = 1
    MaxClicks = 2
SPECIFICATION Spec
SYMMETRY SlotSymmetry
INVARIANTS TypeOK LoopsConfirmConverted BatchListTruthful
PROPERTIES OnlyHasteMisleads OnlyALateTickStopsPoll
CHECK_DEADLOCK FALSE

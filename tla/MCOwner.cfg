SPECIFICATION LiveSpec
CONSTANTS
    p1 = p1
    p2 = p2
    p3 = p3
    Proc = {p1, p2, p3}
    Workflows <- Mixes
    Id = {i1, i2}
    StateDir = StateDir
    NoSession = NoSession
    NoRef = NoRef
    NoId = NoId
    NoProc = NoProc
    MaxTrouble = 1
INVARIANTS StateRetained RefLeads
PROPERTIES KeptEndsOnPurpose OwnedDaemonEnds
CHECK_DEADLOCK FALSE

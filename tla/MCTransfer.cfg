SPECIFICATION LiveSpec
CONSTANTS
    r1 = r1
    r2 = r2
    NoReq = NoReq
    Req <- MCReq
    KindsOf <- MCKindsOf
    Limit = 1
    StdinLimit = 1
    Sizes = {0, 1, 2}
    MaxDeaths = 1
CHECK_DEADLOCK FALSE
INVARIANTS
    NoFalseSuccess
    HandlesReleased
PROPERTIES
    RequestsEnd

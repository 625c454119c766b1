CONSTANTS
    n1 = n1
    n2 = n2
    Node = {n1, n2}
    Qga = {n1}
    MaxRequests = 4
    Created <- OneDisk
    Isolated = {n1, n2}
    Failures <- ValidationFails
    CrashPoints <- NoPoints
    Torn = Torn
    None = None
SPECIFICATION Spec
INVARIANT PendingIsFresh

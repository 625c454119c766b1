CONSTANTS
    n1 = n1
    n2 = n2
    Node = {n1, n2}
    Qga = {n1}
    MaxRequests = 4
    Created <- OneDisk
    Isolated = {n1, n2}
    Failures <- FileWritesSucceed
    CrashPoints <- OutsideWrites
    Torn = Torn
    None = None
SPECIFICATION Spec
INVARIANT RuntimeKnown
INVARIANT FaultsKnown
INVARIANT AttachmentsPreserved
INVARIANT DraftsWithdrawn
PROPERTY ResetOnlyRemoved
PROPERTY ApprovedOnly

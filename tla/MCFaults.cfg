CONSTANTS
    n1 = n1
    f1 = f1
    f2 = f2
    Nodes = {n1}
    FaultIds = {f1, f2}
    MaxSteps = 3
    MaxCrashes = 1
    Failures <- AllFailures
    NoFault = NoFault
    NoJob = NoJob
SPECIFICATION LiveSpec
INVARIANT LinkRestored
INVARIANT RollbackComplete
PROPERTY ImplementsDuty
PROPERTY TimelineEnds

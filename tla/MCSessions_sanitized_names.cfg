CONSTANTS
    i1 = i1
    i2 = i2
    canonical = canonical
    variant = variant
    foreign = foreign
    alias = alias
    Ids = {i1, i2}
    Names = {canonical, variant}
    Sanitize <- SanitizeCollides
    ForeignLabs <- NoForeign
    TTLs = {1}
    MaxTime = 1
    MaxCrashes = 0
    CrashPoints <- AllPoints
    Failures <- NoFailures
    NoRecord = NoRecord
    NoId = NoId
SPECIFICATION Spec
INVARIANT UniqueLabNames

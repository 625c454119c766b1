CONSTANTS
    i1 = i1
    i2 = i2
    canonical = canonical
    variant = variant
    foreign = foreign
    alias = alias
    Ids = {i1}
    Names = {canonical}
    Sanitize <- SanitizeCollides
    ForeignLabs <- NoForeign
    TTLs = {1, 2}
    MaxTime = 2
    MaxCrashes = 1
    CrashPoints <- SafePoints
    Failures <- Recoverable
    NoRecord = NoRecord
    NoId = NoId
SPECIFICATION LiveSpec
PROPERTY LeaseEnforced
PROPERTY DetachedExits

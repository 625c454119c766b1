CONSTANTS
    i1 = i1
    i2 = i2
    canonical = canonical
    variant = variant
    foreign = foreign
    alias = alias
    Ids = {i1, i2}
    Names = {canonical, variant, foreign, alias}
    Sanitize <- SanitizeCollides
    ForeignLabs <- OneForeign
    TTLs = {1, 2}
    MaxTime = 1
    MaxCrashes = 1
    CrashPoints <- AllPoints
    Failures <- AllFailures
    NoRecord = NoRecord
    NoId = NoId
SPECIFICATION Spec
SYMMETRY Symmetric
INVARIANT RuntimeReapable
INVARIANT RunningIsIsolated
INVARIANT DeploysOwnLab
PROPERTY KeptSurvivesCleanup

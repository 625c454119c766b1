SPECIFICATION Spec
CONSTANTS
    N = 3
    Controllers <- MCControllers
    MaxBuilds = 2
    K = 2
    MaxInstalls = 2
CHECK_DEADLOCK FALSE
INVARIANTS
    TypeOK
    InstalledIsConfigured
    InstalledMeansWhole
    FeaturesSettled
PROPERTIES
    BuildInOrder
    ImagesBeforeApply
    OrderedRollout

SPECIFICATION MCSpec
CONSTANTS
    Weights <- MCWeights
    MaxLen = 4
    Items <- MCItems
    Hash <- MCHash
    MaxOps = 5
    N = 5
    None = None
    Installations <- MCInstallations
INVARIANTS Paired SliceIsClosedForm AsSliceIsClosedForm OneKeyPerMovie PagesResolve
PROPERTY ImplementPartition
CHECK_DEADLOCK FALSE

SPECIFICATION Spec
CONSTANTS
    Nodes = {n1, n2}
    Namings <- OwnNames
    Allocatables <- TwoSizes
    MayChange = TRUE
    MaxUpsets = 1
    MaxWatchLosses = 0
INVARIANT
    TotalInSync
CHECK_DEADLOCK FALSE

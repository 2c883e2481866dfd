SPECIFICATION Spec
CONSTANTS
    lo = lo
    mid = mid
    hi = hi
    qa = qa
    qb = qb
    n1 = n1
    n2 = n2
    plain = plain
    NoLabel = NoLabel
    NilMatcher = NilMatcher
    NilSelector = NilSelector
    InvalidSelector = InvalidSelector
    NoNode = NoNode
    Pods <- ThreePods
    PodOf <- Equals
    Never = {}
    CfgOf <- MCCfgOf
    MaxOf <- RoomForTwo
    Nodes = {n1, n2}
    Capacity <- TwoSmallNodes
    MaxNodeLosses = 1
    EnableAsyncPreemption = {TRUE}
PROPERTY
    NoSecondPreemption
CHECK_DEADLOCK FALSE

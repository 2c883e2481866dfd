SPECIFICATION FairSpec
CONSTANTS
    lo = lo
    mid = mid
    hi = hi
    qa = qa
    qb = qb
    n1 = n1
    n2 = n2
    plain = plain
    NoLabel = NoLabel
    NilMatcher = NilMatcher
    NilSelector = NilSelector
    InvalidSelector = InvalidSelector
    NoNode = NoNode
    Pods <- ThreePods
    PodOf <- Graded
    Never = {}
    CfgOf <- MCCfgOf
    MaxOf <- RoomForThree
    Nodes = {n1, n2}
    Capacity <- TwoNodes
    MaxNodeLosses = 1
    EnableAsyncPreemption = {TRUE, FALSE}
INVARIANTS
    RunningWithinMax
PROPERTIES
    PatientPreemptor
    RoomIsTaken
CHECK_DEADLOCK FALSE

SPECIFICATION Spec
CONSTANTS
    p1 = p1
    p2 = p2
    p3 = p3
    qa = qa
    NoLabel = NoLabel
    Pods <- ThreePods
    ForeignPods = {}
    Queues = {qa}
    QueueOf <- OneQueue
    Priority <- ThreePriorities
    InitialReq <- ThreeReqs
    ResizedReq <- ThreeReqs
    InitialMax <- OneMax
    Maxes <- LargeOnly
    Disruptions = {"watchLoss"}
    MaxDisruptions = 2
INVARIANTS
    LedgerExact
    FilteredStillFits
    OwnPodsCounted
    BoundWithinMax
CHECK_DEADLOCK FALSE

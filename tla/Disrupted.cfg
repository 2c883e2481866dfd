SPECIFICATION Spec
CONSTANTS
    p1 = p1
    p2 = p2
    p3 = p3
    qa = qa
    NoLabel = NoLabel
    Pods <- TwoPods
    ForeignPods = {p2}
    Queues = {qa}
    QueueOf <- SameQueue
    Priority <- TwoPriorities
    InitialReq <- TwoReqs
    ResizedReq <- TwoResized
    InitialMax <- OneMax
    Maxes <- LargeAndSmall
    Disruptions = {"queueLifecycle", "watchLoss", "queueWatchLoss", "lateBind", "restart"}
    MaxDisruptions = 3
INVARIANTS
    TypeOK
    LedgerExact
    QueuesInSync
CHECK_DEADLOCK FALSE

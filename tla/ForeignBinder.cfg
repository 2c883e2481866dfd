SPECIFICATION FairSpec
CONSTANTS
    p1 = p1
    p2 = p2
    p3 = p3
    qa = qa
    NoLabel = NoLabel
    Pods <- TwoPods
    ForeignPods = {p2}
    Queues = {qa}
    QueueOf <- SameQueue
    Priority <- TwoPriorities
    InitialReq <- TwoReqs
    ResizedReq <- TwoResized
    InitialMax <- OneMax
    Maxes <- LargeOnly
    Disruptions = {"resize"}
    MaxDisruptions = 2
INVARIANT
    InSync
PROPERTIES
    DepartedLeaveLedger
    BoundGetCounted
CHECK_DEADLOCK FALSE

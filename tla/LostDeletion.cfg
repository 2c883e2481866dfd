SPECIFICATION Spec
CONSTANTS
    p1 = p1
    p2 = p2
    p3 = p3
    qa = qa
    NoLabel = NoLabel
    Pods <- TwoPods
    ForeignPods = {p1, p2}
    Queues = {qa}
    QueueOf <- SameQueue
    Priority <- TwoPriorities
    InitialReq <- TwoReqs
    ResizedReq <- TwoResized
    InitialMax <- OneMax
    Maxes <- LargeOnly
    Disruptions = {"watchLoss"}
    MaxDisruptions = 1
INVARIANT
    DeletedReleased
CHECK_DEADLOCK FALSE

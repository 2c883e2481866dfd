SPECIFICATION StatusFairSpec
CONSTANTS
    qa = qa
    p1 = p1
    NoLabel = NoLabel
    m1 = m1
    Nodes = {n1, n2}
    Namings <- OwnOrSharedNames
    Allocatables <- OneSize
    MayChange = FALSE
    MaxUpsets = 1
    MaxWatchLosses = 1
    QueueNames = {qa}
    Maxes <- OneMax
    PodObjects <- OnePod
    MaxDisruptions = 2
INVARIANTS
    TotalWhileWatched
    NoNodeMissed
PROPERTY
    StatusConverges
CHECK_DEADLOCK FALSE

SPECIFICATION Spec
CONSTANTS
    p1 = p1
    p2 = p2
    p3 = p3
    qa = qa
    qb = qb
    NoLabel = NoLabel
    Nil = Nil
    handler = handler
    scheduler = scheduler
    Callers = {handler, scheduler}
    Scheduler = scheduler
    Names = {qa, qb}
    PodObjects <- ThreePods
    Specs <- TwoSpecs
    Initial <- BothStrict
    Edited = {qa}
    OpsOf <- Ops
    MaxOrphans = 1
INVARIANTS
    SnapshotBracketed
    SnapshotUntorn
PROPERTIES
    Linearizable
    SnapshotIsolated

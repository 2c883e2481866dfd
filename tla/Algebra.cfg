SPECIFICATION Spec
CONSTANTS
    Names = {"cpu", "gpu"}
    MaxQty = 2
    PodIDs = {p1, p2, p3}
INVARIANTS
    SubUndoesAdd
    IntersectingComparisonsAgree
    AllGreaterOrders
    EffectiveMaxIsMeet
    BulkAddIsLoop
CHECK_DEADLOCK FALSE

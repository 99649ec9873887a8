SPECIFICATION Spec
CONSTANTS
    Nodes = {1, 2, 3}
    Edges <- MCEdges
    Merges <- MCMerges
    Windows = {1}
    Retention = 1
    PageLimit = 1
    ClockSlip = 1
    NoCursor = NoCursor
    MaxEvents = 3
    MaxTime = 2
INVARIANT TypeOK
INVARIANT AnchorKept
INVARIANT WalkIsExact
CHECK_DEADLOCK FALSE

SPECIFICATION Spec
CONSTANTS
    Nodes = {1, 2, 3}
    Edges <- MCEdges
    Merges <- MCMerges
    Samples <- MCSamples
    Minute = 2
    Hour = 4
    Grace = 1
    RawRetention = 2
    MinuteRetention = 4
    HourRetention = 6
    Day = 3
    ClockSlip = 1
    NoTime = NoTime
    MaxBytes = 2
    MaxTime = 8
INVARIANT TypeOK
INVARIANT DetailLosesNothing
INVARIANT ListWithinAnHour
INVARIANT DetailExactWhenAligned
PROPERTY NothingWrittenBehindCursor
CHECK_DEADLOCK FALSE

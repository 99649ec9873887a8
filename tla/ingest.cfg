SPECIFICATION Spec
CONSTANTS
    r1 = r1
    r2 = r2
    o1 = o1
    p1 = p1
    gEmpty = gEmpty
    gPeer = gPeer
    Reporters = {r1, r2}
    Observers = {o1}
    Peers = {p1}
    RelayLinks = {p1}
    Generations = {gEmpty, gPeer}
    MembersOf <- MCMembersOf
    NoReporter = NoReporter
    NoGeneration = NoGeneration
    EvidenceWindow = 0
    ReportIDWindow = 2
    MaxSequence = 3
    MaxTime = 2
    Redelivery = TRUE
SYMMETRY MCSymmetry
VIEW MCView
INVARIANT TypeOK
INVARIANT OwnershipConsistent
INVARIANT DetachedEvidenceNotLive
INVARIANT FenceHolds
PROPERTY ReporterTableBounded
PROPERTY OnlyOwnerUpdates
PROPERTY NoSilentGap
PROPERTY OldTrafficStaysWithdrawn
CHECK_DEADLOCK FALSE

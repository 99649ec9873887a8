SPECIFICATION Spec
CONSTANTS
    None = None
    Reporters = {"r1", "r2", "r3"}
    StableIds = {"s1", "s2", "s3", "s4", "s5"}
    NodeKeys = {"k1", "k2", "k3", "k4"}
    DiscoKeys = {"d1", "d2"}
    Addresses = {"i1", "i2"}
    Reports <- IdentityReports
    Directories <- IdentityDirectories
    Orders <- IdentityOrders
    EvidenceWindow = 1
    NodeWindow = 2
    Gaps <- IdentityGaps
    MaxSteps = 6
INVARIANT TypeOK
INVARIANT IndexesLead
INVARIANT NothingDangles
INVARIANT OneOwnerThroughMerges
PROPERTY ReferencesFollow
 
CHECK_DEADLOCK FALSE

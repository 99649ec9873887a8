SPECIFICATION FairSpec
CONSTANTS
    k1 = k1
    k2 = k2
    r1 = r1
    r2 = r2
    i1 = i1
    i2 = i2
    g1 = g1
    g2 = g2
    Keys = {k1}
    Registrations = {r1}
    KeyOf <- MCKeyOf
    Identities = {i1, i2}
    IdentitiesOf <- MCIdentitiesOf
    RelayKeys = {}
    Generations = {g1}
    NoRegistration = NoRegistration
    NoIdentity = NoIdentity
    NoGeneration = NoGeneration
    QueueLimit = 2
    MaxBatch = 1
    MayStop = FALSE
PROPERTY WithdrawReturns
PROPERTY Reconnects
CHECK_DEADLOCK FALSE

SPECIFICATION Spec
CONSTANTS
    a = a
    b = b
    c = c
    d = d
    Reports = {a, b, c}
    Changes = {d}
    CheckpointEvery = 2
    MaxTime = 3
SYMMETRY MCSymmetry
INVARIANT TypeOK
INVARIANT AcknowledgedSurvives
INVARIANT NoReplayTwice
INVARIANT ReplayIsShort
PROPERTY ImplementsDurableLog

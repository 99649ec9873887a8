SPECIFICATION Spec
CONSTANTS
    a = a
    b = b
    c = c
    d = d
    Reports = {a, b}
    Changes = {}
    CheckpointEvery = 1
    MaxTime = 1
SYMMETRY MCSymmetry
PROPERTY MaintenanceRemovesOnlyCovered
CHECK_DEADLOCK FALSE

SPECIFICATION FairSpec
CONSTANTS
    l1 = l1
    Lists <- MCLists
    NoList = NoList
    Backoffs = 2
    MaxAttempts = 2
    MaxVersion = 3
    MaxDrops = 1
    MaxFailures = 1
INVARIANT NoLostWakeup
PROPERTY NeverGoesBack
PROPERTY SettlesOrSaysSo
PROPERTY DevicesRetained
CHECK_DEADLOCK FALSE

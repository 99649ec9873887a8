SPECIFICATION Spec
CONSTANTS
    a1 = a1
    e1 = e1
    Source = 2
    Target = 3
    Relays = {1}
    Sayings <- MCSayings
    VNIs = {7}
    Nothing = Nothing
    EvidenceWindow = 1
    MaxTime = 4
VIEW MCView
INVARIANT HistoryTellsLive
 
CHECK_DEADLOCK FALSE

\* A row pushed on the INDI thread while a page asks for its dump.
SPECIFICATION Spec
CONSTANTS
    m1 = m1
    p1 = p1
    v1 = v1
    v2 = v2
    Modules = {m1}
    Props = {p1}
    Values = {v1, v2}
    GridLimit = 2
    LogLimit = 2
    ServerGrant = "0"
    WorldsAtStart <- FreshOrFull
    LogsAtStart <- OneError
    Selectable = {m1}
    MayPush = TRUE
    MayOverlap = FALSE
    MaxSockets = 1
    MaxEvents = 1
    MaxBoth = 3
    MaxUp = 1
INVARIANTS
    DatastoreIsCorrect
CHECK_DEADLOCK FALSE

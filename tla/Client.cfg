\* A page that connects, loses its connection and connects again, to a server that
\* asks for a login, whose modules change meanwhile.
SPECIFICATION FairSpec
CONSTANTS
    m1 = m1
    p1 = p1
    v1 = v1
    v2 = v2
    Modules = {m1}
    Props = {p1}
    Values = {v1, v2}
    GridLimit = 2
    LogLimit = 2
    ServerGrant = "2"
    WorldsAtStart <- FreshOrFull
    LogsAtStart <- OneError
    Selectable = {m1}
    MayPush = TRUE
    MayOverlap = FALSE
    MaxSockets = 2
    MaxEvents = 2
    MaxBoth = 3
    MaxUp = 1
INVARIANTS
    
    
    GrantIsKnown
PROPERTIES
    ToastsAreNews
    KeepsLastView
    DumpArrives
CHECK_DEADLOCK FALSE

\* A run that may go on for ever (refocus loop, guider lost after an RMS alert), also
\* with Start pressed in it, camera alerts, cooling and a filter wheel.
SPECIFICATION FairSpec
CONSTANTS
    NLines = 1
    Count <- OneByTwo
    FilterOf <- LOnly
    EnableCooling = TRUE
    FilterWheel = TRUE
    IsLightOrFlat = TRUE
    FocusOnFilterChange = TRUE
    HfrCheck = TRUE
    SuspendForFocus = TRUE
    UseGuiding = TRUE
    DitherEvery = 1
    SettleWait = TRUE
    RmsCheck = TRUE
    SuspendAfterSequence = TRUE
    SuspendOnError = TRUE
    CameraMayAlert = TRUE
    GuiderMayFail = TRUE
    AllowReissue = TRUE
    KeepsLeftovers = TRUE
    MaxQueue = 2
    MaxShots = 1
PROPERTIES
    AbortStops
    RunsEnd

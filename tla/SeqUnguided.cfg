\* Violated: an exposure begins although the guider is known to be stopped.
SPECIFICATION Spec
CONSTANTS
    NLines = 1
    Count <- OneByTwo
    FilterOf <- LOnly
    EnableCooling = FALSE
    FilterWheel = FALSE
    IsLightOrFlat = TRUE
    FocusOnFilterChange = FALSE
    HfrCheck = FALSE
    SuspendForFocus = TRUE
    UseGuiding = TRUE
    DitherEvery = 1
    SettleWait = TRUE
    RmsCheck = TRUE
    SuspendAfterSequence = TRUE
    SuspendOnError = TRUE
    CameraMayAlert = FALSE
    GuiderMayFail = TRUE
    AllowReissue = FALSE
    KeepsLeftovers = FALSE
    MaxQueue = 2
    MaxShots = 2
PROPERTIES
    ExposuresAreGuided

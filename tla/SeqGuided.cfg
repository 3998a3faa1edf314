\* A guided run of light frames: dithering, settling, RMS and camera alerts, focus with
\* suspension, frames rejected for their HFR; the user may abort and start again.
SPECIFICATION Spec
CONSTANTS
    NLines = 2
    Count <- TwoByTwo
    FilterOf <- LR
    EnableCooling = FALSE
    FilterWheel = FALSE
    IsLightOrFlat = TRUE
    FocusOnFilterChange = TRUE
    HfrCheck = TRUE
    SuspendForFocus = TRUE
    UseGuiding = TRUE
    DitherEvery = 1
    SettleWait = TRUE
    RmsCheck = TRUE
    SuspendAfterSequence = TRUE
    SuspendOnError = TRUE
    CameraMayAlert = TRUE
    GuiderMayFail = TRUE
    AllowReissue = FALSE
    KeepsLeftovers = FALSE
    MaxQueue = 3
    MaxShots = 2
INVARIANTS
    Lockstep
    TimeoutsAreFresh
    ShotsAddUp
    SuspensionEndsWithFocus
    SettleIsFresh
PROPERTIES
    KeepsPromise

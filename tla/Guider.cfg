CONSTANTS
    CalSteps = 2
    Kick = TRUE
    CalRetries = 1
    MaxMatchFail = 2
    Faults = {"again", "refused", "silent", "slow", "early", "blank", "lost", "poor"}
    MaxSessions = 2
    MaxHitches = 1
SPECIFICATION FairSpec
INVARIANTS
    OneSession
    PassesArePure
PROPERTIES
    TimeoutsAreDeserved
    CorrectionsAreFresh
    QuietAfterAbort
    
CHECK_DEADLOCK FALSE

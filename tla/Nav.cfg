\* A planner and a user on one navigator, devices that fail, updates that come late.
SPECIFICATION FairSpec
CONSTANTS
    Half = 3
    Precession = 1
    Targets = {0, 5}
    Offsets = {2}
    Slop = 1
    Tolerance = 1
    MaxIterations = 2
    SyncAfter = {TRUE, FALSE}
    Faults = {"unset", "abort", "pick", "again", "late", "foreign", "unsolved", "refused"}
    MaxGotos = 2
    MaxHitches = 2
INVARIANTS
    OneStage
    DoneIsCentred
    OneCorrection
PROPERTIES
    GotoEnds

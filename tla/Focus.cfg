\* Two starts by stars or by sharpness, a user who aborts, devices that fail.
SPECIFICATION FairSpec
CONSTANTS
    StartPos = 3
    Steps = 2
    Backlash = 1
    Iterations = 3
    LoopIterations = 2
    Modes <- MCModes
    Qualities = {1, 3}
    Blank = 9
    Garbage = {0}
    Faults = {"again", "abort", "stray", "foreign", "blank", "refused"}
    MaxRuns = 2
    MaxHitches = 1
INVARIANTS
    SweepIsWhole
    
    DoneIsFocused
PROPERTIES
    QuietAfterAbort
    RunIsAnswered
CHECK_DEADLOCK FALSE

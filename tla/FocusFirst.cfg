\* The first point of a sweep around where the focuser is, that meets nothing.
SPECIFICATION Spec
CONSTANTS
    StartPos = 3
    Steps = 2
    Backlash = 1
    Iterations = 3
    LoopIterations = 2
    Modes <- MCAround
    Qualities = {1, 3}
    Blank = 9
    Garbage = {0}
    Faults = {}
    MaxRuns = 1
    MaxHitches = 0
INVARIANT
    MeasuresInPlace
CHECK_DEADLOCK FALSE

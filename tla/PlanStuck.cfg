\* Violated: an error of the sequencer or of the navigator is not among the
\* answers the planner listens to.
SPECIFICATION FairSpec
CONSTANTS
    NLines = 1
    MaxRetries = 2
    SlavesMayFail = TRUE
    Operated = {}
    ModulesMayGo = FALSE
PROPERTIES
    PlanningEnds

\* Slaves that fail and are unloaded; users who operate them too.
SPECIFICATION FairSpec
CONSTANTS
    NLines = 4
    MaxRetries = 2
    SlavesMayFail = TRUE
    Operated = {"navigator", "sequencer"}
    ModulesMayGo = TRUE
INVARIANTS
    OneAtATime
    TakesTurns
    
PROPERTIES
    KeepsPlan
    PlanningGoesOn

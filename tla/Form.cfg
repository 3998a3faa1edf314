\* Two fields and a dialog, values from the server at any moment.
SPECIFICATION FairSpec
CONSTANTS
    Fields = {f1, f2}
    Formable = {g}
    Values = {0, 1}
    MaxObjects = 2
    MaxEdits = 3
    MaxPushes = 1
INVARIANTS
    CountIsExact
    ShowsStore
PROPERTIES
    
    SendsWhatWasTyped
    RevertsNothing
    RedrawComes

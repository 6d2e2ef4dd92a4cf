CONSTANTS
    Reminders = {r1}
    Workers = {w1, w2}
    Editors = {e1, e2}
    None = None
    MaxTime = 2
    MaxEdits = 2
    MaxCrashes = 1
SPECIFICATION FairSpec
INVARIANTS SendsAccounted NoneLeftBehind
PROPERTIES NoEarlySend DueIsProcessed

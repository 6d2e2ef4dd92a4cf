CONSTANTS
    Reminders = {r1}
    Workers = {w1, w2}
    Editors = {e1}
    None = None
    MaxTime = 1
    MaxEdits = 2
    MaxCrashes = 1
SPECIFICATION RemindersSpec
SYMMETRY Symmetry
INVARIANTS NoDoubleSend

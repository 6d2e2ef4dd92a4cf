SPECIFICATION Spec
CONSTANTS
    Callers = {r1, r2}
    Jobs = {j1}
    Window = 2
    Limits = {3}
    RecurrenceEnd = 3
    Retention = 0
    MaxEvents = 3
    MaxTime = 1
    MaxEdits = 3
    None = None
    Starts <- SomeStarts
    MaxDates = 8
INVARIANTS WindowKept OccurrencesFollowTheRule
PROPERTIES LifecycleKept StopIsFinal StopNotifies
CHECK_DEADLOCK FALSE
SYMMETRY Symmetry

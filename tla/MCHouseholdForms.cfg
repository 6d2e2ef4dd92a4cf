SPECIFICATION Spec
CONSTANTS
    Guests = {g1, g2, g3}
    Questions = {q1}
    Pages = {p1, p2}
    None = None
    MaxVersion = 3
    MaxAllowance = 1
SYMMETRY Symmetry
CONSTRAINT Bound
CHECK_DEADLOCK FALSE
INVARIANTS CurrentPageIsExact
PROPERTIES HistoryKept SavedResponseIsComplete

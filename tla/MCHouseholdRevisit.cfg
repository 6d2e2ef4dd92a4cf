CONSTANTS
    Guests = {g1}
    Questions = {q1}
    Pages = {p1}
    None = None
    MaxVersion = 3
    MaxAllowance = 1
SPECIFICATION Spec
SYMMETRY Symmetry
CHECK_DEADLOCK FALSE
INVARIANTS RevisitAccepted

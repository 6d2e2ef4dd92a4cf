CONSTANTS
    Invitations = {i1, i2}
    Requests = {r1, r2}
    None = None
    MaxTime = 1
    MaxVersion = 2
    MaxParty = 2
    MaxCapacity = 2
    MaxGrown = 1
SPECIFICATION Spec
SYMMETRY Symmetry
INVARIANTS AdmittedByCurrentLink
PROPERTIES AdmissionWithinCapacity

CONSTANTS
    Users = {u1, u2}
    Links = {l1}
    Invites = {i1, i2, i3}
    Requests = {r1, r2}
    Instance = Instance
    None = None
SPECIFICATION Spec
SYMMETRY Symmetry
CHECK_DEADLOCK FALSE
INVARIANTS SessionsOfActiveUsers AcceptedOnce 
PROPERTIES AdminRemains

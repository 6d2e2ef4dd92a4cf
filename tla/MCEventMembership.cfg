SPECIFICATION Spec
CONSTANTS
    Users = {u1, u2, u3}
    Owner = u1
    Admins = {u2}
    Invites = {i1, i2}
    Requests = {r1, r2}
    MaxCoHosts = 1
    None = None
INVARIANTS CommitmentsBounded 
 
CHECK_DEADLOCK FALSE
SYMMETRY Symmetry

CONSTANTS
    Invitations = {i1}
    Sessions = {s1, s2}
    Tokens = {t1}
    Requests = {r1, r2}
    None = None
    MaxVersion = 2
    MaxResponse = 2
SPECIFICATION FairSpec
INVARIANTS NoFutureCredential RecoveryMintsOne
PROPERTIES RotationCutsOff NoResponseAfterRevoke ImplementsHouseholdAccess SubmissionAnswered

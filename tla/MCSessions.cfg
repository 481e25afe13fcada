\* Three sessions and one change of password.
CONSTANTS
    r1 = r1
    r2 = r2
    b1 = b1
    Request <- MCRequest
    Replica <- MCReplica
    Nobody = Nobody
    MaxSessions = 3
    MaxChanges = 1
SYMMETRY Symmetric
SPECIFICATION Spec
INVARIANTS
    OneLivePerLogin
    OldSessionsLeave
    TokensNeverAhead
PROPERTY RevocationIsFinal
CHECK_DEADLOCK FALSE

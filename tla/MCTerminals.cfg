SPECIFICATION Spec
CHECK_DEADLOCK FALSE
CONSTANTS
    Calls = {c1, c2, c3}
    Requests <- MCRequests
    FirstUser <- MCFirst
    MaxUsers = 3
    MaxKeys = 2
    NoFile = NoFile
    Torn = Torn
SYMMETRY Symmetry
INVARIANTS
    UsersDiffer
    RevokedKeyIsRefused
    OldPasswordIsRefused
    AuditIsTrue
    CommandTouchesOwnKeys

SPECIFICATION Spec
CONSTANTS
    login = login
    me = me
    again = again
    Calls = {login, again, me}
    Kind <- MCKind
    MaxTokens = 4
INVARIANTS
    StoredTokenLives
    PerformedOnce
    SessionSurvives
    StoreIsWhole

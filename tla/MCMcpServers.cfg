CONSTANTS
    Calls = {c1, c2, c3}
    MaxTalking = 2
SPECIFICATION FairSpec
CHECK_DEADLOCK FALSE
INVARIANTS
    NothingIsConnected
    StatusIsOfThisRow
PROPERTIES
    EveryCallEnds

SPECIFICATION Spec
CHECK_DEADLOCK FALSE
CONSTANTS
    Calls = {c1, c2, c3}
    Names = {n}
    MaxRows = 2
    Earlier = Earlier
SYMMETRY Symmetry
INVARIANTS
    OneAgentPerName
    UsesAreCounted
    OkMeansDone

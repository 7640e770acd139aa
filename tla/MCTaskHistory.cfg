SPECIFICATION Spec
CONSTANTS
    Runs = {a, b}
    MaxHooks = 2
    MaxChanges = 2
SYMMETRY Symmetry
INVARIANTS
    NewsIsHistory
    AnsweredIsRecorded
    CalledOnce
PROPERTY NoHookIsSkipped
CHECK_DEADLOCK FALSE

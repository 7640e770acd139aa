SPECIFICATION PlannerSpec
CHECK_DEADLOCK FALSE
CONSTANTS
    MaxItems = 3
    Mentions <- Written
INVARIANTS
    EachSubTaskOnce
    OutsideCyclesInOrder
    

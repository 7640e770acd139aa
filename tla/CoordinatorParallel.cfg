SPECIFICATION Spec
CONSTANTS
    o3 = o3
    u1 = u1
    o1 = o1
    o2 = o2
    a1 = a1
    a2 = a2
    s1 = s1
    s2 = s2
    s3 = s3
    t1 = t1
    t2 = t2
    Agents = {a1, a2}
    Orchs = {o1, o2}
    SubTasks = {s1, s2, s3, t1, t2}
    Owner <- Owners
    Plan <- ParPlan
    Sorted <- ParPlan
    DependsOn <- NoDependency
    Wants <- ParWants
    MatchesRole <- ParRoles
    CapsOf <- ParCaps
    Team <- ParTeam
    Config <- ParConfig
    TokenCounts = {2}
    CloseIsFinal = TRUE
    ChatTakesDicts = TRUE
    HeartbeatTimeout = 1
    Absent = Absent
    NoAgent = NoAgent
    NoResult = NoResult
INVARIANTS
    BusyAgentIsWorking
    OverBudgetFails
    TotalMatchesResults
    FailureStopsSequence
PROPERTIES
    KeepsContract

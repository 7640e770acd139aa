SPECIFICATION Spec
CONSTANTS
    o1 = o1
    o3 = o3
    u1 = u1
    o2 = o2
    a1 = a1
    a2 = a2
    s1 = s1
    s2 = s2
    s3 = s3
    t1 = t1
    t2 = t2
    Agents = {a1, a2}
    Orchs = {o1, o2}
    SubTasks = {s1, t1}
    Owner <- Owners
    Plan <- ApiPlan
    Sorted <- ApiPlan
    DependsOn <- NoDependency
    Wants <- NoWants
    MatchesRole <- NoRoles
    CapsOf <- NoCaps
    Team <- ApiTeam
    Config <- ApiConfig
    TokenCounts = {2, 4}
    CloseIsFinal = TRUE
    ChatTakesDicts = FALSE
    HeartbeatTimeout = 1
    Absent = Absent
    NoAgent = NoAgent
    NoResult = NoResult
INVARIANT EveryRunReachesLLM

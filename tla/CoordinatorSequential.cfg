SPECIFICATION FairSpec
CONSTANTS
    o3 = o3
    u1 = u1
    o1 = o1
    o2 = o2
    a1 = a1
    a2 = a2
    s1 = s1
    s2 = s2
    s3 = s3
    t1 = t1
    t2 = t2
    Agents = {a1}
    Orchs = {o1, o3}
    SubTasks = {s1, s2, u1}
    Owner <- Owners
    Plan <- SeqPlan
    Sorted <- SeqSorted
    DependsOn <- SeqDeps
    Wants <- NoWants
    MatchesRole <- NoRoles
    CapsOf <- NoCaps
    Team <- SeqTeam
    Config <- SeqConfig
    TokenCounts = {2}
    CloseIsFinal = FALSE
    ChatTakesDicts = TRUE
    HeartbeatTimeout = 1
    Absent = Absent
    NoAgent = NoAgent
    NoResult = NoResult
INVARIANTS
    DependenciesFirst
PROPERTIES
    NoRerunOfSuccess
    EveryRequestAnswered

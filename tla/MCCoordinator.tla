-------------------------- MODULE MCCoordinator ---------------------------
(* Instances of Coordinator.  Orchestrations share the agents a1 and a2;    *)
(* the sub-tasks of each are given by its plan, which a cfg chooses.        *)
EXTENDS Coordinator

CONSTANTS o1, o2, o3, a1, a2, s1, s2, s3, t1, t2, u1

Default == [strategy |-> "auto", fallback_behavior |-> "error", token_budget |-> 3,
            max_concurrency |-> 2, enable_task_planning |-> TRUE,
            enable_supervisor |-> FALSE, enable_parallel |-> TRUE]

NoDependency == [s \in SubTasks |-> {}]
Owners       == [s \in SubTasks |-> CASE s \in {s1, s2, s3} -> o1
                                      [] s \in {t1, t2}     -> o2
                                      [] s = u1             -> o3]
NoCaps       == [a \in Agents |-> << >>]
NoWants      == [s \in SubTasks |-> << >>]
NoRoles      == [s \in SubTasks |-> {}]

\* The shipped API: no capabilities, no roles, single-task plans; o1 plans
\* with the LLM, o2 does not.  Their teams overlap in a2.
ApiPlan   == [o \in Orchs |-> IF o = o1 THEN <<s1>> ELSE <<t1>>]
ApiTeam   == [o \in Orchs |-> IF o = o1 THEN <<a1, a2>> ELSE <<a2>>]
ApiConfig == [o \in Orchs |-> [Default EXCEPT !.enable_task_planning = o = o1,
                                              !.fallback_behavior = "retry"]]

\* A sequence that retries, whose planner lists s2 before the s1 it depends
\* on, and a supervisor, on one agent.
SeqPlan   == [o \in Orchs |-> IF o = o1 THEN <<s2, s1>> ELSE <<u1>>]
SeqSorted == [o \in Orchs |-> IF o = o1 THEN <<s1, s2>> ELSE <<u1>>]
SeqDeps   == [s \in SubTasks |-> IF s = s2 THEN {s1} ELSE {}]
SeqTeam   == [o \in Orchs |-> <<a1>>]
SeqConfig == [o \in Orchs |-> [Default EXCEPT
                 !.strategy = IF o = o3 THEN "supervisor" ELSE "sequential",
                 !.fallback_behavior = "retry"]]

\* Three parallel sub-tasks beside a sequence that stops at the first failure.
ParPlan   == [o \in Orchs |-> IF o = o1 THEN <<s1, s2, s3>> ELSE <<t1, t2>>]
ParTeam   == [o \in Orchs |-> IF o = o1 THEN <<a1, a2>> ELSE <<a1>>]
ParCaps   == [a \in Agents |-> <<"code">>]
ParWants  == [s \in SubTasks |-> IF s \in {s1, t1} THEN <<"search", "code">> ELSE << >>]
ParRoles  == [s \in SubTasks |-> IF s = s2 THEN {a2} ELSE {}]
ParConfig == [o \in Orchs |-> [Default EXCEPT
                 !.strategy = IF o = o1 THEN "auto" ELSE "sequential",
                 !.fallback_behavior = IF o = o1 THEN "skip" ELSE "error"]]

\* The order each instance gives the coordinator is the one _topological_sort
\* returns: the order of the plan if nothing depends on anything, and else the
\* plans are such that only one order puts dependencies first.
ASSUME SortedFollowsTaskGraph ==
    \A o \in Orchs :
       /\ (\A s \in Mine(o) : DependsOn[s] = {}) => Sorted[o] = Plan[o]
       /\ \A i \in 1 .. Len(Sorted[o]) :
             DependsOn[Sorted[o][i]] \cap Mine(o) \subseteq {Sorted[o][j] : j \in 1 .. i - 1}
=============================================================================

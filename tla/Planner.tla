------------------------------ MODULE Planner ------------------------------
(***************************************************************************)
(* forge/orchestrator/planner.py: the LLM's answer becomes a list of       *)
(* sub-tasks, which _run_sequential sorts (TaskGraph).  An item of the     *)
(* answer is the set of things it lists under depends_on; nothing else in  *)
(* it decides an order.  The ids are made when the answer has come, so no  *)
(* answer mentions one.  A list that is made in code may: SubTaskDef takes *)
(* an id and the coordinator is given its planner.                         *)
(***************************************************************************)
EXTENDS TaskGraph, FiniteSets

CONSTANTS
    MaxItems,  \* bound: items in an answer, or in a list made in code
    Mentions   \* what the LLM may write under depends_on

\* The i-th sub-task has Id(i), in the planner a fresh uuid.
Id(i) == [kind |-> "id", n |-> i]

\* The prompt asks for indexes, counted from 0: as numbers or as text.
Number(i) == [kind |-> "number", n |-> i]
Text(i)   == [kind |-> "text", n |-> i]

ASSUME ItemsAssumption ==
    /\ MaxItems \in Nat
    /\ \A m \in Mentions : m.kind \in {"number", "text"}

VARIABLES
    stage,   \* how far plan(), and the sort after it, are
    answer   \* the items the LLM lists, none if it is not asked

plannerVars == <<stage, answer, graphVars, sortVars>>

ListsOf(things) == UNION {[1 .. n -> SUBSET things] : n \in 0 .. MaxItems}

Answers == ListsOf(Mentions)

PlannerInit ==
    /\ stage = "asked"
    /\ answer = << >> /\ plan = << >> /\ depends = << >>
    /\ SortInit

\* One sub-task per item, whatever the item depends on.
Plans(items) ==
    /\ plan' = [i \in DOMAIN items |-> Id(i)]
    /\ depends' = [s \in {Id(i) : i \in DOMAIN items} |-> items[s.n]]
    /\ stage' = "planned"
    /\ UNCHANGED sortVars

\* Planning is disabled.
FallbackPlan ==
    /\ stage = "asked"
    /\ Plans(<<{}>>)
    /\ UNCHANGED answer

\* A list made in code, whose items name each other, themselves or nothing.
PlanInCode ==
    /\ stage = "asked"
    /\ \E items \in ListsOf({Id(i) : i \in 1 .. MaxItems}) : Plans(items)
    /\ UNCHANGED answer

\* SubTaskDef takes texts only under depends_on, and pydantic turns no number
\* into a text.
Valid(items) == \A i \in DOMAIN items : \A m \in items[i] : m.kind # "number"

ParsePlan ==
    /\ stage = "asked"
    /\ answer' \in Answers \ {<< >>}
    /\ Valid(answer')
    /\ Plans(answer')

\* TaskDecompositionError: the call fails, the answer is no JSON object or
\* lists nothing, or an item is invalid.
PlanningFails ==
    /\ stage = "asked"
    /\ answer' \in {a \in Answers : a = << >> \/ ~Valid(a)}
    /\ stage' = "failed"
    /\ UNCHANGED <<graphVars, sortVars>>

Sort ==
    /\ stage = "planned"
    /\ \/ SortStep /\ UNCHANGED stage
       \/ SortEnds /\ stage' = "sorted" /\ UNCHANGED <<graphVars, sortVars>>
    /\ UNCHANGED answer

PlannerNext == FallbackPlan \/ PlanInCode \/ ParsePlan \/ PlanningFails \/ Sort

PlannerSpec == PlannerInit /\ [][PlannerNext]_plannerVars

-----------------------------------------------------------------------------
Before(s, t) == \E i, j \in DOMAIN order : i < j /\ order[i] = s /\ order[j] = t

\* What s depends on, directly or through others: the sub-tasks that are in
\* every set that has the dependencies of s and those of its own members.
Reaches(s) ==
    {t \in Known : \A S \in SUBSET Known :
        (\A r \in S \cup {s} : depends[r] \cap Known \subseteq S) => t \in S}

\* The sort neither drops a sub-task nor lists one twice, whatever is written
\* under depends_on: the sub-task itself, a cycle, ids that do not exist.
EachSubTaskOnce ==
    stage = "sorted" => Len(order) = Len(plan) /\ ToSet(order) = ToSet(plan)

\* In a list made in code, which alone can name ids, a sub-task comes after each
\* one it depends on, unless they depend on each other: one cycle in the list
\* disturbs the order of its members only (_topological_sort).
OutsideCyclesInOrder ==
    stage = "sorted" =>
        \A s \in Known : \A d \in depends[s] \cap Known :
            s \notin Reaches(d) => Before(d, s)

\* A plan of the LLM is executed in the order in which the LLM lists it, whatever
\* it says of dependencies: an index, which the prompt asks for (planner.py:32),
\* is an id that the plan does not have, and _visit passes over it.
ListedOrderIsKept ==
    stage = "sorted" /\ answer # << >> => order = plan
=============================================================================

----------------------------- MODULE TaskGraph -----------------------------
(***************************************************************************)
(* _topological_sort of forge/orchestrator/coordinator.py, a step for each *)
(* call of _visit and each return.  A dependency list becomes a Python set *)
(* of strings, whose iteration order varies from run to run.               *)
(***************************************************************************)
EXTENDS Naturals, Sequences, SequencesExt

VARIABLES
    plan,     \* the ids of the sub-tasks, as they are listed
    depends,  \* depends[s]: SubTaskDef.depends_on of sub-task s, as a set
    next,     \* the sub-task that the loop of _topological_sort takes next
    frames,   \* the calls of _visit under way: an id, and the left of its deps
    visited,  \* ids visited
    order     \* sorted_tasks

graphVars == <<plan, depends>>
sortVars  == <<next, frames, visited, order>>

\* The keys of graph and names, and graph.get(n, set()).
Known   == ToSet(plan)
Deps(n) == IF n \in Known THEN depends[n] ELSE {}

SortInit ==
    /\ next = 1
    /\ frames = << >> /\ visited = {} /\ order = << >>

\* _visit(n), called by the last of the calls fs.
Visit(n, fs) ==
    \/ /\ n \in visited
       /\ frames' = fs
       /\ UNCHANGED visited
    \/ /\ n \notin visited
       /\ frames' = Append(fs, [id |-> n, left |-> Deps(n)])
       /\ visited' = visited \cup {n}

\* Fault: only what nothing depends on is visited.
NextTaskOfRoots ==
    /\ frames = << >> /\ next <= Len(plan)
    /\ IF \A s \in Known : plan[next] \notin depends[s]
       THEN Visit(plan[next], << >>) ELSE UNCHANGED <<frames, visited>>
    /\ next' = next + 1
    /\ UNCHANGED <<graphVars, order>>

NextTask ==
    /\ frames = << >> /\ next <= Len(plan)
    /\ Visit(plan[next], << >>)
    /\ next' = next + 1
    /\ UNCHANGED <<graphVars, order>>

NextDependency ==
    /\ frames # << >>
    /\ \E d \in Last(frames).left :
          Visit(d, [frames EXCEPT ![Len(frames)].left = @ \ {d}])
    /\ UNCHANGED <<graphVars, next, order>>

\* Fault: before all dependencies are visited.
VisitReturnsEarly ==
    /\ frames # << >>
    /\ frames' = Front(frames)
    /\ order' = IF Last(frames).id \in Known THEN Append(order, Last(frames).id) ELSE order
    /\ UNCHANGED <<graphVars, next, visited>>

\* Fault: an id that no sub-task has ends up in the order.
VisitReturnsUnknown ==
    /\ frames # << >> /\ Last(frames).left = {}
    /\ frames' = Front(frames)
    /\ order' = Append(order, Last(frames).id)
    /\ UNCHANGED <<graphVars, next, visited>>

VisitReturns ==
    /\ frames # << >> /\ Last(frames).left = {}
    /\ frames' = Front(frames)
    /\ order' = IF Last(frames).id \in Known THEN Append(order, Last(frames).id) ELSE order
    /\ UNCHANGED <<graphVars, next, visited>>

SortStep == NextTask \/ NextDependency \/ VisitReturns

SortEnds == frames = << >> /\ next > Len(plan)
=============================================================================

----------------------- MODULE OrchestrationContract -----------------------
(***************************************************************************)
(* What POST /orchestrate promises its caller, whatever the strategy, the  *)
(* retries and the agents: every request gets one final verdict, and it is *)
(* "completed" only when each sub-task of its plan has succeeded.  A failed*)
(* orchestration may leave sub-tasks that still succeed later.             *)
(***************************************************************************)
CONSTANTS Orchs, SubTasks, Owner

VARIABLES
    verdict,   \* verdict[o]: "none" before the request, "running", then final
    succeeded  \* sub-tasks with a successful result

contractVars == <<verdict, succeeded>>

Init ==
    /\ verdict = [o \in Orchs |-> "none"]
    /\ succeeded = {}

Accept(o) ==
    /\ verdict[o] = "none"
    /\ verdict' = [verdict EXCEPT ![o] = "running"]
    /\ UNCHANGED succeeded

\* A sub-task succeeds, while its orchestration has not yet completed.
Succeed(s) ==
    /\ verdict[Owner[s]] \in {"running", "failed"}
    /\ succeeded' = succeeded \cup {s}
    /\ UNCHANGED verdict

\* The verdict is given, by a step that may bring the last success.
Conclude(o) ==
    /\ verdict[o] = "running"
    /\ \E S \in {{}} \cup {{s} : s \in {t \in SubTasks : Owner[t] = o}} :
          succeeded' = succeeded \cup S
    /\ \E v \in {"completed", "failed"} :
          /\ v = "completed" => \A s \in SubTasks : Owner[s] = o => s \in succeeded'
          /\ verdict' = [verdict EXCEPT ![o] = v]

Next ==
    \/ \E o \in Orchs : Accept(o) \/ Conclude(o)
    \/ \E s \in SubTasks : Succeed(s)

Spec == Init /\ [][Next]_contractVars
=============================================================================

---------------------------- MODULE Coordinator ----------------------------
(***************************************************************************)
(* forge/orchestrator/coordinator.py and supervisor.py, with the route     *)
(* (api/routes/orchestrator.py) that starts them: several orchestrations   *)
(* served by one event loop.  They share the agent registry and the LLM    *)
(* client, both process globals.  A step runs from one suspension point    *)
(* of a coroutine to the next; the return of one sub-task and the start of *)
(* the next one are two steps, which only adds interleavings.              *)
(***************************************************************************)
EXTENDS AgentRegistry, FiniteSets, FiniteSetsExt

CONSTANTS
    Orchs,          \* orchestrations: one coordinator per request
    SubTasks,       \* identifiers of sub-tasks
    Owner,          \* Owner[s]: the orchestration whose plan has s
    Plan,           \* Plan[o]: the sub-tasks in the order the planner lists them
    Sorted,         \* Sorted[o]: the same after _topological_sort
    DependsOn,      \* DependsOn[s]: SubTaskDef.depends_on
    Wants,          \* Wants[s]: SubTaskDef.agent_capabilities as planned
    MatchesRole,    \* MatchesRole[s]: agents whose role contains agent_role
    Team,           \* Team[o]: the agents of the request, in order
    Config,         \* Config[o]: the OrchestrationConfig
    TokenCounts,    \* what one run of an agent may use
    CloseIsFinal,   \* the LLM client refuses requests once closed (httpx does)
    ChatTakesDicts, \* its chat takes plain dictionaries as messages
    NoAgent, NoResult

Strategies == {"sequential", "parallel", "supervisor"}
Fallbacks  == {"error", "retry", "skip", "delegate"}
MaxRetries == 3
Outcome    == [ok : BOOLEAN, tokens : Nat]

ASSUME PlanAssumption ==
    /\ IsFiniteSet(SubTasks)
    /\ Owner \in [SubTasks -> Orchs]
    /\ Plan \in [Orchs -> Seq(SubTasks)]
    /\ Sorted \in [Orchs -> Seq(SubTasks)]
    /\ \A o \in Orchs :
          LET mine == {s \in SubTasks : Owner[s] = o} IN
          /\ Len(Plan[o]) > 0 /\ Len(Sorted[o]) > 0
          /\ ~Config[o].enable_task_planning => Len(Plan[o]) = 1  \* _fallback_plan
          /\ {Plan[o][i] : i \in 1 .. Len(Plan[o])} = mine
          /\ {Sorted[o][i] : i \in 1 .. Len(Sorted[o])} = mine

ASSUME ConfigAssumption ==
    /\ Config \in [Orchs -> [strategy : Strategies \cup {"auto"},
                             fallback_behavior : Fallbacks,
                             token_budget : Nat,
                             max_concurrency : Nat \ {0},
                             enable_task_planning : BOOLEAN,
                             enable_supervisor : BOOLEAN,
                             enable_parallel : BOOLEAN]]
    /\ Team \in [Orchs -> Seq(Agents)]
    /\ TokenCounts \subseteq Nat
    /\ CloseIsFinal \in BOOLEAN /\ ChatTakesDicts \in BOOLEAN
    /\ NoAgent \notin Agents
    /\ NoResult \notin Outcome
    /\ Absent \notin Descriptor

VARIABLES
    client,   \* the shared OllamaClient
    phase,    \* phase[o]: how far orchestrate() is
    status,   \* status[o]: OrchestrationResult.status
    cursor,   \* cursor[o]: position of the loop of a one-at-a-time strategy
    permits,  \* permits[o]: the semaphore of _run_parallel
    total,    \* total[o]: the coordinator's _total_tokens
    caps,     \* caps[s]: agent_capabilities after _resolve_agents
    work,     \* work[s]: the current attempt at sub-task s
    result,   \* result[s]: the SubTaskResult kept for s
    leftBusy  \* history: agents whose runtime did not close, and not idle since

orchVars == <<phase, status, cursor, permits, total>>
vars == <<names, desc, client, orchVars, caps, work, result, leftBusy>>

Places == {"pending", "running", "closing", "asleep", "review", "ended"}
Attempt == [at : Places, agent : Agents \cup {NoAgent}, tries : 0 .. MaxRetries,
            live : BOOLEAN, ok : BOOLEAN, tokens : Nat]
NoAttempt == [at |-> "pending", agent |-> NoAgent, tries |-> 0,
              live |-> FALSE, ok |-> FALSE, tokens |-> 0]

Mine(o)    == {s \in SubTasks : Owner[s] = o}
Members(o) == {Team[o][i] : i \in DOMAIN Team[o]}

Usable == client = "open" \/ ~CloseIsFinal

\* _resolve_strategy
Strategy(o) ==
    LET c       == Config[o]
        n       == Len(Plan[o])
        hasDeps == \E s \in Mine(o) : DependsOn[s] # {}
    IN  IF c.strategy # "auto" THEN c.strategy
        ELSE IF c.enable_supervisor /\ n > 2 THEN "supervisor"
        ELSE IF c.enable_parallel /\ ~hasDeps /\ n > 1 THEN "parallel"
        ELSE "sequential"

\* Fault: the sequence follows the planner's order.
QueueUnsorted(o) == Plan[o]

\* The list a one-at-a-time strategy walks through.
Queue(o) == IF Strategy(o) = "sequential" THEN Sorted[o] ELSE Plan[o]

Init ==
    /\ RegInit
    /\ client = "open"
    /\ phase   = [o \in Orchs |-> "new"]
    /\ status  = [o \in Orchs |-> "running"]
    /\ cursor  = [o \in Orchs |-> 1]
    /\ permits = [o \in Orchs |-> 0]
    /\ total   = [o \in Orchs |-> 0]
    /\ caps    = Wants
    /\ work    = [s \in SubTasks |-> NoAttempt]
    /\ result  = [s \in SubTasks |-> NoResult]
    /\ leftBusy = {}

-----------------------------------------------------------------------------
(* Accepting a request and planning it.                                     *)

\* POST /orchestrate registers the request's agents, one after the other.
Accept(o) ==
    /\ phase[o] = "new"
    /\ RegisterAll(Members(o), SelectSeq(Team[o], LAMBDA a : ~Registered(a)))
    /\ phase' = [phase EXCEPT ![o] = "planning"]
    /\ leftBusy' = leftBusy \ Members(o)
    /\ UNCHANGED <<client, status, cursor, permits, total, caps, work, result>>

Conclude(o, verdict) ==
    /\ phase'  = [phase EXCEPT ![o] = "done"]
    /\ status' = [status EXCEPT ![o] = verdict]

\* The planner asks the LLM unless planning is disabled, and passes a plain
\* dictionary to chat.
CanPlan(o) ==
    Config[o].enable_task_planning => ChatTakesDicts /\ Usable

\* _resolve_agents: a sub-task that names a role but no capability takes those
\* of the first idle agent of that role.
Resolved(s) ==
    IF caps[s] = << >> /\ FindByRole(MatchesRole[s]) # << >>
    THEN CapsOf[Head(FindByRole(MatchesRole[s]))] ELSE caps[s]

PlanReady(o) ==
    /\ phase[o] = "planning"
    /\ CanPlan(o)
    /\ phase' = [phase EXCEPT ![o] = "working"]
    /\ caps' = [s \in SubTasks |-> IF s \in Mine(o) THEN Resolved(s) ELSE caps[s]]
    /\ permits' = [permits EXCEPT ![o] =
                     IF Strategy(o) = "parallel" THEN Config[o].max_concurrency ELSE 0]
    /\ UNCHANGED <<names, desc, client, status, cursor, total, work, result, leftBusy>>

\* TaskDecompositionError: the LLM fails, or its answer cannot be parsed.
PlanFails(o) ==
    /\ phase[o] = "planning"
    /\ Config[o].enable_task_planning
    /\ Conclude(o, "failed")
    /\ UNCHANGED <<names, desc, client, cursor, permits, total, caps, work, result, leftBusy>>

-----------------------------------------------------------------------------
(* _execute_sub_task                                                        *)

\* _select_agent: by capability, by role, else the first agent of the request
\* whose heartbeat is recent, busy or not.
Selected(s) ==
    LET known   == SelectSeq(caps[s], LAMBDA c : FindByCapability(c) # << >>)
        healthy == SelectSeq(Team[Owner[s]], Healthy)
    IN  IF known # << >> THEN Head(FindByCapability(Head(known)))
        ELSE IF FindByRole(MatchesRole[s]) # << >> THEN Head(FindByRole(MatchesRole[s]))
        ELSE IF healthy # << >> THEN Head(healthy)
        ELSE NoAgent

\* Sub-task s is next: it finds the semaphore free, or the loop has reached it.
Turn(s) ==
    /\ work[s].at = "pending"
    /\ IF Strategy(Owner[s]) = "parallel"
       THEN permits[Owner[s]] > 0
       ELSE /\ phase[Owner[s]] = "working"
            /\ Queue(Owner[s])[cursor[Owner[s]]] = s

Dispatch(s) ==
    /\ Turn(s)
    /\ \E a \in Members(Owner[s]) :
          /\ Selected(s) = a
          /\ UpdateStatus(a, "busy")
          /\ work' = [work EXCEPT ![s].at = "running", ![s].agent = a, ![s].live = Usable]
    /\ permits' = IF Strategy(Owner[s]) = "parallel"
                  THEN [permits EXCEPT ![Owner[s]] = @ - 1] ELSE permits
    /\ UNCHANGED <<client, phase, status, cursor, total, caps, result, leftBusy>>

\* The run under wait_for returns, reports an error, raises or times out.
\* Without a usable client it cannot succeed; a run that raises or times out
\* leaves tokens_used at 0.  runtime.close then starts closing the client.
RunEnds(s) ==
    /\ work[s].at = "running"
    /\ \E ok \in BOOLEAN, n \in TokenCounts \cup {0} :
          /\ (ok \/ n > 0) => work[s].live
          /\ work' = [work EXCEPT ![s].at = "closing", ![s].ok = ok, ![s].tokens = n]
    /\ client' = "closed"
    /\ UNCHANGED <<names, desc, orchVars, caps, result, leftBusy>>

-----------------------------------------------------------------------------
(* What each strategy does with the SubTaskResult it gets back.  ok and n   *)
(* are its status and tokens_used.                                          *)

Record(s, ok, n) == [result EXCEPT ![s] = [ok |-> ok, tokens |-> n]]

\* Sub-task s leaves _execute_sub_task, whose locals die.
Move(s, place, tries) ==
    [work EXCEPT ![s] = [NoAttempt EXCEPT !.at = place, !.tries = tries]]

\* Fault: one success is enough.
VerdictOfAny(o, res) ==
    IF \E s \in Mine(o) : res[s] # NoResult /\ res[s].ok
    THEN "completed" ELSE "failed"

\* The loop of orchestrate over the results: one error makes it fail.
Verdict(o, res) ==
    IF \A s \in Mine(o) : res[s] # NoResult => res[s].ok
    THEN "completed" ELSE "failed"

\* Sub-task s is over and its loop takes the next one, or ends.
Advance(s, res) ==
    LET o == Owner[s] IN
    /\ work' = Move(s, "ended", 0)
    /\ result' = res
    /\ \/ /\ cursor[o] < Len(Queue(o))
          /\ cursor' = [cursor EXCEPT ![o] = @ + 1]
          /\ UNCHANGED <<phase, status>>
       \/ /\ cursor[o] = Len(Queue(o))
          /\ IF Strategy(o) = "supervisor"
             THEN phase' = [phase EXCEPT ![o] = "synthesis"] /\ UNCHANGED status
             ELSE Conclude(o, Verdict(o, res))
          /\ UNCHANGED cursor

\* _check_budget: add, then compare.
Spent(s, n)      == total[Owner[s]] + n
OverBudget(s, n) == Spent(s, n) > Config[Owner[s]].token_budget
ChargeLast(s, n) == total' = [total EXCEPT ![Owner[s]] = n]  \* fault: = for +=
Charge(s, n)     == total' = [total EXCEPT ![Owner[s]] = Spent(s, n)]

\* Fault: the loop does not break on a failure.
SequentialReturnGoesOn(s, ok, n) ==
    /\ Strategy(Owner[s]) = "sequential" /\ work[s].tries = 0
    /\ Charge(s, n)
    /\ UNCHANGED permits
    /\ IF OverBudget(s, n)
       THEN /\ work' = Move(s, "ended", 0)
            /\ result' = Record(s, ok, n)
            /\ Conclude(Owner[s], "failed")
            /\ UNCHANGED cursor
       ELSE IF ~ok /\ Config[Owner[s]].fallback_behavior = "retry"
       THEN /\ work' = Move(s, "pending", 1)
            /\ result' = Record(s, ok, n)
            /\ UNCHANGED <<cursor, phase, status>>
       ELSE Advance(s, Record(s, ok, n))

\* _run_sequential, first attempt.
SequentialReturn(s, ok, n) ==
    LET fallback == Config[Owner[s]].fallback_behavior IN
    /\ Strategy(Owner[s]) = "sequential" /\ work[s].tries = 0
    /\ Charge(s, n)
    /\ UNCHANGED permits
    /\ \/ /\ OverBudget(s, n) \/ (~ok /\ fallback = "error")
          /\ work' = Move(s, "ended", 0)
          /\ result' = Record(s, ok, n)
          /\ Conclude(Owner[s], "failed")
          /\ UNCHANGED cursor
       \/ /\ ~OverBudget(s, n)
          /\ ok \/ fallback \in {"skip", "delegate"}
          /\ Advance(s, Record(s, ok, n))
       \/ /\ ~OverBudget(s, n) /\ ~ok /\ fallback = "retry"
          /\ work' = Move(s, "pending", 1)
          /\ result' = Record(s, ok, n)
          /\ UNCHANGED <<cursor, phase, status>>

\* Fault: _retry does not return on success.
RetryReturnGoesOn(s, ok, n) ==
    /\ Strategy(Owner[s]) = "sequential" /\ work[s].tries > 0
    /\ work' = [Move(s, "asleep", work[s].tries) EXCEPT ![s].tokens = n]
    /\ result' = IF ok THEN Record(s, ok, n) ELSE result
    /\ UNCHANGED <<cursor, phase, status, permits, total>>

\* _retry, one of its attempts: their tokens are charged to no budget, and it
\* sleeps after every failed attempt.
RetryReturn(s, ok, n) ==
    /\ Strategy(Owner[s]) = "sequential" /\ work[s].tries > 0
    /\ \/ ok /\ Advance(s, Record(s, ok, n))
       \/ /\ ~ok
          /\ work' = [Move(s, "asleep", work[s].tries) EXCEPT ![s].tokens = n]
          /\ UNCHANGED <<result, cursor, phase, status>>
    /\ UNCHANGED <<permits, total>>

\* Fault: a parallel sub-task adds its tokens without comparing them.
ParallelReturnUnchecked(s, ok, n) ==
    LET o == Owner[s] IN
    /\ Strategy(o) = "parallel"
    /\ Charge(s, n)
    /\ work' = Move(s, "ended", 0)
    /\ result' = Record(s, ok, n)
    /\ permits' = IF work[s].at # "pending" THEN [permits EXCEPT ![o] = @ + 1] ELSE permits
    /\ IF phase[o] # "done" /\ \A t \in Mine(o) : work'[t].at = "ended"
       THEN Conclude(o, Verdict(o, result')) ELSE UNCHANGED <<phase, status>>
    /\ UNCHANGED cursor

\* _run_one: the budget error ends gather, and with it the orchestration, but
\* cancels none of the others, which go on by themselves.
ParallelReturn(s, ok, n) ==
    LET o == Owner[s] IN
    /\ Strategy(o) = "parallel"
    /\ Charge(s, n)
    /\ work' = Move(s, "ended", 0)
    /\ result' = Record(s, ok, n)
    /\ permits' = IF work[s].at # "pending" THEN [permits EXCEPT ![o] = @ + 1] ELSE permits
    /\ IF phase[o] = "done" THEN UNCHANGED <<phase, status>>
       ELSE IF OverBudget(s, n) THEN Conclude(o, "failed")
       ELSE IF \A t \in Mine(o) : work'[t].at = "ended" THEN Conclude(o, Verdict(o, result'))
       ELSE UNCHANGED <<phase, status>>
    /\ UNCHANGED cursor

\* SupervisorOrchestrator.run: a completed sub-task goes to review; the inner
\* coordinator checks no budget.
SupervisedReturn(s, ok, n) ==
    /\ Strategy(Owner[s]) = "supervisor" /\ work[s].tries = 0
    /\ \/ /\ ok
          /\ work' = Move(s, "review", 0)
          /\ result' = Record(s, ok, n)
          /\ UNCHANGED <<cursor, phase, status>>
       \/ ~ok /\ Advance(s, Record(s, ok, n))
    /\ UNCHANGED <<permits, total>>

\* A rework that fails leaves the reviewed output in place.
ReworkReturn(s, ok, n) ==
    /\ Strategy(Owner[s]) = "supervisor" /\ work[s].tries > 0
    /\ Advance(s, IF ok THEN Record(s, TRUE, result[s].tokens + n) ELSE result)
    /\ UNCHANGED <<permits, total>>

Returns(s, ok, n) ==
    \/ SequentialReturn(s, ok, n)
    \/ RetryReturn(s, ok, n)
    \/ ParallelReturn(s, ok, n)
    \/ SupervisedReturn(s, ok, n)
    \/ ReworkReturn(s, ok, n)

\* "No suitable agent available", or an agent that is not of this request.
NoDispatch(s) ==
    /\ Turn(s)
    /\ Selected(s) \notin Members(Owner[s])
    /\ Returns(s, FALSE, 0)
    /\ UNCHANGED <<names, desc, client, caps, leftBusy>>

\* Fault: the agent goes idle only after a success.
ClosesIdleOnSuccess(s) ==
    /\ work[s].at = "closing"
    /\ IF work[s].ok THEN UpdateStatus(work[s].agent, "idle") ELSE UNCHANGED regVars
    /\ leftBusy' = leftBusy \ {work[s].agent}
    /\ Returns(s, work[s].ok, work[s].tokens)
    /\ UNCHANGED <<client, caps>>

\* The rest of the finally block, and the return.
Closes(s) ==
    /\ work[s].at = "closing"
    /\ UpdateStatus(work[s].agent, "idle")
    /\ leftBusy' = leftBusy \ {work[s].agent}
    /\ Returns(s, work[s].ok, work[s].tokens)
    /\ UNCHANGED <<client, caps>>

\* runtime.close raises: the memory's store, before the client is closed, or the
\* client as it closes.  The rest of the finally block is passed over and the
\* exception becomes the result's error.
CloseRaises(s) ==
    /\ \/ /\ work[s].at = "running"
          /\ \E n \in TokenCounts \cup {0} :
                (n > 0 => work[s].live) /\ Returns(s, FALSE, n)
       \/ /\ work[s].at = "closing"
          /\ Returns(s, FALSE, work[s].tokens)
    /\ leftBusy' = leftBusy \cup {work[s].agent}
    /\ UNCHANGED <<names, desc, client, caps>>

-----------------------------------------------------------------------------
(* Steps of one strategy only.                                              *)

\* Fault: the attempts are not counted.
WakeUncounted(s) ==
    /\ work[s].at = "asleep"
    /\ work' = Move(s, "pending", work[s].tries)
    /\ UNCHANGED <<names, desc, client, orchVars, caps, result, leftBusy>>

\* The sleep between two attempts of _retry ends.
Wake(s) ==
    /\ work[s].at = "asleep"
    /\ \/ /\ work[s].tries < MaxRetries
          /\ work' = Move(s, "pending", work[s].tries + 1)
          /\ UNCHANGED <<result, cursor, phase, status>>
       \/ /\ work[s].tries = MaxRetries
          /\ Advance(s, Record(s, FALSE, work[s].tokens))
    /\ UNCHANGED <<names, desc, client, permits, total, caps, leftBusy>>

\* The supervisor approves, or its review fails and is ignored.
Approve(s) ==
    /\ work[s].at = "review"
    /\ Advance(s, result)
    /\ UNCHANGED <<names, desc, client, permits, total, caps, leftBusy>>

\* It asks for rework, which needs an answer from the LLM.
Reject(s) ==
    /\ work[s].at = "review"
    /\ ChatTakesDicts /\ Usable
    /\ work' = Move(s, "pending", 1)
    /\ UNCHANGED <<names, desc, client, orchVars, caps, result, leftBusy>>

\* The final synthesis only adds text to the last output, or fails unnoticed.
Synthesize(o) ==
    /\ phase[o] = "synthesis"
    /\ Conclude(o, Verdict(o, result))
    /\ UNCHANGED <<names, desc, client, cursor, permits, total, caps, work, result, leftBusy>>

TimePasses ==
    /\ Tick
    /\ UNCHANGED <<client, orchVars, caps, work, result, leftBusy>>

\* Every request is answered and no sub-task is left behind.
Quiet ==
    /\ \A o \in Orchs : phase[o] = "done"
    /\ \A s \in SubTasks : work[s].at \notin {"running", "closing"} /\ ~Turn(s)
    /\ UNCHANGED vars

OrchStep(o)    == Accept(o) \/ PlanReady(o) \/ PlanFails(o) \/ Synthesize(o)
SubTaskStep(s) == \/ Dispatch(s) \/ NoDispatch(s) \/ RunEnds(s)
                  \/ Closes(s) \/ CloseRaises(s)
                  \/ Wake(s) \/ Approve(s) \/ Reject(s)

Next ==
    \/ \E o \in Orchs : OrchStep(o)
    \/ \E s \in SubTasks : SubTaskStep(s)
    \/ TimePasses
    \/ Quiet

Spec == Init /\ [][Next]_vars

\* The event loop runs every coroutine that can go on; wait_for bounds a run,
\* and the client's own timeout a planning, review or synthesis request.
\* Nothing makes a caller send its request.
Fairness ==
    /\ \A s \in SubTasks : WF_vars(SubTaskStep(s))
    /\ \A o \in Orchs : WF_vars(PlanReady(o) \/ PlanFails(o) \/ Synthesize(o))

FairSpec == Spec /\ Fairness

-----------------------------------------------------------------------------
TypeOK ==
    /\ desc \in [Agents -> Descriptor \cup {Absent}]
    /\ client \in {"open", "closed"}
    /\ phase \in [Orchs -> {"new", "planning", "working", "synthesis", "done"}]
    /\ status \in [Orchs -> {"running", "completed", "failed"}]
    /\ cursor \in [Orchs -> Nat \ {0}]
    /\ permits \in [Orchs -> Nat]
    /\ total \in [Orchs -> Nat]
    /\ work \in [SubTasks -> Attempt]
    /\ result \in [SubTasks -> Outcome \cup {NoResult}]

Working(s)  == work[s].at \in {"running", "closing"}
InFlight(o) == {s \in Mine(o) : Working(s)}

\* An agent marked busy has a sub-task of some orchestration running on it:
\* neither a failure, a timeout, a budget error nor a concurrent request that
\* registers the same agent leaves one busy for ever.  Only a close that raises
\* does (coordinator.py:245), and then until the agent is registered again or
\* has done another sub-task.
BusyAgentIsWorking ==
    \A a \in Agents \ leftBusy : Registered(a) /\ desc[a].status = "busy" =>
        \E s \in SubTasks : Working(s) /\ work[s].agent = a

\* max_concurrency bounds the agents one parallel orchestration keeps running,
\* also after a budget error has ended the orchestration under its sub-tasks.
SemaphoreBound ==
    \A o \in Orchs : Strategy(o) = "parallel" =>
        Cardinality(InFlight(o)) <= Config[o].max_concurrency

\* The other strategies do one thing at a time, retries, reviews and rework
\* included: a sub-task that is not waiting or over is the loop's current one.
OneAtATime ==
    \A o \in Orchs : Strategy(o) # "parallel" =>
        \A s, t \in Mine(o) :
            /\ work[s].at \notin {"pending", "ended"}
            /\ work[t].at \notin {"pending", "ended"}
            => s = t

\* An orchestration whose counter has passed token_budget has failed, in the
\* step that passed it: it is never still working, nor reported completed.
OverBudgetFails ==
    \A o \in Orchs : total[o] > Config[o].token_budget =>
        phase[o] = "done" /\ status[o] = "failed"

\* With fallback "error" the first failed sub-task ends the sequence: no other
\* sub-task of that orchestration is started after it.
FailureStopsSequence ==
    \A o \in Orchs :
        /\ Strategy(o) = "sequential"
        /\ Config[o].fallback_behavior = "error"
        /\ \E s \in Mine(o) : work[s].at = "ended" /\ ~result[s].ok
        => /\ phase[o] = "done" /\ status[o] = "failed"
           /\ \A s \in Mine(o) : work[s].at \in {"pending", "ended"}

\* In a sequential orchestration a sub-task starts only when the sub-tasks it
\* depends on are over, so that _build_context finds their outputs.
DependenciesFirst ==
    \A s \in SubTasks :
        Strategy(Owner[s]) = "sequential" /\ work[s].at # "pending" =>
            \A d \in DependsOn[s] \cap Mine(Owner[s]) : work[d].at = "ended"

TokensOf(S) == MapThenSumSet(LAMBDA s : result[s].tokens, S)

\* The total that is charged, compared with the budget and reported is the sum
\* over the sub-task results, where no retry and no supervisor re-runs one;
\* siblings that outlive a parallel orchestration are charged as well.
TotalMatchesResults ==
    \A o \in Orchs :
        Strategy(o) # "supervisor" /\ Config[o].fallback_behavior # "retry" =>
            total[o] = TokensOf({s \in Mine(o) : result[s] # NoResult})

\* A sub-task that succeeded is not executed again, by a retry or otherwise;
\* only a supervisor's rework does that.
NoRerunOfSuccess ==
    [][\A s \in SubTasks :
          Strategy(Owner[s]) # "supervisor" /\ result[s] # NoResult /\ result[s].ok
          => work'[s].at # "running"]_vars

Contract == INSTANCE OrchestrationContract
    WITH verdict   <- [o \in Orchs |-> IF phase[o] = "new" THEN "none" ELSE status[o]],
         succeeded <- {s \in SubTasks : result[s] # NoResult /\ result[s].ok}

\* The caller's view of every strategy (OrchestrationContract): one final
\* verdict, and "completed" only if all the sub-tasks succeeded.
KeepsContract == Contract!Spec

\* Every accepted request is answered, whatever fails or runs out on the way.
EveryRequestAnswered ==
    \A o \in Orchs : phase[o] = "planning" ~> phase[o] = "done"

(* What the repository says and the code does not do.                       *)

\* "Executes a decomposed task DAG across multiple agents" (coordinator.py):
\* every agent that is put to work can reach the LLM.
EveryRunReachesLLM ==
    \A s \in SubTasks : work[s].at = "running" => work[s].live
=============================================================================

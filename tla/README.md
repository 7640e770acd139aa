# Forge: a verification project

TLA+ models of Forge (`src/`), the runs of TLC that check them on small
instances, and proofs that TLAPS checks for every value of the constants.
Paths below are relative to `src/packages/` unless they start with `src/`;
`core/` stands for `core/forge/`, `api/` for `api/forge/api/`, `ui/` for `ui/src/`.

1. [Inventory](#1-inventory) · 2. [Plan](#2-plan) · 3. [Modules](#3-modules-and-the-code) ·
4. [Runs](#4-runs-bounds-and-what-they-show) · 5. [Fairness](#5-fairness) ·
6. [Proofs](#6-proofs) · 7. [Findings](#7-findings) · 8. [Not modelled](#8-what-is-not-modelled)

## 1. Inventory

Forge runs AI agents on an Ollama server. A FastAPI process serves them; it is one
asyncio event loop, so that code runs undisturbed from one `await` to the next and
everything else is interleaving. The process keeps global objects (agent registry,
LLM client, tool registry, workspace directory, rate buckets) that every request
shares, PostgreSQL rows that survive it, and Redis keys for agents of other
processes. A React UI keeps its session in `localStorage`.

| Component | State it keeps | Operations | Talks to | What is hard | What makes it correct |
|---|---|---|---|---|---|
| **Coordinator** `core/orchestrator/coordinator.py`, `supervisor.py`, route `api/routes/orchestrator.py` | per request: plan, loop position, semaphore, token total, results; retries per sub-task | `orchestrate`, three strategies, `_run_single`, retries, fallbacks, review and rework | registry and LLM client (both shared by all requests), planner, agent runtime | requests share agents; `gather` with an exception; budget across coroutines; retries inside loops | one verdict per request, "completed" only if all sub-tasks succeeded; bounds on budget and retries; agents set free |
| **Agent registry** `core/orchestrator/registry.py` | ordered dictionary of descriptors with heartbeats | register, status, find, health check (the program calls no other) | coordinator | written by every request; time limits | a busy agent is working |
| **Planner and sort** `core/orchestrator/planner.py`, `_topological_sort` | none | parse an LLM answer into sub-tasks; order them | coordinator | an answer is anything; a list made in code may have cycles, self references, unknown ids | no sub-task lost or doubled; dependencies first, where they are ids |
| **Agent loop and memory** `core/runtime/agent.py`, `loop.py`, `streaming.py`, `core/llm/client.py`, `core/memory/` | conversation, iteration, tokens, events; the process-wide workspace; a collection of memories | one LLM call per iteration, tool call, retry with back-off; recall before, store after | LLM, tools, Qdrant | edits of the conversation in place; errors at every await; globals shared by runs | well-formed dialogue, an answer or an error, complete streams, termination |
| **Rate limiter** `api/middleware.py` | per client and path a list of time stamps | admit, refuse, advertise | every request | sliding window over pruned lists; two critical sections | never more than the limit in any window, no undue refusal |
| **Sessions** `api/routes/auth.py`, `core/auth/` | session rows, audit rows | login, refresh, logout | UI, every route | refresh consumes a token; several transactions per request | a login keeps an active session |
| **Accounts and API keys** `api/routes/auth.py`, `core/auth/` | users, keys, roles, audit log | register, login, change password; create, use and revoke a key; roles | UI, command line, every guarded route | each request is a chain of transactions that others come between | names differ, what is revoked or replaced admits nobody, the log is true |
| **`forge auth`** `cli/forge/cli/auth.py` | one credentials file | register, login, logout, keys | the API | terminals share the file and write it in place | a command acts for who logged in |
| **UI session** `ui/api/client.ts`, `ui/store/auth.ts`, `ui/hooks/useAuth.ts` | tokens and user in `localStorage` | `request` with a refresh and a retry, login, logout | sessions | several calls meet a 401 at once; answers lost or out of order; reloads | the stored token is usable; calls are performed once |
| **Task history and webhooks** `api/routes/agents.py`, `webhooks.py`, `core/storage/repository.py` | `tasks` and `webhooks` rows | run, save, dispatch; create, change, delete hooks | agent runtime, external hooks | a task of its own after the answer; rows change meanwhile; crash between two steps | hooks hear only of what is in the history, once |
| **Catalog of agents and templates** `api/routes/agents.py`, `templates.py`, `core/storage/repository.py` | `agents` and `agent_templates` rows | create, read, update, delete, use | UI | each call reads, writes and reads again in transactions of their own | unique names, counted uses, no update undone by another |
| **MCP client and transports** `core/tools/mcp_client.py`, `mcp_transport.py` | connection, tool list, events read, deadline | connect: `initialize`, `tools/list` | MCP servers, server routes | a transport that raises after starting a process; events that are read once; a loop that gives way to nobody | no success without an answer; every attempt ends |
| **Tool registry and server routes** `core/tools/registry.py`, `api/routes/mcp_servers.py` | registered tools, rows with a status | create, connect, test, disconnect, delete | MCP client, agent loop | table, registry and clients are three stores without a common transaction; slow connects | a status is about its own row; nothing is registered that cannot be called |
| **Redis state** `core/state/redis.py` | task queues, cache keys with TTL | push, pop, set, get, publish | agents of other processes | `retry_on_timeout` repeats commands that are not idempotent | no task lost or doubled without such a retry |
| **Message bus** `core/orchestrator/messages.py` | a one-slot inbox, responses | send, request, respond | Redis state | overwriting, polling with a deadline, late answers | a request gets its own answer or none |
| Files, other tools, object storage, settings, other commands, pages, observability, configuration | files, one dictionary | single statements and I/O | | | |

The hazards, each at its line with the properties aimed at it, are in
`PROJECT.json`; those without a property carry a note.

## 2. Plan

Order: the behaviour that other parts depend on, and that shares most state, first.

| | Modules | Composition | State |
|---|---|---|---|
| 1 | `AgentRegistry` | operators and state that the coordinator uses | done |
| 2 | `Coordinator` | EXTENDS `AgentRegistry`; implements `OrchestrationContract` | done, proved |
| 3 | `TaskGraph`, `Planner` | `Planner` EXTENDS `TaskGraph`; `Coordinator` is given the order that they compute | done, proved |
| 4 | `RateLimiter` | alone | done, proved |
| 5 | `AgentLoop` | several runs, the shared workspace and collection | done, proved |
| 6 | `AuthServer`, `BrowserSession` | the second EXTENDS the first: two processes, lossy network | done, proved |
| 7 | `Webhooks`, `TaskHistory` | the second EXTENDS the first: rows, handlers, dispatch tasks, crash | done, proved |
| 8 | `Catalog` | alone: two tables and the calls on them | done, proved |
| 9 | `McpServers` | alone: the routes, their client and its transports, as far as a connection comes | done, proved |
| 10 | `RedisState`, `MessageBus` | the second EXTENDS the first: retried commands; two agents | done, proved |
| 11 | `Accounts`, `Terminals` | the second EXTENDS the first: router; clients, terminals and their file | done, proved |
| 12 | saving an orchestration, `useApi` and `usePolling`, start-up | | open: little state, see section 8 |

The abstract specification stated is `OrchestrationContract`. Every safety and action
property of a run is a theorem, so that no proof of this plan is left to write.

## 3. Modules and the code

In every module a step runs from one suspension point of the code to the next.
Definitions marked `Fault` or `fault` are plausible bugs, used to confirm that each
property can fail; no specification uses them.

**`AgentRegistry`** - `names` is the key order of the dictionary `_agents`, `desc`
the descriptors with the age of the last heartbeat. `RegisterAll` is `register` for
each agent of a request, `UpdateStatus` is `update_status`, `Tick` is time;
`find_by_capability` and `find_by_role` are the operators `FindByCapability` and
`FindByRole`, `health_check` is `Healthy`. It asks for an age below the timeout, so that greater
ones cannot be told apart and the clock saturates there. `deregister`, `heartbeat`,
`prune_stale` and `clear` are called by tests only, and left out.

**`Coordinator`** - `phase`, `status`, `cursor`, `permits` and `total` are the local
state of `orchestrate()` and its strategies; `work[s]` is the coroutine of sub-task
`s` and `result[s]` its entry in the results; `client` is the shared LLM client.
`Accept` is the route with its registrations; `PlanReady` and `PlanFails` the
planner; `Dispatch` and `NoDispatch` the start of `_run_single` with the choice of
an agent; `RunEnds` the end of `runtime.run()`; `Closes` the `finally` block,
`CloseRaises` the same when `runtime.close()` raises: the agent is then not set idle, the
sub-task fails and its tokens count, and `leftBusy`, a history variable, has the agent until
it is registered again or set idle by another sub-task. `...Return` is what each strategy
does with the result (record, charge, compare with the budget, go on, retry or stop);
`Wake` the end of a retry's sleep; `Approve` and `Reject` the supervisor's review;
`Synthesize` its last step; `TimePasses` the heartbeats' age. Outputs are abstracted to
success and tokens.

A close may raise before or after the LLM client is closed (the memory is closed first), and
the model allows both at any state of the client. Cancelling a request is not modelled:
nothing in the program does it, a route goes on when its client has gone, and a process that
stops takes its registry with it.

`CloseIsFinal` and `ChatTakesDicts` describe the LLM client, which is an argument
of the coordinator's constructor. The shipped client (httpx, typed messages) is
`TRUE`/`FALSE`; the run `run_reaches_llm` uses it and finds the bug below. The other
runs use a client with which sub-tasks can succeed, since otherwise none of the
strategies' later steps would ever be taken; `parallel` uses `TRUE`/`TRUE`.

**`OrchestrationContract`** - what the caller of `POST /orchestrate` sees: a verdict
per request and the set of sub-tasks that succeeded. `Coordinator!KeepsContract`
instantiates it with `verdict` from `phase` and `status`, and `succeeded` from `result`.

**`TaskGraph`, `Planner`** - `frames` are the calls of `_visit` under way, each with the
dependencies it has left, `visited` and `order` are `visited` and `sorted_tasks`, `next` the
loop over the sub-tasks. Python runs the whole sort without a pause; it is cut into
`NextTask`, `NextDependency` and `VisitReturns`, the iterations and the return of the
recursion, because an invariant of these steps can be proved and a recursive operator
cannot. The loop over a Python set of strings has an arbitrary order, so
`NextDependency` takes any that is left. `ParsePlan`, `PlanningFails`, `FallbackPlan` are
the three outcomes of `plan()`. An item is what it lists under `depends_on`: indexes, as text or
as numbers, which pydantic rejects, and no id, since a sub-task gets its id after the answer.
`PlanInCode` is a list made in code, by a planner of one's own given to the coordinator, as the
tests do: `SubTaskDef` takes an id, so that its items can name each other. The orders that the instances of
`Coordinator` are given are ones the sort returns: `MCCoordinator` assumes, and TLC
checks, that each is the plan's own if nothing depends on anything, and else puts dependencies first.

**`RateLimiter`** - `bucket[k]` is `_buckets[k]`, as the set of requests whose stamps
it holds. `Admit`, `Refuse` are the first critical section of `dispatch`, `Answer`
the second one (after `call_next`, where others run), `PassThrough` an exempt path.

**`AgentLoop`** - `messages` is the conversation as a sequence of roles, `ranIn` the
directory of the last tool, `events` what a stream has sent, `workspace` the global
of `builtins/filesystem.py`, `memory` the runs whose conversation is in the Qdrant
collection. `Start` is `run()`/`run_streaming()` up to the first await,
`InitializeRaises` and `SecondInitializeRaises` the two connections to Qdrant;
`Recall` is `retrieve_context` and the first request (`Begin`); `Call` and `Answer` a
reply with and without a tool call; `ToolReturns` the end of the tool with all edits
of the conversation and the next request; `RequestFails`, `BackOffEnds`,
`RequestBreaks` the retries of `OllamaClient`; `Store` is `store_conversation`, after
the loop; `Cancel` the coordinator's time limit, or a stream whose reader has gone.

**`AuthServer`, `BrowserSession`** - the n-th session row holds the n-th token pair.
A request of the server is a chain of stages (`Guarded`; `CheckLogin` or
`CheckRefresh`, then `Commit`, then `Audit`), each a transaction of its own, and
`ServerFails` may end it anywhere. `Expire` ends the validity of an access token.
In the browser `at[c]` is where `request()` waits; `Send`, `Succeeds`, `Refused`
(the 401 that starts a refresh), `Refreshed` (store the tokens, send again),
`Fails`, `GivesUp` (logout) are what it does with an answer; `Broken(c)` covers lost
answers and unreadable bodies; `UserLogsOut` and `Reload` are the user's. A fetch
that the page no longer waits for still runs on the server.

**`Webhooks`, `TaskHistory`** - `hooks` are the rows, with what each wants to hear
and whether a response code is recorded. `CreateWebhook`, `UpdateWebhook`,
`DeleteWebhook` are the routes (one committed statement each). In `TaskHistory`,
`at[r]` is the handler of run `r`: `Start`, `Return` or `StreamEnds`, `Save` or
`NotConnected` (`_persist_task`), `Schedule` (`ensure_future`), `Answer`, `Raises`.
`dispatch[r]` is `_dispatch_webhooks`: `Read` the rows once, then for each hook `Post`
and `Record` (update with the code) or `RecordNone` (without); an update may raise
whether or not it took effect. `Crash` ends handlers and dispatches and keeps rows.

**`Catalog`** - `rows[t]` are all rows table `t` has had, the n-th with the id n; the
value of a column is the call that wrote it, so that a lost or misplaced write shows.
`at[c]` is the step a call has reached, between two of which others take theirs:
`CreateAgent`, `CreateTemplate` insert, `Refresh` reads the new row; `FindAgent` (by
name) and `FindTemplate` (by id) read; `UpdateAgent`, `UpdateTemplate` write the columns
asked for, `Reselect` reads them back; `IncrementUsage`, `Delete`, `Answer`. `Fail` ends
a call between any two.

**`Accounts`** - `users`, `keys`, `roles` and `log` are tables. A request goes through
`CheckToken` or `ScanKeys` and `MarkUsed` (`get_current_user`), then its own check
(`FindUser`, `CheckPassword`, `VerifyOld`, `FindOwnKey`, `FindRole`, `Forbid`), its write
(`InsertUser`, `SetPassword`, `CreateKey`, `Revoke`, `InsertRole`) and `Audit`, each a
transaction. `made[c]` is the row the call has written, `before[c]` who had been
answered when it was sent: history, for the properties.

**`Terminals`** - EXTENDS `Accounts` with `cli/auth.py`: `file` is the credentials file,
`Torn` if it holds no JSON. `CommandLogsIn`, `CommandActs` start a command;
`StartSaving` (`open` truncates), `Save` and `Killed` are `write_text`; `Logout` unlinks
the file, after which one who has it open writes in vain. `ClientSends` is any other client,
with any token or key that has been handed out.

**`McpServers`** - the table (`row`, `status`, `lastId`), the process's `registry` and, for
each call, the step it has reached, the row it has read, the first event its client has read.
All calls are about one name. `FindName`, `Insert`; `Find`, `SetStatus`; `Delete`; `Unregister`
are the routes' statements and what they do to the registry, `Commits` a commit that takes
effect though its route raises after it, `StatementFails` one that does not. `Connect` is
`_create_client` with the `connect` of the transport; then, over HTTP, `InitializeSent`,
`EventsCome`, `InitializeAnswered`, `ToolsListSent` and `LoopEnds` follow `MCPClient.connect`,
`Receive` is `HTTPTransport.receive`, `TimePasses` the deadline, `RequestFails` a request that
the server does not take. While a call is in the loop of `_wait_for_response` no other one goes
on (`Goes`), because that loop never suspends once the events are there.

*The shipped client connects to no server at all.* Over stdio, `connect` hands
`connect_read_pipe` an asyncio `StreamReader`, which is no pipe, and raises
(`mcp_transport.py:61`); the writer of line 67 would be `None`. Over HTTP the events are read
once and each receive begins with the first of them (line 141), so that after the answer to
`initialize` the one to `tools/list` is never seen. What comes after a connection (`call_tool`,
tools that are executed, several callers of one client) is therefore not modelled: no run of
the program gets there.

**`RedisState`** - a command is executed and its reply comes or does not (`Executed`);
without one it is sent once more, executed or not (`Unanswered`), as `retry_on_timeout`
does. `PushTask`, `PopTask`, `PopNothing` are the queue; `lost` and `twice` record what
such a retry has done to a task.

**`MessageBus`** - EXTENDS `RedisState`: `StoreMessage`, `PublishMessage`, `Poll` and
`PollNoMore` are `send` and `request`; `ReadInbox` and `Respond` the agent; `ExpireInbox` and
`ExpireResponse` the times to live.

## 4. Runs, bounds and what they show

| Run | Instance | Shows |
|---|---|---|
| `sequential` | two orchestrations on one agent: a sequence that retries and whose planner lists a sub-task before the one it depends on, and a supervised one with review and rework | dependencies first; no success is run again; each request is answered |
| `parallel` | 3 parallel sub-tasks with 2 permits and budget 3 (each run uses 2 tokens) beside a sequence of 2; two agents with capabilities and roles, one of them shared; closes that raise | a busy agent has a sub-task in flight, unless its runtime did not close; a request over budget has failed; the total is the sum of the results; nothing starts after a fatal failure; the contract is kept |
| `planner` | answers of up to 3 items, each with any set of 4 indexes; lists in code of up to 3 items, each with any set of 3 ids | the sort loses and doubles nothing; only members of a cycle may be out of order; indexes do not count |
| `rate_limiter` | limit 2, window 2, 6 requests, clock to 5 | the window bound, no undue refusal, the advertised remainder is available |
| `agent_loop` | a run with a workspace and a streamed one without, each with memory or not; 2 iterations, 2 retries | shape of dialogue, output, tokens and stream; what is remembered; attempts; workspace; only a tool can hold a run |
| `browser_session` | two logins and a guarded call of one tab, 4 token pairs | no call is performed twice, no dead token stays in the store, the store is whole, a login keeps its session |
| `task_history` | two runs, two hooks, two changes of the table, failures anywhere, crashes | what hooks and callers are told is in the history; one call per hook; none skipped |
| `catalog` | any 3 calls at once on tables of at most 2 rows | names are unique, uses counted, an "ok" is true, updates undo nothing of each other |
| `accounts` | any 3 of 10 requests by commands and clients, 3 users, 2 keys, one file | users differ; revoked keys and replaced passwords open nothing; the log is true; a command touches the keys of who logged in |
| `mcp` | 3 calls to one server name, 2 of which connect or test; either transport, any event | nothing is connected or registered; an error is the row's own; every call ends or waits for the server |
| `messages` | 4 calls, 2 messages, each command executed up to twice | tasks are accounted for; a request gets its own answer or none |
| `run_reaches_llm` | two orchestrations of a sub-task each, the shipped client | the finding of section 7 |

Why the bounds are enough to be interesting. *Coordinator*: budget 3 against runs of
2 tokens is exceeded by the second success, so that siblings are under way when it
happens; 3 sub-tasks for 2 permits make one wait; two requests on one agent make
them set each other's status. *Rate limiter*: four requests for a limit of 2, and a
clock of more than twice the window, let a bucket fill, drain and fill again, with
stamps exactly at the edge. *Agent loop*: two iterations are the first that show an
edited conversation to the model again; two retries give a middle attempt; two runs
are one that remembers and one that is remembered. *Browser*: two calls that refresh
at once with one token, and a third that logs in between; four pairs are a login each
and a refresh each. *Task history*: one hook to begin with and one that may come, a
change before and one during a dispatch. *Planner*: three items give self references,
two- and three-cycles, and a cycle with a tail. *Catalog*: the row that was there and
a new one; two calls that race and a third that removes what they race for.
*Accounts*: a change of a password needs a login before and one after it, a revocation
a request that is under way and one that comes later. *MCP*: a connect that fails
late, beside a deletion and a creation, is the least that can mark the wrong row. *Messages*: two
requests with the same message or with different ones, and a push and a pop beside them.

Symmetry is used for interchangeable requests (`rate_limiter`), runs (`task_history`) and
calls (`catalog`, `accounts`, `messages`, the last with its messages too), whose
properties are all of safety. `CHECK_DEADLOCK FALSE` stands where a finite number of
requests, runs or calls comes to an end (`rate_limiter`, `planner`, `task_history`,
`catalog`, `accounts`, `mcp`, `messages`); elsewhere a step that stutters when all is over
(`Quiet`, `AllOver`, `Rest`) leaves the deadlock check on for every other state.

## 5. Fairness

Only what the code's scheduling gives. *Coordinator*: weak fairness of the steps of
each sub-task and of planning and synthesis, because the event loop runs every
coroutine that can run, and each await inside ends: requests to the LLM have
timeouts, `asyncio.sleep` returns. Not fair: the arrival of requests and time.
*AgentLoop*: weak fairness of what a run does by itself (`OwnStep`): the LLM's and the
memory's requests have a timeout, a sleep returns. Not fair: a tool's return, since
`registry.execute` awaits it without a limit, a cancellation, since `POST /agents/run` sets none,
and the start of a run. `EveryRunEnds` says that a run ends or is held by a tool for ever, and
by nothing else. *MCP*: weak fairness of what a call does by itself, time included; not of the
server, which may keep its events open for ever (the timeout of the HTTP client is one for each
part that arrives). The other runs check safety only.

## 6. Proofs

TLAPS checks them from nothing, with SMT, Zenon and, for the temporal steps, LS4.
The assumptions are the `ASSUME`s of the modules, which TLC evaluates for each instance.

**`RequestPath_proofs`**, the limiter (any finite set of requests, any limit and window).
`WindowBound` is not inductive: it speaks of all windows, the code only of a pruned
bucket. `LimiterInv` adds that a bucket holds admitted requests only, at most `Limit` of
them, that stamps are of the past, and, the heart of it, that a bucket holds *all*
admitted requests whose stamp is in the window that ends now (`KeepsRecent`). A new
request is admitted only if the bucket has room, hence the window has. From the
same invariant follow `NoUndueRefusal` and `RemainingIsAvailable`, as action properties.

**`RequestPath_proofs`**, the session of a tab (any calls, any number of token pairs).
`StoredTokenLives` and `StoreIsWhole` are not inductive: an answer on its way may be
anything. `SessionInv` says of each call how far its request can be for the place where
`request()` waits (`Follows`), whether the handler has run (`Once`), that a pair that is
issued and still waited for is active, audited, and known neither to the store nor to another
call (`Undelivered`), and that a refresh that the tab has given up was not sent with the token
it has now (`GivenUp`). A store that takes up an answer so takes an unused pair.
All four properties of the run are theorems.

**`Coordinator_proofs`** (any number of orchestrations, sub-tasks and agents, any
plans and configurations within `PlanAssumption` and `ConfigAssumption`). The
invariant `Inv` has a part per sub-task (`SubTaskInv`: at which places a result
exists and whether it is a success) and per orchestration (`EarlyInv`, `LoopInv`: a
loop has finished all before its cursor and only the sub-task at the cursor is in
progress; `VerdictInv`, `BudgetInv`; `PermitsInv`: a permit is free or held by a
sub-task in flight). From it: `TypeOK`, `BusyAgentIsWorking`, `OneAtATime`,
`SemaphoreBound`, `OverBudgetFails`, `NoRerunOfSuccess`, `FailureStopsSequence`, and `Refinement`: every
behaviour of the coordinator is one of `OrchestrationContract`. `DependenciesFirst` needs
in addition that the sort has put dependencies first (`InOrder`), as it does unless they
are cyclic: a sequence finishes all before its cursor. `TotalMatchesResults` speaks of a sum
over a set, a fold, about which nothing can be proved by induction over the fold itself. The
sum is counted instead: `Pebbles` is a set with as many elements for a sub-task as it used
tokens, `SumOfTokens` shows, by the well-founded order of the subsets of a finite set, that
the fold is its cardinality, and `ReportInv`, that the total is that cardinality, is kept by every step.

The same module holds the proofs about `Planner` (any number of items; any indexes in an
answer, any ids in a list made in code).
`OutsideCyclesInOrder` speaks of the end only. `SortInv` says what holds while `_visit`
recurs: what is visited is in the order or its call is under way (`VisitedOK`); the calls under way are
of different sub-tasks, each reachable from those before it, and have visited all they
have not left (`FramesOK`); of a sub-task in the order, each dependency comes before it or
depends on it in turn (`OrderOK`). The last part is kept when a call returns, because a
dependency that was visited and is not in the order is under way, hence on a cycle.
At the end no call is under way: everything is in the order, once. `Reaches` is the least
set closed under dependency, so that no path has to be followed. `ListedInv` is the reason for
`ListedOrderIsKept`: in a plan of the LLM each call of `_visit` that is under way below another is of
no sub-task, so that the order is always the plan's beginning. All three properties of the run are theorems.

**`TaskHistory_proofs`** (any runs, any number of hooks and changes). `IInv` follows
one run: until its handler is past the insert there is no row and no dispatch
(`BeforeSaving`); a dispatch exists only with the row or the logged warning
(`Announced`); the hooks still to go through have not been called (`Uncalled`), but
for the one at hand, called once (`AtHand`). `CalledOnce` alone would not be
preserved by `Post`. The lemma `NewestIsMember`, that a set of row numbers has a newest
one, rests on the well-founded order of finite subsets. All four properties of the run
are theorems, `NoHookIsSkipped` among them as an action property.

**`AgentLoop_proofs`** (any runs, numbers of iterations and retries, workspaces). First,
value by value, what a step does to its own run (`Effects`) and that it leaves the others
alone (`Frame`). Then an invariant for each property: `Dialogue`, which adds to the shape of
the conversation that a run that asks has a task or a result last, and one that calls a tool
call; `Placed`, that a run under way has set its workspace, which nothing unsets;
`Stream`, with the last event at each place; `Result` with `Memory` and `Known`: an error
ends the run, and the collection holds only runs that are done. All four safety
properties of the run are theorems.

**`Catalog_proofs`** (any calls and names, any number of rows). `TypeOK` with the row a
call works on; from it that names are unique and that a column changes only by a call
that was asked to set it. `Progress` and `Done` follow a call's row from its insert or its
last write to the answer; `CountedRow` counts, for each row, the calls past
`IncrementUsage`. All three properties of the run are theorems.

**`McpServers_proofs`** (any number of calls). First the effect of each step, then two invariants.
`NeverConnected`: a client that has sent `tools/list` has the answer to `initialize` as its first
event, and so never sees another. `KnownRows`: ids are those of rows that the table has had, and a
row in the table is the one that any call with its id has read; with it `StatusIsOfThisRow` is
inductive. Both safety properties of the run are theorems.

**`MessageBus_proofs`** (any calls, messages, times commands are repeated). `Answers`: what
is cached under a message answers it. `Tasks`: a call that waits has taken nothing, a task has
one copy unless it is recorded as doubled, and is somewhere unless recorded as lost.
Both properties of the run are theorems.

**`Terminals_proofs`** (any calls and requests, any number of users and keys). What a step
of the router does to the tables is said value by value first (`ServeFrame`, `Passes`, `Writes...`:
rows are only added, owners stay, an inactive key stays so). `CallInv` then follows a call: who it is
identified as, what it has found and written, whether the log has it. `Stopped` makes
`RevokedKeyIsRefused` inductive: a call sent after the revocation is stopped before its row is
written back. `Current`, for each row of the users, makes `OldPasswordIsRefused` so: the password that is
there now comes from a call that was not over when a committed change of it to another one was sent.
`FileIsOurs` and `CommandIsOurs`: the token in the credentials file, and the one a command
has read from it, come from a login of this machine. All five properties of the run are theorems.

**Only model-checked.** Liveness (`EveryRequestAnswered`, `EveryRunEnds`, `EveryCallEnds`), which is out of
TLAPS's reach. `InOrder`, which `DependenciesFirst` needs, is proved of what the sort returns for
an acyclic plan (`AcyclicPlansAreInOrder`); that `Coordinator`'s constant `Sorted` is what the sort
returns is not derived, as the two modules have no state in common.

## 7. Findings

- **`run_reaches_llm`**: `_run_single` closes the runtime, and with it the LLM client
  of the whole process (`core/orchestrator/coordinator.py:245`): no later sub-task of
  any request reaches the LLM.

Seen while modelling; they are in the models, as the code has them, without a run of their own:

- *Orchestration.* `plan()` raises where it is documented to fall back (`planner.py:20`,
  `:93`). The prompt asks for dependencies by index (`planner.py:32`) and the sort
  compares them with ids made after the answer (`planner.py:121`, `models.py:67`): a planned sequence
  runs as it is listed (`ListedOrderIsKept`), and one with indexes as numbers, the form of the
  prompt's example, is no plan. An agent whose runtime raises in `close()` stays busy
  (`coordinator.py:246`). Parallel siblings outlive a budget error (`coordinator.py:171`).
- *Agents.* The workspace of the tools is one global: the run that starts last moves the
  tools of the others (`runtime/agent.py:34`). Qdrant accepts no point with an id like
  `name:time`, so that storing fails and is logged only (`memory_manager.py:90`); a failed
  run would be remembered with its last message as its answer; a streamed run opens
  the collection twice and stores nothing.
- *History.* Streamed runs are never saved, since the filter looks for `"type":"done"` and
  `json.dumps` writes a space (`api/routes/agents.py:365`); with no database connection
  a successful run is answered with an error, `status` being unbound (`agents.py:108`).
- *Catalog.* A template's update with an empty config is written unvalidated; an update's
  answer may show columns of another call.
- *Sessions and accounts.* A refresh answered after a logout puts tokens back
  (`ui/api/client.ts:73`). A change of the password ends no session and no key;
  `expires_at` of a key and `is_active` of a user are not looked at; of two changes at
  once the last to write wins though its old password is no longer right. The columns of
  keys are narrower than what is put there (`String(8)` for ten characters), which
  SQLite, modelled here, accepts and PostgreSQL refuses. The credentials file is written in place.
- *MCP.* No server can be connected (section 3): over stdio `connect` raises, and leaves the
  process it has started; over HTTP the second request of a connection is never answered. While
  it waits for that answer, the loop of `_wait_for_response` keeps the whole event loop busy, for up to a
  minute. A failed `connect` is answered with a server error, as `McpServerConnectResult` requires
  `tools_registered` (`mcp_servers.py:203`). Deleting a server unregisters a name that no tool has.
- *Bus.* What is published is an envelope without a sender, which every listener
  drops; a second `start_listener` loses the first task.

The models take the code as it is in all of these; of the order that `src/README.md:195`
promises, the runs check what holds for dependencies given by id, and that others are passed over.

What some properties leave open. `DependenciesFirst` matters for lists made in code: the shipped
planner never writes an id. `CommandTouchesOwnKeys` speaks of the user whose token a command
read; another terminal may have put that token into the shared file. `TasksAreAccountedFor` names the
tasks that a repeated command loses or doubles, it does not deny that there are any. `AuditIsTrue`
has one direction: what was done may be missing from the log. `StatusIsOfThisRow` rests on ids
that are never given twice, as with PostgreSQL, the configured database; the SQLite of the tests
gives the id of a deleted last row again.

## 8. What is not modelled

- *Saving an orchestration* (`persist_result`, `_orchestrations`): one append to tables that
  nothing modelled reads, and a dictionary of finished results.
- *`useApi` and `usePolling`*: overlapping polls may show an older answer for a moment;
  nothing is written from it.
- *Start-up and shut-down*: connections opened and closed in a fixed order.
- *What follows a connection to an MCP server* (`call_tool`, the execution of its tools, `receive`
  and `close` over stdio) and the filesystem server behind it: never reached.
- *Settings*: one dictionary that a request reads or writes in one step.
- *Listeners of the bus, `set_state`, `watch_state`*: listeners drop every message, and nothing
  in the program watches a state.
- *Files, vector search, object storage, HTTP and shell tools*: I/O of the host.
- *Configuration, vault, logging, tracing, metrics, deployment, migrations*: read once, or
  nothing depends on them.
- *Other commands, pages and components*: one request or subprocess per command; presentation.

Inside the modelled parts, texts are left out: prompts, outputs and their formatting, the
parsing of JSON beyond whether it succeeds, hashes, and the headers of requests.

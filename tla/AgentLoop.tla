----------------------------- MODULE AgentLoop -----------------------------
(***************************************************************************)
(* One agent at work: forge/runtime/agent.py, loop.py and streaming.py,    *)
(* with the retries of forge/llm/client.py and the memory of               *)
(* memory/memory_manager.py.  Several runs share the event loop, a         *)
(* collection of memories, and the workspace of the file and shell tools,  *)
(* a global of builtins/filesystem.py.  A step runs from one await to the  *)
(* next.                                                                   *)
(***************************************************************************)
EXTENDS Naturals, Sequences, FiniteSets, SequencesExt

CONSTANTS
    Runs,           \* calls of AgentRuntime.run and run_streaming
    Streamed,       \* those of run_streaming
    MaxIterations,  \* MaxIterations[r]: AgentConfig.max_iterations
    Workspace,      \* Workspace[r]: AgentConfig.workspace_dir, or NoDir
    NoDir,          \* the empty name; the tools then use the data directory
    MaxRetries      \* OllamaClient.max_retries

ASSUME LoopAssumption ==
    /\ Streamed \subseteq Runs
    /\ MaxIterations \in [Runs -> Nat \ {0}]
    /\ DOMAIN Workspace = Runs
    /\ MaxRetries \in Nat

VARIABLES
    at,         \* at[r]: what run r waits for
    iteration,  \* iteration[r]: iterations begun
    attempt,    \* attempt[r]: requests that failed in this iteration
    messages,   \* messages[r]: the conversation
    tokens,     \* tokens[r]: replies whose tokens are counted
    ranIn,      \* ranIn[r]: the directory its last tool was started in
    events,     \* events[r]: what a streamed run has sent, tokens apart
    outcome,    \* outcome[r]: TaskResult
    recalling,  \* runs whose memory.type is "qdrant", the others have "none"
    recalled,   \* recalled[r]: the runs whose conversation r was reminded of
    memory,     \* the runs whose conversation is in the collection
    workspace   \* _current_workspace

ownVars    == <<recalling, recalled>>
runVars    == <<iteration, attempt, messages, tokens, ranIn, events, outcome, ownVars>>
sharedVars == <<memory, workspace>>
vars       == <<at, runVars, sharedVars>>

\* A reply with a tool call may hold other text too; strip_tool_call leaves it.
ToolCalls == {"call", "call in prose"}
Assistant == ToolCalls \cup {"prose", "answer"}
Roles     == Assistant \cup {"system", "memory", "task", "result"}

Errors == {"none", "not found", "ollama", "unexpected", "max iterations"}

\* The sequence a streamed run sends; another run sends nothing.
Sent(r, es) == IF r \in Streamed THEN events[r] \o es ELSE events[r]

Init ==
    /\ at        = [r \in Runs |-> "new"]
    /\ iteration = [r \in Runs |-> 0]
    /\ attempt   = [r \in Runs |-> 0]
    /\ messages  = [r \in Runs |-> << >>]
    /\ tokens    = [r \in Runs |-> 0]
    /\ ranIn     = [r \in Runs |-> NoDir]
    /\ events    = [r \in Runs |-> << >>]
    /\ outcome   = [r \in Runs |-> [error |-> "none", output |-> "nothing"]]
    /\ recalling \in SUBSET Runs
    /\ recalled  = [r \in Runs |-> {}]
    /\ memory    = {}
    /\ workspace = NoDir

-----------------------------------------------------------------------------
WorkspaceSetTo(r) == Workspace[r]  \* fault: the empty name is set as well

\* set_workspace, called by a run that has a workspace_dir only.
WorkspaceSetBy(r) == IF Workspace[r] # NoDir THEN Workspace[r] ELSE workspace

\* _get_base, read when a tool starts.
Base == workspace

\* The conversation at the start, with the message from memory if there is one.
Opening(found) == IF found = {} THEN <<"system", "task">> ELSE <<"system", "memory", "task">>

\* AgentLoop.run and streaming.run_streaming, up to the first request.
Begin(r, found) ==
    /\ at' = [at EXCEPT ![r] = "asking"]
    /\ messages' = [messages EXCEPT ![r] = Opening(found)]
    /\ recalled' = [recalled EXCEPT ![r] = found]
    /\ iteration' = [iteration EXCEPT ![r] = 1]
    /\ events' = [events EXCEPT ![r] = Sent(r, <<"iteration">>)]
    /\ UNCHANGED <<attempt, tokens, ranIn, outcome, recalling>>

\* AgentRuntime.run and run_streaming.
Start(r) ==
    /\ at[r] = "new"
    /\ workspace' = WorkspaceSetBy(r)
    /\ \/ r \notin recalling /\ Begin(r, {})
       \/ /\ r \in recalling
          /\ at' = [at EXCEPT ![r] = "recalling"]
          /\ UNCHANGED runVars
    /\ UNCHANGED memory

\* AgentRuntime.initialize raises: without its collection no run begins.
InitializeRaises(r) ==
    /\ at[r] = "new" /\ r \in recalling
    /\ at' = [at EXCEPT ![r] = "cancelled"]
    /\ UNCHANGED <<runVars, sharedVars>>

\* run_streaming initializes again, after it has set the workspace.
SecondInitializeRaises(r) ==
    /\ at[r] = "new" /\ r \in recalling \cap Streamed
    /\ workspace' = WorkspaceSetBy(r)
    /\ at' = [at EXCEPT ![r] = "cancelled"]
    /\ UNCHANGED <<runVars, memory>>

\* What search may find: of whatever agent, and nothing at all.
Search == SUBSET memory

\* The collection after upsert, which raises or adds a point.
Upsert(r) == {memory, memory \cup {r}}

\* retrieve_context, once the task is embedded; an error is nothing found.
Recall(r) ==
    /\ at[r] = "recalling"
    /\ \E found \in Search : Begin(r, found)
    /\ UNCHANGED sharedVars

\* A run with memory that is not streamed has still to store its conversation.
AfterLoop(r) == IF r \in recalling \ Streamed THEN "storing" ELSE "done"

\* store_conversation: nothing is stored without an output or an embedding, and
\* an error is logged only.
Store(r) ==
    /\ at[r] = "storing"
    /\ at' = [at EXCEPT ![r] = "done"]
    /\ memory' \in Upsert(r)
    /\ UNCHANGED <<runVars, workspace>>

\* The TaskResult: its output is the last message, whoever wrote it.
Finish(r, error, conversation, es) ==
    /\ at' = [at EXCEPT ![r] = AfterLoop(r)]
    /\ outcome' = [outcome EXCEPT ![r] = [error |-> error, output |-> Last(conversation)]]
    /\ events' = [events EXCEPT ![r] = Sent(r, es \o <<"done">>)]

\* Only chat reports token counts.
Counted(r) == [tokens EXCEPT ![r] = IF r \in Streamed THEN @ ELSE @ + 1]

\* A reply with a tool call: the first one is executed, in the directory that
\* is the workspace now.
Call(r, reply) ==
    /\ at[r] = "asking"
    /\ at' = [at EXCEPT ![r] = "calling"]
    /\ messages' = [messages EXCEPT ![r] = Append(@, reply)]
    /\ tokens' = Counted(r)
    /\ ranIn' = [ranIn EXCEPT ![r] = Base]
    /\ events' = [events EXCEPT ![r] = Sent(r, <<"tool_call">>)]
    /\ UNCHANGED <<iteration, attempt, outcome, ownVars, sharedVars>>

\* A reply without one is the answer.
Answer(r) ==
    /\ at[r] = "asking"
    /\ messages' = [messages EXCEPT ![r] = Append(@, "answer")]
    /\ tokens' = Counted(r)
    /\ Finish(r, "none", messages'[r], << >>)
    /\ UNCHANGED <<iteration, attempt, ranIn, ownVars, sharedVars>>

\* Fault: the stripped text replaces the message before.
WithResultMisplaced(conversation) ==
    LET n == Len(conversation) IN
    IF conversation[n] = "call in prose"
    THEN Append([conversation EXCEPT ![n - 1] = "prose"], "result")
    ELSE Append(conversation, "result")

\* The tool's result is appended; what is left of the reply replaces it.
WithResult(conversation) ==
    LET n == Len(conversation) IN
    IF conversation[n] = "call in prose"
    THEN Append([conversation EXCEPT ![n] = "prose"], "result")
    ELSE Append(conversation, "result")

\* Fault: running out of iterations is no error.
ToolReturnsUnexcused(r) ==
    /\ at[r] = "calling"
    /\ messages' = [messages EXCEPT ![r] = WithResult(@)]
    /\ IF iteration[r] < MaxIterations[r]
       THEN /\ at' = [at EXCEPT ![r] = "asking"]
            /\ iteration' = [iteration EXCEPT ![r] = @ + 1]
            /\ attempt' = [attempt EXCEPT ![r] = 0]
            /\ events' = [events EXCEPT ![r] = Sent(r, <<"tool_result", "iteration">>)]
            /\ UNCHANGED outcome
       ELSE /\ Finish(r, "none", messages'[r], <<"tool_result">>)
            /\ UNCHANGED <<iteration, attempt>>
    /\ UNCHANGED <<tokens, ranIn, ownVars, sharedVars>>

\* _execute_tool turns every error into a result.
ToolReturns(r) ==
    /\ at[r] = "calling"
    /\ messages' = [messages EXCEPT ![r] = WithResult(@)]
    /\ \/ /\ iteration[r] < MaxIterations[r]
          /\ at' = [at EXCEPT ![r] = "asking"]
          /\ iteration' = [iteration EXCEPT ![r] = @ + 1]
          /\ attempt' = [attempt EXCEPT ![r] = 0]
          /\ events' = [events EXCEPT ![r] = Sent(r, <<"tool_result", "iteration">>)]
          /\ UNCHANGED outcome
       \/ /\ iteration[r] = MaxIterations[r]
          /\ Finish(r, "max iterations", messages'[r], <<"tool_result">>)
          /\ UNCHANGED <<iteration, attempt>>
    /\ UNCHANGED <<tokens, ranIn, ownVars, sharedVars>>

-----------------------------------------------------------------------------
\* _request: a timeout, a broken connection or an HTTP error is tried again.
RequestFails(r) ==
    /\ at[r] = "asking" /\ r \notin Streamed
    /\ \/ /\ attempt[r] < MaxRetries
          /\ at' = [at EXCEPT ![r] = "backing off"]
          /\ UNCHANGED <<outcome, events>>
       \/ /\ attempt[r] = MaxRetries
          /\ Finish(r, "ollama", messages[r], <<"error">>)
    /\ attempt' = [attempt EXCEPT ![r] = @ + 1]
    /\ UNCHANGED <<iteration, messages, tokens, ranIn, ownVars, sharedVars>>

\* Fault: the attempts are not counted.
BackOffEndsUncounted(r) ==
    /\ at[r] = "backing off"
    /\ at' = [at EXCEPT ![r] = "asking"]
    /\ attempt' = [attempt EXCEPT ![r] = 0]
    /\ UNCHANGED <<iteration, messages, tokens, ranIn, events, outcome, ownVars, sharedVars>>

BackOffEnds(r) ==
    /\ at[r] = "backing off"
    /\ at' = [at EXCEPT ![r] = "asking"]
    /\ UNCHANGED <<runVars, sharedVars>>

\* Fault: the stream returns after its error.
RequestBreaksStream(r, error) ==
    /\ at[r] = "asking"
    /\ at' = [at EXCEPT ![r] = "done"]
    /\ outcome' = [outcome EXCEPT ![r] = [error |-> error, output |-> Last(messages[r])]]
    /\ events' = [events EXCEPT ![r] = Sent(r, <<"error">>)]
    /\ UNCHANGED <<iteration, attempt, messages, tokens, ranIn, ownVars, sharedVars>>

\* Errors that are not tried again: an unknown model, a closed client, a body
\* that is not JSON; in a stream every error.
RequestBreaks(r, error) ==
    /\ at[r] = "asking"
    /\ Finish(r, error, messages[r], <<"error">>)
    /\ UNCHANGED <<iteration, attempt, messages, tokens, ranIn, ownVars, sharedVars>>

\* The caller's wait_for expires, or the reader of the stream is gone.
Cancel(r) ==
    /\ at[r] \in {"recalling", "asking", "backing off", "calling", "storing"}
    /\ at' = [at EXCEPT ![r] = "cancelled"]
    /\ UNCHANGED <<runVars, sharedVars>>

Over(r) == at[r] \in {"done", "cancelled"}

AllOver ==
    /\ \A r \in Runs : Over(r)
    /\ UNCHANGED vars

\* What a run does by itself, or for an answer that comes or fails to come in time.
OwnStep(r) ==
    \/ Recall(r) \/ Store(r)
    \/ \E reply \in ToolCalls : Call(r, reply)
    \/ Answer(r)
    \/ RequestFails(r)
    \/ BackOffEnds(r)
    \/ \E error \in {"not found", "unexpected"} : RequestBreaks(r, error)

RunStep(r) == OwnStep(r) \/ ToolReturns(r) \/ Cancel(r)

Next ==
    \/ \E r \in Runs : Start(r) \/ InitializeRaises(r) \/ SecondInitializeRaises(r) \/ RunStep(r)
    \/ AllOver

Spec == Init /\ [][Next]_vars

\* The requests of OllamaClient and of the memory's store have a timeout, and the
\* sleep between two attempts ends.  A tool need not return: registry.execute awaits
\* it for as long as it takes.  Nor does anything make the caller cancel: POST
\* /agents/run waits without a limit.
FairSpec == Spec /\ \A r \in Runs : WF_vars(OwnStep(r))

-----------------------------------------------------------------------------
Places == {"new", "recalling", "asking", "backing off", "calling", "storing", "done", "cancelled"}
Kinds  == {"iteration", "tool_call", "tool_result", "error", "done"}
Dirs   == {NoDir} \cup {Workspace[r] : r \in Runs}

TypeOK ==
    /\ at \in [Runs -> Places]
    /\ iteration \in [Runs -> Nat] /\ attempt \in [Runs -> Nat] /\ tokens \in [Runs -> Nat]
    /\ messages \in [Runs -> Seq(Roles)] /\ events \in [Runs -> Seq(Kinds)]
    /\ ranIn \in [Runs -> Dirs] /\ workspace \in Dirs
    /\ outcome \in [Runs -> [error : Errors, output : Roles \cup {"nothing"}]]
    /\ recalling \subseteq Runs /\ recalled \in [Runs -> SUBSET Runs] /\ memory \subseteq Runs

\* What the model is sent is a dialogue: the task, then alternately a reply and
\* the result of its tool, and no reply but the latest still holds a tool call
\* amid its text, so that no later iteration sees it again.
DialogueAlternates ==
    \A r \in Runs :
        LET m == messages[r]
            n == Len(m) IN
        n > 0 =>
          /\ \E k \in 2 .. 3 :
                /\ k <= n /\ m[k] = "task"
                /\ \A i \in k + 1 .. n :
                      IF (i - k) % 2 = 1 THEN m[i] \in Assistant ELSE m[i] = "result"
          /\ \A i \in 1 .. n : m[i] = "call in prose" => i = n /\ at[r] \in {"calling", "cancelled"}
          /\ at[r] \in {"asking", "backing off"} => m[n] \in {"task", "result"}

RepliesIn(m) == Cardinality({i \in 1 .. Len(m) : m[i] \in Assistant})

\* The TaskResult tells the truth: no error if and only if its output is a final
\* answer; the error "ollama" only after all the attempts of one request; and,
\* unless it is streamed, tokens_used for every reply there was, also those
\* before a failure and those whose message was replaced.  What a run is reminded
\* of are runs that have their result, not itself and not one that was cut off.
ResultIsTrue ==
    \A r \in Runs :
        /\ at[r] \in {"storing", "done"} =>
              (outcome[r].error = "none" <=> outcome[r].output = "answer")
        /\ outcome[r].error = "ollama" => attempt[r] = MaxRetries + 1
        /\ r \notin Streamed => tokens[r] = RepliesIn(messages[r])
        /\ \A s \in recalled[r] : s # r /\ outcome[s].output # "nothing"

\* A run with a workspace never reaches the data directory: runs without one
\* may start in between, but leave the workspace as it is.
NeverOutsideWorkspaces ==
    \A r \in Runs : at[r] = "calling" /\ Workspace[r] # NoDir => ranIn[r] # NoDir

\* A stream that is not cut off ends with one "done", and only an "error" may
\* stand between it and the iteration or result before; each tool_call has its
\* tool_result next.
StreamIsComplete ==
    \A r \in Streamed :
        LET e == events[r]
            n == Len(e) IN
        /\ \A i \in 1 .. n : e[i] = "done" => i = n
        /\ \A i \in 1 .. n - 1 : e[i] = "tool_call" <=> e[i + 1] = "tool_result"
        /\ at[r] = "done" => e[n] = "done"
        /\ n > 0 /\ e[n] = "done" =>
              (outcome[r].error \in {"not found", "unexpected"} <=> e[n - 1] = "error")

\* Every run that starts ends, whatever is tried again, however often a tool is
\* called and also when the memory fails before or after the loop, or else it waits
\* for ever in a tool that does not return (registry.execute): nowhere else.
EveryRunEnds ==
    \A r \in Runs : at[r] # "new" ~> Over(r) \/ [](at[r] = "calling")
=============================================================================

---------------------------- MODULE TaskHistory ----------------------------
(***************************************************************************)
(* What becomes of a run: routes/agents.py runs the agent, writes the      *)
(* result to the tasks table and hands it to a task of its own that calls  *)
(* the webhooks one after the other.  Every await may raise, the process   *)
(* may stop anywhere, and the database remembers.                          *)
(***************************************************************************)
EXTENDS Webhooks

CONSTANT Runs  \* requests of POST /agents/run and /agents/run/stream

VARIABLES
    at,        \* at[r]: where the handler of r is
    result,    \* result[r]: how the agent ended, "none" before
    row,       \* row[r]: the status in the tasks table, "none" without a row
    warned,    \* runs with the warning "failed to persist task result"
    dispatch,  \* dispatch[r]: where _dispatch_webhooks is
    todo,      \* todo[r]: the hooks that its loop has still to go through
    calls      \* calls[r][n]: times the n-th hook has been called for r

runVars      == <<at, result, row, warned>>
dispatchVars == <<dispatch, todo, calls>>
vars         == <<hookVars, runVars, dispatchVars>>

Init ==
    /\ HooksInit
    /\ at = [r \in Runs |-> "new"]
    /\ result = [r \in Runs |-> "none"]
    /\ row = [r \in Runs |-> "none"]
    /\ warned = {}
    /\ dispatch = [r \in Runs |-> "none"]
    /\ todo = [r \in Runs |-> {}]
    /\ calls = [r \in Runs |-> [n \in 1 .. MaxHooks |-> 0]]

-----------------------------------------------------------------------------
(* run_agent, run_agent_stream and _persist_task.                           *)

Goes(r, from, to) == at[r] = from /\ at' = [at EXCEPT ![r] = to]

Start(r) ==
    /\ \E route \in {"running", "streaming"} : Goes(r, "new", route)
    /\ UNCHANGED <<result, row, warned, dispatchVars>>

\* Fault: the webhooks are started before the result is saved.
ReturnDispatching(r) ==
    /\ Goes(r, "running", "saving")
    /\ \E status \in Statuses : result' = [result EXCEPT ![r] = status]
    /\ dispatch' = [dispatch EXCEPT ![r] = "reading"]
    /\ UNCHANGED <<row, warned, todo, calls>>

\* The agent ends, with or without an error.
Return(r) ==
    /\ Goes(r, "running", "saving")
    /\ \E status \in Statuses : result' = [result EXCEPT ![r] = status]
    /\ UNCHANGED <<row, warned, dispatchVars>>

\* A stream is over with that: its filter looks for "type":"done", which
\* json.dumps writes with a space, so that last_result stays None and nothing
\* is persisted.
StreamEnds(r) ==
    /\ Goes(r, "streaming", "streamed")
    /\ \E status \in Statuses : result' = [result EXCEPT ![r] = status]
    /\ UNCHANGED <<row, warned, dispatchVars>>

\* No connection: the warning, then UnboundLocalError, as status is assigned
\* after connect().
NotConnected(r) ==
    /\ Goes(r, "saving", "error")
    /\ warned' = warned \cup {r}
    /\ UNCHANGED <<result, row, dispatchVars>>

\* Fault: an exception is not logged.
SaveSilently(r) ==
    /\ Goes(r, "saving", "saved")
    /\ row' \in {row, [row EXCEPT ![r] = result[r]]}
    /\ UNCHANGED <<result, warned, dispatchVars>>

\* The insert, or an exception that is logged, with or without the row.
Save(r) ==
    /\ Goes(r, "saving", "saved")
    /\ \/ row' = [row EXCEPT ![r] = result[r]] /\ UNCHANGED warned
       \/ /\ warned' = warned \cup {r}
          /\ row' \in {row, [row EXCEPT ![r] = result[r]]}
    /\ UNCHANGED <<result, dispatchVars>>

\* ensure_future, once the connection is closed.
Schedule(r) ==
    /\ Goes(r, "saved", "closing")
    /\ dispatch' = [dispatch EXCEPT ![r] = "reading"]
    /\ UNCHANGED <<result, row, warned, todo, calls>>

Answer(r) == Goes(r, "closing", "answered") /\ UNCHANGED <<result, row, warned, dispatchVars>>

\* initialize(), the run, close() of the database or of the runtime raises.
Raises(r) ==
    /\ \E from \in {"running", "streaming", "saved", "closing"} : Goes(r, from, "error")
    /\ UNCHANGED <<result, row, warned, dispatchVars>>

-----------------------------------------------------------------------------
(* _dispatch_webhooks.                                                      *)

\* The next hook, or the end of the loop.
Following(r) ==
    /\ todo' = [todo EXCEPT ![r] = @ \ {Newest(@)}]
    /\ dispatch' = [dispatch EXCEPT ![r] = IF todo'[r] = {} THEN "over" ELSE "posting"]

\* An exception ends it.
Stops(r) ==
    /\ todo' = [todo EXCEPT ![r] = {}]
    /\ dispatch' = [dispatch EXCEPT ![r] = "stopped"]

Read(r) ==
    /\ dispatch[r] = "reading"
    /\ todo' = [todo EXCEPT ![r] = ActiveByEvent(result[r])]
    /\ dispatch' = [dispatch EXCEPT ![r] = IF todo'[r] = {} THEN "over" ELSE "posting"]
    /\ UNCHANGED <<hooks, runVars, calls>>

\* Fault: the loop ends at a hook that does not answer.
PostBreaks(r) ==
    /\ dispatch[r] = "posting"
    /\ calls' = [calls EXCEPT ![r][Newest(todo[r])] = @ + 1]
    /\ \/ dispatch' = [dispatch EXCEPT ![r] = "answered"] /\ UNCHANGED todo
       \/ /\ dispatch' = [dispatch EXCEPT ![r] = "over"]
          /\ todo' = [todo EXCEPT ![r] = {}]
    /\ UNCHANGED <<hooks, runVars>>

\* The hook answers with some code, or there is no answer in 10 seconds,
\* whether or not the call has reached it.
Post(r) ==
    /\ dispatch[r] = "posting"
    /\ \E next \in {"answered", "unanswered"} : dispatch' = [dispatch EXCEPT ![r] = next]
    /\ calls' = [calls EXCEPT ![r][Newest(todo[r])] = @ + 1]
    /\ UNCHANGED <<hooks, runVars, todo>>

\* The update with the code.  If it raises, it is as if the hook had not
\* answered.
Record(r) ==
    /\ dispatch[r] = "answered"
    /\ \/ hooks' = WithCode(Newest(todo[r]), "some") /\ Following(r)
       \/ /\ hooks' \in {hooks, WithCode(Newest(todo[r]), "some")}
          /\ dispatch' = [dispatch EXCEPT ![r] = "unanswered"]
          /\ UNCHANGED todo
    /\ UNCHANGED <<runVars, calls>>

\* Fault: a hook that has not answered is called again.
RecordNoneRetrying(r) ==
    /\ dispatch[r] = "unanswered"
    /\ hooks' = WithCode(Newest(todo[r]), "none")
    /\ dispatch' = [dispatch EXCEPT ![r] = "posting"]
    /\ UNCHANGED <<runVars, todo, calls>>

\* The update without a code.  If that raises, the loop ends.
RecordNone(r) ==
    /\ dispatch[r] = "unanswered"
    /\ \/ hooks' = WithCode(Newest(todo[r]), "none") /\ Following(r)
       \/ /\ hooks' \in {hooks, WithCode(Newest(todo[r]), "none")}
          /\ Stops(r)
    /\ UNCHANGED <<runVars, calls>>

\* connect() or the query raises.
ReadFails(r) ==
    /\ dispatch[r] = "reading" /\ Stops(r)
    /\ UNCHANGED <<hooks, runVars, calls>>

Dispatch(r) == Read(r) \/ ReadFails(r) \/ Post(r) \/ Record(r) \/ RecordNone(r)

-----------------------------------------------------------------------------
Handling    == {"running", "streaming", "saving", "saved", "closing"}
Dispatching == {"reading", "posting", "answered", "unanswered"}

\* The process stops: handlers and dispatches are gone, the rows stay.
Crash ==
    /\ \E r \in Runs : at[r] \in Handling \/ dispatch[r] \in Dispatching
    /\ at' = [r \in Runs |-> IF at[r] \in Handling THEN "error" ELSE at[r]]
    /\ dispatch' = [r \in Runs |-> IF dispatch[r] \in Dispatching THEN "stopped" ELSE dispatch[r]]
    /\ todo' = [r \in Runs |-> {}]
    /\ UNCHANGED <<hookVars, result, row, warned, calls>>

Handle(r) ==
    \/ Start(r) \/ Return(r) \/ StreamEnds(r) \/ NotConnected(r) \/ Save(r)
    \/ Schedule(r) \/ Answer(r) \/ Raises(r)

Next ==
    \/ \E r \in Runs : Handle(r) /\ UNCHANGED hookVars
    \/ \E r \in Runs : Dispatch(r) /\ UNCHANGED changes
    \/ Routes /\ UNCHANGED <<runVars, dispatchVars>>
    \/ Crash

Spec == Init /\ [][Next]_vars

-----------------------------------------------------------------------------
TypeOK ==
    /\ hooks \in Seq(Row) /\ (\A n \in DOMAIN hooks : hooks[n].exists \/ hooks[n] = Deleted)
    /\ Len(hooks) <= MaxHooks /\ changes \in 0 .. MaxChanges
    /\ at \in [Runs -> {"new", "streamed", "answered", "error"} \cup Handling]
    /\ result \in [Runs -> {"none"} \cup Statuses] /\ row \in [Runs -> {"none"} \cup Statuses]
    /\ warned \subseteq Runs
    /\ dispatch \in [Runs -> {"none", "over", "stopped"} \cup Dispatching]
    /\ todo \in [Runs -> SUBSET DOMAIN hooks]
    /\ calls \in [Runs -> [1 .. MaxHooks -> Nat]]

\* Whoever is called for a run finds it in the history with the same result,
\* unless the failure to persist it was logged; and the history has no
\* result that the agent did not have.
NewsIsHistory ==
    \A r \in Runs :
        /\ (\E n \in 1 .. MaxHooks : calls[r][n] > 0) => row[r] = result[r] \/ r \in warned
        /\ row[r] \in {"none", result[r]}

\* The caller of a run that is answered finds it in the history, unless the
\* failure was logged, and its hooks are called or are about to be.
AnsweredIsRecorded ==
    \A r \in Runs :
        at[r] = "answered" =>
            (row[r] = result[r] \/ r \in warned) /\ dispatch[r] # "none"

\* A hook is called for a run once at most, whatever fails and however the table
\* changes meanwhile.
CalledOnce == \A r \in Runs, n \in 1 .. MaxHooks : calls[r][n] <= 1

\* A hook with a response code has been called for some run.
CodeComesFromCall ==
    \A n \in DOMAIN hooks : hooks[n].code = "some" => \E r \in Runs : calls[r][n] > 0

\* A hook that does not answer takes nothing from the others: none leaves
\* the loop before it is called, unless the process stops or the database fails.
NoHookIsSkipped ==
    [][\A r \in Runs : \A n \in todo[r] \ todo'[r] :
         calls'[r][n] > 0 \/ dispatch'[r] = "stopped"]_vars
=============================================================================

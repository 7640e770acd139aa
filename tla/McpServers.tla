----------------------------- MODULE McpServers -----------------------------
(***************************************************************************)
(* routes/mcp_servers.py with the MCPClient (tools/mcp_client.py) and the  *)
(* transports (tools/mcp_transport.py) that it uses: a server is created,  *)
(* tested, connected, disconnected and deleted, by calls at once.  All are *)
(* about one name.  The calls are coroutines of one event loop, which goes *)
(* from one to another where they wait for something.                      *)
(***************************************************************************)
EXTENDS Naturals, FiniteSets

CONSTANTS
    Calls,      \* requests to the API
    MaxTalking  \* bound: those that talk to the server

ASSUME MaxTalkingAssumption == MaxTalking \in Nat

VARIABLES
    at,         \* at[c]: the step that call c has reached
    op,         \* op[c]: the route that c calls
    row,        \* the row with the name, or NoRow
    status,     \* its status
    lastId,     \* ids that the table has given, which PostgreSQL never does twice
    server,     \* server[c]: the row as c has read it
    first,      \* first[c]: the first event of the stream that c's client has read
    late,       \* calls past the deadline of their _wait_for_response
    registry    \* calls whose clients stand behind "mcp:<name>:..."

tableVars == <<row, status, lastId>>
vars      == <<at, op, tableVars, server, first, late, registry>>

Ops        == {"create", "connect", "test", "disconnect", "delete"}
Transports == {"stdio", "http", "incomplete"}  \* the last: no command, no url
Statuses   == {"disconnected", "connected", "error"}

NoRow == [id |-> 0, transport |-> "incomplete"]

\* What a call waits for, or does next: a statement, a request to the server, the
\* loop of _wait_for_response, nothing any more.  "not connected" is the answer of a
\* test, "failed" an HTTP error.
OnTable   == {"begun", "free", "found", "registered", "failing", "unregistered"}
OnNetwork == {"initialize", "events", "tools/list"}
InLoop    == {"initializing", "listing"}
Over      == {"ok", "not connected", "failed"}

\* A response names the request that it answers; anything else is "other".  A
\* refusal: an error, or a result that is no object.  No message: the stream
\* ends, or what it carries is no JSON object.
Events == {"initialize", "refusal", "tools/list", "other", "no message"}

Init ==
    /\ at = [c \in Calls |-> "begun"]
    /\ op \in {ops \in [Calls -> Ops] :
                 Cardinality({c \in Calls : ops[c] \in {"connect", "test"}}) <= MaxTalking}
    /\ \E t \in Transports : row = [id |-> 1, transport |-> t]
    /\ status = "disconnected" /\ lastId = 1
    /\ server = [c \in Calls |-> NoRow]
    /\ first = [c \in Calls |-> "unread"]
    /\ late = {} /\ registry = {}

\* An HTTPTransport that has read its events receives without waiting, so that
\* a call in the loop of _wait_for_response has the event loop for itself.
Goes(c, from, to) ==
    /\ \A d \in Calls \ {c} : at[d] \notin InLoop
    /\ at[c] = from /\ at' = [at EXCEPT ![c] = to]

\* A commit is followed by a read of the row, or its answer is lost: the route may
\* raise although it has written.
Commits(c, from, to) == \E step \in {to, "failed"} : Goes(c, from, step)

-----------------------------------------------------------------------------
(* The table.                                                               *)

\* create_mcp_server: the name is looked for, then inserted; its unique
\* constraint makes a second insert raise.
FindName(c) ==
    /\ op[c] = "create"
    /\ Goes(c, "begun", IF row = NoRow THEN "free" ELSE "failed")
    /\ UNCHANGED <<op, tableVars, server, first, late, registry>>

Insert(c) ==
    /\ \/ row # NoRow /\ Goes(c, "free", "failed") /\ UNCHANGED tableVars
       \/ /\ row = NoRow /\ Commits(c, "free", "ok")
          /\ \E t \in Transports : row' = [id |-> lastId + 1, transport |-> t]
          /\ lastId' = lastId + 1
          /\ status' = "disconnected"
    /\ UNCHANGED <<op, server, first, late, registry>>

\* get_by_id, with the id of the row or with one that is not there.
Find(c) ==
    /\ op[c] # "create"
    /\ \/ /\ row # NoRow /\ Goes(c, "begun", "found")
          /\ server' = [server EXCEPT ![c] = row]
       \/ Goes(c, "begun", "failed") /\ UNCHANGED server
    /\ UNCHANGED <<op, tableVars, first, late, registry>>

\* The last step of connect and disconnect, and what it writes.
Written(step) == CASE step = "registered"   -> "connected"
                   [] step = "failing"      -> "error"
                   [] step = "unregistered" -> "disconnected"

\* Fault: the row is looked for by its name.
SetStatusOfName(c) ==
    /\ \E step \in {"registered", "failing", "unregistered"} :
          /\ Commits(c, step, IF step = "failing" THEN "failed" ELSE "ok")
          /\ status' = Written(step)
    /\ UNCHANGED <<op, row, lastId, server, first, late, registry>>

\* update_status, by id: no row is changed if that row has been deleted.  After
\* the status "error" the route raises, since its answer lacks tools_registered.
SetStatus(c) ==
    /\ \E step \in {"registered", "failing", "unregistered"} :
          /\ Commits(c, step, IF step = "failing" THEN "failed" ELSE "ok")
          /\ status' = IF row.id = server[c].id THEN Written(step) ELSE status
    /\ UNCHANGED <<op, row, lastId, server, first, late, registry>>

\* delete_mcp_server, of this row; it unregisters "mcp:<name>", no tool's name.
Delete(c) ==
    /\ op[c] = "delete" /\ Commits(c, "found", "ok")
    /\ row' = IF row.id = server[c].id THEN NoRow ELSE row
    /\ UNCHANGED <<op, status, lastId, server, first, late, registry>>

\* disconnect_mcp_server: the tools go from the registry, the clients behind
\* them are not closed.
Unregister(c) ==
    /\ op[c] = "disconnect" /\ Goes(c, "found", "unregistered")
    /\ registry' = {}
    /\ UNCHANGED <<op, tableVars, server, first, late>>

\* The database refuses a statement, and the route raises.
StatementFails(c) ==
    /\ \E step \in OnTable : Goes(c, step, "failed")
    /\ UNCHANGED <<op, tableVars, server, first, late, registry>>

-----------------------------------------------------------------------------
(* connect and test, with a client of their own that nobody closes if it    *)
(* fails.                                                                   *)

\* A failed test is answered with connected=False, a failed connect sets the status.
Failed(c) == IF op[c] = "connect" THEN "failing" ELSE "not connected"

\* _create_client refuses a row without the command or the url.  connect of a
\* StdioTransport raises whatever the command is, at the latest when
\* connect_read_pipe is given a StreamReader, which is no pipe; the process that
\* it has started stays.  That of an HTTPTransport only makes an HTTP client,
\* and initialize is sent.
Connect(c) ==
    /\ op[c] \in {"connect", "test"}
    /\ Goes(c, "found", CASE server[c].transport = "incomplete" -> "failed"
                          [] server[c].transport = "stdio"      -> Failed(c)
                          [] server[c].transport = "http"       -> "initialize")
    /\ UNCHANGED <<op, tableVars, server, first, late, registry>>

\* The client is not used any more.
Leaves(c) ==
    /\ first' = [first EXCEPT ![c] = "unread"]
    /\ late' = late \ {c}

\* A request to the server fails: the POST of a message or the GET of the events.
RequestFails(c) ==
    /\ \E step \in OnNetwork : Goes(c, step, Failed(c))
    /\ Leaves(c)
    /\ UNCHANGED <<op, tableVars, server, registry>>

\* The deadline is set before the first receive, which gets the events.
InitializeSent(c) ==
    /\ Goes(c, "initialize", "events")
    /\ UNCHANGED <<op, tableVars, server, first, late, registry>>

\* Fault: each receive gets the events that have come since the last one.
ReceiveAnew(c) == \E m \in Events : first' = [first EXCEPT ![c] = m]

\* HTTPTransport.receive: the events are got once, as a whole, when the server
\* closes the stream, and every call begins with the first of them.
Receive(c) ==
    IF first[c] = "unread" THEN \E m \in Events : first' = [first EXCEPT ![c] = m]
                           ELSE UNCHANGED first

EventsCome(c) ==
    /\ Goes(c, "events", "initializing")
    /\ Receive(c)
    /\ UNCHANGED <<op, tableVars, server, late, registry>>

ToolsListSent(c) ==
    /\ Goes(c, "tools/list", "listing")
    /\ Receive(c)
    /\ UNCHANGED <<op, tableVars, server, late, registry>>

TimePasses(c) ==
    /\ at[c] \in {"events"} \cup InLoop /\ c \notin late
    /\ late' = late \cup {c}
    /\ UNCHANGED <<at, op, tableVars, server, first, registry>>

\* _wait_for_response compares the ids.
IsAnswer(c) == IF at[c] = "initializing" THEN first[c] \in {"initialize", "refusal"}
                                         ELSE first[c] = "tools/list"

\* tools/list is sent when initialize has been answered.
InitializeAnswered(c) ==
    /\ first[c] = "initialize" /\ Goes(c, "initializing", "tools/list")
    /\ late' = late \ {c}
    /\ UNCHANGED <<op, tableVars, server, first, registry>>

\* Fault: no deadline.
LoopEndsIfHeard(c) ==
    /\ \/ at[c] = "listing" /\ IsAnswer(c)
       \/ first[c] \in {"refusal", "no message"}
    /\ \E step \in InLoop : Goes(c, step, Failed(c))
    /\ Leaves(c)
    /\ UNCHANGED <<op, tableVars, server, registry>>

\* The loop ends: connect registers the tools that are listed, none at an error,
\* and test closes its client.  Or it raises: initialize is refused, nothing can
\* be received, or the deadline has passed when the next message is asked for.
LoopEnds(c) ==
    /\ IF at[c] = "listing" /\ IsAnswer(c)
       THEN /\ Goes(c, "listing", IF op[c] = "connect" THEN "registered" ELSE "ok")
            /\ registry' = IF op[c] = "connect" THEN registry \cup {c} ELSE registry
       ELSE /\ first[c] \in {"refusal", "no message"} \/ (~IsAnswer(c) /\ c \in late)
            /\ \E step \in InLoop : Goes(c, step, Failed(c))
            /\ UNCHANGED registry
    /\ Leaves(c)
    /\ UNCHANGED <<op, tableVars, server>>

-----------------------------------------------------------------------------
OwnStep(c) ==
    \/ FindName(c) \/ Insert(c) \/ Find(c) \/ SetStatus(c) \/ Delete(c) \/ Unregister(c)
    \/ StatementFails(c) \/ Connect(c)
    \/ InitializeAnswered(c) \/ LoopEnds(c) \/ TimePasses(c)

NetworkStep(c) == RequestFails(c) \/ InitializeSent(c) \/ EventsCome(c) \/ ToolsListSent(c)

Next == \E c \in Calls : OwnStep(c) \/ NetworkStep(c)

Spec == Init /\ [][Next]_vars

\* The event loop comes to every call that can go on, a statement is executed or
\* refused, and time passes.  A request to the server may last for ever: the
\* timeout of the HTTP client is one for each part that comes, and a server may
\* keep its events open.
FairSpec == Spec /\ \A c \in Calls : WF_vars(OwnStep(c))

-----------------------------------------------------------------------------
TypeOK ==
    /\ at \in [Calls -> OnTable \cup OnNetwork \cup InLoop \cup Over]
    /\ op \in [Calls -> Ops]
    /\ row \in [id : Nat, transport : Transports] /\ lastId \in Nat /\ status \in Statuses
    /\ server \in [Calls -> [id : Nat, transport : Transports]]
    /\ first \in [Calls -> Events \cup {"unread"}]
    /\ late \subseteq Calls /\ registry \subseteq Calls

\* No connect and no test ends well, and no tool of a server is ever registered:
\* over stdio connecting raises, and over HTTP the receive after tools/list
\* begins with the answer to initialize again (mcp_transport.py:61 and :141).
NothingIsConnected ==
    /\ registry = {} /\ status # "connected"
    /\ \A c \in Calls : op[c] \in {"connect", "test"} => at[c] # "ok"

\* The status "error" is this very row's, written by a connect that has read it
\* and failed: a slow connect to a row that has been deleted meanwhile does not
\* mark the one that has been created under its name.
StatusIsOfThisRow ==
    row # NoRow /\ status = "error" =>
        \E c \in Calls : op[c] = "connect" /\ at[c] \in Over /\ server[c] = row

\* Every call ends, or waits for the server for ever: the loop of
\* _wait_for_response, which gets the same event again and again and keeps all
\* others from running, ends with its deadline.
EveryCallEnds ==
    \A c \in Calls : (at[c] = "begun") ~> (at[c] \in Over \/ [](at[c] \in OnNetwork))
=============================================================================

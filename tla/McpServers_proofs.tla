-------------------------- MODULE McpServers_proofs --------------------------
(***************************************************************************)
(* Proofs about McpServers, for any number of calls, however many of them  *)
(* talk to the server: the types, that no server is ever connected, and    *)
(* that a row has the status which was written for it.                     *)
(***************************************************************************)
EXTENDS McpServers, TLAPS

Step == OnTable \cup OnNetwork \cup InLoop \cup Over

Row == [id : Nat, transport : Transports]

\* What a step of c may do to the calls, itself and the others.
OnlyMoves(c) ==
    /\ at' \in [Calls -> Step] /\ op' = op
    /\ server' \in [Calls -> Row] /\ first' \in [Calls -> Events \cup {"unread"}]
    /\ \A d \in Calls \ {c} : at'[d] = at[d] /\ server'[d] = server[d] /\ first'[d] = first[d]

LEMMA GoesEffect ==
    ASSUME TypeOK, NEW c \in Calls, NEW from, NEW to \in Step, Goes(c, from, to)
    PROVE  /\ at' \in [Calls -> Step] /\ at[c] = from /\ at'[c] = to
           /\ \A d \in Calls \ {c} : at'[d] = at[d]
  BY DEF TypeOK, Goes, Step

LEMMA CommitsEffect ==
    ASSUME TypeOK, NEW c \in Calls, NEW from, NEW to \in Step, Commits(c, from, to)
    PROVE  /\ at' \in [Calls -> Step] /\ at[c] = from /\ at'[c] \in {to, "failed"}
           /\ \A d \in Calls \ {c} : at'[d] = at[d]
<1>1. "failed" \in Step
  BY DEF Step, Over
<1>2. PICK step \in {to, "failed"} : Goes(c, from, step)
  BY DEF Commits
<1> QED
  BY <1>1, <1>2, GoesEffect

LEMMA LeavesEffect ==
    ASSUME TypeOK, NEW c \in Calls, Leaves(c)
    PROVE  /\ first' \in [Calls -> Events \cup {"unread"}] /\ first'[c] = "unread"
           /\ \A d \in Calls \ {c} : first'[d] = first[d]
           /\ late' \subseteq Calls
  BY DEF TypeOK, Leaves

\* The first event is read once.
LEMMA ReceiveEffect ==
    ASSUME TypeOK, NEW c \in Calls, Receive(c)
    PROVE  /\ first' \in [Calls -> Events \cup {"unread"}]
           /\ first[c] # "unread" => first' = first
           /\ \A d \in Calls \ {c} : first'[d] = first[d]
  BY DEF TypeOK, Receive

\* A failed connect or test.
LEMMA FailedIsAStep ==
    ASSUME NEW c \in Calls
    PROVE  Failed(c) = (IF op[c] = "connect" THEN "failing" ELSE "not connected") /\ Failed(c) \in Step
  BY DEF Failed, Step, OnTable, Over

-----------------------------------------------------------------------------
(* The steps, one lemma for those that share their effect.                  *)

LEMMA FindNameEffect ==
    ASSUME TypeOK, NEW c \in Calls, FindName(c)
    PROVE  /\ OnlyMoves(c) /\ UNCHANGED <<tableVars, server, first, late, registry>>
           /\ op[c] = "create" /\ at[c] = "begun" /\ at'[c] \in {"free", "failed"}
<1> DEFINE to == IF row = NoRow THEN "free" ELSE "failed"
<1>1. to \in Step /\ to \in {"free", "failed"} /\ Goes(c, "begun", to)
  BY DEF FindName, Step, OnTable, Over
<1> HIDE DEF to
<1> QED
  BY <1>1, GoesEffect DEF FindName, OnlyMoves, TypeOK, Row

LEMMA InsertEffect ==
    ASSUME TypeOK, NEW c \in Calls, Insert(c)
    PROVE  /\ OnlyMoves(c) /\ UNCHANGED <<server, first, late, registry>>
           /\ at[c] = "free" /\ at'[c] \in {"ok", "failed"}
           /\ \/ UNCHANGED tableVars
              \/ /\ row' \in Row /\ row'.id = lastId + 1 /\ lastId' = lastId + 1
                 /\ status' = "disconnected"
<1>1. "ok" \in Step /\ "failed" \in Step
  BY DEF Step, Over
<1>2. /\ at' \in [Calls -> Step] /\ at[c] = "free" /\ at'[c] \in {"ok", "failed"}
      /\ \A d \in Calls \ {c} : at'[d] = at[d]
  BY <1>1, GoesEffect, CommitsEffect DEF Insert
<1>3. \/ UNCHANGED tableVars
      \/ /\ \E t \in Transports : row' = [id |-> lastId + 1, transport |-> t]
         /\ lastId' = lastId + 1 /\ status' = "disconnected"
  BY DEF Insert
<1>4. lastId + 1 \in Nat
  BY DEF TypeOK
<1>5. \/ UNCHANGED tableVars
      \/ /\ row' \in Row /\ row'.id = lastId + 1 /\ lastId' = lastId + 1
         /\ status' = "disconnected"
  BY <1>3, <1>4 DEF Row
<1>6. UNCHANGED <<op, server, first, late, registry>>
  BY DEF Insert
<1> QED
  BY <1>2, <1>5, <1>6 DEF OnlyMoves, TypeOK, Row

LEMMA FindEffect ==
    ASSUME TypeOK, NEW c \in Calls, Find(c)
    PROVE  /\ OnlyMoves(c) /\ UNCHANGED <<tableVars, first, late, registry>>
           /\ at[c] = "begun" /\ at'[c] \in {"found", "failed"}
           /\ server'[c] \in {row, server[c]}
<1>1. "found" \in Step /\ "failed" \in Step
  BY DEF Step, OnTable, Over
<1>2. /\ at' \in [Calls -> Step] /\ at[c] = "begun" /\ at'[c] \in {"found", "failed"}
      /\ \A d \in Calls \ {c} : at'[d] = at[d]
  BY <1>1, GoesEffect DEF Find
<1>3. /\ server' \in [Calls -> Row] /\ server'[c] \in {row, server[c]}
      /\ \A d \in Calls \ {c} : server'[d] = server[d]
  BY DEF Find, TypeOK, Row
<1> QED
  BY <1>2, <1>3 DEF Find, OnlyMoves, TypeOK

LEMMA SetStatusEffect ==
    ASSUME TypeOK, NEW c \in Calls, SetStatus(c)
    PROVE  /\ OnlyMoves(c) /\ UNCHANGED <<row, lastId, server, first, late, registry>>
           /\ at[c] \in {"registered", "failing", "unregistered"}
           /\ at'[c] \in {"ok", "failed"}
           /\ at[c] = "failing" => at'[c] # "ok"
           /\ status' \in {status, Written(at[c])}
           /\ status' # status => row.id = server[c].id
<1>1. PICK step \in {"registered", "failing", "unregistered"} :
         /\ Commits(c, step, IF step = "failing" THEN "failed" ELSE "ok")
         /\ status' = IF row.id = server[c].id THEN Written(step) ELSE status
  BY DEF SetStatus
<1> DEFINE to == IF step = "failing" THEN "failed" ELSE "ok"
<1>2. to \in Step /\ to \in {"failed", "ok"} /\ (step = "failing" => to # "ok")
  BY <1>1 DEF Step, Over
<1>3. Commits(c, step, to)
  BY <1>1
<1> HIDE DEF to
<1>4. /\ at' \in [Calls -> Step] /\ at[c] = step /\ at'[c] \in {to, "failed"}
      /\ \A d \in Calls \ {c} : at'[d] = at[d]
  BY <1>2, <1>3, CommitsEffect
<1>5. UNCHANGED <<op, row, lastId, server, first, late, registry>>
  BY DEF SetStatus
<1> QED
  BY <1>1, <1>2, <1>4, <1>5 DEF OnlyMoves, TypeOK, Row

LEMMA DeleteEffect ==
    ASSUME TypeOK, NEW c \in Calls, Delete(c)
    PROVE  /\ OnlyMoves(c) /\ UNCHANGED <<status, lastId, server, first, late, registry>>
           /\ op[c] = "delete" /\ at[c] = "found" /\ at'[c] \in {"ok", "failed"}
           /\ row' \in {row, NoRow}
<1>1. "ok" \in Step
  BY DEF Step, Over
<1> QED
  BY <1>1, CommitsEffect DEF Delete, OnlyMoves, TypeOK, Row

LEMMA UnregisterEffect ==
    ASSUME TypeOK, NEW c \in Calls, Unregister(c)
    PROVE  /\ OnlyMoves(c) /\ UNCHANGED <<tableVars, server, first, late>> /\ registry' = {}
           /\ op[c] = "disconnect" /\ at[c] = "found" /\ at'[c] = "unregistered"
<1>1. "unregistered" \in Step
  BY DEF Step, OnTable
<1> QED
  BY <1>1, GoesEffect DEF Unregister, OnlyMoves, TypeOK, Row

LEMMA StatementFailsEffect ==
    ASSUME TypeOK, NEW c \in Calls, StatementFails(c)
    PROVE  /\ OnlyMoves(c) /\ UNCHANGED <<tableVars, server, first, late, registry>>
           /\ at[c] \in OnTable /\ at'[c] = "failed"
<1>1. "failed" \in Step
  BY DEF Step, Over
<1> QED
  BY <1>1, GoesEffect DEF StatementFails, OnlyMoves, TypeOK, Row

LEMMA ConnectEffect ==
    ASSUME TypeOK, NEW c \in Calls, Connect(c)
    PROVE  /\ OnlyMoves(c) /\ UNCHANGED <<tableVars, server, first, late, registry>>
           /\ at[c] = "found" /\ at'[c] \in {"failed", Failed(c), "initialize"}
<1> DEFINE to == CASE server[c].transport = "incomplete" -> "failed"
                   [] server[c].transport = "stdio"      -> Failed(c)
                   [] server[c].transport = "http"       -> "initialize"
<1>1. server[c].transport \in Transports
  BY DEF TypeOK
<1>2. "failed" \in Step /\ "initialize" \in Step
  BY DEF Step, Over, OnNetwork
<1>3. to \in Step /\ to \in {"failed", Failed(c), "initialize"} /\ Goes(c, "found", to)
  BY <1>1, <1>2, FailedIsAStep DEF Connect, Transports
<1> HIDE DEF to
<1>4. /\ at' \in [Calls -> Step] /\ at[c] = "found" /\ at'[c] = to
      /\ \A d \in Calls \ {c} : at'[d] = at[d]
  BY <1>3, GoesEffect
<1> QED
  BY <1>3, <1>4 DEF Connect, OnlyMoves, TypeOK, Row

LEMMA RequestFailsEffect ==
    ASSUME TypeOK, NEW c \in Calls, RequestFails(c)
    PROVE  /\ OnlyMoves(c) /\ UNCHANGED <<tableVars, server, registry>> /\ late' \subseteq Calls
           /\ at[c] \in OnNetwork /\ at'[c] = Failed(c)
<1>1. PICK step \in OnNetwork : Goes(c, step, Failed(c))
  BY DEF RequestFails
<1>2. /\ at' \in [Calls -> Step] /\ at[c] = step /\ at'[c] = Failed(c)
      /\ \A d \in Calls \ {c} : at'[d] = at[d]
  BY <1>1, FailedIsAStep, GoesEffect
<1>3. Leaves(c)
  BY DEF RequestFails
<1> QED
  BY <1>2, <1>3, LeavesEffect DEF RequestFails, OnlyMoves, TypeOK, Row

LEMMA InitializeSentEffect ==
    ASSUME TypeOK, NEW c \in Calls, InitializeSent(c)
    PROVE  /\ OnlyMoves(c) /\ UNCHANGED <<tableVars, server, first, late, registry>>
           /\ at[c] = "initialize" /\ at'[c] = "events"
<1>1. "events" \in Step
  BY DEF Step, OnNetwork
<1> QED
  BY <1>1, GoesEffect DEF InitializeSent, OnlyMoves, TypeOK, Row

LEMMA EventsComeEffect ==
    ASSUME TypeOK, NEW c \in Calls, EventsCome(c)
    PROVE  /\ OnlyMoves(c) /\ UNCHANGED <<tableVars, server, late, registry>>
           /\ at[c] = "events" /\ at'[c] = "initializing"
<1>1. "initializing" \in Step
  BY DEF Step, InLoop
<1>2. /\ at' \in [Calls -> Step] /\ at[c] = "events" /\ at'[c] = "initializing"
      /\ \A d \in Calls \ {c} : at'[d] = at[d]
  BY <1>1, GoesEffect DEF EventsCome
<1>3. Receive(c)
  BY DEF EventsCome
<1> QED
  BY <1>2, <1>3, ReceiveEffect DEF EventsCome, OnlyMoves, TypeOK, Row

\* The receive after tools/list begins with the event that answered initialize.
LEMMA ToolsListSentEffect ==
    ASSUME TypeOK, NEW c \in Calls, ToolsListSent(c)
    PROVE  /\ OnlyMoves(c) /\ UNCHANGED <<tableVars, server, late, registry>>
           /\ at[c] = "tools/list" /\ at'[c] = "listing"
           /\ first[c] # "unread" => first' = first
<1>1. "listing" \in Step
  BY DEF Step, InLoop
<1>2. /\ at' \in [Calls -> Step] /\ at[c] = "tools/list" /\ at'[c] = "listing"
      /\ \A d \in Calls \ {c} : at'[d] = at[d]
  BY <1>1, GoesEffect DEF ToolsListSent
<1>3. Receive(c)
  BY DEF ToolsListSent
<1> QED
  BY <1>2, <1>3, ReceiveEffect DEF ToolsListSent, OnlyMoves, TypeOK, Row

LEMMA TimePassesEffect ==
    ASSUME TypeOK, NEW c \in Calls, TimePasses(c)
    PROVE  /\ OnlyMoves(c) /\ UNCHANGED <<at, tableVars, server, first, registry>>
           /\ late' \subseteq Calls
  BY DEF TimePasses, OnlyMoves, TypeOK, Row, Step

LEMMA InitializeAnsweredEffect ==
    ASSUME TypeOK, NEW c \in Calls, InitializeAnswered(c)
    PROVE  /\ OnlyMoves(c) /\ UNCHANGED <<tableVars, server, first, registry>>
           /\ late' \subseteq Calls
           /\ at[c] = "initializing" /\ at'[c] = "tools/list" /\ first[c] = "initialize"
<1>1. "tools/list" \in Step
  BY DEF Step, OnNetwork
<1> QED
  BY <1>1, GoesEffect DEF InitializeAnswered, OnlyMoves, TypeOK, Row

LEMMA LoopEndsEffect ==
    ASSUME TypeOK, NEW c \in Calls, LoopEnds(c)
    PROVE  /\ OnlyMoves(c) /\ UNCHANGED <<tableVars, server>>
           /\ late' \subseteq Calls /\ registry' \in {registry, registry \cup {c}}
           /\ at[c] \in InLoop /\ at'[c] \in {"registered", "ok", Failed(c)}
           /\ ~(at[c] = "listing" /\ first[c] = "tools/list") =>
                 at'[c] = Failed(c) /\ registry' = registry
<1> DEFINE ends == IF op[c] = "connect" THEN "registered" ELSE "ok"
<1>1. ends \in Step /\ ends \in {"registered", "ok"} /\ "listing" \in InLoop
  BY DEF Step, OnTable, Over, InLoop
<1>2. \/ /\ at[c] = "listing" /\ first[c] = "tools/list" /\ Goes(c, "listing", ends)
         /\ registry' \in {registry, registry \cup {c}}
      \/ /\ \E step \in InLoop : Goes(c, step, Failed(c))
         /\ registry' = registry
  BY DEF LoopEnds, IsAnswer
<1> HIDE DEF ends
<1>3. Leaves(c) /\ UNCHANGED <<op, tableVars, server>>
  BY DEF LoopEnds
<1>4. /\ at' \in [Calls -> Step] /\ at[c] \in InLoop
      /\ at'[c] \in {"registered", "ok", Failed(c)}
      /\ ~(at[c] = "listing" /\ first[c] = "tools/list") => at'[c] = Failed(c) /\ registry' = registry
      /\ \A d \in Calls \ {c} : at'[d] = at[d]
  BY <1>1, <1>2, FailedIsAStep, GoesEffect
<1> QED
  BY <1>2, <1>3, <1>4, LeavesEffect DEF OnlyMoves, TypeOK, Row

-----------------------------------------------------------------------------
(* Types.                                                                   *)

LEMMA WrittenIsAStatus ==
    \A step \in {"registered", "failing", "unregistered"} : Written(step) \in Statuses
  BY DEF Written, Statuses

LEMMA InitTypes == Init => TypeOK
  BY DEF Init, TypeOK, OnTable, Transports, Statuses, NoRow, Events

LEMMA StepTypes ==
    ASSUME TypeOK, NEW c \in Calls, OwnStep(c) \/ NetworkStep(c)
    PROVE  TypeOK' /\ OnlyMoves(c)
<1>0. OnlyMoves(c) /\ row' \in Row /\ lastId' \in Nat /\ status' \in Statuses
      /\ late' \subseteq Calls /\ registry' \subseteq Calls => TypeOK' /\ OnlyMoves(c)
  BY DEF OnlyMoves, TypeOK, Row, Step
<1>1. NoRow \in Row /\ row \in Row
  BY DEF NoRow, Row, Transports, TypeOK
<1> USE DEF tableVars
<1>2. CASE FindName(c)
  BY <1>0, <1>2, FindNameEffect DEF TypeOK, Row
<1>3. CASE Insert(c)
  <2>1. "disconnected" \in Statuses /\ lastId + 1 \in Nat
    BY DEF Statuses, TypeOK
  <2> QED
    BY <1>0, <1>1, <1>3, <2>1, InsertEffect DEF TypeOK
<1>4. CASE Find(c)
  BY <1>0, <1>4, FindEffect DEF TypeOK, Row
<1>5. CASE SetStatus(c)
  BY <1>0, <1>5, SetStatusEffect, WrittenIsAStatus DEF TypeOK, Row
<1>6. CASE Delete(c)
  BY <1>0, <1>1, <1>6, DeleteEffect DEF TypeOK
<1>7. CASE Unregister(c)
  BY <1>0, <1>7, UnregisterEffect DEF TypeOK, Row
<1>8. CASE StatementFails(c)
  BY <1>0, <1>8, StatementFailsEffect DEF TypeOK, Row
<1>9. CASE Connect(c)
  BY <1>0, <1>9, ConnectEffect DEF TypeOK, Row
<1>10. CASE RequestFails(c)
  BY <1>0, <1>10, RequestFailsEffect DEF TypeOK, Row
<1>11. CASE InitializeSent(c)
  BY <1>0, <1>11, InitializeSentEffect DEF TypeOK, Row
<1>12. CASE EventsCome(c)
  BY <1>0, <1>12, EventsComeEffect DEF TypeOK, Row
<1>13. CASE ToolsListSent(c)
  BY <1>0, <1>13, ToolsListSentEffect DEF TypeOK, Row
<1>14. CASE TimePasses(c)
  BY <1>0, <1>14, TimePassesEffect DEF TypeOK, Row
<1>15. CASE InitializeAnswered(c)
  BY <1>0, <1>15, InitializeAnsweredEffect DEF TypeOK, Row
<1>16. CASE LoopEnds(c)
  BY <1>0, <1>16, LoopEndsEffect DEF TypeOK, Row
<1> QED
  BY <1>2, <1>3, <1>4, <1>5, <1>6, <1>7, <1>8, <1>9, <1>10, <1>11, <1>12, <1>13, <1>14,
     <1>15, <1>16 DEF OwnStep, NetworkStep

\* The types of the routes' state (routes/mcp_servers.py), for any calls.
THEOREM McpTypes == Spec => []TypeOK
<1>1. TypeOK /\ [Next]_vars => TypeOK'
  BY StepTypes DEF Next, vars, tableVars, TypeOK
<1> QED
  BY InitTypes, <1>1, PTL DEF Spec

-----------------------------------------------------------------------------
(* No server is connected.                                                  *)

\* Why: tools/list is sent by a client which has read the answer to initialize
\* as its first event, so that the loop after it never sees an answer.
NotConnected(c) ==
    /\ at[c] # "registered"
    /\ at[c] = "free" => op[c] = "create"
    /\ at[c] = "unregistered" => op[c] = "disconnect"
    /\ op[c] \in {"connect", "test"} => at[c] # "ok"
    /\ at[c] \in {"tools/list", "listing"} => first[c] = "initialize"

NeverConnected == registry = {} /\ status # "connected" /\ \A c \in Calls : NotConnected(c)

LEMMA InitNeverConnected == Init => NeverConnected
  BY DEF Init, NeverConnected, NotConnected

\* The other calls are as they were.
LEMMA OthersNotConnected ==
    ASSUME NEW c \in Calls, NeverConnected, OnlyMoves(c)
    PROVE  \A d \in Calls \ {c} : NotConnected(d)'
  BY DEF NeverConnected, NotConnected, OnlyMoves

LEMMA StepNeverConnected ==
    ASSUME TypeOK, NeverConnected, NEW c \in Calls, OwnStep(c) \/ NetworkStep(c)
    PROVE  NeverConnected'
<1>0. op' = op /\ NotConnected(c) /\ registry = {} /\ status # "connected"
  BY StepTypes DEF OnlyMoves, NeverConnected
<1>1. ASSUME NotConnected(c)', registry' = {}, status' # "connected" PROVE NeverConnected'
  BY <1>1, StepTypes, OthersNotConnected DEF NeverConnected
<1> USE DEF NotConnected, tableVars
<1>2. CASE FindName(c)
  BY <1>0, <1>1, <1>2, FindNameEffect
<1>3. CASE Insert(c)
  BY <1>0, <1>1, <1>3, InsertEffect
<1>4. CASE Find(c)
  BY <1>0, <1>1, <1>4, FindEffect
<1>5. CASE SetStatus(c)
  <2>1. /\ at[c] \in {"registered", "failing", "unregistered"}
        /\ at'[c] \in {"ok", "failed"} /\ (at[c] = "failing" => at'[c] # "ok")
        /\ status' \in {status, Written(at[c])} /\ registry' = registry
    BY <1>5, SetStatusEffect
  <2>2. Written("failing") = "error" /\ Written("unregistered") = "disconnected"
    BY DEF Written
  <2> QED
    BY <1>0, <1>1, <2>1, <2>2
<1>6. CASE Delete(c)
  BY <1>0, <1>1, <1>6, DeleteEffect
<1>7. CASE Unregister(c)
  BY <1>0, <1>1, <1>7, UnregisterEffect
<1>8. CASE StatementFails(c)
  BY <1>0, <1>1, <1>8, StatementFailsEffect
<1>9. CASE Connect(c)
  BY <1>0, <1>1, <1>9, ConnectEffect, FailedIsAStep
<1>10. CASE RequestFails(c)
  BY <1>0, <1>1, <1>10, RequestFailsEffect, FailedIsAStep
<1>11. CASE InitializeSent(c)
  BY <1>0, <1>1, <1>11, InitializeSentEffect
<1>12. CASE EventsCome(c)
  BY <1>0, <1>1, <1>12, EventsComeEffect
<1>13. CASE ToolsListSent(c)
  BY <1>0, <1>1, <1>13, ToolsListSentEffect
<1>14. CASE TimePasses(c)
  BY <1>0, <1>1, <1>14, TimePassesEffect
<1>15. CASE InitializeAnswered(c)
  BY <1>0, <1>1, <1>15, InitializeAnsweredEffect
<1>16. CASE LoopEnds(c)
  BY <1>0, <1>1, <1>16, LoopEndsEffect, FailedIsAStep
<1> QED
  BY <1>2, <1>3, <1>4, <1>5, <1>6, <1>7, <1>8, <1>9, <1>10, <1>11, <1>12, <1>13, <1>14,
     <1>15, <1>16 DEF OwnStep, NetworkStep

\* No connect and no test ends well, no status is "connected" and no tool of a
\* server is registered (StdioTransport.connect, HTTPTransport.receive), however
\* many calls there are and whatever the servers send.
THEOREM NoServerConnects == Spec => []NothingIsConnected
<1>1. NeverConnected /\ TypeOK /\ [Next]_vars => NeverConnected'
  BY StepNeverConnected DEF Next, vars, tableVars, NeverConnected, NotConnected
<1>2. NeverConnected => NothingIsConnected
  BY DEF NeverConnected, NotConnected, NothingIsConnected
<1> QED
  BY InitNeverConnected, <1>1, <1>2, McpTypes, PTL DEF Spec

-----------------------------------------------------------------------------
(* The status of a row.                                                     *)

\* A call is about a row that the table has had, and its id tells the row.
KnownRow(c) ==
    /\ server[c].id <= lastId
    /\ row # NoRow /\ server[c].id = row.id => server[c] = row
    /\ at[c] = "failing" => op[c] = "connect"

KnownRows == row.id <= lastId /\ \A c \in Calls : KnownRow(c)

\* A step that leaves the table as it is, and the row that c has read or reads.
LEMMA SameTable ==
    ASSUME TypeOK, KnownRows, NEW c \in Calls, OnlyMoves(c), server'[c] \in {row, server[c]},
           row' \in {row, NoRow}, lastId' = lastId,
           at'[c] = "failing" => op[c] = "connect"
    PROVE  KnownRows'
<1>1. 0 <= lastId /\ NoRow.id = 0
  BY DEF TypeOK, NoRow
<1>2. row'.id <= lastId'
  BY <1>1 DEF KnownRows
<1>3. KnownRow(c)'
  BY DEF KnownRows, KnownRow, OnlyMoves
<1>4. \A d \in Calls \ {c} : KnownRow(d)'
  BY DEF KnownRows, KnownRow, OnlyMoves
<1> QED
  BY <1>2, <1>3, <1>4 DEF KnownRows

LEMMA InitKnownRows == Init => KnownRows
  BY DEF Init, KnownRows, KnownRow, NoRow

\* The status stays the one of the row.
LEMMA SameStatus ==
    ASSUME StatusIsOfThisRow, NEW c \in Calls, OnlyMoves(c), at[c] \notin Over \/ at'[c] = at[c],
           at[c] \in Over => server'[c] = server[c],
           row' \in {row, NoRow}, status' = status
    PROVE  StatusIsOfThisRow'
<1> SUFFICES ASSUME row' # NoRow, status' = "error"
             PROVE  \E d \in Calls : op'[d] = "connect" /\ at'[d] \in Over /\ server'[d] = row'
  BY DEF StatusIsOfThisRow
<1>1. PICK d \in Calls : op[d] = "connect" /\ at[d] \in Over /\ server[d] = row
  BY DEF StatusIsOfThisRow
<1> QED
  BY <1>1 DEF OnlyMoves

LEMMA StepStatus ==
    ASSUME TypeOK, KnownRows, StatusIsOfThisRow, NEW c \in Calls, OwnStep(c) \/ NetworkStep(c)
    PROVE  KnownRows' /\ StatusIsOfThisRow'
<1>0. OnlyMoves(c) /\ op' = op
  BY StepTypes DEF OnlyMoves
<1>1. ASSUME server'[c] \in {row, server[c]}, row' \in {row, NoRow}, lastId' = lastId,
             status' = status, at[c] \notin Over, at'[c] = "failing" => op[c] = "connect"
      PROVE  KnownRows' /\ StatusIsOfThisRow'
  BY <1>0, <1>1, SameTable, SameStatus
<1>0a. "begun" \notin Over /\ "free" \notin Over /\ "found" \notin Over
       /\ \A step \in OnTable \cup OnNetwork \cup InLoop : step \notin Over
  BY DEF Over, OnTable, OnNetwork, InLoop
<1>0b. Failed(c) = "failing" => op[c] = "connect"
  BY FailedIsAStep
<1> USE DEF tableVars
<1>2. CASE FindName(c)
  BY <1>0a, <1>1, <1>2, FindNameEffect
<1>3. CASE Insert(c)
  <2>1. CASE UNCHANGED tableVars
    BY <1>0a, <1>1, <1>3, <2>1, InsertEffect
  <2>2. CASE /\ row' \in Row /\ row'.id = lastId + 1 /\ lastId' = lastId + 1
             /\ status' = "disconnected"
    <3>1. lastId \in Nat /\ \A d \in Calls : server'[d] = server[d] /\ server[d].id <= lastId
                                             /\ server[d].id \in Nat
      BY <1>3, InsertEffect DEF TypeOK, KnownRows, KnownRow
    <3>2. \A d \in Calls : at'[d] = "failing" => op[d] = "connect"
      BY <1>0, <1>3, InsertEffect DEF OnlyMoves, KnownRows, KnownRow
    <3>3. \A d \in Calls : server'[d].id <= lastId' /\ server'[d].id # row'.id
      BY <2>2, <3>1
    <3>4. row'.id <= lastId'
      BY <2>2, <3>1
    <3> QED
      BY <1>0, <2>2, <3>2, <3>3, <3>4 DEF KnownRows, KnownRow, StatusIsOfThisRow
  <2> QED
    BY <1>3, <2>1, <2>2, InsertEffect
<1>4. CASE Find(c)
  BY <1>0a, <1>1, <1>4, FindEffect
<1>5. CASE SetStatus(c)
  <2>1. /\ at[c] \in {"registered", "failing", "unregistered"}
        /\ at'[c] \in {"ok", "failed"}
        /\ status' \in {status, Written(at[c])} /\ (status' # status => row.id = server[c].id)
        /\ row' = row /\ lastId' = lastId /\ server' = server
    BY <1>5, SetStatusEffect
  <2>2. at[c] \notin Over /\ at'[c] \in Over
    BY <2>1 DEF Over
  <2>3. CASE status' = status
    BY <1>1, <2>1, <2>2, <2>3
  <2>4. CASE status' # status
    <3>1. KnownRows'
      BY <1>0, <2>1, SameTable
    <3>2. CASE at[c] = "failing"
      <4>1. row # NoRow => op[c] = "connect" /\ server[c] = row
        BY <2>1, <2>4, <3>2 DEF KnownRows, KnownRow
      <4> QED
        BY <1>0, <2>1, <2>2, <3>1, <4>1 DEF StatusIsOfThisRow
    <3>3. CASE at[c] # "failing"
      <4>1. status' # "error"
        BY <2>1, <2>4, <3>3 DEF Written
      <4> QED
        BY <3>1, <4>1 DEF StatusIsOfThisRow
    <3> QED
      BY <3>2, <3>3
  <2> QED
    BY <2>3, <2>4
<1>6. CASE Delete(c)
  BY <1>0a, <1>1, <1>6, DeleteEffect
<1>7. CASE Unregister(c)
  BY <1>0a, <1>1, <1>7, UnregisterEffect
<1>8. CASE StatementFails(c)
  BY <1>0a, <1>1, <1>8, StatementFailsEffect
<1>9. CASE Connect(c)
  BY <1>0a, <1>0b, <1>1, <1>9, ConnectEffect
<1>10. CASE RequestFails(c)
  BY <1>0a, <1>0b, <1>1, <1>10, RequestFailsEffect
<1>11. CASE InitializeSent(c)
  BY <1>0a, <1>1, <1>11, InitializeSentEffect DEF OnNetwork
<1>12. CASE EventsCome(c)
  BY <1>0a, <1>1, <1>12, EventsComeEffect DEF OnNetwork
<1>13. CASE ToolsListSent(c)
  BY <1>0a, <1>1, <1>13, ToolsListSentEffect DEF OnNetwork
<1>14. CASE TimePasses(c)
  <2>1. KnownRow(c)
    BY DEF KnownRows
  <2> QED
    BY <1>0, <1>14, <2>1, TimePassesEffect, SameTable, SameStatus DEF KnownRow
<1>15. CASE InitializeAnswered(c)
  BY <1>0a, <1>1, <1>15, InitializeAnsweredEffect DEF InLoop
<1>16. CASE LoopEnds(c)
  BY <1>0a, <1>0b, <1>1, <1>16, LoopEndsEffect
<1> QED
  BY <1>2, <1>3, <1>4, <1>5, <1>6, <1>7, <1>8, <1>9, <1>10, <1>11, <1>12, <1>13, <1>14,
     <1>15, <1>16 DEF OwnStep, NetworkStep

\* A row is in "error" only if a connect to this very row has failed, not one that
\* read a row which has been deleted since (connect_mcp_server, update_status).
THEOREM StatusesAreOfTheirRows == Spec => []StatusIsOfThisRow
<1>1. Init => StatusIsOfThisRow
  BY DEF Init, StatusIsOfThisRow
<1>2. KnownRows /\ StatusIsOfThisRow /\ TypeOK /\ [Next]_vars => KnownRows' /\ StatusIsOfThisRow'
  BY StepStatus DEF Next, vars, tableVars, KnownRows, KnownRow, StatusIsOfThisRow
<1> QED
  BY InitKnownRows, <1>1, <1>2, McpTypes, PTL DEF Spec
=============================================================================

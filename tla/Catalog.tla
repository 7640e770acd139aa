------------------------------ MODULE Catalog ------------------------------
(***************************************************************************)
(* The stored agents and agent templates: routes/agents.py and             *)
(* routes/templates.py over AgentRepository and AgentTemplateRepository.   *)
(* A call reads a row, writes with an UPDATE or a DELETE of its own that   *)
(* commits, and may read again; between two of these steps other calls     *)
(* do theirs.  The text columns of a row (role, goal, model_name, status;  *)
(* name, description, category, tags) are one column, and the value of a   *)
(* column is the call that wrote it.                                       *)
(***************************************************************************)
EXTENDS Naturals, Sequences, FiniteSets

CONSTANTS
    Calls,    \* requests to the two routers
    Names,    \* names of agents
    MaxRows,  \* bound: rows a table has had
    Earlier   \* the call that wrote what was there before

ASSUME CatalogAssumption == MaxRows \in Nat /\ Earlier \notin Calls /\ IsFiniteSet(Calls)

VARIABLES
    rows,     \* rows[t]: the rows table t has had; autoincrement reuses no id
    at,       \* at[c]: the step that call c has reached
    request,  \* request[c]: what c asks for
    target    \* target[c]: the id of the row that c has read or inserted, or 0

vars == <<rows, at, request, target>>

Tables  == {"agents", "templates"}
Columns == {"text", "config"}
Row     == [exists : BOOLEAN, name : Names, text : Calls \cup {Earlier},
            config : Calls \cup {Earlier}, uses : Nat]

\* A request names an agent, or the id of a template; an update has the columns
\* that are not None in its body.  AgentConfig refuses a config that is
\* "invalid", and it would refuse the "empty" one.
Configs  == {"valid", "invalid", "empty"}
Asking(table, ops, keys, columns, configs) ==
    [table : {table}, op : ops, key : keys, columns : columns, config : configs]
Requests ==
    UNION {Asking("agents", {"create", "read", "delete"}, Names, {{}}, {"valid"}),
           Asking("agents", {"update"}, Names, SUBSET Columns, {"valid"}),
           Asking("templates", {"create"}, Names, {{}}, Configs),
           Asking("templates", {"read", "delete", "use"}, 1 .. MaxRows, {{}}, {"valid"}),
           Asking("templates", {"update"}, 1 .. MaxRows, SUBSET Columns, Configs)}

Steps   == {"begun", "inserted", "found", "written", "counted", "deleted"}
Answers == {"ok", "bad request", "not found", "error"}

Existing(t) == {n \in DOMAIN rows[t] : rows[t][n].exists}

NewRow(name, c) ==
    [exists |-> TRUE, name |-> name, text |-> c, config |-> c, uses |-> 0]

Init ==
    /\ \E name \in Names : rows = [t \in Tables |-> <<NewRow(name, Earlier)>>]
    /\ at = [c \in Calls |-> "begun"]
    /\ request \in [Calls -> Requests]
    /\ target = [c \in Calls |-> 0]

-----------------------------------------------------------------------------
Goes(c, from, to) == at[c] = from /\ at' = [at EXCEPT ![c] = to]
Asks(c, t, op)    == request[c].table = t /\ request[c].op = op
Table(c)          == request[c].table
Target(c)         == rows[Table(c)][target[c]]

\* INSERT and commit, which leave the table with a new id.
Insert(c, name) ==
    /\ Len(rows[Table(c)]) < MaxRows
    /\ Goes(c, "begun", "inserted")
    /\ rows' = [rows EXCEPT ![Table(c)] = Append(@, NewRow(name, c))]
    /\ target' = [target EXCEPT ![c] = Len(rows[Table(c)]) + 1]
    /\ UNCHANGED request

\* Fault: the column has no unique constraint.
CreateAgentTwice(c) == Asks(c, "agents", "create") /\ Insert(c, request[c].key)

\* The unique constraint on agents.name decides; every exception is a 400.
CreateAgent(c) ==
    /\ Asks(c, "agents", "create")
    /\ \/ /\ \A n \in Existing("agents") : rows["agents"][n].name # request[c].key
          /\ Insert(c, request[c].key)
       \/ /\ \E n \in Existing("agents") : rows["agents"][n].name = request[c].key
          /\ Goes(c, "begun", "bad request")
          /\ UNCHANGED <<rows, request, target>>

\* Names of templates may repeat.
CreateTemplate(c) ==
    /\ Asks(c, "templates", "create")
    /\ \/ /\ request[c].config = "valid"
          /\ Insert(c, request[c].key)
       \/ /\ request[c].config # "valid"
          /\ Goes(c, "begun", "bad request")
          /\ UNCHANGED <<rows, request, target>>

\* refresh: the row may be gone again, which raises.
Refresh(c) ==
    /\ at[c] = "inserted"
    /\ \/ Target(c).exists /\ Goes(c, "inserted", "ok")
       \/ /\ ~Target(c).exists
          /\ Goes(c, "inserted", IF Table(c) = "agents" THEN "bad request" ELSE "error")
    /\ UNCHANGED <<rows, request, target>>

\* get_by_name: an agent is addressed by its name, and from here on by its id.
FindAgent(c) ==
    LET named == {n \in Existing("agents") : rows["agents"][n].name = request[c].key} IN
    /\ Table(c) = "agents" /\ request[c].op # "create"
    /\ \/ /\ named = {}
          /\ Goes(c, "begun", "not found")
          /\ UNCHANGED target
       \/ \E n \in named :
             /\ target' = [target EXCEPT ![c] = n]
             /\ Goes(c, "begun", "found")
    /\ UNCHANGED <<rows, request>>

\* get_by_id.
FindTemplate(c) ==
    /\ Table(c) = "templates" /\ request[c].op # "create"
    /\ \/ /\ request[c].key \notin Existing("templates")
          /\ Goes(c, "begun", "not found")
          /\ UNCHANGED target
       \/ /\ request[c].key \in Existing("templates")
          /\ target' = [target EXCEPT ![c] = request[c].key]
          /\ Goes(c, "begun", "found")
    /\ UNCHANGED <<rows, request>>

\* get_agent, get_template and an update without a column answer what they read.
Read(c) ==
    /\ \/ request[c].op = "read"
       \/ request[c].op = "update" /\ request[c].columns = {}
    /\ Goes(c, "found", "ok")
    /\ UNCHANGED <<rows, request, target>>

-----------------------------------------------------------------------------
\* UPDATE ... WHERE id: no row, no effect.
Set(c, row) ==
    rows' = IF Target(c).exists THEN [rows EXCEPT ![Table(c)][target[c]] = row] ELSE rows

\* Fault: the row is written back whole, as an object that was changed would be.
SetColumnsOfAll(c) ==
    Set(c, [Target(c) EXCEPT !.text = c, !.config = c])

SetColumns(c) ==
    Set(c, [Target(c) EXCEPT !.text   = IF "text" \in request[c].columns THEN c ELSE @,
                             !.config = IF "config" \in request[c].columns THEN c ELSE @])

UpdateAgent(c) ==
    /\ Asks(c, "agents", "update") /\ request[c].columns # {}
    /\ Goes(c, "found", "written")
    /\ SetColumns(c)
    /\ UNCHANGED <<request, target>>

\* An empty config is not validated, since {} is false, but it is written.
Refused(c) == "config" \in request[c].columns /\ request[c].config = "invalid"

UpdateTemplate(c) ==
    /\ Asks(c, "templates", "update") /\ request[c].columns # {}
    /\ \/ Refused(c) /\ Goes(c, "found", "bad request") /\ UNCHANGED rows
       \/ ~Refused(c) /\ Goes(c, "found", "written") /\ SetColumns(c)
    /\ UNCHANGED <<request, target>>

\* The row is looked for again.
Reselect(c) ==
    /\ at[c] = "written"
    /\ Goes(c, "written", IF Target(c).exists THEN "ok" ELSE "not found")
    /\ UNCHANGED <<rows, request, target>>

\* Fault: the new count is computed from the row that was read.
IncrementUsageOfRead(c) ==
    /\ Asks(c, "templates", "use")
    /\ Goes(c, "found", "counted")
    /\ \E n \in 0 .. Target(c).uses : Set(c, [Target(c) EXCEPT !.uses = n + 1])
    /\ UNCHANGED <<request, target>>

\* usage_count = usage_count + 1 is computed by the database.
IncrementUsage(c) ==
    /\ Asks(c, "templates", "use")
    /\ Goes(c, "found", "counted")
    /\ Set(c, [Target(c) EXCEPT !.uses = @ + 1])
    /\ UNCHANGED <<request, target>>

\* DELETE; whether there was a row left to delete is not looked at.
Delete(c) ==
    /\ request[c].op = "delete"
    /\ Goes(c, "found", "deleted")
    /\ Set(c, [Target(c) EXCEPT !.exists = FALSE])
    /\ UNCHANGED <<request, target>>

\* use_template and the two deletes answer with what they read first.
Answer(c) ==
    /\ Goes(c, "counted", "ok") \/ Goes(c, "deleted", "ok")
    /\ UNCHANGED <<rows, request, target>>

\* The database raises, or the process stops, between any two steps: nothing
\* but the tables outlives the call.
Fail(c) ==
    /\ at[c] \in Steps
    /\ at' = [at EXCEPT ![c] = "error"]
    /\ UNCHANGED <<rows, request, target>>

Step(c) ==
    \/ CreateAgent(c) \/ CreateTemplate(c) \/ Refresh(c)
    \/ FindAgent(c) \/ FindTemplate(c) \/ Read(c)
    \/ UpdateAgent(c) \/ UpdateTemplate(c) \/ Reselect(c)
    \/ IncrementUsage(c) \/ Delete(c) \/ Answer(c)
    \/ Fail(c)

Next == \E c \in Calls : Step(c)

Spec == Init /\ [][Next]_vars

-----------------------------------------------------------------------------
TypeOK ==
    /\ rows \in [Tables -> Seq(Row)]
    /\ at \in [Calls -> Steps \cup Answers]
    /\ request \in [Calls -> Requests]
    /\ target \in [Calls -> Nat]
    /\ \A c \in Calls :
          \/ target[c] \in DOMAIN rows[Table(c)]
          \/ at[c] \in {"begun", "bad request", "not found", "error"}

\* No two agents have one name, or scalar_one_or_none raises for both: neither
\* of two calls that create the same agent at once looks for the other.
OneAgentPerName ==
    \A m, n \in Existing("agents") : rows["agents"][m].name = rows["agents"][n].name => m = n

UsesOf(n, answers) ==
    {c \in Calls : Asks(c, "templates", "use") /\ target[c] = n /\ at[c] \in answers}

\* Each use of a template that is answered is counted, however many there are
\* at once, and nothing else is but a use that failed after it was counted.
UsesAreCounted ==
    \A n \in Existing("templates") :
        /\ Cardinality(UsesOf(n, {"ok", "counted"})) <= rows["templates"][n].uses
        /\ rows["templates"][n].uses <= Cardinality(UsesOf(n, {"ok", "counted", "error"}))

Updating(t, n, k) ==
    {c \in Calls : Asks(c, t, "update") /\ target[c] = n /\ k \in request[c].columns}

\* What is answered "ok" is done: a deleted row does not come back, and an
\* update has put its value in each column, and left it there or had it replaced
\* by that of another update of the column, be it that the row has been deleted
\* since: updates of one row at once, each with columns of its own, undo nothing
\* of each other.
OkMeansDone ==
    \A c \in Calls : at[c] = "ok" =>
        /\ request[c].op = "delete" => ~Target(c).exists
        /\ request[c].op = "update" =>
              \A k \in request[c].columns : Target(c)[k] \in Updating(Table(c), target[c], k)
=============================================================================

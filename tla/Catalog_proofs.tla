--------------------------- MODULE Catalog_proofs ---------------------------
(***************************************************************************)
(* Proofs about Catalog, for every set of calls and names and every bound  *)
(* on the tables: the types, and the four properties of its run.           *)
(***************************************************************************)
EXTENDS Catalog, FiniteSetTheorems, TLAPS

-----------------------------------------------------------------------------
(* What a request can be, and what writing does to the tables.              *)

\* The parts of a request.
LEMMA RequestParts ==
    ASSUME NEW r \in Requests
    PROVE  /\ r.table \in Tables
           /\ r.op \in {"create", "read", "delete", "update", "use"}
           /\ r.op = "create" => r.key \in Names
           /\ r.op = "use" => r.table = "templates"
           /\ r.columns \subseteq Columns
           /\ r.op # "update" => r.columns = {}
           /\ r.table = "templates" /\ r.op # "create" => r.key \in Nat
  BY CatalogAssumption DEF Requests, Asking, Tables, Columns

\* The domain of a sequence.
LEMMA SeqDomain ==
    ASSUME NEW S, NEW s \in Seq(S)
    PROVE  Len(s) \in Nat /\ DOMAIN s = 1 .. Len(s)
  OBVIOUS

LEMMA Intervals ==
    ASSUME NEW a \in Nat, NEW b \in Nat, b >= a
    PROVE  1 .. a \subseteq 1 .. b
  OBVIOUS

\* An inserted row stands behind the others.
LEMMA InsertEffect ==
    ASSUME TypeOK, NEW c \in Calls, NEW name \in Names, Insert(c, name)
    PROVE  /\ rows' \in [Tables -> Seq(Row)]
           /\ \A t \in Tables : Len(rows'[t]) = IF t = Table(c) THEN Len(rows[t]) + 1
                                                 ELSE Len(rows[t])
           /\ \A t \in Tables : \A n \in 1 .. Len(rows[t]) : rows'[t][n] = rows[t][n]
           /\ rows'[Table(c)][Len(rows[Table(c)]) + 1] = NewRow(name, c)
<1>1. Table(c) \in Tables
  BY RequestParts DEF TypeOK, Table
<1>2. NewRow(name, c) \in Row
  BY DEF NewRow, Row
<1>3. rows[Table(c)] \in Seq(Row)
  BY <1>1 DEF TypeOK
<1>4. Append(rows[Table(c)], NewRow(name, c)) \in Seq(Row)
  BY <1>2, <1>3
<1>5. rows' = [rows EXCEPT ![Table(c)] = Append(@, NewRow(name, c))]
  BY DEF Insert
<1>6. /\ rows' \in [Tables -> Seq(Row)]
      /\ \A t \in Tables : t # Table(c) => rows'[t] = rows[t]
      /\ rows'[Table(c)] = Append(rows[Table(c)], NewRow(name, c))
  BY <1>1, <1>4, <1>5 DEF TypeOK
<1>7. /\ Len(Append(rows[Table(c)], NewRow(name, c))) = Len(rows[Table(c)]) + 1
      /\ \A n \in 1 .. Len(rows[Table(c)]) :
            Append(rows[Table(c)], NewRow(name, c))[n] = rows[Table(c)][n]
      /\ Append(rows[Table(c)], NewRow(name, c))[Len(rows[Table(c)]) + 1] = NewRow(name, c)
  BY <1>2, <1>3
<1> QED
  <2>1. \A t \in Tables : Len(rows'[t]) = IF t = Table(c) THEN Len(rows[t]) + 1
                                          ELSE Len(rows[t])
    BY <1>6, <1>7
  <2>2. \A t \in Tables : \A n \in 1 .. Len(rows[t]) : rows'[t][n] = rows[t][n]
    BY <1>6, <1>7
  <2> QED
    BY <1>6, <1>7, <2>1, <2>2

\* An UPDATE changes its row, if there is one, and no other.
LEMMA SetEffect ==
    ASSUME TypeOK, NEW c \in Calls, target[c] \in DOMAIN rows[Table(c)],
           NEW row \in Row, Set(c, row)
    PROVE  /\ rows' \in [Tables -> Seq(Row)]
           /\ \A t \in Tables : Len(rows'[t]) = Len(rows[t])
           /\ \A t \in Tables : \A n \in 1 .. Len(rows[t]) :
                 rows'[t][n] = IF t = Table(c) /\ n = target[c] /\ Target(c).exists
                               THEN row ELSE rows[t][n]
<1>1. Table(c) \in Tables
  BY RequestParts DEF TypeOK, Table
<1>2. rows \in [Tables -> Seq(Row)]
  BY DEF TypeOK
<1>2a. rows[Table(c)] \in Seq(Row)
  BY <1>1, <1>2
<1>2b. target[c] \in 1 .. Len(rows[Table(c)])
  BY <1>2a
<1>3. CASE ~Target(c).exists
  BY <1>2, <1>3 DEF Set
<1>4. CASE Target(c).exists
  <2>1. rows' = [rows EXCEPT ![Table(c)] = [rows[Table(c)] EXCEPT ![target[c]] = row]]
    BY <1>4 DEF Set
  <2>2. [rows[Table(c)] EXCEPT ![target[c]] = row] \in Seq(Row)
    BY <1>2a, <1>2b
  <2>3. /\ rows' \in [Tables -> Seq(Row)]
        /\ \A t \in Tables : t # Table(c) => rows'[t] = rows[t]
        /\ rows'[Table(c)] = [rows[Table(c)] EXCEPT ![target[c]] = row]
    BY <1>1, <1>2, <2>1, <2>2
  <2>4. /\ Len([rows[Table(c)] EXCEPT ![target[c]] = row]) = Len(rows[Table(c)])
        /\ \A n \in 1 .. Len(rows[Table(c)]) :
              [rows[Table(c)] EXCEPT ![target[c]] = row][n]
                 = IF n = target[c] THEN row ELSE rows[Table(c)][n]
    BY <1>2a, <1>2b
  <2> QED
    BY <1>4, <2>3, <2>4
<1> QED
  BY <1>3, <1>4

-----------------------------------------------------------------------------
(* Types.                                                                   *)

\* What a write leaves of the tables keeps the targets of the other calls.
LEMMA TargetsKept ==
    ASSUME TypeOK, NEW c \in Calls, request' = request,
           rows' \in [Tables -> Seq(Row)],
           \A t \in Tables : Len(rows'[t]) >= Len(rows[t]),
           at' \in [Calls -> Steps \cup Answers], target' \in [Calls -> Nat],
           \A d \in Calls \ {c} : at'[d] = at[d] /\ target'[d] = target[d],
           \/ target'[c] \in 1 .. Len(rows'[Table(c)])
           \/ at'[c] \in {"begun", "bad request", "not found", "error"}
    PROVE  TypeOK'
<1>1. \A d \in Calls : Table(d) \in Tables /\ Table(d)' = Table(d)
  BY RequestParts DEF TypeOK, Table
<1>2. \A t \in Tables : DOMAIN rows[t] \subseteq DOMAIN rows'[t]
  <2> TAKE t \in Tables
  <2>1. rows[t] \in Seq(Row) /\ rows'[t] \in Seq(Row)
    BY DEF TypeOK
  <2>2. /\ DOMAIN rows[t] = 1 .. Len(rows[t]) /\ Len(rows[t]) \in Nat
        /\ DOMAIN rows'[t] = 1 .. Len(rows'[t]) /\ Len(rows'[t]) \in Nat
    BY <2>1, SeqDomain
  <2>3. Len(rows'[t]) >= Len(rows[t])
    OBVIOUS
  <2> QED
    BY <2>2, <2>3, Intervals
<1>3. \A t \in Tables : DOMAIN rows'[t] = 1 .. Len(rows'[t])
  <2> TAKE t \in Tables
  <2>1. rows'[t] \in Seq(Row)
    OBVIOUS
  <2> QED
    BY <2>1, SeqDomain
<1>4. ASSUME NEW d \in Calls
      PROVE  \/ target'[d] \in DOMAIN rows'[Table(d)]
             \/ at'[d] \in {"begun", "bad request", "not found", "error"}
  <2>1. CASE d = c
    BY <1>1, <1>3, <2>1
  <2>2. CASE d # c
    BY <1>1, <1>2, <2>2 DEF TypeOK
  <2> QED
    BY <2>1, <2>2
<1> QED
  BY <1>1, <1>4 DEF TypeOK

\* A step moves its call and no other, and keeps the requests.
LEMMA OneMoves ==
    ASSUME TypeOK, NEW c \in Calls, Step(c)
    PROVE  /\ request' = request
           /\ at' \in [Calls -> Steps \cup Answers]
           /\ \A d \in Calls \ {c} : at'[d] = at[d]
           /\ at'[c] # at[c]
<1>1. at \in [Calls -> Steps \cup Answers]
  BY DEF TypeOK
<1>2. \A from \in Steps, to \in Steps \cup Answers :
         from # to /\ Goes(c, from, to) =>
            /\ at' \in [Calls -> Steps \cup Answers] /\ at'[c] # at[c]
            /\ \A d \in Calls \ {c} : at'[d] = at[d]
  BY <1>1 DEF Goes
<1>3. request' = request
  BY DEF Step, CreateAgent, CreateTemplate, Insert, Refresh, FindAgent, FindTemplate, Read,
         UpdateAgent, UpdateTemplate, Reselect, IncrementUsage, Delete, Answer, Fail
<1> DEFINE Moves == \E from \in Steps, to \in Steps \cup Answers : from # to /\ Goes(c, from, to)
<1>4. Fail(c) \/ Moves
  <2>1. CASE CreateAgent(c)
    BY <2>1 DEF CreateAgent, Insert, Steps, Answers
  <2>2. CASE CreateTemplate(c)
    BY <2>2 DEF CreateTemplate, Insert, Steps, Answers
  <2>3. CASE Refresh(c)
    BY <2>3 DEF Refresh, Steps, Answers
  <2>4. CASE FindAgent(c)
    BY <2>4 DEF FindAgent, Steps, Answers
  <2>5. CASE FindTemplate(c)
    BY <2>5 DEF FindTemplate, Steps, Answers
  <2>6. CASE Read(c)
    BY <2>6 DEF Read, Steps, Answers
  <2>7. CASE UpdateAgent(c)
    BY <2>7 DEF UpdateAgent, Steps, Answers
  <2>8. CASE UpdateTemplate(c)
    BY <2>8 DEF UpdateTemplate, Steps, Answers
  <2>9. CASE Reselect(c)
    BY <2>9 DEF Reselect, Steps, Answers
  <2>10. CASE IncrementUsage(c)
    BY <2>10 DEF IncrementUsage, Steps, Answers
  <2>11. CASE Delete(c)
    BY <2>11 DEF Delete, Steps, Answers
  <2>12. CASE Answer(c)
    BY <2>12 DEF Answer, Steps, Answers
  <2> QED
    BY <2>1, <2>2, <2>3, <2>4, <2>5, <2>6, <2>7, <2>8, <2>9, <2>10, <2>11, <2>12 DEF Step
<1>5. CASE Moves
  BY <1>2, <1>3, <1>5
<1>6. CASE Fail(c)
  BY <1>1, <1>3, <1>6 DEF Fail, Steps, Answers
<1> QED
  BY <1>4, <1>5, <1>6

\* The kinds of steps: one that writes nothing, one that finds its row, INSERT,
\* and UPDATE, which keeps the name.
Quiet(c) ==
    /\ rows' = rows /\ target' = target /\ at[c] \in Steps
    /\ \/ at'[c] = "error"
       \/ at'[c] \in {"bad request", "not found"} /\ at[c] # "counted"
       \/ /\ at'[c] = "ok"
          /\ \/ at[c] \in {"inserted", "counted", "deleted"}
             \/ at[c] = "found" /\ (\/ request[c].op = "read"
                                    \/ request[c].op = "update" /\ request[c].columns = {})
             \/ at[c] = "written" /\ Target(c).exists
Finds(c) ==
    /\ rows' = rows /\ at[c] = "begun" /\ at'[c] = "found" /\ request[c].op # "create"
    /\ \E n \in DOMAIN rows[Table(c)] : n \in Nat /\ target' = [target EXCEPT ![c] = n]
Inserts(c) ==
    \E name \in Names :
       /\ Insert(c, name) /\ request[c].op = "create" /\ at'[c] = "inserted"
       /\ Table(c) = "agents" =>
             \A n \in Existing("agents") : rows["agents"][n].name # name
Writes(c, row) ==
    /\ Set(c, row) /\ target' = target /\ at[c] = "found"
    /\ row.name = Target(c).name /\ (row.exists => Target(c).exists)
    /\ \A k \in Columns : \/ row[k] = Target(c)[k]
                          \/ row[k] = c /\ request[c].op = "update" /\ k \in request[c].columns
    /\ \/ /\ request[c].op = "update" /\ at'[c] = "written" /\ row.uses = Target(c).uses
          /\ \A k \in request[c].columns : row[k] = c
       \/ /\ request[c].op = "delete" /\ at'[c] = "deleted" /\ row.uses = Target(c).uses
          /\ ~row.exists
       \/ request[c].op = "use" /\ at'[c] = "counted" /\ row.uses = Target(c).uses + 1

\* The row that a call has found is a row of its table.
LEMMA TargetIsRow ==
    ASSUME TypeOK, NEW c \in Calls, at[c] \in Steps \cup {"ok"}, at[c] # "begun"
    PROVE  /\ target[c] \in DOMAIN rows[Table(c)] /\ target[c] \in 1 .. Len(rows[Table(c)])
           /\ Target(c) \in Row /\ Table(c) \in Tables
<1>1. Table(c) \in Tables
  BY RequestParts DEF TypeOK, Table
<1>2. rows[Table(c)] \in Seq(Row)
  BY <1>1 DEF TypeOK
<1>3. target[c] \in DOMAIN rows[Table(c)]
  BY DEF TypeOK, Steps
<1>4. target[c] \in 1 .. Len(rows[Table(c)])
  BY <1>2, <1>3, SeqDomain
<1>5. Target(c) \in Row
  BY <1>2, <1>4 DEF Target
<1> QED
  BY <1>1, <1>3, <1>4, <1>5

LEMMA StepKinds ==
    ASSUME TypeOK, NEW c \in Calls, Step(c)
    PROVE  Quiet(c) \/ Finds(c) \/ Inserts(c) \/ \E row \in Row : Writes(c, row)
<1>0. at \in [Calls -> Steps \cup Answers]
  BY DEF TypeOK
<1>1. CASE CreateAgent(c)
  <2>1. request[c].key \in Names /\ Table(c) = "agents"
    BY <1>1, RequestParts DEF CreateAgent, Asks, Table, TypeOK
  <2>2. CASE Insert(c, request[c].key)
    <3>1. at'[c] = "inserted"
      BY <1>0, <2>2 DEF Insert, Goes
    <3>2. ~Goes(c, "begun", "bad request")
      BY <1>0, <3>1 DEF Goes
    <3>3. \A n \in Existing("agents") : rows["agents"][n].name # request[c].key
      BY <1>1, <3>2 DEF CreateAgent
    <3>4. request[c].op = "create"
      BY <1>1 DEF CreateAgent, Asks
    <3> QED
      BY <2>1, <2>2, <3>1, <3>3, <3>4 DEF Inserts
  <2>3. CASE ~Insert(c, request[c].key)
    BY <1>0, <1>1, <2>3 DEF CreateAgent, Quiet, Goes, Steps
  <2> QED
    BY <2>2, <2>3
<1>2. CASE CreateTemplate(c)
  <2>1. request[c].key \in Names /\ Table(c) = "templates"
    BY <1>2, RequestParts DEF CreateTemplate, Asks, Table, TypeOK
  <2>2. CASE Insert(c, request[c].key)
    <3>1. at'[c] = "inserted"
      BY <1>0, <2>2 DEF Insert, Goes
    <3> QED
      BY <1>2, <2>1, <2>2, <3>1 DEF CreateTemplate, Asks, Inserts, Existing
  <2>3. CASE ~Insert(c, request[c].key)
    BY <1>0, <1>2, <2>3 DEF CreateTemplate, Quiet, Goes, Steps
  <2> QED
    BY <2>2, <2>3
<1>3. CASE Refresh(c)
  BY <1>0, <1>3 DEF Refresh, Quiet, Goes, Steps
<1>4. CASE FindAgent(c)
  <2>1. Table(c) \in Tables /\ rows["agents"] \in Seq(Row)
    BY RequestParts DEF TypeOK, Table, Tables
  <2>2. Existing("agents") \subseteq DOMAIN rows["agents"] /\ DOMAIN rows["agents"] \subseteq Nat
    BY <2>1, SeqDomain DEF Existing
  <2> QED
    BY <1>0, <1>4, <2>2 DEF FindAgent, Finds, Quiet, Goes, Steps
<1>5. CASE FindTemplate(c)
  <2>1. Table(c) \in Tables /\ rows["templates"] \in Seq(Row)
    BY RequestParts DEF TypeOK, Table, Tables
  <2>2. Existing("templates") \subseteq DOMAIN rows["templates"]
        /\ DOMAIN rows["templates"] \subseteq Nat
    BY <2>1, SeqDomain DEF Existing
  <2> QED
    BY <1>0, <1>5, <2>2 DEF FindTemplate, Finds, Quiet, Goes, Steps
<1>6. CASE Read(c)
  BY <1>0, <1>6 DEF Read, Quiet, Goes, Steps
<1>7. CASE Reselect(c)
  BY <1>0, <1>7 DEF Reselect, Quiet, Goes, Steps
<1>8. CASE Answer(c)
  BY <1>0, <1>8 DEF Answer, Quiet, Goes, Steps
<1>9. CASE Fail(c)
  BY <1>0, <1>9 DEF Fail, Quiet, Steps
<1>10. CASE UpdateTemplate(c) /\ Refused(c)
  BY <1>0, <1>10 DEF UpdateTemplate, Quiet, Goes, Steps
<1>11. CASE UpdateAgent(c) \/ (UpdateTemplate(c) /\ ~Refused(c))
  <2>1. at[c] = "found" /\ target' = target /\ SetColumns(c)
    BY <1>11 DEF UpdateAgent, UpdateTemplate, Goes
  <2>2. Target(c) \in Row
    BY <2>1, TargetIsRow DEF Steps
  <2> DEFINE row == [Target(c) EXCEPT !.text   = IF "text" \in request[c].columns THEN c ELSE @,
                                      !.config = IF "config" \in request[c].columns THEN c ELSE @]
  <2>3. /\ row \in Row /\ row.name = Target(c).name /\ row.exists = Target(c).exists
        /\ row.uses = Target(c).uses
        /\ row.text = IF "text" \in request[c].columns THEN c ELSE Target(c).text
        /\ row.config = IF "config" \in request[c].columns THEN c ELSE Target(c).config
    BY <2>2 DEF Row
  <2>4. Set(c, row)
    BY <2>1 DEF SetColumns
  <2>5. request[c].op = "update" /\ at'[c] = "written"
    BY <1>0, <1>11 DEF UpdateAgent, UpdateTemplate, Goes, Asks
  <2>6. request[c].columns \subseteq Columns
    BY RequestParts DEF TypeOK
  <2> HIDE DEF row
  <2>7. \A k \in Columns : IF k \in request[c].columns THEN row[k] = c ELSE row[k] = Target(c)[k]
    BY <2>3 DEF Columns
  <2> QED
    BY <2>1, <2>3, <2>4, <2>5, <2>6, <2>7 DEF Writes
<1>12. CASE IncrementUsage(c)
  <2>1. at[c] = "found" /\ target' = target
    BY <1>12 DEF IncrementUsage, Goes
  <2>2. Target(c) \in Row
    BY <2>1, TargetIsRow DEF Steps
  <2> DEFINE row == [Target(c) EXCEPT !.uses = @ + 1]
  <2>3. row \in Row /\ row.name = Target(c).name /\ row.exists = Target(c).exists
        /\ row.uses = Target(c).uses + 1
        /\ row.text = Target(c).text /\ row.config = Target(c).config
    BY <2>2 DEF Row
  <2>4. request[c].op = "use" /\ at'[c] = "counted" /\ Set(c, row)
    BY <1>0, <1>12 DEF IncrementUsage, Goes, Asks
  <2> QED
    BY <2>1, <2>3, <2>4 DEF Writes, Columns
<1>13. CASE Delete(c)
  <2>1. at[c] = "found" /\ target' = target
    BY <1>13 DEF Delete, Goes
  <2>2. Target(c) \in Row
    BY <2>1, TargetIsRow DEF Steps
  <2> DEFINE row == [Target(c) EXCEPT !.exists = FALSE]
  <2>3. row \in Row /\ row.name = Target(c).name /\ row.exists = FALSE
        /\ row.uses = Target(c).uses
        /\ row.text = Target(c).text /\ row.config = Target(c).config
    BY <2>2 DEF Row
  <2>4. request[c].op = "delete" /\ at'[c] = "deleted" /\ Set(c, row)
    BY <1>0, <1>13 DEF Delete, Goes
  <2> QED
    BY <2>1, <2>3, <2>4 DEF Writes, Columns
<1> QED
  BY <1>1, <1>2, <1>3, <1>4, <1>5, <1>6, <1>7, <1>8, <1>9, <1>10, <1>11, <1>12, <1>13 DEF Step

LEMMA TypeStep ==
    ASSUME TypeOK, NEW c \in Calls, Step(c)
    PROVE  TypeOK'
<1>0. /\ request' = request /\ at' \in [Calls -> Steps \cup Answers]
      /\ \A d \in Calls \ {c} : at'[d] = at[d]
      /\ target \in [Calls -> Nat] /\ rows \in [Tables -> Seq(Row)]
  BY OneMoves DEF TypeOK
<1>1. Table(c) \in Tables /\ rows[Table(c)] \in Seq(Row)
  BY RequestParts DEF TypeOK, Table
<1>2. \A t \in Tables : Len(rows[t]) \in Nat
  BY <1>0, SeqDomain
<1>3. CASE Quiet(c)
  <2>1. \/ target'[c] \in 1 .. Len(rows'[Table(c)])
        \/ at'[c] \in {"begun", "bad request", "not found", "error"}
    <3>1. CASE at[c] \in Steps /\ at[c] # "begun"
      BY <1>3, <3>1, TargetIsRow DEF Quiet
    <3>2. CASE at[c] = "begun" \/ at[c] \in Answers
      BY <1>3, <3>2 DEF Quiet, Steps, Answers
    <3> QED
      BY <3>1, <3>2 DEF TypeOK
  <2>2. rows' = rows /\ target' = target
    BY <1>3 DEF Quiet
  <2>3. \A t \in Tables : Len(rows'[t]) >= Len(rows[t])
    BY <1>2, <2>2
  <2> QED
    BY <1>0, <2>1, <2>2, <2>3, TargetsKept
<1>4. CASE Finds(c)
  <2>1. PICK n \in DOMAIN rows[Table(c)] : n \in Nat /\ target' = [target EXCEPT ![c] = n]
    BY <1>4 DEF Finds
  <2>2. n \in 1 .. Len(rows[Table(c)])
    BY <1>1, SeqDomain
  <2>3. \A t \in Tables : Len(rows'[t]) >= Len(rows[t])
    BY <1>2, <1>4 DEF Finds
  <2>4. /\ target' \in [Calls -> Nat] /\ target'[c] \in 1 .. Len(rows'[Table(c)])
        /\ \A d \in Calls \ {c} : target'[d] = target[d]
    BY <1>0, <1>4, <2>1, <2>2 DEF Finds
  <2> QED
    BY <1>0, <1>4, <2>3, <2>4, TargetsKept DEF Finds
<1>5. CASE Inserts(c)
  <2>1. PICK name \in Names : Insert(c, name)
    BY <1>5 DEF Inserts
  <2>2. /\ rows' \in [Tables -> Seq(Row)]
        /\ \A t \in Tables : Len(rows'[t]) = IF t = Table(c) THEN Len(rows[t]) + 1
                                                 ELSE Len(rows[t])
    BY <2>1, InsertEffect
  <2>3. \A t \in Tables : Len(rows'[t]) >= Len(rows[t])
    BY <1>2, <2>2
  <2>4. /\ target' \in [Calls -> Nat] /\ target'[c] = Len(rows[Table(c)]) + 1
        /\ \A d \in Calls \ {c} : target'[d] = target[d]
    BY <1>0, <1>1, <1>2, <2>1 DEF Insert
  <2>5. target'[c] \in 1 .. Len(rows'[Table(c)])
    BY <1>1, <1>2, <2>2, <2>4
  <2> QED
    BY <1>0, <2>2, <2>3, <2>4, <2>5, TargetsKept
<1>6. CASE \E row \in Row : Writes(c, row)
  <2>1. PICK row \in Row : Writes(c, row)
    BY <1>6
  <2>2. target[c] \in DOMAIN rows[Table(c)] /\ target[c] \in 1 .. Len(rows[Table(c)])
    BY <2>1, TargetIsRow DEF Writes, Steps
  <2>3. rows' \in [Tables -> Seq(Row)] /\ \A t \in Tables : Len(rows'[t]) = Len(rows[t])
    BY <2>1, <2>2, SetEffect DEF Writes
  <2>4. \A t \in Tables : Len(rows'[t]) >= Len(rows[t])
    BY <1>2, <2>3
  <2>5. target' = target /\ target'[c] \in 1 .. Len(rows'[Table(c)])
    BY <1>1, <2>1, <2>2, <2>3 DEF Writes
  <2> QED
    BY <1>0, <2>3, <2>4, <2>5, TargetsKept
<1> QED
  BY <1>3, <1>4, <1>5, <1>6, StepKinds

\* Every variable keeps its type, and a call that has found or inserted a row
\* goes on with a row of its table.
THEOREM TypeCorrect == Spec => []TypeOK
<1>1. Init => TypeOK
  <2> SUFFICES ASSUME Init PROVE TypeOK
    OBVIOUS
  <2>1. PICK name \in Names : rows = [t \in Tables |-> <<NewRow(name, Earlier)>>]
    BY DEF Init
  <2>2. NewRow(name, Earlier) \in Row
    BY DEF NewRow, Row
  <2>3. <<NewRow(name, Earlier)>> \in Seq(Row)
    BY <2>2
  <2> QED
    BY <2>1, <2>3 DEF Init, TypeOK, Steps
<1>2. TypeOK /\ [Next]_vars => TypeOK'
  <2> SUFFICES ASSUME TypeOK, [Next]_vars PROVE TypeOK'
    OBVIOUS
  <2>1. CASE Next
    BY <2>1, TypeStep DEF Next
  <2>2. CASE UNCHANGED vars
    BY <2>2 DEF vars, TypeOK, Table
  <2> QED
    BY <2>1, <2>2
<1> QED
  BY <1>1, <1>2, PTL DEF Spec

-----------------------------------------------------------------------------
(* The names of agents.                                                     *)

\* OneAgentPerName as it is kept: by position.
Distinct ==
    \A m, n \in 1 .. Len(rows["agents"]) :
       rows["agents"][m].exists /\ rows["agents"][n].exists =>
          (rows["agents"][m].name = rows["agents"][n].name => m = n)

LEMMA DistinctIsOneAgentPerName ==
    ASSUME TypeOK
    PROVE  Distinct <=> OneAgentPerName
<1>1. rows["agents"] \in Seq(Row)
  BY DEF TypeOK, Tables
<1>2. DOMAIN rows["agents"] = 1 .. Len(rows["agents"])
  BY <1>1, SeqDomain
<1>3. \A n : n \in Existing("agents") <=> n \in 1 .. Len(rows["agents"]) /\ rows["agents"][n].exists
  BY <1>2 DEF Existing
<1>4. Distinct => OneAgentPerName
  BY <1>3 DEF Distinct, OneAgentPerName
<1>5. OneAgentPerName => Distinct
  BY <1>3 DEF Distinct, OneAgentPerName
<1> QED
  BY <1>4, <1>5

LEMMA DistinctStep ==
    ASSUME TypeOK, Distinct, NEW c \in Calls, Step(c)
    PROVE  Distinct'
<1>1. /\ Table(c) \in Tables /\ "agents" \in Tables /\ rows["agents"] \in Seq(Row)
      /\ Len(rows["agents"]) \in Nat /\ rows \in [Tables -> Seq(Row)]
  BY RequestParts, SeqDomain DEF TypeOK, Table, Tables
<1>2. CASE Quiet(c) \/ Finds(c)
  BY <1>2 DEF Quiet, Finds, Distinct
<1>3. CASE Inserts(c)
  <2>1. PICK name \in Names :
           /\ Insert(c, name)
           /\ Table(c) = "agents" =>
                 \A n \in Existing("agents") : rows["agents"][n].name # name
    BY <1>3 DEF Inserts
  <2>2. /\ Len(rows'["agents"]) = IF Table(c) = "agents" THEN Len(rows["agents"]) + 1
                                   ELSE Len(rows["agents"])
        /\ \A n \in 1 .. Len(rows["agents"]) : rows'["agents"][n] = rows["agents"][n]
        /\ rows'[Table(c)][Len(rows[Table(c)]) + 1] = NewRow(name, c)
    BY <1>1, <2>1, InsertEffect
  <2>3. CASE Table(c) # "agents"
    BY <2>2, <2>3 DEF Distinct
  <2>4. CASE Table(c) = "agents"
    <3>1. \A n \in 1 .. Len(rows["agents"]) :
             rows["agents"][n].exists => rows["agents"][n].name # name
      BY <1>1, <2>1, <2>4, SeqDomain DEF Existing
    <3>2. NewRow(name, c).name = name
      BY DEF NewRow
    <3>3. \A n \in 1 .. Len(rows'["agents"]) :
             n = Len(rows["agents"]) + 1 \/ n \in 1 .. Len(rows["agents"])
      BY <1>1, <2>2, <2>4
    <3>4. rows'["agents"][Len(rows["agents"]) + 1].name = name
      BY <2>2, <2>4, <3>2
    <3> SUFFICES ASSUME NEW m \in 1 .. Len(rows'["agents"]), NEW n \in 1 .. Len(rows'["agents"]),
                        rows'["agents"][m].exists, rows'["agents"][n].exists,
                        rows'["agents"][m].name = rows'["agents"][n].name
                 PROVE  m = n
      BY DEF Distinct
    <3>5. CASE m \in 1 .. Len(rows["agents"]) /\ n \in 1 .. Len(rows["agents"])
      BY <2>2, <3>5 DEF Distinct
    <3>6. CASE m \in 1 .. Len(rows["agents"]) /\ n = Len(rows["agents"]) + 1
      BY <2>2, <3>1, <3>4, <3>6
    <3>7. CASE n \in 1 .. Len(rows["agents"]) /\ m = Len(rows["agents"]) + 1
      BY <2>2, <3>1, <3>4, <3>7
    <3> QED
      BY <3>3, <3>5, <3>6, <3>7
  <2> QED
    BY <2>3, <2>4
<1>4. CASE \E row \in Row : Writes(c, row)
  <2>1. PICK row \in Row : Writes(c, row)
    BY <1>4
  <2>2. target[c] \in DOMAIN rows[Table(c)]
    BY <2>1, TargetIsRow DEF Writes, Steps
  <2>3. /\ Len(rows'["agents"]) = Len(rows["agents"])
        /\ \A n \in 1 .. Len(rows["agents"]) :
              rows'["agents"][n] = IF "agents" = Table(c) /\ n = target[c] /\ Target(c).exists
                                   THEN row ELSE rows["agents"][n]
    BY <1>1, <2>1, <2>2, SetEffect, SMTT(30) DEF Writes
  <2>4. \A n \in 1 .. Len(rows["agents"]) :
           /\ rows'["agents"][n].name = rows["agents"][n].name
           /\ rows'["agents"][n].exists => rows["agents"][n].exists
    <3> TAKE n \in 1 .. Len(rows["agents"])
    <3>1. CASE "agents" = Table(c) /\ n = target[c] /\ Target(c).exists
      BY <2>1, <2>3, <3>1 DEF Writes, Target
    <3>2. CASE ~("agents" = Table(c) /\ n = target[c] /\ Target(c).exists)
      BY <2>3, <3>2
    <3> QED
      BY <3>1, <3>2
  <2> QED
    BY <2>3, <2>4 DEF Distinct
<1> QED
  BY <1>2, <1>3, <1>4, StepKinds

\* No two agents ever have one name, however many calls create it at once: it is
\* the unique constraint that decides, and no UPDATE changes a name or brings a
\* deleted row back.
THEOREM NamesAreUnique == Spec => []OneAgentPerName
<1>1. Init => Distinct
  <2> SUFFICES ASSUME Init PROVE Distinct
    OBVIOUS
  <2>1. Len(rows["agents"]) = 1
    BY DEF Init, Tables
  <2>2. \A m \in 1 .. 1 : m = 1
    OBVIOUS
  <2> QED
    BY <2>1, <2>2 DEF Distinct
<1>2. TypeOK /\ Distinct /\ [Next]_vars => Distinct'
  <2> SUFFICES ASSUME TypeOK, Distinct, [Next]_vars PROVE Distinct'
    OBVIOUS
  <2>1. CASE Next
    BY <2>1, DistinctStep DEF Next
  <2>2. CASE UNCHANGED vars
    BY <2>2 DEF vars, Distinct
  <2> QED
    BY <2>1, <2>2
<1>3. TypeOK /\ Distinct => OneAgentPerName
  BY DistinctIsOneAgentPerName
<1> QED
  BY <1>1, <1>2, <1>3, TypeCorrect, PTL DEF Spec

-----------------------------------------------------------------------------
(* The columns.                                                             *)

\* A column is only ever changed by a call that was asked to set it, on the row
\* that it has found, and by its value.
LEMMA ColumnStep ==
    ASSUME TypeOK, NEW c \in Calls, Step(c),
           NEW t \in Tables, NEW n \in 1 .. Len(rows[t]), NEW k \in Columns,
           rows'[t][n][k] # rows[t][n][k]
    PROVE  /\ rows'[t][n][k] = c /\ Asks(c, t, "update") /\ target[c] = n
           /\ k \in request[c].columns /\ at'[c] # at[c]
<1>1. CASE Quiet(c) \/ Finds(c)
  BY <1>1 DEF Quiet, Finds
<1>2. CASE Inserts(c)
  BY <1>2, InsertEffect DEF Inserts
<1>3. CASE \E row \in Row : Writes(c, row)
  <2>1. PICK row \in Row : Writes(c, row)
    BY <1>3
  <2>2. target[c] \in DOMAIN rows[Table(c)]
    BY <2>1, TargetIsRow DEF Writes, Steps
  <2>3. rows'[t][n] = IF t = Table(c) /\ n = target[c] /\ Target(c).exists
                      THEN row ELSE rows[t][n]
    BY <2>1, <2>2, SetEffect DEF Writes
  <2>4. t = Table(c) /\ n = target[c] /\ row[k] # Target(c)[k] /\ rows'[t][n] = row
    BY <2>3 DEF Target
  <2> QED
    BY <2>1, <2>4, OneMoves DEF Writes, Asks, Table
<1> QED
  BY <1>1, <1>2, <1>3, StepKinds

-----------------------------------------------------------------------------
(* What an answer says.                                                     *)

\* The step a call has reached tells its operation, and one that has just begun
\* has no row yet.
Progress(c) ==
    /\ at[c] = "begun" => target[c] = 0
    /\ at[c] = "inserted" => request[c].op = "create"
    /\ at[c] = "written" => request[c].op = "update"
    /\ at[c] = "counted" => request[c].op = "use"
    /\ at[c] = "deleted" => request[c].op = "delete"

\* What a call has been asked for is done when it is answered, and for an update
\* from the write on, as long as the row is there.
Done(c) ==
    /\ request[c].op = "delete" /\ at[c] \in {"deleted", "ok"} => ~Target(c).exists
    /\ request[c].op = "update" /\ (at[c] = "ok" \/ (at[c] = "written" /\ Target(c).exists)) =>
          \A k \in request[c].columns : Target(c)[k] \in Updating(Table(c), target[c], k)

LEMMA ProgressStep ==
    ASSUME TypeOK, NEW c \in Calls, Step(c), \A d \in Calls : Progress(d)
    PROVE  \A d \in Calls : Progress(d)'
<1>1. request' = request /\ \A d \in Calls \ {c} : at'[d] = at[d]
  BY OneMoves
<1>2. CASE Quiet(c)
  BY <1>1, <1>2 DEF Quiet, Progress, Steps
<1>3. CASE Finds(c)
  BY <1>1, <1>3, ZenonT(40) DEF Finds, Progress, TypeOK
<1>4. CASE Inserts(c)
  <2>1. \A d \in Calls \ {c} : target'[d] = target[d]
    BY <1>4 DEF Inserts, Insert, TypeOK
  <2> QED
    BY <1>1, <1>4, <2>1 DEF Inserts, Progress
<1>5. CASE \E row \in Row : Writes(c, row)
  BY <1>1, <1>5 DEF Writes, Progress
<1> QED
  BY <1>2, <1>3, <1>4, <1>5, StepKinds

\* A row that is gone stays so, a column that changes has the value of the call
\* that takes the step, and a call that works on the row goes on with it.
LEMMA RowKept ==
    ASSUME TypeOK, NEW c \in Calls, Step(c), \A d \in Calls : Progress(d),
           NEW t \in Tables, NEW n \in 1 .. Len(rows[t])
    PROVE  /\ rows'[t][n].exists => rows[t][n].exists
           /\ \A k \in Columns : rows'[t][n][k] # rows[t][n][k] =>
                 /\ rows'[t][n][k] = c /\ Asks(c, t, "update") /\ target[c] = n
                 /\ k \in request[c].columns
           /\ \A d \in Calls : target[d] = n => target'[d] = n
<1>1. rows[t] \in Seq(Row)
  BY DEF TypeOK
<1>2. n \in Nat /\ n # 0
  BY <1>1, SeqDomain
<1>3. \A d \in Calls : target[d] = n => target'[d] = n
  <2>1. CASE Quiet(c)
    BY <2>1 DEF Quiet
  <2>2. CASE Finds(c)
    BY <1>2, <2>2 DEF Finds, Progress, TypeOK
  <2>3. CASE Inserts(c)
    BY <1>2, <2>3 DEF Inserts, Insert, Goes, Progress, TypeOK
  <2>4. CASE \E row \in Row : Writes(c, row)
    BY <2>4 DEF Writes
  <2> QED
    BY <2>1, <2>2, <2>3, <2>4, StepKinds
<1>4. \A k \in Columns : rows'[t][n][k] # rows[t][n][k] =>
         /\ rows'[t][n][k] = c /\ Asks(c, t, "update") /\ target[c] = n
         /\ k \in request[c].columns
  BY ColumnStep
<1>5. rows'[t][n].exists => rows[t][n].exists
  <2>1. CASE Quiet(c) \/ Finds(c)
    BY <2>1 DEF Quiet, Finds
  <2>2. CASE Inserts(c)
    BY <2>2, InsertEffect DEF Inserts
  <2>3. CASE \E row \in Row : Writes(c, row)
    <3>1. PICK row \in Row : Writes(c, row)
      BY <2>3
    <3>2. target[c] \in DOMAIN rows[Table(c)]
      BY <3>1, TargetIsRow DEF Writes, Steps
    <3>3. rows'[t][n] = IF t = Table(c) /\ n = target[c] /\ Target(c).exists
                        THEN row ELSE rows[t][n]
      BY <3>1, <3>2, SetEffect DEF Writes
    <3> QED
      BY <3>1, <3>3 DEF Writes, Target
  <2> QED
    BY <2>1, <2>2, <2>3, StepKinds
<1> QED
  BY <1>3, <1>4, <1>5

\* What a call has done to its row stays done through the step of any call.
LEMMA DoneKept ==
    ASSUME TypeOK, NEW c \in Calls, Step(c), \A e \in Calls : Progress(e),
           NEW d \in Calls, Done(d), at'[d] = at[d], target'[d] = target[d]
    PROVE  Done(d)'
<1>1. request' = request
  BY OneMoves
<1>2. CASE at[d] \in {"written", "deleted", "ok"}
  <2> DEFINE t == request[d].table
             n == target[d]
  <2>1. t \in Tables /\ n \in 1 .. Len(rows[t]) /\ request[d].columns \subseteq Columns
    BY <1>2, TargetIsRow, RequestParts DEF Table, Steps, TypeOK
  <2>2. /\ rows'[t][n].exists => rows[t][n].exists
        /\ \A k \in Columns : rows'[t][n][k] # rows[t][n][k] =>
              /\ rows'[t][n][k] = c /\ request[c].table = t /\ request[c].op = "update"
              /\ target[c] = n /\ k \in request[c].columns
        /\ \A e \in Calls : target[e] = n => target'[e] = n
    BY <2>1, RowKept DEF Asks
  <2>3. request[d].op = "delete" /\ at[d] \in {"deleted", "ok"} => ~rows'[t][n].exists
    BY <2>2 DEF Done, Target, Table
  <2>4. ASSUME request[d].op = "update",
               at[d] = "ok" \/ (at[d] = "written" /\ rows'[t][n].exists),
               NEW k \in request[d].columns
        PROVE  rows'[t][n][k] \in {e \in Calls : /\ request[e].table = t /\ request[e].op = "update"
                                                 /\ target'[e] = n /\ k \in request[e].columns}
    <3>1. rows[t][n][k] \in {e \in Calls : /\ request[e].table = t /\ request[e].op = "update"
                                           /\ target[e] = n /\ k \in request[e].columns}
      BY <2>2, <2>4 DEF Done, Target, Table, Updating, Asks
    <3> QED
      BY <2>1, <2>2, <2>4, <3>1, ZenonT(40)
  <2> QED
    BY <1>1, <2>3, <2>4, ZenonT(40) DEF Done, Target, Table, Updating, Asks
<1>3. CASE at[d] \notin {"written", "deleted", "ok"}
  BY <1>3 DEF Done
<1> QED
  BY <1>2, <1>3

LEMMA DoneStep ==
    ASSUME TypeOK, NEW c \in Calls, Step(c),
           \A d \in Calls : Progress(d), \A d \in Calls : Done(d)
    PROVE  \A d \in Calls : Done(d)'
<1>1. request' = request /\ \A d \in Calls \ {c} : at'[d] = at[d]
  BY OneMoves
<1>2. (\A d \in Calls \ {c} : target'[d] = target[d]) => \A d \in Calls \ {c} : Done(d)'
  BY <1>1, DoneKept
<1>3. CASE Quiet(c)
  <2>1. rows' = rows /\ target' = target
    BY <1>3 DEF Quiet
  <2>2. ASSUME at'[c] # "ok" PROVE Done(c)'
    BY <1>3, <2>2 DEF Quiet, Done
  <2>3. ASSUME at'[c] = "ok" PROVE Done(c)'
    <3>1. request[c].op = "delete" => at[c] = "deleted"
      BY <1>3, <2>3 DEF Quiet, Progress
    <3>2. request[c].op = "update" =>
             request[c].columns = {} \/ (at[c] = "written" /\ Target(c).exists)
      BY <1>3, <2>3 DEF Quiet, Progress
    <3>3. request[c].op = "delete" => ~Target(c).exists
      BY <3>1 DEF Done
    <3>4. request[c].op = "update" =>
             \A k \in request[c].columns : Target(c)[k] \in Updating(Table(c), target[c], k)
      BY <3>2 DEF Done
    <3> QED
      BY <1>1, <2>1, <3>3, <3>4 DEF Done, Target, Table, Updating, Asks
  <2> QED
    BY <1>2, <2>1, <2>2, <2>3
<1>4. CASE Finds(c)
  <2>1. \A d \in Calls \ {c} : target'[d] = target[d]
    BY <1>4 DEF Finds, TypeOK
  <2>2. Done(c)'
    BY <1>4 DEF Finds, Done
  <2> QED
    BY <1>2, <2>1, <2>2
<1>5. CASE Inserts(c)
  <2>1. \A d \in Calls \ {c} : target'[d] = target[d]
    BY <1>5 DEF Inserts, Insert, TypeOK
  <2>2. Done(c)'
    BY <1>5 DEF Inserts, Done
  <2> QED
    BY <1>2, <2>1, <2>2
<1>6. CASE \E row \in Row : Writes(c, row)
  <2>1. PICK row \in Row : Writes(c, row)
    BY <1>6
  <2> DEFINE t == request[c].table
             n == target[c]
  <2>2. target' = target /\ n \in DOMAIN rows[t] /\ n \in 1 .. Len(rows[t]) /\ t \in Tables
    BY <2>1, TargetIsRow DEF Writes, Steps, Table
  <2>3. rows'[t][n] = IF rows[t][n].exists THEN row ELSE rows[t][n]
    <3>1. Set(c, row) /\ row \in Row /\ t = Table(c) /\ target[c] \in DOMAIN rows[Table(c)]
      BY <2>1, <2>2 DEF Writes, Table
    <3>2. \A u \in Tables : \A i \in 1 .. Len(rows[u]) :
             rows'[u][i] = IF u = Table(c) /\ i = target[c] /\ Target(c).exists THEN row ELSE rows[u][i]
      BY <3>1, SetEffect
    <3>3. rows'[t][n] = IF Target(c).exists THEN row ELSE rows[t][n]
      BY <2>2, <3>1, <3>2
    <3>4. Target(c) = rows[t][n]
      BY <3>1 DEF Target
    <3> QED
      BY <3>3, <3>4
  <2>4. CASE request[c].op = "delete"
    <3>1. ~rows'[t][n].exists
      BY <2>1, <2>3, <2>4 DEF Writes
    <3> QED
      BY <1>1, <1>2, <2>2, <2>4, <3>1 DEF Done, Target, Table
  <2>5. CASE request[c].op = "update"
    <3>1. at'[c] = "written" /\ \A k \in request[c].columns : row[k] = c
      BY <2>1, <2>5 DEF Writes
    <3>2. rows'[t][n].exists => \A k \in request[c].columns : rows'[t][n][k] = c
      BY <2>3, <3>1
    <3>3. request'[c].op = "update" /\ request'[c].table = t /\ target'[c] = n
          /\ request'[c].columns = request[c].columns
      BY <1>1, <2>2, <2>5
    <3>4. \A k \in request'[c].columns : c \in Updating(Table(c), target[c], k)'
      BY <3>3 DEF Updating, Table, Asks
    <3>5. Target(c)' = rows'[t][n]
      BY <3>3 DEF Target, Table
    <3>6. Done(c)'
      <4>1. ~(request'[c].op = "delete") /\ at'[c] # "ok"
        BY <3>1, <3>3
      <4>2. Target(c)'.exists => \A k \in request'[c].columns : Target(c)'[k] = c
        BY <3>2, <3>3, <3>5
      <4> QED
        BY <3>4, <4>1, <4>2 DEF Done
    <3> QED
      BY <1>2, <2>2, <3>6
  <2>6. CASE request[c].op \notin {"delete", "update"}
    BY <1>1, <1>2, <2>2, <2>6 DEF Done
  <2> QED
    BY <2>4, <2>5, <2>6
<1> QED
  BY <1>3, <1>4, <1>5, <1>6, StepKinds

\* Every step of a call tells what it has been asked for, and what it reports as
\* done is done.
LEMMA DoneInvariance == Spec => [](TypeOK /\ \A c \in Calls : Progress(c) /\ Done(c))
<1>1. Init => \A c \in Calls : Progress(c) /\ Done(c)
  BY DEF Init, Progress, Done
<1>2. TypeOK /\ (\A c \in Calls : Progress(c) /\ Done(c)) /\ [Next]_vars
      => (\A c \in Calls : Progress(c) /\ Done(c))'
  <2> SUFFICES ASSUME TypeOK, \A d \in Calls : Progress(d), \A d \in Calls : Done(d), [Next]_vars
               PROVE  (\A d \in Calls : Progress(d))' /\ (\A d \in Calls : Done(d))'
    OBVIOUS
  <2>1. CASE Next
    <3>1. PICK c \in Calls : Step(c)
      BY <2>1 DEF Next
    <3> QED
      BY <3>1, ProgressStep, DoneStep
  <2>2. CASE UNCHANGED vars
    <3>1. rows' = rows /\ request' = request /\ target' = target /\ at' = at
      BY <2>2 DEF vars
    <3>2. ASSUME NEW d \in Calls PROVE Progress(d)'
      BY <3>1 DEF Progress
    <3>3. ASSUME NEW d \in Calls PROVE Done(d)'
      <4>1. Done(d)
        OBVIOUS
      <4>2. Target(d)' = Target(d) /\ Table(d)' = Table(d)
        BY <3>1 DEF Target, Table
      <4>3. \A k \in request[d].columns : Updating(Table(d), target[d], k)' = Updating(Table(d), target[d], k)
        BY <3>1, <4>2 DEF Updating, Asks, Table
      <4> QED
        BY <3>1, <4>1, <4>2, <4>3 DEF Done
    <3> QED
      BY <3>2, <3>3
  <2> QED
    BY <2>1, <2>2
<1> QED
  BY <1>1, <1>2, TypeCorrect, PTL DEF Spec

\* A delete that is answered "ok" has removed its row for good, and the columns
\* an update was asked to set have its values or those of other updates that were
\* asked to set them: no failure or other call in between undoes them.
THEOREM AnswersAreTrue == Spec => []OkMeansDone
<1>1. (\A c \in Calls : Progress(c) /\ Done(c)) => OkMeansDone
  BY DEF Done, OkMeansDone
<1> QED
  BY <1>1, DoneInvariance, PTL

-----------------------------------------------------------------------------
(* The uses of templates.                                                   *)

\* UsesOf as a function of the variables it reads.
Using(req, tar, pos, n, S) ==
    {d \in Calls : /\ req[d].table = "templates" /\ req[d].op = "use"
                   /\ tar[d] = n /\ pos[d] \in S}

CountedRow(n) ==
    rows["templates"][n].exists =>
       /\ Cardinality(Using(request, target, at, n, {"ok", "counted"})) <= rows["templates"][n].uses
       /\ rows["templates"][n].uses
            <= Cardinality(Using(request, target, at, n, {"ok", "counted", "error"}))

LEMMA UsingIsFinite ==
    ASSUME NEW req, NEW tar, NEW pos, NEW n, NEW S
    PROVE  /\ IsFiniteSet(Using(req, tar, pos, n, S))
           /\ Cardinality(Using(req, tar, pos, n, S)) \in Nat
<1>1. Using(req, tar, pos, n, S) \in SUBSET Calls
  BY DEF Using
<1>2. IsFiniteSet(Using(req, tar, pos, n, S))
  BY <1>1, FS_Subset, CatalogAssumption
<1> QED
  BY <1>2, FS_CardinalityType

\* Calls that only one step moves: the others stay where they are counted.
LEMMA CountedQuietly ==
    ASSUME TypeOK, NEW c \in Calls, Step(c), \A d \in Calls : Progress(d), NEW n,
           request[c].op # "use" \/ target[c] # n \/ at'[c] # "counted",
           \A d \in Calls \ {c} : target'[d] = target[d],
           target'[c] = target[c] \/ at'[c] = "found" \/ request[c].op = "create",
           at[c] = "counted" => at'[c] \in {"ok", "error"},
           request[c].op = "use" /\ at'[c] = "ok" => at[c] = "counted",
           at[c] \in Steps, at'[c] = "found" => at[c] = "begun"
    PROVE  /\ Cardinality(Using(request', target', at', n, {"ok", "counted"}))
                <= Cardinality(Using(request, target, at, n, {"ok", "counted"}))
           /\ Cardinality(Using(request, target, at, n, {"ok", "counted", "error"}))
                <= Cardinality(Using(request', target', at', n, {"ok", "counted", "error"}))
<1>1. request' = request /\ \A d \in Calls \ {c} : at'[d] = at[d]
  BY OneMoves
<1>2. Using(request', target', at', n, {"ok", "counted"})
        \subseteq Using(request, target, at, n, {"ok", "counted"})
  BY <1>1 DEF Using, Steps
<1>3. Using(request, target, at, n, {"ok", "counted", "error"})
        \subseteq Using(request', target', at', n, {"ok", "counted", "error"})
  BY <1>1 DEF Using, Steps
<1> QED
  BY <1>2, <1>3, UsingIsFinite, FS_Subset

LEMMA CountedStep ==
    ASSUME TypeOK, NEW c \in Calls, Step(c), \A d \in Calls : Progress(d),
           \A n \in 1 .. Len(rows["templates"]) : CountedRow(n)
    PROVE  \A n \in 1 .. Len(rows'["templates"]) : CountedRow(n)'
<1> DEFINE T == rows["templates"]
           Low(n)  == Cardinality(Using(request, target, at, n, {"ok", "counted"}))
           High(n) == Cardinality(Using(request, target, at, n, {"ok", "counted", "error"}))
           LowAfter(n)  == Cardinality(Using(request', target', at', n, {"ok", "counted"}))
           HighAfter(n) == Cardinality(Using(request', target', at', n, {"ok", "counted", "error"}))
<1>1. /\ request' = request /\ \A d \in Calls \ {c} : at'[d] = at[d]
      /\ "templates" \in Tables /\ T \in Seq(Row) /\ Len(T) \in Nat /\ Table(c) \in Tables
      /\ \A n \in 1 .. Len(T) : T[n].uses \in Nat
  <2>1. "templates" \in Tables /\ Table(c) \in Tables /\ T \in Seq(Row)
    BY RequestParts DEF TypeOK, Table, Tables
  <2>2. \A n \in 1 .. Len(T) : T[n] \in Row
    BY <2>1
  <2> QED
    BY <2>1, <2>2, OneMoves, SeqDomain DEF Row
<1>2. \A n : Low(n) \in Nat /\ High(n) \in Nat /\ LowAfter(n) \in Nat /\ HighAfter(n) \in Nat
  BY UsingIsFinite
<1>3. \A n \in 1 .. Len(T) : T[n].exists => Low(n) <= T[n].uses /\ T[n].uses <= High(n)
  BY DEF CountedRow
<1>4. SUFFICES ASSUME NEW n \in 1 .. Len(rows'["templates"]), rows'["templates"][n].exists
               PROVE  LowAfter(n) <= rows'["templates"][n].uses
                      /\ rows'["templates"][n].uses <= HighAfter(n)
  BY DEF CountedRow
<1>5. ASSUME n \in 1 .. Len(T), rows'["templates"][n].uses = T[n].uses,
             LowAfter(n) <= Low(n), High(n) <= HighAfter(n)
      PROVE  LowAfter(n) <= rows'["templates"][n].uses
             /\ rows'["templates"][n].uses <= HighAfter(n)
  <2>1. T[n].exists
    BY <1>1, <1>4, <1>5, RowKept
  <2> HIDE DEF Low, High, LowAfter, HighAfter
  <2> QED
    BY <1>1, <1>2, <1>3, <1>5, <2>1
<1>6. CASE Quiet(c)
  <2>1. rows' = rows /\ target' = target /\ at[c] \in Steps
    BY <1>6 DEF Quiet
  <2>2. /\ at'[c] \notin {"counted", "found"}
        /\ at[c] = "counted" => at'[c] \in {"ok", "error"}
    BY <1>6 DEF Quiet
  <2>3. request[c].op = "use" /\ at'[c] = "ok" => at[c] = "counted"
    BY <1>6 DEF Quiet, Progress
  <2>4. LowAfter(n) <= Low(n) /\ High(n) <= HighAfter(n)
    BY <2>1, <2>2, <2>3, CountedQuietly
  <2> QED
    BY <1>4, <1>5, <2>1, <2>4
<1>7. CASE Finds(c)
  <2>1. rows' = rows /\ at[c] = "begun" /\ at'[c] = "found"
        /\ \A d \in Calls \ {c} : target'[d] = target[d]
    BY <1>7 DEF Finds, TypeOK
  <2>2. LowAfter(n) <= Low(n) /\ High(n) <= HighAfter(n)
    BY <2>1, CountedQuietly DEF Steps
  <2> QED
    BY <1>4, <1>5, <2>1, <2>2
<1>8. CASE Inserts(c)
  <2>1. PICK name \in Names : Insert(c, name)
    BY <1>8 DEF Inserts
  <2>2. /\ request[c].op = "create" /\ at[c] = "begun" /\ at'[c] = "inserted"
        /\ \A d \in Calls \ {c} : target'[d] = target[d]
    BY <1>8 DEF Inserts, Insert, Goes, TypeOK
  <2>3. CASE n \in 1 .. Len(T)
    <3>1. rows'["templates"][n] = T[n]
      BY <1>1, <2>1, <2>3, InsertEffect
    <3>2. LowAfter(n) <= Low(n) /\ High(n) <= HighAfter(n)
      BY <2>2, CountedQuietly DEF Steps
    <3> QED
      BY <1>5, <2>3, <3>1, <3>2
  <2>4. CASE n \notin 1 .. Len(T)
    <3>1. Table(c) = "templates" /\ n = Len(T) + 1
      BY <1>1, <1>4, <2>1, <2>4, InsertEffect
    <3>2. rows'["templates"][n].uses = 0
      <4>1. rows'[Table(c)][Len(rows[Table(c)]) + 1] = NewRow(name, c)
        BY <2>1, InsertEffect
      <4>2. rows'["templates"][n] = NewRow(name, c)
        BY <3>1, <4>1
      <4> QED
        BY <4>2 DEF NewRow
    <3>3. Using(request', target', at', n, {"ok", "counted"}) = {}
      <4>1. ASSUME NEW d \in Calls, d # c, at[d] \in {"ok", "counted"} PROVE target[d] # n \/ Table(d) # "templates"
        BY <1>1, <3>1, <4>1, TargetIsRow DEF Steps
      <4> QED
        BY <1>1, <2>2, <4>1 DEF Using, Table
    <3>4. LowAfter(n) = 0
      BY <3>3, FS_EmptySet
    <3> QED
      BY <1>2, <3>2, <3>4
  <2> QED
    BY <2>3, <2>4
<1>9. CASE \E row \in Row : Writes(c, row)
  <2>1. PICK row \in Row : Writes(c, row)
    BY <1>9
  <2>2. /\ target' = target /\ at[c] = "found" /\ at'[c] \in {"written", "deleted", "counted"}
        /\ at'[c] = "counted" <=> request[c].op = "use"
        /\ target[c] \in DOMAIN rows[Table(c)]
    BY <2>1, TargetIsRow DEF Writes, Steps
  <2>3. /\ n \in 1 .. Len(T)
        /\ rows'["templates"][n] = IF "templates" = Table(c) /\ n = target[c] /\ Target(c).exists
                                   THEN row ELSE T[n]
    BY <1>1, <1>4, <2>1, <2>2, SetEffect DEF Writes
  <2>4. CASE request[c].op # "use" \/ target[c] # n
    <3>1. rows'["templates"][n].uses = T[n].uses
      BY <2>1, <2>3, <2>4 DEF Writes, Target
    <3>2. LowAfter(n) <= Low(n) /\ High(n) <= HighAfter(n)
      BY <2>2, <2>4, CountedQuietly DEF Steps
    <3> QED
      BY <1>5, <2>3, <3>1, <3>2
  <2>5. CASE request[c].op = "use" /\ target[c] = n
    <3>1. Table(c) = "templates"
      BY <2>5, RequestParts DEF TypeOK, Table
    <3>2. T[n].exists
      BY <1>1, <1>4, <2>3, RowKept
    <3>3. rows'["templates"][n].uses = T[n].uses + 1
      BY <2>1, <2>2, <2>3, <2>5, <3>1, <3>2 DEF Writes, Target
    <3>4. /\ Using(request', target', at', n, {"ok", "counted"})
               = Using(request, target, at, n, {"ok", "counted"}) \cup {c}
          /\ c \notin Using(request, target, at, n, {"ok", "counted"})
          /\ Using(request', target', at', n, {"ok", "counted", "error"})
               = Using(request, target, at, n, {"ok", "counted", "error"}) \cup {c}
          /\ c \notin Using(request, target, at, n, {"ok", "counted", "error"})
      BY <1>1, <2>2, <2>5, <3>1 DEF Using, Table
    <3>5. LowAfter(n) = Low(n) + 1 /\ HighAfter(n) = High(n) + 1
      BY <3>4, UsingIsFinite, FS_AddElement
    <3> HIDE DEF Low, High, LowAfter, HighAfter
    <3> QED
      BY <1>1, <1>2, <1>3, <2>3, <3>2, <3>3, <3>5
  <2> QED
    BY <2>4, <2>5
<1> QED
  BY <1>6, <1>7, <1>8, <1>9, StepKinds

\* The count of a template is the number of its uses, but for those that failed:
\* each that is answered is in it, however many are counted at once.
THEOREM UsesAreExact == Spec => []UsesAreCounted
<1> DEFINE Counts == \A n \in 1 .. Len(rows["templates"]) : CountedRow(n)
<1>1. Init => Counts
  <2> SUFFICES ASSUME Init, NEW n \in 1 .. Len(rows["templates"]) PROVE CountedRow(n)
    OBVIOUS
  <2>1. PICK name \in Names : rows = [t \in Tables |-> <<NewRow(name, Earlier)>>]
    BY DEF Init
  <2>2. n = 1 /\ rows["templates"][n].uses = 0
    BY <2>1 DEF Tables, NewRow
  <2>3. Using(request, target, at, n, {"ok", "counted"}) = {}
    BY DEF Init, Using
  <2>4. Cardinality(Using(request, target, at, n, {"ok", "counted"})) = 0
    BY <2>3, FS_EmptySet
  <2>5. Cardinality(Using(request, target, at, n, {"ok", "counted", "error"})) \in Nat
    BY UsingIsFinite
  <2> QED
    BY <2>2, <2>4, <2>5 DEF CountedRow
<1>2. TypeOK /\ (\A c \in Calls : Progress(c) /\ Done(c)) /\ Counts /\ [Next]_vars => Counts'
  <2> SUFFICES ASSUME TypeOK, \A d \in Calls : Progress(d), Counts, [Next]_vars
               PROVE  \A n \in 1 .. Len(rows'["templates"]) : CountedRow(n)'
    OBVIOUS
  <2>1. CASE Next
    BY <2>1, CountedStep DEF Next
  <2>2. CASE UNCHANGED vars
    BY <2>2 DEF vars, CountedRow
  <2> QED
    BY <2>1, <2>2
<1>3. TypeOK /\ Counts => UsesAreCounted
  <2> SUFFICES ASSUME TypeOK, Counts, NEW n \in Existing("templates")
               PROVE  /\ Cardinality(UsesOf(n, {"ok", "counted"})) <= rows["templates"][n].uses
                      /\ rows["templates"][n].uses <= Cardinality(UsesOf(n, {"ok", "counted", "error"}))
    BY DEF UsesAreCounted
  <2>1. rows["templates"] \in Seq(Row)
    BY DEF TypeOK, Tables
  <2>2. n \in 1 .. Len(rows["templates"]) /\ rows["templates"][n].exists
    BY <2>1, SeqDomain DEF Existing
  <2>3. \A S : UsesOf(n, S) = Using(request, target, at, n, S)
    BY DEF UsesOf, Using, Asks
  <2> QED
    BY <2>2, <2>3 DEF CountedRow
<1> QED
  BY <1>1, <1>2, <1>3, DoneInvariance, PTL DEF Spec
=============================================================================

-------------------------- MODULE TaskHistory_proofs -------------------------
(***************************************************************************)
(* The guarantees of TaskHistory for any set of runs, any number of hooks  *)
(* and any number of changes to them.  The argument follows one run: while *)
(* its handler has not got past the insert, there is no row and nobody is  *)
(* told (BeforeSaving); a dispatch exists only once the row or the warning *)
(* does (Recorded); and the hooks that its loop still has to go through    *)
(* have not been called, but for the one at hand once it has been posted   *)
(* to (Uncalled, AtHand).                                                  *)
(***************************************************************************)
EXTENDS TaskHistory, FiniteSetTheorems, SequenceTheorems, TLAPS

Unsaved == {"new", "running", "streaming", "saving"}
Looping == {"posting", "answered", "unanswered"}

Recorded(r) == row[r] = result[r] \/ r \in warned

RowInv(r) ==
    /\ row[r] \in {"none", result[r]}
    /\ at[r] \in Unsaved => row[r] = "none"
    /\ at[r] \in {"saved", "closing", "answered"} => Recorded(r)

BeforeSaving(r) == at[r] \in Unsaved \cup {"saved", "streamed"} => dispatch[r] = "none"
AfterSaving(r)  == at[r] \in {"closing", "answered"} => dispatch[r] # "none"
Announced(r)    == dispatch[r] # "none" => Recorded(r)

LoopInv(r) == todo[r] # {} <=> dispatch[r] \in Looping

\* Calls are made by the loop only.
Silent(r) == dispatch[r] \in {"none", "reading"} => \A n \in 1 .. MaxHooks : calls[r][n] = 0

Uncalled(r) ==
    \A n \in todo[r] : n # Newest(todo[r]) \/ dispatch[r] = "posting" => calls[r][n] = 0

AtHand(r) == dispatch[r] \in {"answered", "unanswered"} => calls[r][Newest(todo[r])] = 1

Bounded(r) == \A n \in 1 .. MaxHooks : calls[r][n] <= 1

HandlerInv(r) == RowInv(r) /\ BeforeSaving(r) /\ AfterSaving(r) /\ Announced(r)
CallInv(r)    == LoopInv(r) /\ Silent(r) /\ Uncalled(r) /\ AtHand(r) /\ Bounded(r)

IInv ==
    /\ TypeOK
    /\ \A r \in Runs : HandlerInv(r) /\ CallInv(r)
    /\ CodeComesFromCall

-----------------------------------------------------------------------------
\* A set of row numbers that is not empty has a newest one.
LEMMA NewestIsMember ==
    ASSUME NEW N \in Nat, NEW ns \in SUBSET (1 .. N), ns # {}
    PROVE  Newest(ns) \in ns
<1> DEFINE newer(n) == {m \in ns : m > n}
           tails    == {newer(n) : n \in ns}
<1>1. IsFiniteSet(ns) /\ ns \subseteq Int
  <2>1. IsFiniteSet(1 .. N)
    BY FS_Interval
  <2>2. IsFiniteSet(ns)
    BY <2>1, FS_Subset
  <2>3. ns \subseteq Int
    OBVIOUS
  <2> QED
    BY <2>2, <2>3
<1>2. tails \subseteq FiniteSubsetsOf(ns) /\ tails # {}
  <2>1. \A n \in ns : newer(n) \in SUBSET ns
    OBVIOUS
  <2>2. FiniteSubsetsOf(ns) = SUBSET ns
    BY <1>1, FS_FiniteSubsetsOfFinite
  <2>3. tails \subseteq SUBSET ns
    BY <2>1
  <2>4. tails # {}
    OBVIOUS
  <2> QED
    BY <2>2, <2>3, <2>4
<1>3. PICK tail \in tails : \A t \in tails : ~ (<<t, tail>> \in StrictSubsetOrdering(ns))
  <2> HIDE DEF tails
  <2> QED
    BY <1>2, FS_StrictSubsetOrderingWellFounded, WFMin
<1>4. PICK n \in ns : tail = newer(n)
  OBVIOUS
<1>5. \A m \in ns : m <= n
  <2> SUFFICES ASSUME NEW m \in ns, m > n PROVE FALSE
    BY <1>1
  <2>1. newer(m) \in tails
    OBVIOUS
  <2>2. newer(m) \subseteq newer(n) /\ newer(m) # newer(n)
    <3>1. \A k \in ns : k > m => k > n
      BY <1>1
    <3>2. m \in newer(n) /\ m \notin newer(m)
      BY <1>1
    <3> QED
      BY <3>1, <3>2
  <2>3. <<newer(m), newer(n)>> \in StrictSubsetOrdering(ns)
    <3>1. newer(m) \in SUBSET ns /\ newer(n) \in SUBSET ns
      OBVIOUS
    <3> QED
      BY <2>2, <3>1 DEF StrictSubsetOrdering
  <2> QED
    BY <2>1, <2>3, <1>3, <1>4
<1> QED
  BY <1>5 DEF Newest

\* What the loop is about to do concerns a row of the table.
LEMMA NewestIsRow ==
    ASSUME TypeOK, NEW r \in Runs, todo[r] # {}
    PROVE  /\ Newest(todo[r]) \in todo[r]
           /\ Newest(todo[r]) \in DOMAIN hooks
           /\ Newest(todo[r]) \in 1 .. MaxHooks
<1>1. Len(hooks) \in Nat /\ DOMAIN hooks = 1 .. Len(hooks) /\ Len(hooks) <= MaxHooks
  BY DEF TypeOK
<1>2. todo[r] \in SUBSET (1 .. Len(hooks))
  BY <1>1 DEF TypeOK
<1>3. Newest(todo[r]) \in todo[r]
  BY <1>1, <1>2, NewestIsMember
<1> QED
  BY <1>1, <1>2, <1>3, HookAssumption

LEMMA InitInv == Init => IInv
<1> SUFFICES ASSUME Init PROVE IInv
  OBVIOUS
<1> USE DEF Init, HooksInit
<1>1. TypeOK
  <2>1. NewRow({"completed"}) \in Row /\ NewRow({"completed"}).exists
    BY DEF NewRow, Row, Statuses
  <2>2. hooks \in Seq(Row) /\ DOMAIN hooks = {1} /\ hooks[1].exists /\ Len(hooks) = 1
    BY <2>1
  <2> QED
    BY <2>2, HookAssumption DEF TypeOK, Statuses, Handling, Dispatching
<1>2. ASSUME NEW r \in Runs PROVE HandlerInv(r) /\ CallInv(r)
  BY DEF HandlerInv, RowInv, Recorded, BeforeSaving, AfterSaving, Announced, Unsaved,
         CallInv, LoopInv, Looping, Silent, Uncalled, AtHand, Bounded
<1>3. CodeComesFromCall
  BY DEF CodeComesFromCall, NewRow
<1> QED
  BY <1>1, <1>2, <1>3 DEF IInv

-----------------------------------------------------------------------------
\* What a handler does keeps the types, whatever step it is.
LEMMA HandleTypes ==
    ASSUME TypeOK, NEW r \in Runs, Handle(r), UNCHANGED hookVars
    PROVE  TypeOK'
<1> USE DEF TypeOK, hookVars, dispatchVars, Goes, Handling, Dispatching
<1>1. UNCHANGED <<hooks, changes, todo, calls>>
  BY DEF Handle, Start, Return, StreamEnds, NotConnected, Save, Schedule, Answer, Raises
<1>2. at' \in [Runs -> {"new", "streamed", "answered", "error"} \cup Handling]
  BY DEF Handle, Start, Return, StreamEnds, NotConnected, Save, Schedule, Answer, Raises
<1>3. result' \in [Runs -> {"none"} \cup Statuses]
  BY DEF Handle, Start, Return, StreamEnds, NotConnected, Save, Schedule, Answer, Raises
<1>4. row' \in [Runs -> {"none"} \cup Statuses] /\ warned' \subseteq Runs
  BY DEF Handle, Start, Return, StreamEnds, NotConnected, Save, Schedule, Answer, Raises
<1>5. dispatch' \in [Runs -> {"none", "over", "stopped"} \cup Dispatching]
  BY DEF Handle, Start, Return, StreamEnds, NotConnected, Save, Schedule, Answer, Raises
<1> QED
  BY <1>1, <1>2, <1>3, <1>4, <1>5

\* A handler changes its own run only.
LEMMA HandleFrame ==
    ASSUME TypeOK, NEW r \in Runs, Handle(r), NEW q \in Runs, q # r
    PROVE  /\ at'[q] = at[q] /\ result'[q] = result[q] /\ row'[q] = row[q]
           /\ q \in warned' <=> q \in warned
           /\ dispatch'[q] = dispatch[q]
<1> USE DEF TypeOK, dispatchVars, Goes
<1>1. CASE Start(r) \/ Return(r) \/ StreamEnds(r) \/ NotConnected(r)
  BY <1>1 DEF Start, Return, StreamEnds, NotConnected
<1>2. CASE Save(r) \/ Schedule(r) \/ Answer(r) \/ Raises(r)
  BY <1>2 DEF Save, Schedule, Answer, Raises
<1> QED
  BY <1>1, <1>2 DEF Handle

LEMMA HandleStep ==
    ASSUME IInv, NEW r \in Runs, Handle(r), UNCHANGED hookVars
    PROVE  IInv'
<1> USE DEF HandlerInv, RowInv, Recorded, BeforeSaving, AfterSaving, Announced, Unsaved
<1>1. TypeOK /\ TypeOK' /\ HandlerInv(r) /\ CallInv(r)
  BY HandleTypes DEF IInv
<1>2. UNCHANGED <<hooks, todo, calls>>
  BY DEF Handle, Start, Return, StreamEnds, NotConnected, Save, Schedule, Answer, Raises,
         dispatchVars, hookVars
<1>3. HandlerInv(r)'
  <2> USE <1>1 DEF TypeOK, Goes, dispatchVars
  <2>1. CASE Start(r)
    BY <2>1 DEF Start
  <2>2. CASE Return(r)
    BY <2>2 DEF Return
  <2>3. CASE StreamEnds(r)
    BY <2>3 DEF StreamEnds
  <2>4. CASE NotConnected(r)
    BY <2>4 DEF NotConnected
  <2>5. CASE Save(r)
    BY <2>5 DEF Save
  <2>6. CASE Schedule(r)
    BY <2>6 DEF Schedule
  <2>7. CASE Answer(r)
    BY <2>7 DEF Answer
  <2>8. CASE Raises(r)
    BY <2>8 DEF Raises
  <2> QED
    BY <2>1, <2>2, <2>3, <2>4, <2>5, <2>6, <2>7, <2>8 DEF Handle
<1>4. CallInv(r)'
  <2> USE DEF CallInv, LoopInv, Looping, Silent, Uncalled, AtHand, Bounded
  <2>1. CASE Schedule(r)
    <3>1. dispatch[r] = "none" /\ dispatch'[r] = "reading"
      BY <2>1, <1>1 DEF Schedule, Goes, TypeOK
    <3> QED
      BY <3>1, <1>1, <1>2
  <2>2. CASE ~ Schedule(r)
    <3>1. dispatch' = dispatch
      BY <2>2 DEF Handle, Start, Return, StreamEnds, NotConnected, Save, Answer, Raises,
                  dispatchVars
    <3> QED
      BY <3>1, <1>1, <1>2
  <2> QED
    BY <2>1, <2>2
<1>5. ASSUME NEW q \in Runs, q # r
      PROVE  HandlerInv(q)' /\ CallInv(q)'
  <2>1. HandlerInv(q) /\ CallInv(q)
    BY DEF IInv
  <2> QED
    BY <1>1, <1>2, <1>5, <2>1, HandleFrame
    DEF CallInv, LoopInv, Looping, Silent, Uncalled, AtHand, Bounded
<1>6. CodeComesFromCall'
  BY <1>2 DEF IInv, CodeComesFromCall
<1> QED
  BY <1>1, <1>3, <1>4, <1>5, <1>6 DEF IInv

-----------------------------------------------------------------------------
\* The update after a call leaves a table of the same rows, with a code only
\* where there was one or where it puts one.
LEMMA WithCodeTable ==
    ASSUME TypeOK, NEW n \in DOMAIN hooks, NEW code \in {"none", "some"}
    PROVE  LET table == WithCode(n, code) IN
           /\ table \in Seq(Row) /\ Len(table) = Len(hooks) /\ DOMAIN table = DOMAIN hooks
           /\ \A k \in DOMAIN table : table[k].exists \/ table[k] = Deleted
           /\ \A k \in DOMAIN table : table[k].code = "some" =>
                hooks[k].code = "some" \/ (k = n /\ code = "some")
<1> DEFINE changed == [hooks[n] EXCEPT !.code = code]
<1>1. hooks \in Seq(Row) /\ DOMAIN hooks = 1 .. Len(hooks) /\ hooks[n] \in Row
  BY DEF TypeOK
<1>2. CASE hooks[n].exists
  <2>1. changed \in Row /\ changed.exists /\ changed.code = code
    BY <1>1, <1>2 DEF Row
  <2>2. WithCode(n, code) = [hooks EXCEPT ![n] = changed]
    BY <1>2 DEF WithCode
  <2> HIDE DEF changed
  <2>3. [hooks EXCEPT ![n] = changed] \in Seq(Row)
    BY <1>1, <2>1, ExceptSeq
  <2>4. Len([hooks EXCEPT ![n] = changed]) = Len(hooks)
    BY <1>1, <2>1, ExceptSeq
  <2> QED
    BY <1>1, <2>1, <2>2, <2>3, <2>4 DEF TypeOK
<1>3. CASE ~ hooks[n].exists
  BY <1>1, <1>3 DEF WithCode, TypeOK
<1> QED
  BY <1>2, <1>3

\* What a dispatch changes: its own place, its own calls, and the table.
DispatchFrame(r) ==
    /\ \A q \in Runs : q # r =>
         dispatch'[q] = dispatch[q] /\ todo'[q] = todo[q] /\ calls'[q] = calls[q]
    /\ \A n \in 1 .. MaxHooks : calls[r][n] > 0 => calls'[r][n] > 0
    /\ UNCHANGED <<changes, runVars>>

\* The table after a step: as many rows, all well formed, and no code on a row
\* that has not been called.
TableOK ==
    /\ hooks' \in Seq(Row) /\ Len(hooks') = Len(hooks) /\ DOMAIN hooks' = DOMAIN hooks
    /\ \A k \in DOMAIN hooks' : hooks'[k].exists \/ hooks'[k] = Deleted
    /\ \A k \in DOMAIN hooks' : hooks'[k].code = "some" =>
         hooks[k].code = "some" \/ \E r \in Runs : calls[r][k] > 0

LoopTypes ==
    /\ dispatch' \in [Runs -> {"none", "over", "stopped"} \cup Dispatching]
    /\ todo' \in [Runs -> SUBSET DOMAIN hooks]
    /\ calls' \in [Runs -> [1 .. MaxHooks -> Nat]]

\* Whatever a dispatch does: if its own loop is in order afterwards, everything is.
LEMMA DispatchKeeps ==
    ASSUME IInv, NEW r \in Runs, dispatch[r] # "none", dispatch'[r] # "none",
           DispatchFrame(r), TableOK, LoopTypes, CallInv(r)'
    PROVE  IInv'
<1> USE DEF DispatchFrame, runVars
<1>1. TypeOK /\ HandlerInv(r)
  BY DEF IInv
<1>2. TypeOK'
  BY <1>1 DEF TypeOK, TableOK, LoopTypes
<1>3. HandlerInv(r)'
  BY <1>1 DEF HandlerInv, RowInv, Recorded, BeforeSaving, AfterSaving, Announced
<1>4. ASSUME NEW q \in Runs, q # r
      PROVE  HandlerInv(q)' /\ CallInv(q)'
  <2>1. HandlerInv(q) /\ CallInv(q)
    BY DEF IInv
  <2> QED
    BY <1>4, <2>1
    DEF HandlerInv, RowInv, Recorded, BeforeSaving, AfterSaving, Announced,
        CallInv, LoopInv, Looping, Silent, Uncalled, AtHand, Bounded
<1>5. CodeComesFromCall'
  <2> SUFFICES ASSUME NEW k \in DOMAIN hooks', hooks'[k].code = "some"
               PROVE  \E q \in Runs : calls'[q][k] > 0
    BY DEF CodeComesFromCall
  <2>1. k \in DOMAIN hooks /\ k \in 1 .. MaxHooks
    BY <1>1, HookAssumption DEF TableOK, TypeOK
  <2>2. PICK q \in Runs : calls[q][k] > 0
    BY <2>1 DEF TableOK, IInv, CodeComesFromCall
  <2>3. CASE q = r
    BY <2>1, <2>2, <2>3
  <2>4. CASE q # r
    BY <2>2, <2>4
  <2> QED
    BY <2>3, <2>4
<1> QED
  BY <1>1, <1>2, <1>3, <1>4, <1>5 DEF IInv

-----------------------------------------------------------------------------
\* The loop goes on to the next hook, or is over.
LEMMA FollowingLoop ==
    ASSUME IInv, NEW r \in Runs, dispatch[r] \in {"answered", "unanswered"},
           Following(r), calls' = calls, UNCHANGED <<changes, runVars>>
    PROVE  DispatchFrame(r) /\ LoopTypes /\ CallInv(r)' /\ dispatch'[r] # "none"
<1> DEFINE n == Newest(todo[r])
<1>1. TypeOK /\ CallInv(r)
  BY DEF IInv
<1>2. todo[r] # {}
  BY <1>1 DEF CallInv, LoopInv, Looping
<1>3. n \in todo[r] /\ n \in 1 .. MaxHooks
  BY <1>1, <1>2, NewestIsRow
<1>4. \A k \in todo[r] : k # n => calls[r][k] = 0
  BY <1>1 DEF CallInv, Uncalled
<1> HIDE DEF n
<1>5. /\ todo' = [todo EXCEPT ![r] = todo[r] \ {n}]
      /\ todo'[r] = todo[r] \ {n}
      /\ dispatch' = [dispatch EXCEPT ![r] = IF todo'[r] = {} THEN "over" ELSE "posting"]
  BY <1>1 DEF Following, TypeOK, n
<1>6. dispatch'[r] = IF todo'[r] = {} THEN "over" ELSE "posting"
  BY <1>1, <1>5 DEF TypeOK
<1>7. LoopTypes
  BY <1>1, <1>5 DEF TypeOK, LoopTypes, Dispatching
<1>8. CallInv(r)'
  BY <1>1, <1>4, <1>5, <1>6
  DEF CallInv, LoopInv, Looping, Silent, Uncalled, AtHand, Bounded
<1>9. /\ \A q \in Runs : q # r =>
           dispatch'[q] = dispatch[q] /\ todo'[q] = todo[q] /\ calls'[q] = calls[q]
      /\ \A k \in 1 .. MaxHooks : calls[r][k] > 0 => calls'[r][k] > 0
  BY <1>1, <1>5 DEF TypeOK
<1> QED
  BY <1>6, <1>7, <1>8, <1>9 DEF DispatchFrame

\* The loop stops where it is.
LEMMA StopsLoop ==
    ASSUME IInv, NEW r \in Runs, dispatch[r] # "none", Stops(r), calls' = calls,
           UNCHANGED <<changes, runVars>>
    PROVE  DispatchFrame(r) /\ LoopTypes /\ CallInv(r)' /\ dispatch'[r] # "none"
<1>1. TypeOK /\ CallInv(r)
  BY DEF IInv
<1>2. todo'[r] = {} /\ dispatch'[r] = "stopped"
  BY <1>1 DEF Stops, TypeOK
<1>3. DispatchFrame(r) /\ LoopTypes
  BY <1>1 DEF Stops, TypeOK, DispatchFrame, LoopTypes, Dispatching
<1>4. CallInv(r)'
  BY <1>1, <1>2 DEF CallInv, LoopInv, Looping, Silent, Uncalled, AtHand, Bounded
<1> QED
  BY <1>2, <1>3, <1>4

\* The table as it is, or with the code of the hook at hand, is well formed.
LEMMA SameTable == ASSUME IInv, hooks' = hooks PROVE TableOK
  BY DEF IInv, TypeOK, TableOK

LEMMA CodeAtHand ==
    ASSUME IInv, NEW r \in Runs, dispatch[r] \in {"answered", "unanswered"},
           NEW code \in {"none", "some"}, hooks' = WithCode(Newest(todo[r]), code)
    PROVE  TableOK
<1> DEFINE n == Newest(todo[r])
<1>1. TypeOK /\ CallInv(r)
  BY DEF IInv
<1>2. todo[r] # {}
  BY <1>1 DEF CallInv, LoopInv, Looping
<1>3. n \in DOMAIN hooks
  BY <1>1, <1>2, NewestIsRow
<1>4. calls[r][n] > 0
  BY <1>1 DEF CallInv, AtHand
<1> HIDE DEF n
<1>5. hooks' = WithCode(n, code)
  BY DEF n
<1> QED
  BY <1>1, <1>3, <1>4, <1>5, WithCodeTable DEF TableOK

LEMMA DispatchStep ==
    ASSUME IInv, NEW r \in Runs, Dispatch(r), UNCHANGED changes
    PROVE  IInv'
<1>1. TypeOK /\ CallInv(r)
  BY DEF IInv
<1>2. CASE Read(r)
  <2>1. UNCHANGED <<hooks, runVars, calls>>
    BY <1>2 DEF Read
  <2>2. dispatch[r] = "reading" /\ todo' = [todo EXCEPT ![r] = ActiveByEvent(result[r])]
    BY <1>2 DEF Read
  <2>3. dispatch' = [dispatch EXCEPT ![r] = IF todo'[r] = {} THEN "over" ELSE "posting"]
    BY <1>2 DEF Read
  <2>4. dispatch'[r] = IF todo'[r] = {} THEN "over" ELSE "posting"
    BY <1>1, <2>3 DEF TypeOK
  <2>5. ActiveByEvent(result[r]) \in SUBSET DOMAIN hooks
    BY DEF ActiveByEvent
  <2>6. LoopTypes
    BY <1>1, <2>1, <2>2, <2>3, <2>5 DEF TypeOK, LoopTypes, Dispatching
  <2>7. DispatchFrame(r)
    BY <1>1, <2>1, <2>2, <2>3 DEF TypeOK, DispatchFrame
  <2>8. todo'[r] \in SUBSET (1 .. MaxHooks)
    <3>1. DOMAIN hooks \subseteq 1 .. MaxHooks
      BY <1>1, HookAssumption DEF TypeOK
    <3>2. todo'[r] \in SUBSET DOMAIN hooks
      BY <2>6 DEF LoopTypes
    <3> QED
      BY <3>1, <3>2
  <2>9. CallInv(r)'
    BY <1>1, <2>1, <2>2, <2>4, <2>8
    DEF CallInv, LoopInv, Looping, Silent, Uncalled, AtHand, Bounded
  <2> QED
    BY <2>1, <2>2, <2>4, <2>6, <2>7, <2>9, SameTable, DispatchKeeps
<1>3. CASE ReadFails(r)
  <2>1. dispatch[r] # "none" /\ Stops(r) /\ UNCHANGED <<hooks, runVars, calls>>
    BY <1>3 DEF ReadFails
  <2> QED
    BY <2>1, StopsLoop, SameTable, DispatchKeeps
<1>4. CASE Post(r)
  <2> DEFINE n == Newest(todo[r])
  <2>1. dispatch[r] = "posting" /\ UNCHANGED <<hooks, runVars, todo>>
    BY <1>4 DEF Post
  <2>2. PICK next \in {"answered", "unanswered"} : dispatch' = [dispatch EXCEPT ![r] = next]
    BY <1>4 DEF Post
  <2>3. n \in todo[r] /\ n \in 1 .. MaxHooks
    BY <1>1, <2>1, NewestIsRow DEF CallInv, LoopInv, Looping
  <2>4. calls' = [calls EXCEPT ![r][n] = calls[r][n] + 1]
    BY <1>4 DEF Post
  <2>5. calls[r][n] = 0
    BY <1>1, <2>1, <2>3 DEF CallInv, Uncalled
  <2> HIDE DEF n
  <2>6. calls' = [calls EXCEPT ![r] = [calls[r] EXCEPT ![n] = 1]]
    BY <2>4, <2>5
  <2>7. /\ dispatch'[r] = next
        /\ calls'[r][n] = 1
        /\ \A k \in 1 .. MaxHooks : k # n => calls'[r][k] = calls[r][k]
    BY <1>1, <2>2, <2>3, <2>6 DEF TypeOK
  <2>8. LoopTypes
    <3>1. [calls[r] EXCEPT ![n] = 1] \in [1 .. MaxHooks -> Nat]
      BY <1>1 DEF TypeOK
    <3> QED
      BY <1>1, <2>1, <2>2, <2>6, <3>1 DEF TypeOK, LoopTypes, Dispatching
  <2>9. DispatchFrame(r)
    BY <1>1, <2>1, <2>2, <2>6, <2>7 DEF TypeOK, DispatchFrame
  <2>10. todo[r] \in SUBSET (1 .. MaxHooks)
    <3>1. DOMAIN hooks \subseteq 1 .. MaxHooks
      BY <1>1, HookAssumption DEF TypeOK
    <3> QED
      BY <1>1, <3>1 DEF TypeOK
  <2>11. CallInv(r)'
    <3>1. n = Newest(todo'[r])
      BY <2>1 DEF n
    <3>2. LoopInv(r)' /\ Silent(r)' /\ AtHand(r)'
      BY <1>1, <2>1, <2>7, <3>1 DEF CallInv, LoopInv, Looping, Silent, AtHand
    <3>3. Uncalled(r)'
      BY <1>1, <2>1, <2>7, <2>10, <3>1 DEF CallInv, Uncalled, n
    <3>4. Bounded(r)'
      BY <1>1, <2>7 DEF CallInv, Bounded
    <3> QED
      BY <3>2, <3>3, <3>4 DEF CallInv
  <2> QED
    BY <2>1, <2>7, <2>8, <2>9, <2>11, SameTable, DispatchKeeps
<1>5. CASE Record(r)
  <2>1. dispatch[r] = "answered" /\ UNCHANGED <<runVars, calls>>
    BY <1>5 DEF Record
  <2>2. CASE hooks' = WithCode(Newest(todo[r]), "some") /\ Following(r)
    BY <2>1, <2>2, CodeAtHand, FollowingLoop, DispatchKeeps
  <2>3. CASE /\ hooks' \in {hooks, WithCode(Newest(todo[r]), "some")}
             /\ dispatch' = [dispatch EXCEPT ![r] = "unanswered"]
             /\ UNCHANGED todo
    <3>1. TableOK
      BY <2>1, <2>3, CodeAtHand, SameTable
    <3>2. dispatch'[r] = "unanswered"
      BY <1>1, <2>3 DEF TypeOK
    <3>3. LoopTypes /\ DispatchFrame(r)
      BY <1>1, <2>1, <2>3 DEF TypeOK, LoopTypes, DispatchFrame, Dispatching
    <3>4. CallInv(r)'
      BY <1>1, <2>1, <2>3, <3>2
      DEF CallInv, LoopInv, Looping, Silent, Uncalled, AtHand, Bounded
    <3> QED
      BY <2>1, <3>1, <3>2, <3>3, <3>4, DispatchKeeps
  <2> QED
    BY <1>5, <2>2, <2>3 DEF Record
<1>6. CASE RecordNone(r)
  <2>1. dispatch[r] = "unanswered" /\ UNCHANGED <<runVars, calls>>
    BY <1>6 DEF RecordNone
  <2>2. TableOK
    BY <1>6, <2>1, CodeAtHand, SameTable DEF RecordNone
  <2>3. CASE Following(r)
    BY <2>1, <2>2, <2>3, FollowingLoop, DispatchKeeps
  <2>4. CASE Stops(r)
    BY <2>1, <2>2, <2>4, StopsLoop, DispatchKeeps
  <2> QED
    BY <1>6, <2>3, <2>4 DEF RecordNone
<1> QED
  BY <1>2, <1>3, <1>4, <1>5, <1>6 DEF Dispatch

-----------------------------------------------------------------------------
\* The routes of webhooks.py add, change and delete rows; what is deleted has
\* no code, and no row moves.
LEMMA RoutesTable ==
    ASSUME TypeOK, Routes
    PROVE  /\ hooks' \in Seq(Row) /\ Len(hooks') <= MaxHooks /\ changes' \in 0 .. MaxChanges
           /\ DOMAIN hooks \subseteq DOMAIN hooks'
           /\ \A n \in DOMAIN hooks' :
                /\ hooks'[n].exists \/ hooks'[n] = Deleted
                /\ hooks'[n].code = "some" => n \in DOMAIN hooks /\ hooks[n].code = "some"
<1>1. /\ hooks \in Seq(Row) /\ DOMAIN hooks = 1 .. Len(hooks) /\ Len(hooks) \in Nat
      /\ Len(hooks) <= MaxHooks /\ \A n \in DOMAIN hooks : hooks[n].exists \/ hooks[n] = Deleted
  BY DEF TypeOK
<1>2. changes' \in 0 .. MaxChanges
  BY HookAssumption DEF Routes, CreateWebhook, UpdateWebhook, DeleteWebhook, Change, TypeOK
<1>3. CASE CreateWebhook
  <2>1. PICK wants \in SUBSET Statuses : hooks' = Append(hooks, NewRow(wants))
    BY <1>3 DEF CreateWebhook, Statuses
  <2>2. NewRow(wants) \in Row /\ NewRow(wants).exists /\ NewRow(wants).code = "none"
    BY DEF NewRow, Row
  <2> HIDE DEF NewRow
  <2>3. Len(hooks) < MaxHooks
    BY <1>3 DEF CreateWebhook
  <2>4. hooks' \in Seq(Row) /\ Len(hooks') = Len(hooks) + 1
    BY <1>1, <2>1, <2>2, AppendProperties
  <2>5. \A n \in 1 .. Len(hooks) : hooks'[n] = hooks[n]
    BY <1>1, <2>1, <2>2, AppendProperties
  <2>6. hooks'[Len(hooks) + 1] = NewRow(wants)
    BY <1>1, <2>1, <2>2, AppendProperties
  <2>7. DOMAIN hooks' = DOMAIN hooks \cup {Len(hooks) + 1}
    BY <1>1, <2>4
  <2>8. Len(hooks') <= MaxHooks
    BY <1>1, <2>3, <2>4, HookAssumption
  <2> QED
    BY <1>1, <1>2, <2>2, <2>4, <2>5, <2>6, <2>7, <2>8
<1>4. ASSUME NEW n \in DOMAIN hooks, NEW new \in Row, hooks' = [hooks EXCEPT ![n] = new],
             new.exists \/ new = Deleted, new.code \in {hooks[n].code, "none"}
      PROVE  /\ hooks' \in Seq(Row) /\ Len(hooks') <= MaxHooks
             /\ DOMAIN hooks \subseteq DOMAIN hooks'
             /\ \A k \in DOMAIN hooks' :
                  /\ hooks'[k].exists \/ hooks'[k] = Deleted
                  /\ hooks'[k].code = "some" => k \in DOMAIN hooks /\ hooks[k].code = "some"
  <2>1. hooks' \in Seq(Row) /\ Len(hooks') = Len(hooks)
    BY <1>1, <1>4, ExceptSeq
  <2>2. DOMAIN hooks' = DOMAIN hooks /\ \A k \in DOMAIN hooks : hooks'[k] = IF k = n THEN new ELSE hooks[k]
    BY <1>1, <1>4
  <2> QED
    BY <1>1, <1>4, <2>1, <2>2
<1>5. CASE UpdateWebhook
  <2>1. PICK n \in DOMAIN hooks, wanted \in SUBSET Statuses :
          hooks[n].exists /\ hooks' = [hooks EXCEPT ![n].wants = wanted]
    BY <1>5 DEF UpdateWebhook
  <2> DEFINE new == [hooks[n] EXCEPT !.wants = wanted]
  <2>2. hooks[n] \in Row
    BY <1>1
  <2>3. new \in Row /\ new.exists /\ new.code = hooks[n].code
    BY <2>1, <2>2 DEF Row
  <2>4. hooks' = [hooks EXCEPT ![n] = new]
    BY <2>1
  <2> HIDE DEF new
  <2> QED
    BY <1>2, <1>4, <2>3, <2>4
<1>6. CASE DeleteWebhook
  <2>1. PICK n \in DOMAIN hooks : hooks' = [hooks EXCEPT ![n] = Deleted]
    BY <1>6 DEF DeleteWebhook
  <2>2. Deleted \in Row /\ Deleted.code = "none"
    BY DEF Deleted, Row
  <2> QED
    BY <1>2, <1>4, <2>1, <2>2
<1> QED
  BY <1>3, <1>5, <1>6 DEF Routes

LEMMA RoutesStep ==
    ASSUME IInv, Routes, UNCHANGED <<runVars, dispatchVars>>
    PROVE  IInv'
<1> USE DEF runVars, dispatchVars
<1>1. TypeOK
  BY DEF IInv
<1>2. TypeOK'
  BY <1>1, RoutesTable DEF TypeOK
<1>3. ASSUME NEW r \in Runs PROVE HandlerInv(r)' /\ CallInv(r)'
  BY <1>1
  DEF IInv, HandlerInv, RowInv, Recorded, BeforeSaving, AfterSaving, Announced,
      CallInv, LoopInv, Looping, Silent, Uncalled, AtHand, Bounded
<1>4. CodeComesFromCall'
  BY <1>1, RoutesTable DEF IInv, CodeComesFromCall
<1> QED
  BY <1>2, <1>3, <1>4 DEF IInv

\* The process stops.
LEMMA CrashStep == ASSUME IInv, Crash PROVE IInv'
<1> USE DEF Crash, hookVars, Handling, Dispatching
<1>1. TypeOK
  BY DEF IInv
<1>2. TypeOK'
  BY <1>1 DEF TypeOK
<1>3. ASSUME NEW r \in Runs PROVE HandlerInv(r)' /\ CallInv(r)'
  <2>1. HandlerInv(r) /\ CallInv(r)
    BY DEF IInv
  <2>2. /\ at'[r] \in {at[r], "error"} /\ at'[r] \notin Handling
        /\ dispatch'[r] = IF dispatch[r] \in Dispatching THEN "stopped" ELSE dispatch[r]
        /\ todo'[r] = {}
        /\ UNCHANGED <<result, row, warned, calls>>
    BY <1>1 DEF TypeOK
  <2>3. HandlerInv(r)'
    BY <2>1, <2>2
    DEF HandlerInv, RowInv, Recorded, BeforeSaving, AfterSaving, Announced, Unsaved
  <2>4. CallInv(r)'
    BY <1>1, <2>1, <2>2
    DEF TypeOK, CallInv, LoopInv, Looping, Silent, Uncalled, AtHand, Bounded
  <2> QED
    BY <2>3, <2>4
<1>4. CodeComesFromCall'
  BY DEF IInv, CodeComesFromCall
<1> QED
  BY <1>2, <1>3, <1>4 DEF IInv

LEMMA Inductive == IInv /\ [Next]_vars => IInv'
<1> SUFFICES ASSUME IInv, [Next]_vars PROVE IInv'
  OBVIOUS
<1>1. ASSUME NEW r \in Runs, Handle(r), UNCHANGED hookVars PROVE IInv'
  BY <1>1, HandleStep
<1>2. ASSUME NEW r \in Runs, Dispatch(r), UNCHANGED changes PROVE IInv'
  BY <1>2, DispatchStep
<1>3. CASE Routes /\ UNCHANGED <<runVars, dispatchVars>>
  BY <1>3, RoutesStep
<1>4. CASE Crash
  BY <1>4, CrashStep
<1>5. CASE UNCHANGED vars
  BY <1>5
  DEF IInv, TypeOK, vars, hookVars, runVars, dispatchVars, CodeComesFromCall,
      HandlerInv, RowInv, Recorded, BeforeSaving, AfterSaving, Announced,
      CallInv, LoopInv, Looping, Silent, Uncalled, AtHand, Bounded
<1> QED
  BY <1>1, <1>2, <1>3, <1>4, <1>5 DEF Next

-----------------------------------------------------------------------------
\* The argument: the invariant above holds in every reachable state.
THEOREM Invariance == Spec => []IInv
<1>1. Init => IInv
  BY InitInv
<1>2. IInv /\ [Next]_vars => IInv'
  BY Inductive
<1> QED
  BY <1>1, <1>2, PTL DEF Spec

\* The variables keep their types: no dispatch is left with a hook to call that
\* is not a row of the table, whatever the routes do to it meanwhile.
THEOREM TypeCorrect == Spec => []TypeOK
<1>1. IInv => TypeOK
  BY DEF IInv
<1> QED
  BY <1>1, Invariance, PTL

\* Nobody is told of a result that the history has not or has differently,
\* unless the failure to persist it was logged (_persist_task).
THEOREM NewsMatchHistory == Spec => []NewsIsHistory
<1>1. IInv => NewsIsHistory
  <2> SUFFICES ASSUME IInv, NEW r \in Runs
               PROVE  /\ (\E n \in 1 .. MaxHooks : calls[r][n] > 0) => Recorded(r)
                      /\ row[r] \in {"none", result[r]}
    BY DEF NewsIsHistory, Recorded
  <2>1. HandlerInv(r) /\ CallInv(r)
    BY DEF IInv
  <2> QED
    BY <2>1 DEF HandlerInv, RowInv, Announced, CallInv, Silent
<1> QED
  BY <1>1, Invariance, PTL

\* A run that POST /agents/run has answered is in the history, unless the
\* failure was logged, and its webhooks have been started.
THEOREM AnswersAreRecorded == Spec => []AnsweredIsRecorded
<1>1. IInv => AnsweredIsRecorded
  BY DEF IInv, HandlerInv, RowInv, Recorded, AfterSaving, AnsweredIsRecorded
<1> QED
  BY <1>1, Invariance, PTL

\* _dispatch_webhooks calls a hook once at most for a run, with any number of
\* hooks, failures and changes of the table.
THEOREM CallsAreUnique == Spec => []CalledOnce
<1>1. IInv => CalledOnce
  BY DEF IInv, CallInv, Bounded, CalledOnce
<1> QED
  BY <1>1, Invariance, PTL

\* The last response code of a webhook is that of a call made to it.
THEOREM CodesAreReal == Spec => []CodeComesFromCall
<1>1. IInv => CodeComesFromCall
  BY DEF IInv
<1> QED
  BY <1>1, Invariance, PTL

\* A hook leaves the loop of _dispatch_webhooks after its call only, unless
\* the loop is stopped.
THEOREM HooksTakeTheirTurn == Spec => NoHookIsSkipped
<1> DEFINE Turn == \A r \in Runs : \A n \in todo[r] \ todo'[r] :
                     calls'[r][n] > 0 \/ dispatch'[r] = "stopped"
<1>1. ASSUME IInv, Next PROVE Turn
  <2> SUFFICES ASSUME NEW q \in Runs, NEW n \in todo[q] \ todo'[q]
               PROVE  calls'[q][n] > 0 \/ dispatch'[q] = "stopped"
    OBVIOUS
  <2>1. TypeOK /\ CallInv(q)
    BY <1>1 DEF IInv
  <2>2. ASSUME NEW r \in Runs, Handle(r) PROVE FALSE
    BY <2>2 DEF Handle, Start, Return, StreamEnds, NotConnected, Save, Schedule, Answer,
                Raises, dispatchVars
  <2>3. ASSUME NEW r \in Runs, Dispatch(r)
        PROVE  calls'[q][n] > 0 \/ dispatch'[q] = "stopped"
    <3>1. ~ Post(r)
      BY DEF Post
    <3>2. CASE Read(r)
      BY <2>1, <3>2 DEF Read, TypeOK, CallInv, LoopInv, Looping
    <3>3. CASE Stops(r)
      BY <2>1, <3>3 DEF Stops, TypeOK
    <3>4. CASE /\ dispatch[r] \in {"answered", "unanswered"} /\ Following(r) /\ calls' = calls
      <4>1. q = r /\ n = Newest(todo[r])
        BY <2>1, <3>4 DEF Following, TypeOK
      <4> QED
        BY <2>1, <3>4, <4>1 DEF CallInv, AtHand
    <3> QED
      BY <2>3, <3>1, <3>2, <3>3, <3>4 DEF Dispatch, ReadFails, Record, RecordNone
  <2>4. CASE Routes /\ UNCHANGED <<runVars, dispatchVars>>
    BY <2>4 DEF dispatchVars
  <2>5. CASE Crash
    BY <2>1, <2>5 DEF Crash, TypeOK, CallInv, LoopInv, Looping, Dispatching
  <2> QED
    BY <1>1, <2>2, <2>3, <2>4, <2>5 DEF Next
<1>2. IInv /\ [Next]_vars => [Turn]_vars
  BY <1>1
<1> QED
  BY <1>2, Invariance, PTL DEF Spec, NoHookIsSkipped
=============================================================================

-------------------------- MODULE AgentLoop_proofs --------------------------
(***************************************************************************)
(* Proofs about AgentLoop, for any runs, numbers of iterations and         *)
(* retries, and workspaces: types, the shape of the conversation, what a   *)
(* result says, the workspace of the tools, and the stream of events.      *)
(***************************************************************************)
EXTENDS AgentLoop, FiniteSetTheorems, TLAPS

-----------------------------------------------------------------------------
(* Sequences.                                                               *)

LEMMA LenNat ==
    ASSUME NEW S, NEW s \in Seq(S)
    PROVE  Len(s) \in Nat
  OBVIOUS

LEMMA AppendOne ==
    ASSUME NEW S, NEW s \in Seq(S), NEW e \in S
    PROVE  /\ Append(s, e) \in Seq(S) /\ Len(Append(s, e)) = Len(s) + 1 /\ Len(s) \in Nat
           /\ Append(s, e)[Len(s) + 1] = e
           /\ \A i \in 1 .. Len(s) : Append(s, e)[i] = s[i]
  OBVIOUS

LEMMA ConcatOne ==
    ASSUME NEW S, NEW s \in Seq(S), NEW a \in S
    PROVE  /\ s \o <<a>> \in Seq(S) /\ Len(s \o <<a>>) = Len(s) + 1 /\ Len(s) \in Nat
           /\ (s \o <<a>>)[Len(s) + 1] = a
           /\ \A i \in 1 .. Len(s) : (s \o <<a>>)[i] = s[i]
  OBVIOUS

LEMMA ConcatTwo ==
    ASSUME NEW S, NEW s \in Seq(S), NEW a \in S, NEW b \in S
    PROVE  /\ s \o <<a, b>> \in Seq(S) /\ Len(s \o <<a, b>>) = Len(s) + 2 /\ Len(s) \in Nat
           /\ (s \o <<a, b>>)[Len(s) + 1] = a /\ (s \o <<a, b>>)[Len(s) + 2] = b
           /\ \A i \in 1 .. Len(s) : (s \o <<a, b>>)[i] = s[i]
  OBVIOUS

LEMMA ConcatPair ==
    ASSUME NEW S, NEW s \in Seq(S), NEW a \in S, NEW b \in S
    PROVE  /\ s \o (<<a>> \o <<b>>) \in Seq(S)
           /\ Len(s \o (<<a>> \o <<b>>)) = Len(s) + 2 /\ Len(s) \in Nat
           /\ (s \o (<<a>> \o <<b>>))[Len(s) + 1] = a /\ (s \o (<<a>> \o <<b>>))[Len(s) + 2] = b
           /\ \A i \in 1 .. Len(s) : (s \o (<<a>> \o <<b>>))[i] = s[i]
  OBVIOUS

\* The conversation before the first reply.
LEMMA OpeningShape ==
    ASSUME NEW found
    PROVE  /\ Opening(found) \in Seq(Roles)
           /\ \/ /\ Len(Opening(found)) = 2
                 /\ Opening(found)[1] = "system" /\ Opening(found)[2] = "task"
              \/ /\ Len(Opening(found)) = 3
                 /\ Opening(found)[1] = "system" /\ Opening(found)[2] = "memory"
                 /\ Opening(found)[3] = "task"
<1>1. CASE found = {}
  <2>1. Opening(found) = <<"system", "task">>
    BY <1>1 DEF Opening
  <2>2. <<"system", "task">> \in Seq(Roles)
    BY DEF Roles
  <2> QED
    BY <2>1, <2>2
<1>2. CASE found # {}
  <2>1. Opening(found) = <<"system", "memory", "task">>
    BY <1>2 DEF Opening
  <2>2. <<"system", "memory", "task">> \in Seq(Roles)
    BY DEF Roles
  <2> QED
    BY <2>1, <2>2
<1> QED
  BY <1>1, <1>2

\* What a tool's result makes of the conversation.
LEMMA WithResultShape ==
    ASSUME NEW m \in Seq(Roles), Len(m) > 0
    PROVE  /\ WithResult(m) \in Seq(Roles) /\ Len(WithResult(m)) = Len(m) + 1 /\ Len(m) \in Nat
           /\ WithResult(m)[Len(m) + 1] = "result"
           /\ WithResult(m)[Len(m)] = IF m[Len(m)] = "call in prose" THEN "prose" ELSE m[Len(m)]
           /\ \A i \in 1 .. Len(m) - 1 : WithResult(m)[i] = m[i]
<1>1. "result" \in Roles /\ "prose" \in Roles
  BY DEF Roles, Assistant, ToolCalls
<1>2. Len(m) \in Nat /\ Len(m) \in 1 .. Len(m)
  OBVIOUS
<1>3. CASE m[Len(m)] = "call in prose"
  <2> DEFINE cut == [m EXCEPT ![Len(m)] = "prose"]
  <2>1. cut \in Seq(Roles) /\ Len(cut) = Len(m) /\ cut[Len(m)] = "prose"
        /\ \A i \in 1 .. Len(m) - 1 : cut[i] = m[i]
    BY <1>1, <1>2
  <2>2. WithResult(m) = Append(cut, "result")
    BY <1>3 DEF WithResult
  <2> HIDE DEF cut
  <2>3. /\ Append(cut, "result") \in Seq(Roles) /\ Len(Append(cut, "result")) = Len(cut) + 1
        /\ Append(cut, "result")[Len(cut) + 1] = "result"
        /\ \A i \in 1 .. Len(cut) : Append(cut, "result")[i] = cut[i]
    BY <1>1, <2>1, AppendOne
  <2>4. WithResult(m)[Len(m)] = "prose"
    BY <1>2, <2>1, <2>2, <2>3
  <2>5. \A i \in 1 .. Len(m) - 1 : WithResult(m)[i] = m[i]
    <3> TAKE i \in 1 .. Len(m) - 1
    <3>1. i \in 1 .. Len(cut)
      BY <1>2, <2>1
    <3> QED
      BY <2>1, <2>2, <2>3, <3>1
  <2> QED
    BY <1>2, <1>3, <2>1, <2>2, <2>3, <2>4, <2>5
<1>4. CASE m[Len(m)] # "call in prose"
  <2>1. WithResult(m) = Append(m, "result")
    BY <1>4 DEF WithResult
  <2>2. /\ Append(m, "result") \in Seq(Roles) /\ Len(Append(m, "result")) = Len(m) + 1
        /\ Append(m, "result")[Len(m) + 1] = "result"
        /\ \A i \in 1 .. Len(m) : Append(m, "result")[i] = m[i]
    BY <1>1, AppendOne
  <2>3. \A i \in 1 .. Len(m) - 1 : i \in 1 .. Len(m)
    BY <1>2
  <2> QED
    BY <1>2, <1>4, <2>1, <2>2, <2>3
<1> QED
  BY <1>3, <1>4

\* The last message.
LEMMA LastMessage ==
    ASSUME NEW S, NEW s \in Seq(S), Len(s) > 0
    PROVE  Last(s) = s[Len(s)] /\ Last(s) \in S /\ Len(s) \in 1 .. Len(s) /\ Len(s) \in Nat
<1>1. Len(s) \in 1 .. Len(s) /\ Len(s) \in Nat
  OBVIOUS
<1> QED
  BY <1>1 DEF Last

-----------------------------------------------------------------------------
(* Types, and what a step leaves alone.                                     *)

Acts(r) == Start(r) \/ InitializeRaises(r) \/ SecondInitializeRaises(r) \/ RunStep(r)

\* A step of run r leaves the other runs alone.
Frame(r) ==
    /\ recalling' = recalling
    /\ \A q \in Runs \ {r} :
          /\ at'[q] = at[q] /\ attempt'[q] = attempt[q] /\ messages'[q] = messages[q]
          /\ tokens'[q] = tokens[q] /\ ranIn'[q] = ranIn[q] /\ events'[q] = events[q]
          /\ outcome'[q] = outcome[q] /\ recalled'[q] = recalled[q]

\* There is a conversation as soon as there is anything to ask.
Begun(r) == at[r] \in {"asking", "backing off", "calling", "storing", "done"} => Len(messages[r]) > 0

LEMMA SentType ==
    ASSUME TypeOK, NEW r \in Runs, NEW es \in Seq(Kinds)
    PROVE  Sent(r, es) \in Seq(Kinds)
  BY DEF TypeOK, Sent

LEMMA DirTypes ==
    ASSUME TypeOK, NEW r \in Runs
    PROVE  WorkspaceSetBy(r) \in Dirs /\ Base \in Dirs
  BY DEF TypeOK, WorkspaceSetBy, Base, Dirs

LEMMA FinishTypes ==
    ASSUME TypeOK, NEW r \in Runs, NEW error \in Errors, NEW m \in Seq(Roles), Len(m) > 0,
           NEW es \in Seq(Kinds), at' = [at EXCEPT ![r] = AfterLoop(r)],
           outcome' = [outcome EXCEPT ![r] = [error |-> error, output |-> Last(m)]],
           events' = [events EXCEPT ![r] = Sent(r, es \o <<"done">>)]
    PROVE  /\ at' \in [Runs -> Places] /\ events' \in [Runs -> Seq(Kinds)]
           /\ outcome' \in [Runs -> [error : Errors, output : Roles \cup {"nothing"}]]
           /\ at'[r] \in {"storing", "done"} /\ events'[r] = Sent(r, es \o <<"done">>)
           /\ outcome'[r] = [error |-> error, output |-> m[Len(m)]] /\ outcome'[r].output # "nothing"
           /\ at'[r] = IF r \in recalling \ Streamed THEN "storing" ELSE "done"
           /\ \A q \in Runs \ {r} : at'[q] = at[q] /\ events'[q] = events[q] /\ outcome'[q] = outcome[q]
<1>1. AfterLoop(r) \in {"storing", "done"} /\ AfterLoop(r) \in Places
  BY DEF AfterLoop, Places
<1>2. es \o <<"done">> \in Seq(Kinds)
  BY ConcatOne DEF Kinds
<1>3. Sent(r, es \o <<"done">>) \in Seq(Kinds)
  BY <1>2, SentType
<1>4. Last(m) \in Roles /\ Last(m) = m[Len(m)]
  BY LastMessage
<1>5. "nothing" \notin Roles
  BY DEF Roles, Assistant, ToolCalls
<1> QED
  BY <1>1, <1>3, <1>4, <1>5 DEF TypeOK, AfterLoop

LEMMA BeginTypes ==
    ASSUME TypeOK, NEW r \in Runs, NEW found \in SUBSET Runs, Begin(r, found)
    PROVE  /\ at' \in [Runs -> Places] /\ messages' \in [Runs -> Seq(Roles)]
           /\ recalled' \in [Runs -> SUBSET Runs] /\ iteration' \in [Runs -> Nat]
           /\ events' \in [Runs -> Seq(Kinds)]
           /\ at'[r] = "asking" /\ messages'[r] = Opening(found) /\ recalled'[r] = found
           /\ events'[r] = Sent(r, <<"iteration">>) /\ Len(messages'[r]) > 0
           /\ UNCHANGED <<attempt, tokens, ranIn, outcome, recalling>>
           /\ Frame(r)
<1>1. Opening(found) \in Seq(Roles) /\ Len(Opening(found)) > 0
  BY OpeningShape
<1>2. <<"iteration">> \in Seq(Kinds) /\ "asking" \in Places
  BY DEF Kinds, Places
<1>3. Sent(r, <<"iteration">>) \in Seq(Kinds)
  BY <1>2, SentType
<1> QED
  BY <1>1, <1>2, <1>3 DEF Begin, TypeOK, Frame

\* Only what the action says: types, the frame, and that there is a conversation.
LEMMA ActTypes ==
    ASSUME TypeOK, NEW r \in Runs, Begun(r), Acts(r)
    PROVE  TypeOK' /\ Frame(r) /\ Begun(r)'
<1>0. /\ "recalling" \in Places /\ "cancelled" \in Places /\ "done" \in Places /\ "asking" \in Places
      /\ "calling" \in Places /\ "backing off" \in Places
  BY DEF Places
<1>a. /\ <<"tool_call">> \in Seq(Kinds) /\ <<"tool_result", "iteration">> \in Seq(Kinds)
      /\ <<"tool_result">> \in Seq(Kinds) /\ <<"error">> \in Seq(Kinds) /\ << >> \in Seq(Kinds)
  BY DEF Kinds
<1>b. ToolCalls \subseteq Roles /\ "answer" \in Roles
  BY DEF Roles, Assistant, ToolCalls
<1>c. /\ "none" \in Errors /\ "ollama" \in Errors /\ "max iterations" \in Errors
      /\ "not found" \in Errors /\ "unexpected" \in Errors
  BY DEF Errors
<1>d. WorkspaceSetBy(r) \in Dirs /\ Base \in Dirs
  BY DirTypes
<1>e. messages[r] \in Seq(Roles) /\ attempt[r] \in Nat /\ iteration[r] \in Nat /\ tokens[r] \in Nat
  BY DEF TypeOK
<1>f. Counted(r) \in [Runs -> Nat] /\ \A q \in Runs \ {r} : Counted(r)[q] = tokens[q]
  BY <1>e DEF Counted, TypeOK
<1>1. CASE Start(r)
  <2>1. CASE Begin(r, {})
    BY <1>d, <1>1, <2>1, BeginTypes DEF Start, TypeOK, Begun
  <2>2. CASE at' = [at EXCEPT ![r] = "recalling"] /\ UNCHANGED runVars
    BY <1>0, <1>d, <1>1, <2>2 DEF Start, TypeOK, Frame, Begun, runVars, ownVars
  <2> QED
    BY <1>1, <2>1, <2>2 DEF Start
<1>2. CASE InitializeRaises(r)
  BY <1>0, <1>2 DEF InitializeRaises, TypeOK, Frame, Begun, runVars, ownVars, sharedVars
<1>3. CASE SecondInitializeRaises(r)
  BY <1>0, <1>d, <1>3 DEF SecondInitializeRaises, TypeOK, Frame, Begun, runVars, ownVars
<1>4. CASE Recall(r)
  <2>1. PICK found \in SUBSET memory : Begin(r, found)
    BY <1>4 DEF Recall, Search
  <2>2. found \in SUBSET Runs
    BY DEF TypeOK
  <2> QED
    BY <1>4, <2>1, <2>2, BeginTypes DEF Recall, sharedVars, TypeOK, Begun
<1>5. CASE Store(r)
  <2>1. memory' \subseteq Runs
    BY <1>5 DEF Store, Upsert, TypeOK
  <2> QED
    BY <1>0, <1>5, <2>1 DEF Store, TypeOK, Frame, Begun, runVars, ownVars
<1>6. CASE \E reply \in ToolCalls : Call(r, reply)
  <2>1. PICK reply \in ToolCalls : Call(r, reply)
    BY <1>6
  <2>2. Append(messages[r], reply) \in Seq(Roles) /\ Len(Append(messages[r], reply)) > 0
    <3>1. reply \in Roles
      BY <1>b
    <3> QED
      BY <1>e, <3>1, AppendOne
  <2>3. Sent(r, <<"tool_call">>) \in Seq(Kinds)
    BY <1>a, SentType
  <2>4. messages' = [messages EXCEPT ![r] = Append(messages[r], reply)]
    BY <2>1 DEF Call
  <2> QED
    BY <1>0, <1>d, <1>f, <2>1, <2>2, <2>3, <2>4 DEF Call, TypeOK, Frame, Begun, ownVars, sharedVars
<1>7. CASE Answer(r)
  <2>1. Append(messages[r], "answer") \in Seq(Roles) /\ Len(Append(messages[r], "answer")) > 0
    BY <1>b, <1>e, AppendOne
  <2>2. messages' = [messages EXCEPT ![r] = Append(messages[r], "answer")]
        /\ messages'[r] = Append(messages[r], "answer")
    BY <1>7 DEF Answer, TypeOK
  <2>3. /\ at' = [at EXCEPT ![r] = AfterLoop(r)]
        /\ outcome' = [outcome EXCEPT ![r] = [error |-> "none", output |-> Last(Append(messages[r], "answer"))]]
        /\ events' = [events EXCEPT ![r] = Sent(r, << >> \o <<"done">>)]
    BY <1>7, <2>2 DEF Answer, Finish
  <2>4. /\ at' \in [Runs -> Places] /\ events' \in [Runs -> Seq(Kinds)]
        /\ outcome' \in [Runs -> [error : Errors, output : Roles \cup {"nothing"}]]
        /\ \A q \in Runs \ {r} : at'[q] = at[q] /\ events'[q] = events[q] /\ outcome'[q] = outcome[q]
    BY <1>a, <1>c, <2>1, <2>3, FinishTypes
  <2>5. tokens' = Counted(r) /\ UNCHANGED <<iteration, attempt, ranIn, recalling, recalled, memory, workspace>>
    BY <1>7 DEF Answer, ownVars, sharedVars
  <2> QED
    BY <1>f, <2>1, <2>2, <2>4, <2>5 DEF TypeOK, Frame, Begun
<1>8. CASE ToolReturns(r)
  <2>0. at[r] = "calling" /\ Len(messages[r]) > 0
        /\ UNCHANGED <<tokens, ranIn, recalling, recalled, memory, workspace>>
    BY <1>8 DEF ToolReturns, Begun, ownVars, sharedVars
  <2>1. WithResult(messages[r]) \in Seq(Roles) /\ Len(WithResult(messages[r])) > 0
    <3>1. WithResult(messages[r]) \in Seq(Roles)
      BY <1>e, <2>0, WithResultShape, Zenon
    <3>2. Len(WithResult(messages[r])) = Len(messages[r]) + 1 /\ Len(messages[r]) \in Nat
      BY <1>e, <2>0, WithResultShape, Zenon
    <3> QED
      BY <3>1, <3>2
  <2>2. messages' = [messages EXCEPT ![r] = WithResult(messages[r])]
        /\ messages'[r] = WithResult(messages[r])
    BY <1>8 DEF ToolReturns, TypeOK
  <2>3. CASE /\ at' = [at EXCEPT ![r] = "asking"]
             /\ iteration' = [iteration EXCEPT ![r] = @ + 1]
             /\ attempt' = [attempt EXCEPT ![r] = 0]
             /\ events' = [events EXCEPT ![r] = Sent(r, <<"tool_result", "iteration">>)]
             /\ UNCHANGED outcome
    <3>1. Sent(r, <<"tool_result", "iteration">>) \in Seq(Kinds)
      BY <1>a, SentType
    <3>2. iteration' \in [Runs -> Nat] /\ attempt' \in [Runs -> Nat]
          /\ \A q \in Runs \ {r} : attempt'[q] = attempt[q]
      BY <1>e, <2>3 DEF TypeOK
    <3>3. at' \in [Runs -> Places] /\ events' \in [Runs -> Seq(Kinds)]
          /\ \A q \in Runs \ {r} : at'[q] = at[q] /\ events'[q] = events[q]
      BY <1>0, <2>3, <3>1 DEF TypeOK
    <3> QED
      BY <2>0, <2>1, <2>2, <2>3, <3>2, <3>3 DEF TypeOK, Frame, Begun
  <2>4. CASE Finish(r, "max iterations", messages'[r], <<"tool_result">>) /\ UNCHANGED <<iteration, attempt>>
    <3>1. /\ at' = [at EXCEPT ![r] = AfterLoop(r)]
          /\ outcome' = [outcome EXCEPT ![r] =
                            [error |-> "max iterations", output |-> Last(WithResult(messages[r]))]]
          /\ events' = [events EXCEPT ![r] = Sent(r, <<"tool_result">> \o <<"done">>)]
      BY <2>2, <2>4 DEF Finish
    <3>2. /\ at' \in [Runs -> Places] /\ events' \in [Runs -> Seq(Kinds)]
          /\ outcome' \in [Runs -> [error : Errors, output : Roles \cup {"nothing"}]]
          /\ \A q \in Runs \ {r} : at'[q] = at[q] /\ events'[q] = events[q] /\ outcome'[q] = outcome[q]
      BY <1>a, <1>c, <2>1, <3>1, FinishTypes
    <3> QED
      BY <2>0, <2>1, <2>2, <2>4, <3>2 DEF TypeOK, Frame, Begun
  <2> QED
    BY <1>8, <2>3, <2>4 DEF ToolReturns
<1>9. CASE RequestFails(r)
  <2>0. at[r] = "asking" /\ attempt' = [attempt EXCEPT ![r] = attempt[r] + 1]
        /\ UNCHANGED <<iteration, messages, tokens, ranIn, recalling, recalled, memory, workspace>>
    BY <1>9 DEF RequestFails, ownVars, sharedVars
  <2>1. attempt' \in [Runs -> Nat] /\ \A q \in Runs \ {r} : attempt'[q] = attempt[q]
    BY <1>e, <2>0 DEF TypeOK
  <2>2. CASE at' = [at EXCEPT ![r] = "backing off"] /\ UNCHANGED <<outcome, events>>
    BY <1>0, <2>0, <2>1, <2>2 DEF TypeOK, Frame, Begun
  <2>3. CASE Finish(r, "ollama", messages[r], <<"error">>)
    <3>1. Len(messages[r]) > 0
      BY <2>0 DEF Begun
    <3>2. /\ at' = [at EXCEPT ![r] = AfterLoop(r)]
          /\ outcome' = [outcome EXCEPT ![r] = [error |-> "ollama", output |-> Last(messages[r])]]
          /\ events' = [events EXCEPT ![r] = Sent(r, <<"error">> \o <<"done">>)]
      BY <2>3 DEF Finish
    <3>3. /\ at' \in [Runs -> Places] /\ events' \in [Runs -> Seq(Kinds)]
          /\ outcome' \in [Runs -> [error : Errors, output : Roles \cup {"nothing"}]]
          /\ \A q \in Runs \ {r} : at'[q] = at[q] /\ events'[q] = events[q] /\ outcome'[q] = outcome[q]
      BY <1>a, <1>c, <1>e, <3>1, <3>2, FinishTypes
    <3> QED
      BY <2>0, <2>1, <3>1, <3>3 DEF TypeOK, Frame, Begun
  <2> QED
    BY <1>9, <2>2, <2>3 DEF RequestFails
<1>10. CASE BackOffEnds(r)
  BY <1>0, <1>10 DEF BackOffEnds, TypeOK, Frame, Begun, runVars, ownVars, sharedVars
<1>11. CASE \E error \in {"not found", "unexpected"} : RequestBreaks(r, error)
  <2>1. PICK error \in {"not found", "unexpected"} : RequestBreaks(r, error)
    BY <1>11
  <2>2. Len(messages[r]) > 0
        /\ UNCHANGED <<iteration, attempt, messages, tokens, ranIn, recalling, recalled, memory, workspace>>
    BY <2>1 DEF RequestBreaks, Begun, ownVars, sharedVars
  <2>3. /\ at' = [at EXCEPT ![r] = AfterLoop(r)]
        /\ outcome' = [outcome EXCEPT ![r] = [error |-> error, output |-> Last(messages[r])]]
        /\ events' = [events EXCEPT ![r] = Sent(r, <<"error">> \o <<"done">>)]
    BY <2>1 DEF RequestBreaks, Finish
  <2>4. error \in Errors
    BY <1>c
  <2>5. /\ at' \in [Runs -> Places] /\ events' \in [Runs -> Seq(Kinds)]
        /\ outcome' \in [Runs -> [error : Errors, output : Roles \cup {"nothing"}]]
        /\ \A q \in Runs \ {r} : at'[q] = at[q] /\ events'[q] = events[q] /\ outcome'[q] = outcome[q]
    BY <1>a, <1>e, <2>2, <2>3, <2>4, FinishTypes
  <2> QED
    BY <2>2, <2>5 DEF TypeOK, Frame, Begun
<1>12. CASE Cancel(r)
  BY <1>0, <1>12 DEF Cancel, TypeOK, Frame, Begun, runVars, ownVars, sharedVars
<1> QED
  BY <1>1, <1>2, <1>3, <1>4, <1>5, <1>6, <1>7, <1>8, <1>9, <1>10, <1>11, <1>12 DEF Acts, RunStep, OwnStep

LEMMA InitTypes == Init => TypeOK /\ \A r \in Runs : Begun(r)
<1> SUFFICES ASSUME Init PROVE TypeOK /\ \A r \in Runs : Begun(r)
  OBVIOUS
<1>1. /\ << >> \in Seq(Roles) /\ << >> \in Seq(Kinds) /\ "new" \in Places /\ NoDir \in Dirs
      /\ "none" \in Errors
  BY DEF Places, Dirs, Errors
<1>2. outcome \in [Runs -> [error : Errors, output : Roles \cup {"nothing"}]]
  BY <1>1 DEF Init
<1> QED
  BY <1>1, <1>2 DEF Init, TypeOK, Begun

\* A state in which something holds of the shared state and of each run.
Typed == TypeOK /\ \A r \in Runs : Begun(r)

LEMMA StepTypes ==
    ASSUME Typed, [Next]_vars
    PROVE  Typed'
<1>1. CASE UNCHANGED vars
  BY <1>1 DEF Typed, TypeOK, Begun, vars, runVars, ownVars, sharedVars
<1>2. CASE Next
  <2>1. CASE AllOver
    BY <1>1, <2>1 DEF AllOver
  <2>2. CASE \E r \in Runs : Acts(r)
    <3>1. PICK r \in Runs : Acts(r)
      BY <2>2
    <3>2. TypeOK' /\ Frame(r) /\ Begun(r)'
      BY <3>1, ActTypes DEF Typed
    <3>3. \A q \in Runs : Begun(q)'
      <4> TAKE q \in Runs
      <4>1. CASE q = r
        BY <3>2, <4>1
      <4>2. CASE q # r
        BY <3>2, <4>2 DEF Frame, Typed, Begun
      <4> QED
        BY <4>1, <4>2
    <3> QED
      BY <3>2, <3>3 DEF Typed
  <2> QED
    BY <1>2, <2>1, <2>2 DEF Next, Acts
<1> QED
  BY <1>1, <1>2

LEMMA TypedAlways == Spec => []Typed
<1>1. Init => Typed
  BY InitTypes DEF Typed
<1>2. Typed /\ [Next]_vars => Typed'
  BY StepTypes
<1> QED
  BY <1>1, <1>2, PTL DEF Spec

\* Every variable keeps its type.
THEOREM TypeCorrect == Spec => []TypeOK
<1>1. Typed => TypeOK
  BY DEF Typed
<1> QED
  BY <1>1, TypedAlways, PTL
-----------------------------------------------------------------------------
(* What the actions do to their run, value by value.                        *)

\* The wait of run r ends, or its next one begins.
Moves(r) ==
    /\ \/ at[r] = "new" /\ at'[r] \in {"recalling", "cancelled"}
       \/ /\ at[r] \in {"recalling", "asking", "backing off", "calling", "storing"}
          /\ at'[r] = "cancelled"
       \/ at[r] = "backing off" /\ at'[r] = "asking"
       \/ at[r] = "storing" /\ at'[r] = "done"
    /\ messages'[r] = messages[r] /\ tokens'[r] = tokens[r] /\ attempt'[r] = attempt[r]
    /\ outcome'[r] = outcome[r] /\ events'[r] = events[r] /\ recalled'[r] = recalled[r]
    /\ ranIn'[r] = ranIn[r]

Opens(r) ==
    /\ at[r] \in {"new", "recalling"} /\ at'[r] = "asking"
    /\ \E found \in SUBSET memory : messages'[r] = Opening(found) /\ recalled'[r] = found
    /\ events'[r] = Sent(r, <<"iteration">>)
    /\ tokens'[r] = tokens[r] /\ attempt'[r] = attempt[r] /\ outcome'[r] = outcome[r]

Calls(r) ==
    /\ at[r] = "asking" /\ at'[r] = "calling"
    /\ \E reply \in ToolCalls : messages'[r] = Append(messages[r], reply)
    /\ r \notin Streamed => tokens'[r] = tokens[r] + 1
    /\ events'[r] = Sent(r, <<"tool_call">>)
    /\ ranIn'[r] = workspace
    /\ attempt'[r] = attempt[r] /\ outcome'[r] = outcome[r] /\ recalled'[r] = recalled[r]

Returns(r) ==
    /\ at[r] = "calling" /\ at'[r] = "asking"
    /\ messages'[r] = WithResult(messages[r])
    /\ events'[r] = Sent(r, <<"tool_result", "iteration">>)
    /\ tokens'[r] = tokens[r] /\ outcome'[r] = outcome[r] /\ recalled'[r] = recalled[r]

BacksOff(r) ==
    /\ at[r] = "asking" /\ at'[r] = "backing off" /\ r \notin Streamed
    /\ messages'[r] = messages[r] /\ tokens'[r] = tokens[r] /\ outcome'[r] = outcome[r]
    /\ events'[r] = events[r] /\ recalled'[r] = recalled[r]

\* The run has its result.
Ends(r, error) ==
    /\ at'[r] = AfterLoop(r) /\ at'[r] \in {"storing", "done"}
    /\ outcome'[r].error = error /\ outcome'[r].output = messages'[r][Len(messages'[r])]
    /\ outcome'[r].output # "nothing"
    /\ recalled'[r] = recalled[r]

Concludes(r) ==
    \/ /\ at[r] = "asking" /\ Ends(r, "none") /\ events'[r] = Sent(r, <<"done">>)
       /\ messages'[r] = Append(messages[r], "answer")
       /\ r \notin Streamed => tokens'[r] = tokens[r] + 1
    \/ /\ at[r] = "calling" /\ Ends(r, "max iterations") /\ events'[r] = Sent(r, <<"tool_result">> \o <<"done">>)
       /\ messages'[r] = WithResult(messages[r]) /\ tokens'[r] = tokens[r]
    \/ /\ at[r] = "asking" /\ r \notin Streamed /\ Ends(r, "ollama") /\ attempt'[r] = MaxRetries + 1
       /\ messages'[r] = messages[r] /\ tokens'[r] = tokens[r]
    \/ /\ at[r] = "asking" /\ \E error \in {"not found", "unexpected"} : Ends(r, error)
       /\ events'[r] = Sent(r, <<"error">> \o <<"done">>)
       /\ messages'[r] = messages[r] /\ tokens'[r] = tokens[r]

LEMMA Effects ==
    ASSUME Typed, NEW r \in Runs, Acts(r)
    PROVE  /\ Moves(r) \/ Opens(r) \/ Calls(r) \/ Returns(r) \/ BacksOff(r) \/ Concludes(r)
           /\ \/ workspace' = workspace /\ (at[r] = "new" => at'[r] = "cancelled")
              \/ at[r] = "new" /\ workspace' = WorkspaceSetBy(r)
           /\ memory' = memory \/ (at[r] = "storing" /\ at'[r] = "done" /\ memory' = memory \cup {r})
<1>0. TypeOK /\ Begun(r) /\ messages[r] \in Seq(Roles) /\ attempt[r] \in Nat /\ tokens[r] \in Nat
  BY DEF Typed, TypeOK
<1>a. << >> \o <<"done">> = <<"done">>
  OBVIOUS
<1>b. <<"tool_result">> \in Seq(Kinds) /\ <<"error">> \in Seq(Kinds) /\ << >> \in Seq(Kinds)
  BY DEF Kinds
<1>c. /\ "none" \in Errors /\ "ollama" \in Errors /\ "max iterations" \in Errors
      /\ "not found" \in Errors /\ "unexpected" \in Errors
  BY DEF Errors
<1>d. r \notin Streamed => Counted(r)[r] = tokens[r] + 1
  BY <1>0 DEF Counted, TypeOK
<1>e. ASSUME NEW error \in Errors, NEW m \in Seq(Roles), Len(m) > 0, NEW es \in Seq(Kinds),
             messages'[r] = m, recalled' = recalled, Finish(r, error, m, es)
      PROVE  Ends(r, error) /\ events'[r] = Sent(r, es \o <<"done">>)
  <2>1. /\ at' = [at EXCEPT ![r] = AfterLoop(r)]
        /\ outcome' = [outcome EXCEPT ![r] = [error |-> error, output |-> Last(m)]]
        /\ events' = [events EXCEPT ![r] = Sent(r, es \o <<"done">>)]
    BY <1>e DEF Finish
  <2>2. /\ at'[r] \in {"storing", "done"} /\ events'[r] = Sent(r, es \o <<"done">>)
        /\ outcome'[r] = [error |-> error, output |-> m[Len(m)]] /\ outcome'[r].output # "nothing"
    <3>1. at'[r] \in {"storing", "done"}
      BY <1>0, <1>e, <2>1, FinishTypes
    <3>2. events'[r] = Sent(r, es \o <<"done">>)
      BY <1>0, <2>1 DEF TypeOK
    <3>3. outcome'[r] = [error |-> error, output |-> Last(m)]
      BY <1>0, <2>1 DEF TypeOK
    <3>4. Last(m) = m[Len(m)] /\ Last(m) \in Roles
      BY <1>e, LastMessage
    <3>5. "nothing" \notin Roles
      BY DEF Roles, Assistant, ToolCalls
    <3> QED
      BY <3>1, <3>2, <3>3, <3>4, <3>5
  <2>3. at'[r] = AfterLoop(r)
    BY <1>0, <2>1 DEF TypeOK
  <2> QED
    BY <1>e, <2>2, <2>3 DEF Ends
<1>1. CASE Start(r)
  <2>1. at[r] = "new" /\ workspace' = WorkspaceSetBy(r) /\ UNCHANGED memory
    BY <1>1 DEF Start
  <2>2. CASE Begin(r, {})
    <3>1. /\ at'[r] = "asking" /\ messages'[r] = Opening({}) /\ recalled'[r] = {}
          /\ events'[r] = Sent(r, <<"iteration">>) /\ UNCHANGED <<attempt, tokens, ranIn, outcome, recalling>>
      BY <1>0, <2>2, BeginTypes
    <3> QED
      BY <2>1, <3>1 DEF Opens
  <2>3. CASE at' = [at EXCEPT ![r] = "recalling"] /\ UNCHANGED runVars
    BY <1>0, <2>1, <2>3 DEF TypeOK, Moves, runVars, ownVars
  <2> QED
    BY <1>1, <2>2, <2>3 DEF Start
<1>2. CASE InitializeRaises(r)
  BY <1>0, <1>2 DEF InitializeRaises, TypeOK, Moves, runVars, ownVars, sharedVars
<1>3. CASE SecondInitializeRaises(r)
  BY <1>0, <1>3 DEF SecondInitializeRaises, TypeOK, Moves, runVars, ownVars
<1>4. CASE Recall(r)
  <2>1. PICK found \in SUBSET memory : Begin(r, found)
    BY <1>4 DEF Recall, Search
  <2>2. found \in SUBSET Runs
    BY <1>0 DEF TypeOK
  <2>3. /\ at'[r] = "asking" /\ messages'[r] = Opening(found) /\ recalled'[r] = found
        /\ events'[r] = Sent(r, <<"iteration">>) /\ UNCHANGED <<attempt, tokens, ranIn, outcome, recalling>>
    BY <1>0, <2>1, <2>2, BeginTypes
  <2>4. at[r] = "recalling" /\ UNCHANGED <<memory, workspace>>
    BY <1>4 DEF Recall, sharedVars
  <2> QED
    BY <2>3, <2>4 DEF Opens
<1>5. CASE Store(r)
  BY <1>0, <1>5 DEF Store, Upsert, TypeOK, Moves, runVars, ownVars
<1>6. CASE \E reply \in ToolCalls : Call(r, reply)
  <2>1. PICK reply \in ToolCalls : Call(r, reply)
    BY <1>6
  <2>2. /\ at[r] = "asking" /\ at'[r] = "calling" /\ messages'[r] = Append(messages[r], reply)
        /\ tokens' = Counted(r) /\ events'[r] = Sent(r, <<"tool_call">>) /\ ranIn'[r] = workspace
        /\ UNCHANGED <<attempt, outcome, recalled, memory, workspace>>
    BY <1>0, <2>1 DEF Call, Base, TypeOK, ownVars, sharedVars
  <2> QED
    BY <1>d, <2>2 DEF Calls
<1>7. CASE Answer(r)
  <2>1. Append(messages[r], "answer") \in Seq(Roles) /\ Len(Append(messages[r], "answer")) > 0
    <3>1. "answer" \in Roles
      BY DEF Roles, Assistant
    <3> QED
      BY <1>0, <3>1, AppendOne
  <2>2. /\ at[r] = "asking" /\ messages'[r] = Append(messages[r], "answer") /\ tokens' = Counted(r)
        /\ UNCHANGED <<recalled, memory, workspace>>
    BY <1>0, <1>7 DEF Answer, TypeOK, ownVars, sharedVars
  <2>3. Finish(r, "none", Append(messages[r], "answer"), << >>)
    BY <1>7, <2>2 DEF Answer
  <2>4. Ends(r, "none") /\ events'[r] = Sent(r, << >> \o <<"done">>)
    BY <1>b, <1>c, <1>e, <2>1, <2>2, <2>3
  <2> QED
    BY <1>a, <1>d, <2>2, <2>4 DEF Concludes
<1>8. CASE ToolReturns(r)
  <2>0. /\ at[r] = "calling" /\ Len(messages[r]) > 0 /\ messages'[r] = WithResult(messages[r])
        /\ UNCHANGED <<tokens, recalled, memory, workspace>>
    BY <1>0, <1>8 DEF ToolReturns, Begun, TypeOK, ownVars, sharedVars
  <2>1. WithResult(messages[r]) \in Seq(Roles) /\ Len(WithResult(messages[r])) > 0
    <3>1. WithResult(messages[r]) \in Seq(Roles)
      BY <1>0, <2>0, WithResultShape, Zenon
    <3>2. Len(WithResult(messages[r])) = Len(messages[r]) + 1 /\ Len(messages[r]) \in Nat
      BY <1>0, <2>0, WithResultShape, Zenon
    <3> QED
      BY <3>1, <3>2
  <2>3. CASE /\ at' = [at EXCEPT ![r] = "asking"]
             /\ events' = [events EXCEPT ![r] = Sent(r, <<"tool_result", "iteration">>)]
             /\ UNCHANGED outcome
    BY <1>0, <2>0, <2>3 DEF TypeOK, Returns
  <2>4. CASE Finish(r, "max iterations", messages'[r], <<"tool_result">>)
    <3>1. Finish(r, "max iterations", WithResult(messages[r]), <<"tool_result">>)
      BY <2>0, <2>4
    <3>2. Ends(r, "max iterations") /\ events'[r] = Sent(r, <<"tool_result">> \o <<"done">>)
      BY <1>b, <1>c, <1>e, <2>0, <2>1, <3>1
    <3> QED
      BY <1>a, <2>0, <3>2 DEF Concludes
  <2> QED
    BY <1>8, <2>3, <2>4 DEF ToolReturns
<1>9. CASE RequestFails(r)
  <2>0. /\ at[r] = "asking" /\ r \notin Streamed /\ attempt'[r] = attempt[r] + 1 /\ Len(messages[r]) > 0
        /\ UNCHANGED <<messages, tokens, recalled, memory, workspace>>
    BY <1>0, <1>9 DEF RequestFails, Begun, TypeOK, ownVars, sharedVars
  <2>2. CASE at' = [at EXCEPT ![r] = "backing off"] /\ UNCHANGED <<outcome, events>>
    BY <1>0, <2>0, <2>2 DEF TypeOK, BacksOff
  <2>3. CASE attempt[r] = MaxRetries /\ Finish(r, "ollama", messages[r], <<"error">>)
    <3>1. Ends(r, "ollama")
      BY <1>0, <1>b, <1>c, <1>e, <2>0, <2>3
    <3> QED
      BY <2>0, <2>3, <3>1 DEF Concludes
  <2> QED
    BY <1>9, <2>2, <2>3 DEF RequestFails
<1>10. CASE BackOffEnds(r)
  BY <1>0, <1>10 DEF BackOffEnds, TypeOK, Moves, runVars, ownVars, sharedVars
<1>11. CASE \E error \in {"not found", "unexpected"} : RequestBreaks(r, error)
  <2>1. PICK error \in {"not found", "unexpected"} : RequestBreaks(r, error)
    BY <1>11
  <2>2. /\ at[r] = "asking" /\ Len(messages[r]) > 0 /\ Finish(r, error, messages[r], <<"error">>)
        /\ UNCHANGED <<messages, tokens, recalled, memory, workspace>>
    BY <1>0, <2>1 DEF RequestBreaks, Begun, ownVars, sharedVars
  <2>3. Ends(r, error) /\ events'[r] = Sent(r, <<"error">> \o <<"done">>)
    BY <1>0, <1>b, <1>c, <1>e, <2>2
  <2> QED
    BY <1>a, <2>2, <2>3 DEF Concludes
<1>12. CASE Cancel(r)
  BY <1>0, <1>12 DEF Cancel, TypeOK, Moves, runVars, ownVars, sharedVars
<1> QED
  BY <1>1, <1>2, <1>3, <1>4, <1>5, <1>6, <1>7, <1>8, <1>9, <1>10, <1>11, <1>12 DEF Acts, RunStep, OwnStep
-----------------------------------------------------------------------------
(* The dialogue.                                                            *)

\* After the task, replies and results take turns.
Alternates(m) ==
    \E k \in 2 .. 3 :
        /\ k <= Len(m) /\ m[k] = "task"
        /\ \A i \in k + 1 .. Len(m) : IF (i - k) % 2 = 1 THEN m[i] \in Assistant ELSE m[i] = "result"

\* None of the first n messages holds a tool call amid its text.
Tidy(m, n) == \A i \in 1 .. n : m[i] # "call in prose"

LEMMA Parity ==
    ASSUME NEW d \in Nat
    PROVE  (d % 2 = 1) <=> ((d + 1) % 2 # 1)
  OBVIOUS

LEMMA OpeningAlternates ==
    ASSUME NEW found, NEW m, m = Opening(found)
    PROVE  Alternates(m) /\ Tidy(m, Len(m)) /\ m[Len(m)] = "task" /\ Len(m) > 0
<1>1. CASE Len(m) = 2 /\ m[1] = "system" /\ m[2] = "task"
  <2>1. 2 \in 2 .. 3 /\ 2 + 1 .. Len(m) = {} /\ 2 <= Len(m) /\ m[2] = "task"
    BY <1>1
  <2>2. Alternates(m)
    BY <2>1 DEF Alternates
  <2>3. \A i \in 1 .. Len(m) : i = 1 \/ i = 2
    BY <1>1
  <2>4. Tidy(m, Len(m))
    BY <1>1, <2>3 DEF Tidy
  <2> QED
    BY <1>1, <2>2, <2>4
<1>2. CASE Len(m) = 3 /\ m[1] = "system" /\ m[2] = "memory" /\ m[3] = "task"
  <2>1. 3 \in 2 .. 3 /\ 3 + 1 .. Len(m) = {} /\ 3 <= Len(m) /\ m[3] = "task"
    BY <1>2
  <2>2. Alternates(m)
    BY <2>1 DEF Alternates
  <2>3. \A i \in 1 .. Len(m) : i = 1 \/ i = 2 \/ i = 3
    BY <1>2
  <2>4. Tidy(m, Len(m))
    BY <1>2, <2>3 DEF Tidy
  <2> QED
    BY <1>2, <2>2, <2>4
<1> QED
  BY <1>1, <1>2, OpeningShape

\* What one message more makes of it.
LEMMA OneMoreAlternates ==
    ASSUME NEW m \in Seq(Roles), NEW w \in Seq(Roles), Len(w) = Len(m) + 1, Alternates(m),
           \A i \in 1 .. Len(m) : w[i] = m[i] \/ (m[i] \in Assistant /\ w[i] \in Assistant),
           \/ m[Len(m)] \in {"task", "result"} /\ w[Len(m) + 1] \in Assistant
           \/ m[Len(m)] \in Assistant /\ w[Len(m) + 1] = "result"
    PROVE  Alternates(w)
<1>1. PICK k \in 2 .. 3 :
          /\ k <= Len(m) /\ m[k] = "task"
          /\ \A i \in k + 1 .. Len(m) : IF (i - k) % 2 = 1 THEN m[i] \in Assistant ELSE m[i] = "result"
  BY DEF Alternates
<1>2. "task" \notin Assistant /\ "result" \notin Assistant
  BY DEF Assistant, ToolCalls
<1>3. Len(m) \in Nat /\ k \in 1 .. Len(m) /\ k <= Len(w) /\ k \in Nat
  BY <1>1
<1>4. w[k] = "task"
  BY <1>1, <1>2, <1>3
<1>5. \A i \in k + 1 .. Len(w) : IF (i - k) % 2 = 1 THEN w[i] \in Assistant ELSE w[i] = "result"
  <2> TAKE i \in k + 1 .. Len(w)
  <2>1. CASE i \in k + 1 .. Len(m)
    <3>1. i \in 1 .. Len(m)
      BY <1>3, <2>1
    <3> QED
      BY <1>1, <1>2, <2>1, <3>1
  <2>2. CASE i = Len(m) + 1
    <3>1. CASE k = Len(m)
      <4>1. (i - k) % 2 = 1
        BY <1>3, <2>2, <3>1
      <4> QED
        BY <1>1, <1>2, <2>2, <3>1, <4>1
    <3>2. CASE k # Len(m)
      <4>1. Len(m) \in k + 1 .. Len(m) /\ Len(m) - k \in Nat
        BY <1>3, <3>2
      <4>2. i - k = (Len(m) - k) + 1
        BY <1>3, <2>2
      <4>3. ((Len(m) - k) % 2 = 1) <=> ((i - k) % 2 # 1)
        BY <4>1, <4>2, Parity
      <4>4. CASE (Len(m) - k) % 2 = 1
        BY <1>1, <1>2, <2>2, <4>1, <4>3, <4>4
      <4>5. CASE (Len(m) - k) % 2 # 1
        <5>1. m[Len(m)] = "result"
          BY <1>1, <4>1, <4>5
        <5> QED
          BY <1>2, <2>2, <4>3, <4>5, <5>1
      <4> QED
        BY <4>4, <4>5
    <3> QED
      BY <3>1, <3>2
  <2> QED
    BY <1>3, <2>1, <2>2
<1> QED
  BY <1>1, <1>3, <1>4, <1>5 DEF Alternates

LEMMA ReplyAlternates ==
    ASSUME NEW m \in Seq(Roles), NEW reply \in Assistant, NEW w, w = Append(m, reply),
           Alternates(m), Tidy(m, Len(m)), m[Len(m)] \in {"task", "result"}
    PROVE  Alternates(w) /\ Tidy(w, Len(w) - 1) /\ w[Len(w)] = reply /\ Len(w) > 0
<1>1. reply \in Roles
  BY DEF Roles
<1>2. /\ w \in Seq(Roles) /\ Len(w) = Len(m) + 1 /\ Len(m) \in Nat /\ w[Len(m) + 1] = reply
      /\ \A i \in 1 .. Len(m) : w[i] = m[i]
  BY <1>1, AppendOne
<1>3. Alternates(w)
  BY <1>2, OneMoreAlternates
<1>4. Len(w) - 1 = Len(m) /\ Len(w) > 0 /\ w[Len(w)] = reply
  BY <1>2
<1>5. Tidy(w, Len(m))
  BY <1>2 DEF Tidy
<1> QED
  BY <1>3, <1>4, <1>5

LEMMA ResultAlternates ==
    ASSUME NEW m \in Seq(Roles), Len(m) > 0, NEW w, w = WithResult(m),
           Alternates(m), Tidy(m, Len(m) - 1), m[Len(m)] \in ToolCalls
    PROVE  Alternates(w) /\ Tidy(w, Len(w)) /\ w[Len(w)] = "result" /\ Len(w) > 0
<1>1. w \in Seq(Roles) /\ Len(w) = Len(m) + 1 /\ Len(m) \in Nat
  BY WithResultShape
<1>2. /\ w[Len(m) + 1] = "result"
      /\ w[Len(m)] = IF m[Len(m)] = "call in prose" THEN "prose" ELSE m[Len(m)]
  BY WithResultShape
<1>3. \A i \in 1 .. Len(m) - 1 : w[i] = m[i]
  BY WithResultShape
<1>4. m[Len(m)] \in Assistant /\ w[Len(m)] \in Assistant /\ w[Len(m)] # "call in prose"
  BY <1>2 DEF Assistant, ToolCalls
<1>5. \A i \in 1 .. Len(m) : i \in 1 .. Len(m) - 1 \/ i = Len(m)
  BY <1>1
<1>6. \A i \in 1 .. Len(m) : w[i] = m[i] \/ (m[i] \in Assistant /\ w[i] \in Assistant)
  BY <1>3, <1>4, <1>5
<1>7. Alternates(w)
  BY <1>1, <1>2, <1>4, <1>6, OneMoreAlternates
<1>8. Tidy(w, Len(w))
  <2> SUFFICES ASSUME NEW i \in 1 .. Len(w) PROVE w[i] # "call in prose"
    BY DEF Tidy
  <2>1. i \in 1 .. Len(m) - 1 \/ i = Len(m) \/ i = Len(m) + 1
    BY <1>1
  <2> QED
    BY <1>2, <1>3, <1>4, <2>1 DEF Tidy
<1>9. w[Len(w)] = "result" /\ Len(w) > 0
  <2>1. Len(w) = Len(m) + 1 /\ Len(m) \in Nat /\ w[Len(m) + 1] = "result"
    BY <1>1, <1>2
  <2>2. Len(w) > 0
    BY ONLY <2>1
  <2>3. w[Len(w)] = "result"
    BY ONLY <2>1, Zenon
  <2> QED
    BY <2>2, <2>3
<1> QED
  BY <1>7, <1>8, <1>9

\* The conversation of one run.
Dialogue(r) ==
    /\ at[r] \in {"new", "recalling"} => messages[r] = << >>
    /\ Len(messages[r]) > 0 =>
          /\ Alternates(messages[r])
          /\ Tidy(messages[r], Len(messages[r]) - 1)
          /\ messages[r][Len(messages[r])] = "call in prose" => at[r] \in {"calling", "cancelled"}
    /\ at[r] \in {"asking", "backing off"} => messages[r][Len(messages[r])] \in {"task", "result"}
    /\ at[r] = "calling" => messages[r][Len(messages[r])] \in ToolCalls

LEMMA TidyAll ==
    ASSUME NEW m \in Seq(Roles), Tidy(m, Len(m) - 1), m[Len(m)] # "call in prose"
    PROVE  Tidy(m, Len(m))
<1>1. \A i \in 1 .. Len(m) : i \in 1 .. Len(m) - 1 \/ i = Len(m)
  <2>1. Len(m) \in Nat
    BY LenNat
  <2> QED
    BY ONLY <2>1
<1> QED
  BY <1>1 DEF Tidy

LEMMA TidyLess ==
    ASSUME NEW m \in Seq(Roles), Tidy(m, Len(m))
    PROVE  Tidy(m, Len(m) - 1)
<1>1. \A i \in 1 .. Len(m) - 1 : i \in 1 .. Len(m)
  OBVIOUS
<1> QED
  BY <1>1 DEF Tidy

LEMMA DialogueKept ==
    ASSUME Typed, Typed', NEW r \in Runs, Dialogue(r), Acts(r)
    PROVE  Dialogue(r)'
<1>1. messages[r] \in Seq(Roles) /\ messages'[r] \in Seq(Roles) /\ Begun(r)
  BY DEF Typed, TypeOK
<1>2. CASE Moves(r)
  BY <1>2 DEF Moves, Dialogue
<1>3. CASE Opens(r)
  <2>1. PICK found \in SUBSET memory : messages'[r] = Opening(found)
    BY <1>3 DEF Opens
  <2>2. Alternates(messages'[r]) /\ Tidy(messages'[r], Len(messages'[r]))
        /\ messages'[r][Len(messages'[r])] = "task"
    BY <2>1, OpeningAlternates
  <2>3. Tidy(messages'[r], Len(messages'[r]) - 1)
    BY <1>1, <2>2, TidyLess
  <2>4. at'[r] = "asking"
    BY <1>3 DEF Opens
  <2> QED
    BY <2>2, <2>3, <2>4 DEF Dialogue
<1>4. ASSUME at[r] \in {"asking", "backing off"}
      PROVE  /\ Len(messages[r]) > 0 /\ Alternates(messages[r]) /\ Tidy(messages[r], Len(messages[r]))
             /\ messages[r][Len(messages[r])] \in {"task", "result"}
  <2>1. Len(messages[r]) > 0 /\ messages[r][Len(messages[r])] \in {"task", "result"}
    BY <1>1, <1>4 DEF Begun, Dialogue
  <2>2. Alternates(messages[r]) /\ Tidy(messages[r], Len(messages[r]) - 1)
    BY <2>1 DEF Dialogue
  <2>3. messages[r][Len(messages[r])] # "call in prose"
    BY <2>1
  <2>4. Tidy(messages[r], Len(messages[r]))
    BY <1>1, <2>2, <2>3, TidyAll
  <2> QED
    BY <2>1, <2>2, <2>4
<1>5. ASSUME at[r] = "calling", messages'[r] = WithResult(messages[r])
      PROVE  /\ Alternates(messages'[r]) /\ Tidy(messages'[r], Len(messages'[r]) - 1)
             /\ messages'[r][Len(messages'[r])] = "result"
  <2>1. Len(messages[r]) > 0 /\ messages[r][Len(messages[r])] \in ToolCalls
    BY <1>1, <1>5 DEF Begun, Dialogue
  <2>2. Alternates(messages[r]) /\ Tidy(messages[r], Len(messages[r]) - 1)
    BY <2>1 DEF Dialogue
  <2>3. Alternates(messages'[r]) /\ Tidy(messages'[r], Len(messages'[r]))
        /\ messages'[r][Len(messages'[r])] = "result"
    BY ONLY <1>1, <1>5, <2>1, <2>2, ResultAlternates
  <2> QED
    BY <1>1, <2>3, TidyLess
<1>6. CASE Calls(r)
  <2>1. PICK reply \in ToolCalls : messages'[r] = Append(messages[r], reply)
    BY <1>6 DEF Calls
  <2>2. at[r] = "asking" /\ at'[r] = "calling" /\ reply \in Assistant
    BY <1>6 DEF Calls, Assistant
  <2>3. Alternates(messages'[r]) /\ Tidy(messages'[r], Len(messages'[r]) - 1)
        /\ messages'[r][Len(messages'[r])] = reply
    BY <1>1, <1>4, <2>1, <2>2, ReplyAlternates
  <2> QED
    BY <2>2, <2>3 DEF Dialogue
<1>7. CASE Returns(r)
  BY <1>5, <1>7 DEF Returns, Dialogue
<1>8. CASE BacksOff(r)
  BY <1>4, <1>8 DEF BacksOff, Dialogue
<1>9. CASE Concludes(r)
  <2>0. at'[r] \in {"storing", "done"}
    BY <1>9 DEF Concludes, Ends
  <2>1. CASE at[r] = "asking" /\ messages'[r] = Append(messages[r], "answer")
    <3>1. "answer" \in Assistant
      BY DEF Assistant
    <3>2. Alternates(messages'[r]) /\ Tidy(messages'[r], Len(messages'[r]) - 1)
          /\ messages'[r][Len(messages'[r])] = "answer"
      BY <1>1, <1>4, <2>1, <3>1, ReplyAlternates
    <3> QED
      BY <2>0, <3>2 DEF Dialogue
  <2>2. CASE at[r] = "calling" /\ messages'[r] = WithResult(messages[r])
    BY <1>5, <2>0, <2>2 DEF Dialogue
  <2>3. CASE at[r] = "asking" /\ messages'[r] = messages[r]
    BY <1>4, <2>0, <2>3 DEF Dialogue
  <2> QED
    BY <1>9, <2>1, <2>2, <2>3 DEF Concludes
<1> QED
  BY <1>2, <1>3, <1>6, <1>7, <1>8, <1>9, Effects

\* A step is a step of one run, and leaves the others alone.
LEMMA StepOfOne ==
    ASSUME Typed, [Next]_vars
    PROVE  UNCHANGED vars \/ \E r \in Runs : Acts(r) /\ Frame(r)
<1>1. CASE Next
  <2>1. CASE AllOver
    BY <2>1 DEF AllOver
  <2>2. CASE \E r \in Runs : Acts(r)
    <3>1. PICK r \in Runs : Acts(r)
      BY <2>2
    <3>2. TypeOK /\ Begun(r)
      BY DEF Typed
    <3>3. Frame(r)
      BY <3>1, <3>2, ActTypes
    <3> QED
      BY <3>1, <3>3
  <2> QED
    BY <1>1, <2>1, <2>2 DEF Next, Acts
<1> QED
  BY <1>1

LEMMA DialoguesKept ==
    ASSUME Typed, Typed', \A r \in Runs : Dialogue(r), [Next]_vars
    PROVE  \A r \in Runs : Dialogue(r)'
<1>1. CASE UNCHANGED vars
  BY <1>1 DEF Dialogue, vars, runVars
<1>2. ASSUME NEW r \in Runs, Acts(r), Frame(r)
      PROVE  \A q \in Runs : Dialogue(q)'
  <2> TAKE q \in Runs
  <2>1. CASE q = r
    BY <1>2, <2>1, DialogueKept
  <2>2. CASE q # r
    BY <1>2, <2>2, ZenonT(40) DEF Frame, Dialogue
  <2> QED
    BY <2>1, <2>2
<1> QED
  BY <1>1, <1>2, StepOfOne

Dialogues == \A r \in Runs : Dialogue(r)

LEMMA DialoguesAlways == Spec => [](Typed /\ Dialogues)
<1>1. Init => Typed /\ Dialogues
  <2> SUFFICES ASSUME Init PROVE Typed /\ Dialogues
    OBVIOUS
  <2>1. Typed
    BY InitTypes DEF Typed
  <2>2. \A r \in Runs : at[r] = "new" /\ messages[r] = << >> /\ ~(Len(messages[r]) > 0)
    BY DEF Init
  <2> QED
    BY <2>1, <2>2 DEF Dialogues, Dialogue
<1>2. Typed /\ Dialogues /\ [Next]_vars => (Typed /\ Dialogues)'
  BY StepTypes, DialoguesKept DEF Dialogues
<1> QED
  BY <1>1, <1>2, PTL DEF Spec

\* What the model is sent alternates between replies and results, and only the
\* latest reply may still hold a tool call amid its text.
THEOREM DialogueIsKept == Spec => []DialogueAlternates
<1>1. Typed /\ Dialogues => DialogueAlternates
  <2> SUFFICES ASSUME Typed, Dialogues, NEW r \in Runs, Len(messages[r]) > 0
               PROVE  /\ Alternates(messages[r])
                      /\ \A i \in 1 .. Len(messages[r]) :
                            messages[r][i] = "call in prose" =>
                                i = Len(messages[r]) /\ at[r] \in {"calling", "cancelled"}
                      /\ at[r] \in {"asking", "backing off"} =>
                            messages[r][Len(messages[r])] \in {"task", "result"}
    BY DEF DialogueAlternates, Alternates
  <2>1. Dialogue(r) /\ messages[r] \in Seq(Roles)
    BY DEF Dialogues, Typed, TypeOK
  <2>2. \A i \in 1 .. Len(messages[r]) : i \in 1 .. Len(messages[r]) - 1 \/ i = Len(messages[r])
    BY <2>1
  <2> QED
    BY <2>1, <2>2 DEF Dialogue, Tidy
<1> QED
  BY <1>1, DialoguesAlways, PTL
-----------------------------------------------------------------------------
(* The workspace.                                                           *)

\* A run that is under way has set its workspace, and nothing unsets it.
Placed(r) ==
    Workspace[r] # NoDir =>
        /\ at[r] \notin {"new", "cancelled"} => workspace # NoDir
        /\ at[r] = "calling" => ranIn[r] # NoDir

LEMMA PlacedKept ==
    ASSUME Typed, \A r \in Runs : Placed(r), [Next]_vars
    PROVE  \A r \in Runs : Placed(r)'
<1>1. CASE UNCHANGED vars
  BY <1>1 DEF Placed, vars, runVars, sharedVars
<1>2. ASSUME NEW r \in Runs, Acts(r), Frame(r)
      PROVE  \A q \in Runs : Placed(q)'
  <2>1. workspace # NoDir => workspace' # NoDir
    <3>1. workspace' = workspace \/ workspace' = WorkspaceSetBy(r)
      BY <1>2, Effects
    <3> QED
      BY <3>1 DEF WorkspaceSetBy
  <2>2. Placed(r)'
    <3> SUFFICES ASSUME Workspace[r] # NoDir
                 PROVE  /\ at'[r] \notin {"new", "cancelled"} => workspace' # NoDir
                        /\ at'[r] = "calling" => ranIn'[r] # NoDir
      BY DEF Placed
    <3>1. CASE at[r] = "new"
      <4>1. at'[r] = "cancelled" \/ workspace' = WorkspaceSetBy(r)
        BY <1>2, <3>1, Effects
      <4>2. at'[r] # "calling"
        BY <1>2, <3>1, Effects DEF Moves, Opens, Calls, Returns, BacksOff, Concludes, Ends
      <4> QED
        BY <4>1, <4>2 DEF WorkspaceSetBy
    <3>2. CASE at[r] # "new"
      <4>1. at[r] # "cancelled"
        BY <1>2, <3>2, Effects DEF Moves, Opens, Calls, Returns, BacksOff, Concludes, Ends
      <4>2. workspace # NoDir
        BY <3>2, <4>1 DEF Placed
      <4>3. at'[r] = "calling" => ranIn'[r] = workspace
        BY <1>2, <3>2, Effects DEF Moves, Opens, Calls, Returns, BacksOff, Concludes, Ends
      <4> QED
        BY <2>1, <4>2, <4>3
    <3> QED
      BY <3>1, <3>2
  <2> TAKE q \in Runs
  <2>3. CASE q = r
    BY <2>2, <2>3
  <2>4. CASE q # r
    BY <1>2, <2>1, <2>4 DEF Frame, Placed
  <2> QED
    BY <2>3, <2>4
<1> QED
  BY <1>1, <1>2, StepOfOne

AllPlaced == \A r \in Runs : Placed(r)

\* A tool of a run with a workspace never starts in the data directory.
THEOREM ToolsStayInWorkspaces == Spec => []NeverOutsideWorkspaces
<1>1. Init => AllPlaced
  BY DEF Init, AllPlaced, Placed
<1>2. Typed /\ AllPlaced /\ [Next]_vars => AllPlaced'
  BY PlacedKept DEF AllPlaced
<1>3. AllPlaced => NeverOutsideWorkspaces
  BY DEF AllPlaced, Placed, NeverOutsideWorkspaces
<1> QED
  BY <1>1, <1>2, <1>3, TypedAlways, PTL DEF Spec

-----------------------------------------------------------------------------
(* The stream.                                                              *)

\* The conjuncts of StreamIsComplete about the sequence itself.
OnlyLastIsDone(e)  == \A i \in 1 .. Len(e) : e[i] = "done" => i = Len(e)
CallsHaveResult(e) == \A i \in 1 .. Len(e) - 1 : e[i] = "tool_call" <=> e[i + 1] = "tool_result"

\* The events of one streamed run.
Stream(r) ==
    /\ OnlyLastIsDone(events[r]) /\ CallsHaveResult(events[r])
    /\ at[r] \in {"new", "recalling"} => Len(events[r]) = 0
    /\ at[r] = "asking" => Len(events[r]) > 0 /\ events[r][Len(events[r])] = "iteration"
    /\ at[r] = "calling" => Len(events[r]) > 0 /\ events[r][Len(events[r])] = "tool_call"
    /\ at[r] \notin {"backing off", "storing"}
    /\ at[r] = "done" => Len(events[r]) > 0 /\ events[r][Len(events[r])] = "done"
    /\ Len(events[r]) > 0 /\ events[r][Len(events[r])] = "done" =>
          (outcome[r].error \in {"not found", "unexpected"} <=> events[r][Len(events[r]) - 1] = "error")

LEMMA OneEventMore ==
    ASSUME NEW e \in Seq(Kinds), NEW f \in Seq(Kinds), NEW b \in Kinds,
           OnlyLastIsDone(e), CallsHaveResult(e), Len(f) = Len(e) + 1, f[Len(e) + 1] = b,
           \A i \in 1 .. Len(e) : f[i] = e[i],
           Len(e) > 0 => e[Len(e)] # "done" /\ (e[Len(e)] = "tool_call" <=> b = "tool_result")
    PROVE  OnlyLastIsDone(f) /\ CallsHaveResult(f)
<1>1. Len(e) \in Nat
  BY LenNat
<1>2. ASSUME NEW i \in 1 .. Len(f), f[i] = "done"
      PROVE  i = Len(f)
  <2>1. CASE i \in 1 .. Len(e)
    BY <1>1, <1>2, <2>1 DEF OnlyLastIsDone
  <2>2. CASE i = Len(e) + 1
    BY <2>2
  <2> QED
    BY <1>1, <2>1, <2>2
<1>3. ASSUME NEW i \in 1 .. Len(f) - 1
      PROVE  f[i] = "tool_call" <=> f[i + 1] = "tool_result"
  <2>1. i \in 1 .. Len(e) /\ f[i] = e[i]
    BY <1>1
  <2>2. CASE i = Len(e)
    BY <1>1, <2>1, <2>2
  <2>3. CASE i # Len(e)
    <3>1. i \in 1 .. Len(e) - 1 /\ i + 1 \in 1 .. Len(e)
      BY <1>1, <2>1, <2>3
    <3>2. f[i + 1] = e[i + 1]
      BY <3>1
    <3> QED
      BY <2>1, <3>1, <3>2 DEF CallsHaveResult
  <2> QED
    BY <2>2, <2>3
<1> QED
  BY <1>2, <1>3 DEF OnlyLastIsDone, CallsHaveResult

\* A sequence as it should be, that ends with b.
EndsWith(f, b) == Len(f) > 0 /\ f[Len(f)] = b /\ OnlyLastIsDone(f) /\ CallsHaveResult(f)

\* One event more.
LEMMA StreamOne ==
    ASSUME NEW e \in Seq(Kinds), NEW b \in Kinds, NEW f, f = e \o <<b>>,
           OnlyLastIsDone(e), CallsHaveResult(e),
           Len(e) > 0 => e[Len(e)] # "done" /\ (e[Len(e)] = "tool_call" <=> b = "tool_result")
    PROVE  EndsWith(f, b) /\ (Len(e) > 0 => f[Len(f) - 1] = e[Len(e)])
<1>1. /\ f \in Seq(Kinds) /\ Len(f) = Len(e) + 1 /\ f[Len(e) + 1] = b
      /\ \A i \in 1 .. Len(e) : f[i] = e[i]
  BY ConcatOne
<1>2. OnlyLastIsDone(f) /\ CallsHaveResult(f)
  BY <1>1, OneEventMore
<1>3. Len(e) \in Nat /\ Len(f) = Len(e) + 1 /\ f[Len(e) + 1] = b
  BY <1>1, LenNat
<1>4. Len(f) > 0 /\ Len(f) - 1 = Len(e) /\ (Len(e) > 0 => Len(e) \in 1 .. Len(e))
  BY ONLY <1>3
<1>5. f[Len(f)] = b /\ (Len(e) > 0 => f[Len(f) - 1] = e[Len(e)])
  <2>1. f[Len(f)] = b
    BY ONLY <1>3, Zenon
  <2>2. Len(e) > 0 => f[Len(f) - 1] = e[Len(e)]
    BY <1>1, <1>4, Zenon
  <2> QED
    BY <2>1, <2>2
<1> QED
  BY <1>2, <1>4, <1>5 DEF EndsWith

\* Two events more.
LEMMA StreamTwo ==
    ASSUME NEW e \in Seq(Kinds), NEW a \in Kinds, NEW b \in Kinds, NEW f,
           f = e \o <<a, b>> \/ f = e \o (<<a>> \o <<b>>),
           OnlyLastIsDone(e), CallsHaveResult(e),
           Len(e) > 0 => e[Len(e)] # "done" /\ (e[Len(e)] = "tool_call" <=> a = "tool_result"),
           a # "done", a # "tool_call", b # "tool_result"
    PROVE  EndsWith(f, b) /\ f[Len(f) - 1] = a
<1> DEFINE g == e \o <<a>>
<1>1. /\ g \in Seq(Kinds) /\ Len(g) = Len(e) + 1 /\ g[Len(e) + 1] = a
      /\ \A i \in 1 .. Len(e) : g[i] = e[i]
      /\ OnlyLastIsDone(g) /\ CallsHaveResult(g)
  <2>1. g = e \o <<a>>
    OBVIOUS
  <2> HIDE DEF g
  <2>2. /\ g \in Seq(Kinds) /\ Len(g) = Len(e) + 1 /\ g[Len(e) + 1] = a
        /\ \A i \in 1 .. Len(e) : g[i] = e[i]
    BY <2>1, ConcatOne
  <2>3. EndsWith(g, a)
    BY <2>1, StreamOne, Zenon
  <2> QED
    BY <2>2, <2>3 DEF EndsWith
<1>2. /\ Len(f) = Len(e) + 2 /\ f[Len(e) + 1] = a /\ f[Len(e) + 2] = b
      /\ \A i \in 1 .. Len(e) : f[i] = e[i]
      /\ f \in Seq(Kinds)
  <2>1. CASE f = e \o <<a, b>>
    BY ONLY <2>1, e \in Seq(Kinds), a \in Kinds, b \in Kinds, ConcatTwo
  <2>2. CASE f = e \o (<<a>> \o <<b>>)
    BY ONLY <2>2, e \in Seq(Kinds), a \in Kinds, b \in Kinds, ConcatPair
  <2> QED
    BY <2>1, <2>2
<1> HIDE DEF g
<1>3. Len(e) \in Nat /\ Len(f) = Len(g) + 1 /\ f[Len(g) + 1] = b /\ g[Len(g)] = a
  BY <1>1, <1>2, LenNat
<1>4. \A i \in 1 .. Len(g) : f[i] = g[i]
  <2> TAKE i \in 1 .. Len(g)
  <2>1. i \in 1 .. Len(e) \/ i = Len(e) + 1
    BY <1>1, <1>3
  <2> QED
    BY <1>1, <1>2, <2>1
<1>5. OnlyLastIsDone(f) /\ CallsHaveResult(f)
  BY <1>1, <1>2, <1>3, <1>4, OneEventMore
<1>6. Len(e) \in Nat /\ Len(f) = Len(e) + 2 /\ f[Len(e) + 1] = a /\ f[Len(e) + 2] = b
  BY <1>2, <1>3
<1>7. Len(f) > 0 /\ Len(f) - 1 = Len(e) + 1
  BY ONLY <1>6
<1>8. f[Len(f)] = b /\ f[Len(f) - 1] = a
  BY ONLY <1>6, <1>7, Zenon
<1> QED
  BY <1>5, <1>7, <1>8 DEF EndsWith

LEMMA StreamKept ==
    ASSUME Typed, NEW r \in Streamed, Stream(r), Acts(r)
    PROVE  Stream(r)'
<1> DEFINE e == events[r]
           f == events'[r]
<1>1. r \in Runs /\ e \in Seq(Kinds) /\ Len(e) \in Nat
  BY LenNat, LoopAssumption DEF Typed, TypeOK
<1>2. "iteration" \in Kinds /\ "tool_call" \in Kinds /\ "tool_result" \in Kinds /\ "error" \in Kinds /\ "done" \in Kinds
  BY DEF Kinds
<1>3. OnlyLastIsDone(e) /\ CallsHaveResult(e)
  BY DEF Stream
<1>4. \A es : Sent(r, es) = e \o es
  BY DEF Sent
<1>5. AfterLoop(r) = "done"
  BY DEF AfterLoop
<1>6. /\ at[r] \in {"new", "recalling"} => Len(e) = 0
      /\ at[r] = "asking" => Len(e) > 0 /\ e[Len(e)] = "iteration"
      /\ at[r] = "calling" => Len(e) > 0 /\ e[Len(e)] = "tool_call"
  BY DEF Stream
<1>7. SUFFICES
        /\ OnlyLastIsDone(f) /\ CallsHaveResult(f)
        /\ at'[r] \in {"new", "recalling"} => Len(f) = 0
        /\ at'[r] = "asking" => Len(f) > 0 /\ f[Len(f)] = "iteration"
        /\ at'[r] = "calling" => Len(f) > 0 /\ f[Len(f)] = "tool_call"
        /\ at'[r] \notin {"backing off", "storing"}
        /\ at'[r] = "done" => Len(f) > 0 /\ f[Len(f)] = "done"
        /\ Len(f) > 0 /\ f[Len(f)] = "done" =>
              (outcome'[r].error \in {"not found", "unexpected"} <=> f[Len(f) - 1] = "error")
  BY DEF Stream
<1>8. CASE Moves(r)
  BY <1>8 DEF Moves, Stream
<1> HIDE DEF e, f
<1>9. CASE Opens(r)
  <2>1. f = e \o <<"iteration">> /\ at[r] \in {"new", "recalling"} /\ at'[r] = "asking"
    BY <1>4, <1>9 DEF Opens, f
  <2>2. /\ e \in Seq(Kinds) /\ "iteration" \in Kinds /\ OnlyLastIsDone(e) /\ CallsHaveResult(e)
        /\ Len(e) > 0 => e[Len(e)] # "done" /\ (e[Len(e)] = "tool_call" <=> "iteration" = "tool_result")
    BY <1>1, <1>2, <1>3, <1>6, <2>1
  <2>3. EndsWith(f, "iteration")
    BY ONLY <2>1, <2>2, StreamOne
  <2> QED
    BY <2>1, <2>3 DEF EndsWith
<1>10. CASE Calls(r)
  <2>1. f = e \o <<"tool_call">> /\ at[r] = "asking" /\ at'[r] = "calling"
    BY <1>4, <1>10 DEF Calls, f
  <2>2. /\ e \in Seq(Kinds) /\ "tool_call" \in Kinds /\ OnlyLastIsDone(e) /\ CallsHaveResult(e)
        /\ Len(e) > 0 => e[Len(e)] # "done" /\ (e[Len(e)] = "tool_call" <=> "tool_call" = "tool_result")
    BY <1>1, <1>2, <1>3, <1>6, <2>1
  <2>3. EndsWith(f, "tool_call")
    BY ONLY <2>1, <2>2, StreamOne
  <2> QED
    BY <2>1, <2>3 DEF EndsWith
<1>11. ASSUME at[r] = "calling"
       PROVE  /\ e \in Seq(Kinds) /\ OnlyLastIsDone(e) /\ CallsHaveResult(e)
              /\ "tool_result" \in Kinds /\ "iteration" \in Kinds /\ "done" \in Kinds
              /\ Len(e) > 0 => e[Len(e)] # "done" /\ (e[Len(e)] = "tool_call" <=> "tool_result" = "tool_result")
  BY <1>1, <1>2, <1>3, <1>6, <1>11
<1>12. CASE Returns(r)
  <2>1. f = e \o <<"tool_result", "iteration">> /\ at[r] = "calling" /\ at'[r] = "asking"
    BY <1>4, <1>12 DEF Returns, f
  <2>2. EndsWith(f, "iteration")
    BY ONLY <1>11, <2>1, StreamTwo, Zenon
  <2> QED
    BY <2>1, <2>2 DEF EndsWith
<1>13. CASE BacksOff(r)
  BY <1>13 DEF BacksOff
<1>14. CASE Concludes(r)
  <2>0. at'[r] = "done"
    BY <1>5, <1>14 DEF Concludes, Ends
  <2>1. CASE at[r] = "asking" /\ Ends(r, "none") /\ events'[r] = Sent(r, <<"done">>)
    <3>1. f = e \o <<"done">> /\ outcome'[r].error = "none"
      BY <1>4, <2>1 DEF Ends, f
    <3>2. /\ e \in Seq(Kinds) /\ "done" \in Kinds /\ OnlyLastIsDone(e) /\ CallsHaveResult(e)
          /\ Len(e) > 0 => e[Len(e)] # "done" /\ (e[Len(e)] = "tool_call" <=> "done" = "tool_result")
      BY <1>1, <1>2, <1>3, <1>6, <2>1
    <3>3. EndsWith(f, "done")
      BY ONLY <3>1, <3>2, StreamOne, Zenon
    <3>4. Len(e) > 0 => f[Len(f) - 1] = e[Len(e)]
      BY ONLY <3>1, <3>2, StreamOne, Zenon
    <3> QED
      BY <1>6, <2>0, <2>1, <3>1, <3>3, <3>4 DEF EndsWith
  <2>2. CASE at[r] = "calling" /\ Ends(r, "max iterations")
             /\ events'[r] = Sent(r, <<"tool_result">> \o <<"done">>)
    <3>1. f = e \o (<<"tool_result">> \o <<"done">>) /\ outcome'[r].error = "max iterations"
      BY <1>4, <2>2 DEF Ends, f
    <3>2. EndsWith(f, "done")
      BY ONLY <1>11, <2>2, <3>1, StreamTwo, Zenon
    <3>3. f[Len(f) - 1] = "tool_result"
      BY ONLY <1>11, <2>2, <3>1, StreamTwo, Zenon
    <3> QED
      BY <2>0, <3>1, <3>2, <3>3 DEF EndsWith
  <2>3. CASE at[r] = "asking" /\ events'[r] = Sent(r, <<"error">> \o <<"done">>)
             /\ \E error \in {"not found", "unexpected"} : Ends(r, error)
    <3>1. f = e \o (<<"error">> \o <<"done">>) /\ outcome'[r].error \in {"not found", "unexpected"}
      BY <1>4, <2>3 DEF Ends, f
    <3>2. /\ e \in Seq(Kinds) /\ "error" \in Kinds /\ "done" \in Kinds
          /\ OnlyLastIsDone(e) /\ CallsHaveResult(e)
          /\ Len(e) > 0 => e[Len(e)] # "done" /\ (e[Len(e)] = "tool_call" <=> "error" = "tool_result")
      BY <1>1, <1>2, <1>3, <1>6, <2>3
    <3>3. EndsWith(f, "done")
      BY ONLY <3>1, <3>2, StreamTwo, Zenon
    <3>4. f[Len(f) - 1] = "error"
      BY ONLY <3>1, <3>2, StreamTwo, Zenon
    <3> QED
      BY <2>0, <3>1, <3>3, <3>4 DEF EndsWith
  <2> QED
    BY <1>14, <2>1, <2>2, <2>3 DEF Concludes
<1> QED
  BY <1>1, <1>8, <1>9, <1>10, <1>12, <1>13, <1>14, Effects

Streams == \A r \in Streamed : Stream(r)

LEMMA StreamsKept ==
    ASSUME Typed, Streams, [Next]_vars
    PROVE  Streams'
<1> SUFFICES ASSUME NEW q \in Streamed PROVE Stream(q)'
  BY DEF Streams
<1>0. Stream(q) /\ q \in Runs
  BY LoopAssumption DEF Streams
<1>1. CASE UNCHANGED vars
  BY <1>0, <1>1 DEF Stream, vars, runVars
<1>2. ASSUME NEW r \in Runs, Acts(r), Frame(r)
      PROVE  Stream(q)'
  <2>1. CASE q = r
    BY <1>0, <1>2, <2>1, StreamKept
  <2>2. CASE q # r
    BY <1>0, <1>2, <2>2 DEF Frame, Stream
  <2> QED
    BY <2>1, <2>2
<1> QED
  BY <1>1, <1>2, StepOfOne

\* A stream ends with one "done", has a result for every call, and an error just
\* when the run ended with one.
THEOREM StreamsAreComplete == Spec => []StreamIsComplete
<1>1. Init => Streams
  <2> SUFFICES ASSUME Init, NEW r \in Streamed PROVE Stream(r)
    BY DEF Streams
  <2>1. at[r] = "new" /\ events[r] = << >> /\ Len(events[r]) = 0
    BY LoopAssumption DEF Init
  <2>2. 1 .. Len(events[r]) = {} /\ 1 .. Len(events[r]) - 1 = {}
    BY <2>1
  <2> QED
    BY <2>1, <2>2 DEF Stream, OnlyLastIsDone, CallsHaveResult
<1>2. Typed /\ Streams /\ [Next]_vars => Streams'
  BY StreamsKept
<1>3. Streams => StreamIsComplete
  BY DEF Streams, Stream, StreamIsComplete, OnlyLastIsDone, CallsHaveResult
<1> QED
  BY <1>1, <1>2, <1>3, TypedAlways, PTL DEF Spec

-----------------------------------------------------------------------------
(* The result.                                                              *)

Replies(m) == {i \in 1 .. Len(m) : m[i] \in Assistant}

LEMMA RepliesFinite ==
    ASSUME NEW m \in Seq(Roles)
    PROVE  IsFiniteSet(Replies(m)) /\ RepliesIn(m) = Cardinality(Replies(m)) /\ RepliesIn(m) \in Nat
<1>1. IsFiniteSet(1 .. Len(m))
  BY LenNat, FS_Interval
<1>2. Replies(m) \subseteq 1 .. Len(m)
  BY DEF Replies
<1>3. IsFiniteSet(Replies(m))
  BY <1>1, <1>2, FS_Subset
<1>4. Cardinality(Replies(m)) \in Nat
  BY <1>3, FS_CardinalityType
<1> QED
  BY <1>3, <1>4 DEF Replies, RepliesIn

LEMMA NoReplies ==
    ASSUME NEW m \in Seq(Roles), \A i \in 1 .. Len(m) : m[i] \notin Assistant
    PROVE  RepliesIn(m) = 0
<1>1. Replies(m) = {}
  BY DEF Replies
<1> QED
  BY <1>1, RepliesFinite, FS_EmptySet

LEMMA OneMessageMore ==
    ASSUME NEW m \in Seq(Roles), NEW w \in Seq(Roles), Len(w) = Len(m) + 1,
           \A i \in 1 .. Len(m) : w[i] \in Assistant <=> m[i] \in Assistant
    PROVE  /\ w[Len(m) + 1] \in Assistant => RepliesIn(w) = RepliesIn(m) + 1
           /\ w[Len(m) + 1] \notin Assistant => RepliesIn(w) = RepliesIn(m)
<1>1. Len(m) \in Nat
  BY LenNat
<1>2. \A i : i \in 1 .. Len(w) <=> i \in 1 .. Len(m) \/ i = Len(m) + 1
  BY <1>1
<1>3. Len(m) + 1 \notin 1 .. Len(m)
  BY <1>1
<1>4. CASE w[Len(m) + 1] \in Assistant
  <2>1. Replies(w) = Replies(m) \cup {Len(m) + 1}
    BY <1>2, <1>4 DEF Replies
  <2>2. Len(m) + 1 \notin Replies(m)
    BY <1>3 DEF Replies
  <2>3. Cardinality(Replies(w)) = Cardinality(Replies(m)) + 1
    BY <2>1, <2>2, RepliesFinite, FS_AddElement
  <2> QED
    BY <1>4, <2>3, RepliesFinite
<1>5. CASE w[Len(m) + 1] \notin Assistant
  <2>1. Replies(w) = Replies(m)
    BY <1>2, <1>5 DEF Replies
  <2> QED
    BY <1>5, <2>1, RepliesFinite
<1> QED
  BY <1>4, <1>5

LEMMA OpeningHasNoReply ==
    ASSUME NEW found
    PROVE  RepliesIn(Opening(found)) = 0
<1>1. Opening(found) \in Seq(Roles)
  BY OpeningShape
<1>2. {"system", "memory", "task"} \cap Assistant = {}
  BY DEF Assistant, ToolCalls
<1>3. \A i \in 1 .. Len(Opening(found)) : Opening(found)[i] \in {"system", "memory", "task"}
  <2>1. CASE Len(Opening(found)) = 2
    <3>1. 1 .. Len(Opening(found)) = {1, 2}
      BY <2>1
    <3> QED
      BY <2>1, <3>1, OpeningShape
  <2>2. CASE Len(Opening(found)) = 3
    <3>1. 1 .. Len(Opening(found)) = {1, 2, 3}
      BY <2>2
    <3> QED
      BY <2>2, <3>1, OpeningShape
  <2> QED
    BY <2>1, <2>2, OpeningShape
<1> QED
  BY <1>1, <1>2, <1>3, NoReplies

LEMMA ReplyCounts ==
    ASSUME NEW m \in Seq(Roles), NEW reply \in Assistant
    PROVE  RepliesIn(Append(m, reply)) = RepliesIn(m) + 1
<1>1. reply \in Roles
  BY DEF Roles
<1>2. /\ Append(m, reply) \in Seq(Roles) /\ Len(Append(m, reply)) = Len(m) + 1
      /\ Append(m, reply)[Len(m) + 1] = reply
      /\ \A i \in 1 .. Len(m) : Append(m, reply)[i] = m[i]
  BY <1>1, AppendOne
<1> QED
  BY <1>2, OneMessageMore

LEMMA ResultCountsNot ==
    ASSUME NEW m \in Seq(Roles), Len(m) > 0
    PROVE  RepliesIn(WithResult(m)) = RepliesIn(m)
<1> DEFINE w == WithResult(m)
<1>1. w \in Seq(Roles) /\ Len(w) = Len(m) + 1 /\ Len(m) \in Nat /\ w[Len(m) + 1] = "result"
  BY WithResultShape
<1>2. w[Len(m)] = IF m[Len(m)] = "call in prose" THEN "prose" ELSE m[Len(m)]
  BY WithResultShape
<1>3. \A i \in 1 .. Len(m) - 1 : w[i] = m[i]
  BY WithResultShape
<1> HIDE DEF w
<1>4. "prose" \in Assistant /\ "call in prose" \in Assistant /\ "result" \notin Assistant
  BY DEF Assistant, ToolCalls
<1>5. w[Len(m)] \in Assistant <=> m[Len(m)] \in Assistant
  BY <1>2, <1>4
<1>6. \A i \in 1 .. Len(m) : i \in 1 .. Len(m) - 1 \/ i = Len(m)
  BY <1>1
<1>7. \A i \in 1 .. Len(m) : w[i] \in Assistant <=> m[i] \in Assistant
  BY <1>3, <1>5, <1>6
<1>8. RepliesIn(w) = RepliesIn(m)
  BY <1>1, <1>4, <1>7, OneMessageMore
<1> QED
  BY <1>8 DEF w

\* What is known of one run's result.
Result(r) ==
    /\ at[r] \in {"storing", "done"} =>
          /\ outcome[r].output # "nothing"
          /\ outcome[r].error = "none" <=> outcome[r].output = "answer"
    /\ outcome[r].error # "none" => at[r] \in {"storing", "done", "cancelled"}
    /\ outcome[r].error = "ollama" => attempt[r] = MaxRetries + 1
    /\ r \notin Streamed => tokens[r] = RepliesIn(messages[r])

\* Of a run that others are reminded of.
Remembered(s) == at[s] = "done" /\ outcome[s].output # "nothing"

Results == \A r \in Runs : Result(r)
Memory  == \A s \in memory : Remembered(s)
Known   == \A r \in Runs : \A s \in recalled[r] : s # r /\ outcome[s].output # "nothing"

LEMMA ResultKept ==
    ASSUME Typed, Typed', NEW r \in Runs, Dialogue(r), Result(r), Acts(r)
    PROVE  Result(r)'
<1>1. messages[r] \in Seq(Roles) /\ Begun(r) /\ tokens[r] \in Nat
  BY DEF Typed, TypeOK
<1>2. CASE Moves(r)
  BY <1>2 DEF Moves, Result
<1>3. ASSUME r \notin Streamed, NEW reply \in Assistant, messages'[r] = Append(messages[r], reply),
             tokens'[r] = tokens[r] + 1
      PROVE  tokens'[r] = RepliesIn(messages'[r])
  BY <1>1, <1>3, ReplyCounts DEF Result
<1>4. ASSUME r \notin Streamed, at[r] = "calling", messages'[r] = WithResult(messages[r]),
             tokens'[r] = tokens[r]
      PROVE  tokens'[r] = RepliesIn(messages'[r])
  <2>1. Len(messages[r]) > 0
    BY <1>1, <1>4 DEF Begun
  <2> QED
    BY <1>1, <1>4, <2>1, ResultCountsNot DEF Result
<1>5. CASE Opens(r)
  <2>1. at[r] \in {"new", "recalling"} /\ at'[r] = "asking" /\ outcome'[r] = outcome[r] /\ tokens'[r] = tokens[r]
    BY <1>5 DEF Opens
  <2>2. outcome'[r].error = "none"
    BY <2>1 DEF Result
  <2>3. RepliesIn(messages'[r]) = 0
    BY <1>5, OpeningHasNoReply DEF Opens
  <2>4. r \notin Streamed => tokens[r] = 0
    <3>1. messages[r] = << >>
      BY <2>1 DEF Dialogue
    <3>2. Len(messages[r]) = 0
      BY <3>1
    <3>3. RepliesIn(messages[r]) = 0
      BY <1>1, <3>2, NoReplies
    <3> QED
      BY <3>3 DEF Result
  <2> QED
    BY <2>1, <2>2, <2>3, <2>4 DEF Result
<1>6. CASE Calls(r)
  <2>1. at[r] = "asking" /\ at'[r] = "calling" /\ outcome'[r] = outcome[r]
    BY <1>6 DEF Calls
  <2>2. r \notin Streamed => tokens'[r] = RepliesIn(messages'[r])
    BY <1>3, <1>6 DEF Calls, Assistant
  <2>3. outcome'[r].error = "none"
    BY <2>1 DEF Result
  <2> QED
    BY <2>1, <2>2, <2>3 DEF Result
<1>7. CASE Returns(r)
  <2>1. at[r] = "calling" /\ at'[r] = "asking" /\ outcome'[r] = outcome[r]
    BY <1>7 DEF Returns
  <2>2. r \notin Streamed => tokens'[r] = RepliesIn(messages'[r])
    BY <1>4, <1>7 DEF Returns
  <2>3. outcome'[r].error = "none"
    BY <2>1 DEF Result
  <2> QED
    BY <2>1, <2>2, <2>3 DEF Result
<1>8. CASE BacksOff(r)
  BY <1>8 DEF BacksOff, Result
<1>9. CASE Concludes(r)
  <2>0. /\ at'[r] \in {"storing", "done"} /\ outcome'[r].output # "nothing"
        /\ outcome'[r].output = messages'[r][Len(messages'[r])]
    BY <1>9 DEF Concludes, Ends
  <2>1. CASE at[r] = "asking" /\ Ends(r, "none") /\ messages'[r] = Append(messages[r], "answer")
             /\ (r \notin Streamed => tokens'[r] = tokens[r] + 1)
    <3>1. "answer" \in Assistant /\ "answer" \in Roles
      BY DEF Assistant, Roles
    <3>2. messages'[r][Len(messages[r]) + 1] = "answer" /\ Len(messages'[r]) = Len(messages[r]) + 1
      BY <1>1, <2>1, <3>1, AppendOne
    <3>3. outcome'[r].output = "answer" /\ outcome'[r].error = "none"
      BY <2>0, <2>1, <3>2 DEF Ends
    <3>4. r \notin Streamed => tokens'[r] = RepliesIn(messages'[r])
      BY <1>3, <2>1, <3>1
    <3> QED
      BY <2>0, <3>3, <3>4 DEF Result
  <2>2. CASE at[r] = "calling" /\ Ends(r, "max iterations")
             /\ messages'[r] = WithResult(messages[r]) /\ tokens'[r] = tokens[r]
    <3>1. Len(messages[r]) > 0
      BY <1>1, <2>2 DEF Begun
    <3>2. messages'[r][Len(messages[r]) + 1] = "result" /\ Len(messages'[r]) = Len(messages[r]) + 1
      BY ONLY <1>1, <2>2, <3>1, WithResultShape
    <3>3. outcome'[r].output = "result" /\ outcome'[r].error = "max iterations"
      BY <2>0, <2>2, <3>2 DEF Ends
    <3>4. r \notin Streamed => tokens'[r] = RepliesIn(messages'[r])
      BY <1>4, <2>2
    <3> QED
      BY <2>0, <3>3, <3>4 DEF Result
  <2>3. ASSUME at[r] = "asking", messages'[r] = messages[r], tokens'[r] = tokens[r],
               NEW error \in {"ollama", "not found", "unexpected"}, Ends(r, error),
               error = "ollama" => attempt'[r] = MaxRetries + 1
        PROVE  Result(r)'
    <3>1. outcome'[r].output \in {"task", "result"} /\ outcome'[r].error = error
      BY <2>0, <2>3 DEF Dialogue, Ends
    <3> QED
      BY <2>0, <2>3, <3>1 DEF Result
  <2>4. CASE at[r] = "asking" /\ Ends(r, "ollama") /\ attempt'[r] = MaxRetries + 1
             /\ messages'[r] = messages[r] /\ tokens'[r] = tokens[r]
    BY <2>3, <2>4
  <2>5. CASE at[r] = "asking" /\ (\E error \in {"not found", "unexpected"} : Ends(r, error))
             /\ messages'[r] = messages[r] /\ tokens'[r] = tokens[r]
    BY <2>3, <2>5
  <2> QED
    BY <1>9, <2>1, <2>2, <2>4, <2>5 DEF Concludes
<1> QED
  BY <1>2, <1>5, <1>6, <1>7, <1>8, <1>9, Effects

\* A step takes no result away, and a run that is over does not act.
LEMMA OutputStays ==
    ASSUME Typed, NEW r \in Runs, Acts(r), Frame(r)
    PROVE  /\ \A s \in Runs : outcome[s].output # "nothing" => outcome'[s].output # "nothing"
           /\ at[r] # "done"
           /\ \A s \in Runs : Remembered(s) => Remembered(s)'
<1>1. at[r] # "done" /\ (outcome'[r] = outcome[r] \/ outcome'[r].output # "nothing")
  BY Effects DEF Moves, Opens, Calls, Returns, BacksOff, Concludes, Ends
<1>2. \A s \in Runs \ {r} : at'[s] = at[s] /\ outcome'[s] = outcome[s]
  BY DEF Frame
<1>3. \A s \in Runs : outcome[s].output # "nothing" => outcome'[s].output # "nothing"
  BY <1>1, <1>2
<1>4. ASSUME NEW s \in Runs, Remembered(s)
      PROVE  Remembered(s)'
  <2>1. s # r
    BY <1>1, <1>4 DEF Remembered
  <2> QED
    BY <1>2, <1>4, <2>1 DEF Remembered
<1> QED
  BY <1>1, <1>3, <1>4

ResultInv == Results /\ Memory /\ Known

LEMMA ResultInvKept ==
    ASSUME Typed, Typed', Dialogues, ResultInv, [Next]_vars
    PROVE  ResultInv'
<1>0. Results /\ Memory /\ Known
  BY DEF ResultInv
<1>1. CASE UNCHANGED vars
  <2>1. Results'
    BY <1>0, <1>1 DEF Results, Result, vars, runVars
  <2>2. Memory' /\ Known'
    BY <1>0, <1>1 DEF Memory, Remembered, Known, vars, runVars, sharedVars, ownVars
  <2> QED
    BY <2>1, <2>2 DEF ResultInv
<1>2. ASSUME NEW r \in Runs, Acts(r), Frame(r)
      PROVE  ResultInv'
  <2>0. TypeOK
    BY DEF Typed
  <2>1. Result(r)'
    BY <1>0, <1>2, ResultKept DEF Results, Dialogues
  <2>2. Results'
    <3> SUFFICES ASSUME NEW q \in Runs PROVE Result(q)'
      BY DEF Results
    <3>1. CASE q = r
      BY <2>1, <3>1
    <3>2. CASE q # r
      BY <1>0, <1>2, <3>2 DEF Results, Frame, Result
    <3> QED
      BY <3>1, <3>2
  <2>3. Memory'
    <3> SUFFICES ASSUME NEW s \in memory' PROVE Remembered(s)'
      BY DEF Memory
    <3>1. CASE s \in memory
      BY <1>0, <1>2, <2>0, <3>1, OutputStays DEF Memory, TypeOK
    <3>2. CASE s \notin memory
      <4>1. s = r /\ at[r] = "storing" /\ at'[r] = "done"
        BY <1>2, <3>2, Effects
      <4>2. outcome'[r].output # "nothing"
        BY <2>1, <4>1 DEF Result
      <4> QED
        BY <4>1, <4>2 DEF Remembered
    <3> QED
      BY <3>1, <3>2
  <2>4. Known'
    <3> SUFFICES ASSUME NEW q \in Runs, NEW s \in recalled'[q]
                 PROVE  s # q /\ outcome'[s].output # "nothing"
      BY DEF Known
    <3>1. CASE s \in recalled[q]
      <4>1. s \in Runs /\ s # q /\ outcome[s].output # "nothing"
        BY <1>0, <2>0, <3>1 DEF Known, TypeOK
      <4> QED
        BY <1>2, <4>1, OutputStays
    <3>2. CASE s \notin recalled[q]
      <4>1. q = r
        BY <1>2, <3>2 DEF Frame
      <4>2. s \in memory
        <5>1. recalled'[r] = recalled[r] \/ Opens(r)
          BY <1>2, Effects DEF Moves, Calls, Returns, BacksOff, Concludes, Ends
        <5> QED
          BY <3>2, <4>1, <5>1 DEF Opens
      <4>3. s \in Runs /\ at[s] = "done" /\ outcome[s].output # "nothing"
        BY <1>0, <2>0, <4>2 DEF Memory, Remembered, TypeOK
      <4> QED
        BY <1>2, <4>1, <4>3, OutputStays
    <3> QED
      BY <3>1, <3>2
  <2> QED
    BY <2>2, <2>3, <2>4 DEF ResultInv
<1> QED
  BY <1>1, <1>2, StepOfOne

\* A result says what happened: no error just when there is an answer, the error
\* of the client only after all its attempts, the tokens of every reply; and a
\* run is reminded only of others that have their result.
THEOREM ResultsAreTrue == Spec => []ResultIsTrue
<1>1. Init => ResultInv
  <2> SUFFICES ASSUME Init PROVE ResultInv
    OBVIOUS
  <2>1. Memory /\ Known
    BY DEF Init, Memory, Known
  <2>2. Results
    <3> SUFFICES ASSUME NEW r \in Runs PROVE Result(r)
      BY DEF Results
    <3>1. /\ at[r] = "new" /\ outcome[r].error = "none" /\ tokens[r] = 0
          /\ messages[r] = << >> /\ Len(messages[r]) = 0
      BY DEF Init
    <3>2. messages[r] \in Seq(Roles)
      BY InitTypes DEF TypeOK
    <3>3. \A i \in 1 .. Len(messages[r]) : messages[r][i] \notin Assistant
      <4>1. 1 .. Len(messages[r]) = {}
        BY <3>1
      <4> QED
        BY <4>1
    <3>4. RepliesIn(messages[r]) = 0
      BY ONLY <3>2, <3>3, NoReplies
    <3> QED
      BY <3>1, <3>4 DEF Result
  <2> QED
    BY <2>1, <2>2 DEF ResultInv
<1>2. Typed /\ Dialogues /\ Typed' /\ ResultInv /\ [Next]_vars => ResultInv'
  BY ResultInvKept
<1>3. ResultInv => ResultIsTrue
  BY DEF ResultInv, Results, Result, Known, ResultIsTrue
<1> QED
  BY <1>1, <1>2, <1>3, DialoguesAlways, PTL DEF Spec
=============================================================================

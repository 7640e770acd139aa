------------------------- MODULE MessageBus_proofs --------------------------
(***************************************************************************)
(* Proofs about MessageBus and RedisState, for any calls and messages: the *)
(* types, that a request gets its own answer, and that tasks are neither   *)
(* doubled nor lost but by a command that was repeated.                    *)
(***************************************************************************)
EXTENDS MessageBus, FiniteSetTheorems, TLAPS

Positions == {"begun", "publishing", "polling", "ok", "raised"}

\* A command moves its call from one step to another, if at all.
LEMMA CommandEffect ==
    ASSUME at \in [Calls -> Positions], second \subseteq Calls, NEW c \in Calls,
           NEW step \in Positions, NEW next \in Positions,
           Executed(c, step, next)
    PROVE  /\ at' \in [Calls -> Positions] /\ second' \subseteq Calls
           /\ at[c] = step /\ at'[c] \in {step, next, "raised"}
           /\ \A d \in Calls \ {c} : at'[d] = at[d]
  BY DEF Executed, Replied, Unanswered, Positions

LEMMA UnansweredEffect ==
    ASSUME at \in [Calls -> Positions], second \subseteq Calls, NEW c \in Calls,
           NEW step \in Positions, Unanswered(c, step)
    PROVE  /\ at' \in [Calls -> Positions] /\ second' \subseteq Calls
           /\ at[c] = step /\ at'[c] \in {step, "raised"}
           /\ \A d \in Calls \ {c} : at'[d] = at[d]
  BY DEF Unanswered, Positions

LEMMA RepliedEffect ==
    ASSUME at \in [Calls -> Positions], second \subseteq Calls, NEW c \in Calls,
           NEW step \in Positions, NEW next \in Positions, Replied(c, step, next)
    PROVE  /\ at' \in [Calls -> Positions] /\ second' \subseteq Calls
           /\ at[c] = step /\ at'[c] = next
           /\ \A d \in Calls \ {c} : at'[d] = at[d]
  BY DEF Replied

LEMMA HeadAndTail ==
    ASSUME NEW S, NEW s \in Seq(S), s # << >>
    PROVE  /\ Head(s) \in S /\ Tail(s) \in Seq(S) /\ Len(Tail(s)) = Len(s) - 1
           /\ Head(s) = s[1] /\ 1 \in 1 .. Len(s)
           /\ \A i \in 1 .. Len(s) - 1 : Tail(s)[i] = s[i + 1] /\ i + 1 \in 1 .. Len(s)
  OBVIOUS

LEMMA AppendOne ==
    ASSUME NEW S, NEW s \in Seq(S), NEW e \in S
    PROVE  /\ Append(s, e) \in Seq(S) /\ Len(Append(s, e)) = Len(s) + 1
           /\ Append(s, e)[Len(s) + 1] = e
           /\ \A i \in 1 .. Len(s) : Append(s, e)[i] = s[i]
           /\ Len(s) \in Nat
  OBVIOUS

-----------------------------------------------------------------------------
(* Steps of the queue.                                                      *)

\* The three ways a step of the queue may go.
Pushed(c) ==
    /\ op[c] = "push" /\ queue' = Append(queue, c)
    /\ taken' = taken /\ lost' = lost
    /\ twice' = IF InQueue(c) # {} \/ Holders(c) # {} \/ c \in lost
                THEN twice \cup {c} ELSE twice
Popped(c) ==
    /\ op[c] = "pop" /\ queue # << >> /\ queue' = Tail(queue) /\ twice' = twice
    /\ \/ /\ taken' = [taken EXCEPT ![c] = Head(queue)] /\ lost' = lost /\ at'[c] = "ok"
       \/ /\ lost' = lost \cup {Head(queue)} /\ taken' = taken
Untouched(c) == /\ UNCHANGED queueVars /\ (op[c] = "push" => at'[c] # "ok")

LEMMA QueueStepKinds ==
    ASSUME TypeOK, QueueStep
    PROVE  \E c \in Calls :
              /\ at' \in [Calls -> Positions] /\ second' \subseteq Calls
              /\ at[c] = "begun" /\ \A d \in Calls \ {c} : at'[d] = at[d]
              /\ Pushed(c) \/ Popped(c) \/ Untouched(c)
<1>1. at \in [Calls -> Positions] /\ second \subseteq Calls
  BY DEF TypeOK, Positions
<1>2. PICK c \in Calls :
         \/ PushTask(c) \/ PopTask(c) \/ PopNothing(c)
         \/ op[c] \in {"push", "pop"} /\ Unanswered(c, "begun") /\ UNCHANGED queueVars
  BY DEF QueueStep
<1>3. "begun" \in Positions /\ "ok" \in Positions
  BY DEF Positions
<1>4. CASE PushTask(c)
  BY <1>1, <1>3, <1>4, CommandEffect DEF PushTask, Pushed
<1>5. CASE PopTask(c)
  <2>1. CASE Replied(c, "begun", "ok") /\ taken' = [taken EXCEPT ![c] = Head(queue)] /\ UNCHANGED lost
    BY <1>1, <1>3, <1>5, <2>1, RepliedEffect DEF PopTask, Popped
  <2>2. CASE Unanswered(c, "begun") /\ lost' = lost \cup {Head(queue)} /\ UNCHANGED taken
    BY <1>1, <1>3, <1>5, <2>2, UnansweredEffect DEF PopTask, Popped
  <2> QED
    BY <1>5, <2>1, <2>2 DEF PopTask
<1>6. CASE PopNothing(c)
  BY <1>1, <1>3, <1>6, RepliedEffect DEF PopNothing, Untouched
<1>7. CASE op[c] \in {"push", "pop"} /\ Unanswered(c, "begun") /\ UNCHANGED queueVars
  BY <1>1, <1>3, <1>7, UnansweredEffect DEF Untouched
<1> QED
  BY <1>2, <1>4, <1>5, <1>6, <1>7

\* The steps of a request leave the queue alone, and no push ends by them.
LEMMA RequestEffect ==
    ASSUME TypeOK, NEW c \in Calls, Request(c)
    PROVE  /\ at' \in [Calls -> Positions] /\ second' \subseteq Calls
           /\ op[c] = "request" /\ \A d \in Calls \ {c} : at'[d] = at[d]
           /\ message' = message /\ responses' = responses /\ seen' = seen
           /\ inbox' \in Messages \cup {"none"}
           /\ at[c] # "ok" /\ at[c] # "raised"
           /\ (at'[c] = "begun" => at[c] = "begun")
           /\ \/ result' = result
              \/ result' = [result EXCEPT ![c] = responses[message[c]]]
<1>1. at \in [Calls -> Positions] /\ second \subseteq Calls /\ message[c] \in Messages
      /\ inbox \in Messages \cup {"none"} /\ result \in [Calls -> Messages \cup {"none"}]
  BY DEF TypeOK, Positions
<1>2. CASE StoreMessage(c)
  BY <1>1, <1>2, CommandEffect DEF StoreMessage, Positions
<1>3. CASE PublishMessage(c)
  BY <1>1, <1>3, CommandEffect DEF PublishMessage, Positions, busVars
<1>4. CASE Poll(c)
  <2>1. PICK next \in {"polling", "ok"} : Executed(c, "polling", next)
    BY <1>4 DEF Poll
  <2>2. \/ result' = result
        \/ result' = [result EXCEPT ![c] = responses[message[c]]]
    BY <1>1, <1>4 DEF Poll
  <2> QED
    BY <1>1, <1>4, <2>1, <2>2, CommandEffect DEF Poll, Positions
<1>5. CASE PollNoMore(c)
  BY <1>1, <1>5, RepliedEffect DEF PollNoMore, Positions, busVars
<1>6. CASE /\ op[c] = "request"
           /\ \E step \in {"begun", "publishing", "polling"} : Unanswered(c, step)
           /\ UNCHANGED busVars
  <2>1. PICK step \in {"begun", "publishing", "polling"} : Unanswered(c, step)
    BY <1>6
  <2> QED
    BY <1>1, <1>6, <2>1, UnansweredEffect DEF Positions, busVars
<1> QED
  BY <1>2, <1>3, <1>4, <1>5, <1>6 DEF Request

-----------------------------------------------------------------------------
(* Types.                                                                   *)

LEMMA TypeStep ==
    ASSUME TypeOK, [Next]_vars
    PROVE  TypeOK'
<1>1. CASE QueueStep /\ UNCHANGED <<op, busVars>>
  <2>1. PICK c \in Calls :
              /\ at' \in [Calls -> Positions] /\ second' \subseteq Calls
              /\ at[c] = "begun" /\ \A d \in Calls \ {c} : at'[d] = at[d]
              /\ Pushed(c) \/ Popped(c) \/ Untouched(c)
    BY <1>1, QueueStepKinds
  <2>2. queue \in Seq(Calls)
    BY DEF TypeOK
  <2>3. CASE Pushed(c)
    <3>1. queue' \in Seq(Calls)
      BY <2>2, <2>3, AppendOne DEF Pushed
    <3> QED
      BY <1>1, <2>1, <2>3, <3>1 DEF Pushed, TypeOK, Positions, busVars
  <2>4. CASE Popped(c)
    <3>1. Head(queue) \in Calls /\ queue' \in Seq(Calls)
      BY <2>2, <2>4, HeadAndTail DEF Popped
    <3> QED
      BY <1>1, <2>1, <2>4, <3>1 DEF Popped, TypeOK, Positions, busVars
  <2>5. CASE Untouched(c)
    BY <1>1, <2>1, <2>5 DEF Untouched, queueVars, TypeOK, Positions, busVars
  <2> QED
    BY <2>1, <2>3, <2>4, <2>5
<1>2. CASE (\E c \in Calls : Request(c)) /\ UNCHANGED <<op, queueVars>>
  <2>1. PICK c \in Calls : Request(c)
    BY <1>2
  <2>2. responses[message[c]] \in Messages \cup {"none"}
    BY DEF TypeOK
  <2>3. result' \in [Calls -> Messages \cup {"none"}]
    BY <2>1, <2>2, RequestEffect DEF TypeOK
  <2> QED
    BY <1>2, <2>1, <2>3, RequestEffect DEF TypeOK, Positions, queueVars
<1>3. CASE AgentStep /\ UNCHANGED <<at, op, redisVars>>
  BY <1>3 DEF AgentStep, ReadInbox, Respond, ExpireInbox, ExpireResponse, redisVars, queueVars, TypeOK
<1>4. CASE UNCHANGED vars
  BY <1>4 DEF vars, redisVars, queueVars, busVars, TypeOK
<1> QED
  BY <1>1, <1>2, <1>3, <1>4 DEF Next

\* Every variable keeps its type.
THEOREM TypeCorrect == Spec => []TypeOK
<1>1. Init => TypeOK
  BY DEF Init, RedisInit, TypeOK
<1> QED
  BY <1>1, TypeStep, PTL DEF Spec

-----------------------------------------------------------------------------
(* Requests and responses.                                                  *)

\* What is cached under a message answers that message.
Answers == \A m \in Messages : responses[m] \in {m, "none"}

LEMMA AnswersStep ==
    ASSUME TypeOK, Answers, OwnResponse, [Next]_vars
    PROVE  Answers' /\ OwnResponse'
<1>1. CASE QueueStep /\ UNCHANGED <<op, busVars>>
  BY <1>1 DEF busVars, Answers, OwnResponse
<1>2. CASE (\E c \in Calls : Request(c)) /\ UNCHANGED <<op, queueVars>>
  <2>1. PICK c \in Calls : Request(c)
    BY <1>2
  <2>2. responses[message[c]] \in {message[c], "none"}
    BY DEF TypeOK, Answers
  <2>3. /\ message' = message /\ responses' = responses
        /\ \/ result' = result
           \/ result' = [result EXCEPT ![c] = responses[message[c]]]
    BY <2>1, RequestEffect
  <2> QED
    BY <2>2, <2>3 DEF Answers, OwnResponse, TypeOK
<1>3. CASE AgentStep /\ UNCHANGED <<at, op, redisVars>>
  BY <1>3 DEF AgentStep, ReadInbox, Respond, ExpireInbox, ExpireResponse, Answers, OwnResponse, TypeOK
<1>4. CASE UNCHANGED vars
  BY <1>4 DEF vars, busVars, Answers, OwnResponse
<1> QED
  BY <1>1, <1>2, <1>3, <1>4 DEF Next

\* A request returns nothing or the answer to its own message, for any number of
\* requests, repeated commands and late answers.
THEOREM ResponsesAreOwn == Spec => []OwnResponse
<1>1. Init => Answers /\ OwnResponse
  BY DEF Init, Answers, OwnResponse
<1>2. TypeOK /\ Answers /\ OwnResponse /\ [Next]_vars => Answers' /\ OwnResponse'
  BY AnswersStep
<1> QED
  BY <1>1, <1>2, TypeCorrect, PTL DEF Spec

-----------------------------------------------------------------------------
(* The task queue.                                                          *)

\* A call that has not returned has taken nothing.
NothingTaken == \A c \in Calls : at[c] = "begun" => taken[c] = "none"

\* A task that was pushed once is with one worker, or once in the list, or lost.
OneCopy(t) ==
    t \notin twice =>
       /\ \A c, d \in Calls : taken[c] = t /\ taken[d] = t => c = d
       /\ \A i, j \in 1 .. Len(queue) : queue[i] = t /\ queue[j] = t => i = j
       /\ \A c \in Calls : \A i \in 1 .. Len(queue) : taken[c] = t => queue[i] # t
       /\ t \in lost => /\ \A c \in Calls : taken[c] # t
                        /\ \A i \in 1 .. Len(queue) : queue[i] # t

\* A task whose push has returned is somewhere, unless it was lost.
Somewhere(t) ==
    op[t] = "push" /\ at[t] = "ok" /\ t \notin lost =>
       \/ \E c \in Calls : taken[c] = t
       \/ \E i \in 1 .. Len(queue) : queue[i] = t

Tasks == NothingTaken /\ \A t \in Calls : OneCopy(t) /\ Somewhere(t)

LEMMA TasksStep ==
    ASSUME TypeOK, Tasks, [Next]_vars
    PROVE  Tasks'
<1>0. queue \in Seq(Calls) /\ taken \in [Calls -> Calls \cup {"none"}] /\ Len(queue) \in Nat
  BY DEF TypeOK
<1>1. CASE QueueStep /\ UNCHANGED <<op, busVars>>
  <2>1. PICK c \in Calls :
              /\ at' \in [Calls -> Positions] /\ second' \subseteq Calls
              /\ at[c] = "begun" /\ \A d \in Calls \ {c} : at'[d] = at[d]
              /\ Pushed(c) \/ Popped(c) \/ Untouched(c)
    BY <1>1, QueueStepKinds
  <2>2. op' = op /\ taken[c] = "none"
    BY <1>1, <2>1 DEF Tasks, NothingTaken
  <2>3. CASE Pushed(c)
    <3>1. /\ taken' = taken /\ lost' = lost /\ Len(queue') = Len(queue) + 1
          /\ queue'[Len(queue) + 1] = c
          /\ \A i \in 1 .. Len(queue) : queue'[i] = queue[i]
          /\ \A i \in 1 .. Len(queue') : i = Len(queue) + 1 \/ i \in 1 .. Len(queue)
          /\ Len(queue) + 1 \in 1 .. Len(queue') /\ 1 .. Len(queue) \subseteq 1 .. Len(queue')
      BY <1>0, <2>3, AppendOne DEF Pushed
    <3>2. NothingTaken'
      BY <2>1, <3>1 DEF Tasks, NothingTaken
    <3>3. ASSUME NEW t \in Calls PROVE OneCopy(t)' /\ Somewhere(t)'
      <4>1. CASE t = c
        <5>1. c \notin twice' => /\ \A d \in Calls : taken[d] # c
                                 /\ \A i \in 1 .. Len(queue) : queue[i] # c
                                 /\ c \notin lost
          BY <2>3 DEF Pushed, InQueue, Holders
        <5> QED
          BY <3>1, <4>1, <5>1 DEF OneCopy, Somewhere
      <4>2. CASE t # c
        <5>1. t \in twice' <=> t \in twice
          BY <2>3, <4>2 DEF Pushed
        <5>2. OneCopy(t)'
          BY <3>1, <4>2, <5>1 DEF Tasks, OneCopy
        <5>3. Somewhere(t)'
          BY <2>1, <2>2, <3>1, <4>2 DEF Tasks, Somewhere
        <5> QED
          BY <5>2, <5>3
      <4> QED
        BY <4>1, <4>2
    <3> QED
      BY <3>2, <3>3 DEF Tasks
  <2>4. CASE Popped(c)
    <3>1. /\ Head(queue) = queue[1] /\ Len(queue') = Len(queue) - 1 /\ 1 \in 1 .. Len(queue)
          /\ \A i \in 1 .. Len(queue') : queue'[i] = queue[i + 1] /\ i + 1 \in 1 .. Len(queue)
          /\ twice' = twice /\ op[c] = "pop"
      BY <1>0, <2>4, HeadAndTail DEF Popped
    <3>2. \A i \in 1 .. Len(queue) : i = 1 \/ (i - 1 \in 1 .. Len(queue') /\ queue'[i - 1] = queue[i])
      BY <1>0, <3>1
    <3>3. CASE taken' = [taken EXCEPT ![c] = Head(queue)] /\ lost' = lost /\ at'[c] = "ok"
      <4>1. /\ taken'[c] = queue[1] /\ \A d \in Calls \ {c} : taken'[d] = taken[d]
        BY <1>0, <3>1, <3>3
      <4>2. NothingTaken'
        BY <2>1, <3>3, <4>1 DEF Tasks, NothingTaken
      <4>3. ASSUME NEW t \in Calls PROVE OneCopy(t)'
        <5> SUFFICES ASSUME t \notin twice PROVE OneCopy(t)'
          BY <3>1 DEF OneCopy
        <5>1. OneCopy(t)
          BY DEF Tasks
        <5>2. \A i, j \in 1 .. Len(queue') : queue'[i] = t /\ queue'[j] = t => i = j
          <6> TAKE i, j \in 1 .. Len(queue')
          <6> HAVE queue'[i] = t /\ queue'[j] = t
          <6>1. i + 1 = j + 1
            BY <3>1, <5>1 DEF OneCopy
          <6>2. i \in Int /\ j \in Int
            OBVIOUS
          <6> QED
            BY <6>1, <6>2
        <5>3. CASE t = queue[1]
          <6>1. \A d \in Calls : taken[d] # t
            BY <3>1, <5>1, <5>3 DEF OneCopy
          <6>2. \A i \in 1 .. Len(queue') : queue'[i] # t
            <7> TAKE i \in 1 .. Len(queue')
            <7>1. i + 1 # 1
              BY <1>0, <3>1
            <7> QED
              BY <3>1, <5>1, <5>3, <7>1 DEF OneCopy
          <6>3. t \notin lost
            BY <3>1, <5>1, <5>3 DEF OneCopy
          <6> QED
            BY <3>1, <3>3, <4>1, <5>2, <6>1, <6>2, <6>3 DEF OneCopy
        <5>4. CASE t # queue[1]
          <6>1. \A d \in Calls : taken'[d] = t => taken[d] = t
            BY <4>1, <5>4
          <6>2. \A i \in 1 .. Len(queue') : queue'[i] = t => queue[i + 1] = t /\ i + 1 \in 1 .. Len(queue)
            BY <3>1
          <6> QED
            BY <3>3, <5>1, <5>2, <6>1, <6>2 DEF OneCopy
        <5> QED
          BY <5>3, <5>4
      <4>4. ASSUME NEW t \in Calls PROVE Somewhere(t)'
        <5>1. t = c => op[t] # "push"
          BY <3>1
        <5>2. \A d \in Calls : taken[d] = t => taken'[d] = t
          BY <2>2, <4>1, CallsAssumption
        <5> QED
          BY <2>1, <2>2, <3>2, <3>3, <4>1, <5>1, <5>2 DEF Tasks, Somewhere
      <4> QED
        BY <4>2, <4>3, <4>4 DEF Tasks
    <3>4. CASE lost' = lost \cup {Head(queue)} /\ taken' = taken
      <4>1. NothingTaken'
        BY <2>1, <2>2, <3>4 DEF Tasks, NothingTaken
      <4>2. ASSUME NEW t \in Calls PROVE OneCopy(t)'
        <5> SUFFICES ASSUME t \notin twice PROVE OneCopy(t)'
          BY <3>1 DEF OneCopy
        <5>1. OneCopy(t)
          BY DEF Tasks
        <5>2. \A i, j \in 1 .. Len(queue') : queue'[i] = t /\ queue'[j] = t => i = j
          <6> TAKE i, j \in 1 .. Len(queue')
          <6> HAVE queue'[i] = t /\ queue'[j] = t
          <6>1. i + 1 = j + 1
            BY <3>1, <5>1 DEF OneCopy
          <6>2. i \in Int /\ j \in Int
            OBVIOUS
          <6> QED
            BY <6>1, <6>2
        <5>3. t = queue[1] => \A i \in 1 .. Len(queue') : queue'[i] # t
          <6> HAVE t = queue[1]
          <6> TAKE i \in 1 .. Len(queue')
          <6>1. i + 1 # 1
            BY <1>0, <3>1
          <6> QED
            BY <3>1, <5>1, <6>1 DEF OneCopy
        <5>4. t = queue[1] => \A d \in Calls : taken[d] # t
          BY <3>1, <5>1 DEF OneCopy
        <5> QED
          BY <3>1, <3>4, <5>1, <5>2, <5>3, <5>4 DEF OneCopy
      <4>3. ASSUME NEW t \in Calls PROVE Somewhere(t)'
        <5>1. t = c => op[t] # "push"
          BY <3>1
        <5> QED
          BY <2>1, <2>2, <3>1, <3>2, <3>4, <5>1, SMTT(30) DEF Tasks, Somewhere
      <4> QED
        BY <4>1, <4>2, <4>3 DEF Tasks
    <3> QED
      BY <2>4, <3>3, <3>4 DEF Popped
  <2>5. CASE Untouched(c)
    <3>1. queue' = queue /\ taken' = taken /\ lost' = lost /\ twice' = twice
          /\ (op[c] = "push" => at'[c] # "ok")
      BY <2>5 DEF Untouched, queueVars
    <3>2. NothingTaken'
      BY <2>1, <2>2, <3>1 DEF Tasks, NothingTaken
    <3> QED
      BY <2>1, <2>2, <3>1, <3>2 DEF Tasks, OneCopy, Somewhere
  <2> QED
    BY <2>1, <2>3, <2>4, <2>5
<1>2. CASE (\E c \in Calls : Request(c)) /\ UNCHANGED <<op, queueVars>>
  <2>1. PICK c \in Calls : Request(c)
    BY <1>2
  <2>2. queue' = queue /\ taken' = taken /\ lost' = lost /\ twice' = twice /\ op' = op
    BY <1>2 DEF queueVars
  <2>3. op[c] = "request" /\ (\A d \in Calls \ {c} : at'[d] = at[d])
        /\ (at'[c] = "begun" => at[c] = "begun")
    BY <2>1, RequestEffect
  <2> QED
    BY <2>2, <2>3 DEF Tasks, NothingTaken, OneCopy, Somewhere
<1>3. CASE (AgentStep /\ UNCHANGED <<at, op, redisVars>>) \/ UNCHANGED vars
  BY <1>3 DEF vars, redisVars, queueVars, Tasks, NothingTaken, OneCopy, Somewhere
<1> QED
  BY <1>1, <1>2, <1>3 DEF Next

\* A task is with one worker or once in the list, unless both tries of its push
\* were executed, and it is there when the push has returned, unless the reply
\* to a pop was lost.
THEOREM TasksAreKept == Spec => []TasksAreAccountedFor
<1>1. Init => Tasks
  <2> SUFFICES ASSUME Init PROVE Tasks
    OBVIOUS
  <2>1. /\ \A c \in Calls : at[c] = "begun" /\ taken[c] = "none"
        /\ \A i : i \notin 1 .. Len(queue)
    BY DEF Init, RedisInit
  <2> QED
    BY <2>1, CallsAssumption DEF Tasks, NothingTaken, OneCopy, Somewhere
<1>2. TypeOK /\ Tasks /\ [Next]_vars => Tasks'
  BY TasksStep
<1>3. TypeOK /\ Tasks => TasksAreAccountedFor
  <2> SUFFICES ASSUME TypeOK, Tasks, NEW t \in Calls
               PROVE  /\ t \notin twice => Cardinality(Holders(t)) + Cardinality(InQueue(t)) <= 1
                      /\ op[t] = "push" /\ at[t] = "ok" /\ t \notin lost
                            => Holders(t) # {} \/ InQueue(t) # {}
    BY DEF TasksAreAccountedFor
  <2>1. ASSUME t \notin twice
        PROVE  Cardinality(Holders(t)) + Cardinality(InQueue(t)) <= 1
    <3>1. OneCopy(t)
      BY DEF Tasks
    <3>2. Holders(t) = {} \/ \E c : Holders(t) = {c}
      BY <2>1, <3>1 DEF OneCopy, Holders
    <3>3. InQueue(t) = {} \/ \E i : InQueue(t) = {i}
      <4>1. \A i, j \in InQueue(t) : i = j
        BY <2>1, <3>1 DEF OneCopy, InQueue
      <4> QED
        BY <4>1
    <3>4. Holders(t) = {} \/ InQueue(t) = {}
      BY <2>1, <3>1 DEF OneCopy, Holders, InQueue
    <3>5. Cardinality(Holders(t)) \in {0, 1} /\ Cardinality(InQueue(t)) \in {0, 1}
      BY <3>2, <3>3, FS_EmptySet, FS_Singleton
    <3>6. Cardinality(Holders(t)) = 0 \/ Cardinality(InQueue(t)) = 0
      BY <3>4, FS_EmptySet
    <3> QED
      BY <3>5, <3>6
  <2>2. op[t] = "push" /\ at[t] = "ok" /\ t \notin lost => Holders(t) # {} \/ InQueue(t) # {}
    BY DEF Tasks, Somewhere, Holders, InQueue
  <2> QED
    BY <2>1, <2>2
<1> QED
  BY <1>1, <1>2, <1>3, TypeCorrect, PTL DEF Spec
=============================================================================

----------------------------- MODULE RedisState -----------------------------
(***************************************************************************)
(* state/redis.py: commands to Redis from calls that run concurrently, and *)
(* the task queue.  The client is made with retry_on_timeout: a command    *)
(* whose reply does not come in time is sent a second time, whether or not *)
(* Redis has executed it.                                                  *)
(***************************************************************************)
EXTENDS Naturals, Sequences, FiniteSets

CONSTANT Calls  \* calls of the operations, each made once

ASSUME CallsAssumption == "none" \notin Calls

VARIABLES
    at,       \* at[c]: the step that call c has reached
    op,       \* op[c]: its operation
    second,   \* calls whose command is on its second try
    queue,    \* the list in Redis; a task is named by the call that pushes it
    taken,    \* taken[c]: the task that pop_task has returned to c, or "none"
    lost,     \* tasks that were popped for a reply that did not come
    twice     \* tasks that both tries have pushed

queueVars == <<queue, taken, lost, twice>>
redisVars == <<second, queueVars>>

RedisInit ==
    /\ second = {}
    /\ queue = << >>
    /\ taken = [c \in Calls |-> "none"]
    /\ lost = {} /\ twice = {}

-----------------------------------------------------------------------------
(* A command: its reply comes and the call goes on, or it does not come in  *)
(* time and the command is sent once more, or the call raises.              *)

Replied(c, step, next) ==
    at[c] = step /\ at' = [at EXCEPT ![c] = next] /\ second' = second \ {c}

Unanswered(c, step) ==
    /\ at[c] = step
    /\ \/ c \notin second /\ second' = second \cup {c} /\ UNCHANGED at
       \/ second' = second \ {c} /\ at' = [at EXCEPT ![c] = "raised"]

\* The command has been executed, its reply may be lost.
Executed(c, step, next) == Replied(c, step, next) \/ Unanswered(c, step)

-----------------------------------------------------------------------------
(* push_task and pop_task.                                                  *)

InQueue(t) == {i \in 1 .. Len(queue) : queue[i] = t}
Holders(t) == {c \in Calls : taken[c] = t}

PushTask(c) ==
    /\ op[c] = "push" /\ Executed(c, "begun", "ok")
    /\ queue' = Append(queue, c)
    /\ twice' = IF InQueue(c) # {} \/ Holders(c) # {} \/ c \in lost
                THEN twice \cup {c} ELSE twice
    /\ UNCHANGED <<taken, lost>>

\* Fault: the first task is read, and removed by a command of its own.
PopTaskUnremoved(c) ==
    /\ op[c] = "pop" /\ queue # << >>
    /\ \/ /\ Replied(c, "begun", "ok")
          /\ taken' = [taken EXCEPT ![c] = Head(queue)] /\ UNCHANGED <<queue, lost>>
       \/ /\ Unanswered(c, "begun")
          /\ lost' = lost \cup {Head(queue)} /\ queue' = Tail(queue) /\ UNCHANGED taken
    /\ UNCHANGED twice

\* BLPOP takes the task off, whether its reply arrives or not.
PopTask(c) ==
    /\ op[c] = "pop" /\ queue # << >>
    /\ queue' = Tail(queue)
    /\ \/ /\ Replied(c, "begun", "ok")
          /\ taken' = [taken EXCEPT ![c] = Head(queue)] /\ UNCHANGED lost
       \/ /\ Unanswered(c, "begun")
          /\ lost' = lost \cup {Head(queue)} /\ UNCHANGED taken
    /\ UNCHANGED twice

\* Nothing came within its timeout.
PopNothing(c) ==
    /\ op[c] = "pop" /\ queue = << >>
    /\ Replied(c, "begun", "ok")
    /\ UNCHANGED queueVars

QueueStep ==
    \E c \in Calls :
       \/ PushTask(c) \/ PopTask(c) \/ PopNothing(c)
       \/ op[c] \in {"push", "pop"} /\ Unanswered(c, "begun") /\ UNCHANGED queueVars

-----------------------------------------------------------------------------
\* No task is taken by two workers or handed out while it is still in the
\* list, unless both tries have pushed it; and a task whose push has returned is
\* in the list or with a worker, unless the reply of a pop was lost (RPUSH and
\* BLPOP are no idempotent commands, yet they are repeated).
TasksAreAccountedFor ==
    \A t \in Calls :
       /\ t \notin twice => Cardinality(Holders(t)) + Cardinality(InQueue(t)) <= 1
       /\ op[t] = "push" /\ at[t] = "ok" /\ t \notin lost => Holders(t) # {} \/ InQueue(t) # {}
=============================================================================

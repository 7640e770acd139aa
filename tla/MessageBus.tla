----------------------------- MODULE MessageBus -----------------------------
(***************************************************************************)
(* orchestrator/messages.py over RedisState: requests to one agent, and    *)
(* the answers to them.  An answer may be late, expire, or belong to an    *)
(* earlier try with the same message.                                      *)
(***************************************************************************)
EXTENDS RedisState

CONSTANT Messages  \* messages, each with a correlation id of its own

VARIABLES
    message,    \* message[c]: the message that call c requests an answer to
    inbox,      \* the cached message for the agent, or "none"
    seen,       \* messages that the agent has read from there
    responses,  \* responses[m]: the message that the response cached for m answers, or "none"
    result      \* result[c]: the message whose response request has returned, or "none"

busVars == <<message, inbox, seen, responses, result>>
vars    == <<at, op, redisVars, busVars>>

Ops == {"push", "pop", "request"}

Init ==
    /\ RedisInit
    /\ at = [c \in Calls |-> "begun"]
    /\ op \in [Calls -> Ops]
    /\ message \in [Calls -> Messages]
    /\ inbox = "none" /\ seen = {}
    /\ responses = [m \in Messages |-> "none"]
    /\ result = [c \in Calls |-> "none"]

-----------------------------------------------------------------------------
\* send: the inbox is one key, each message replaces the one before.
StoreMessage(c) ==
    /\ op[c] = "request" /\ Executed(c, "begun", "publishing")
    /\ inbox' = message[c]
    /\ UNCHANGED <<message, seen, responses, result>>

\* Who listens gets an envelope of a log line, in which there is no sender:
\* listen drops it.
PublishMessage(c) ==
    /\ op[c] = "request" /\ Executed(c, "publishing", "polling")
    /\ UNCHANGED busVars

Poll(c) ==
    /\ op[c] = "request"
    /\ LET found == responses[message[c]] IN
       /\ Executed(c, "polling", IF found = "none" THEN "polling" ELSE "ok")
       /\ result' = [result EXCEPT ![c] = IF at'[c] = "ok" THEN found ELSE @]
    /\ UNCHANGED <<message, inbox, seen, responses>>

\* After response_timeout it returns None.
PollNoMore(c) ==
    /\ op[c] = "request" /\ c \notin second
    /\ Replied(c, "polling", "ok")
    /\ UNCHANGED busVars

-----------------------------------------------------------------------------
\* The agent reads its inbox, and responds to what it has read at some time.
ReadInbox ==
    /\ inbox # "none" /\ seen' = seen \cup {inbox}
    /\ UNCHANGED <<message, inbox, responses, result>>

\* Fault: the response is put where the newest message waits for it.
RespondToNewest(m) ==
    /\ m \in seen /\ inbox # "none" /\ responses' = [responses EXCEPT ![inbox] = m]
    /\ UNCHANGED <<message, inbox, seen, result>>

Respond(m) ==
    /\ m \in seen /\ responses' = [responses EXCEPT ![m] = m]
    /\ UNCHANGED <<message, inbox, seen, result>>

\* A key reaches its time to live, 300 seconds in the inbox, 60 for a response.
ExpireInbox ==
    /\ inbox' = "none"
    /\ UNCHANGED <<message, seen, responses, result>>

ExpireResponse(m) ==
    /\ responses' = [responses EXCEPT ![m] = "none"]
    /\ UNCHANGED <<message, inbox, seen, result>>

-----------------------------------------------------------------------------
Request(c) == \/ StoreMessage(c) \/ PublishMessage(c) \/ Poll(c) \/ PollNoMore(c)
              \/ /\ op[c] = "request"
                 /\ \E step \in {"begun", "publishing", "polling"} : Unanswered(c, step)
                 /\ UNCHANGED busVars

AgentStep == \/ ReadInbox \/ ExpireInbox
             \/ \E m \in Messages : Respond(m) \/ ExpireResponse(m)

Next ==
    \/ QueueStep /\ UNCHANGED <<op, busVars>>
    \/ (\E c \in Calls : Request(c)) /\ UNCHANGED <<op, queueVars>>
    \/ AgentStep /\ UNCHANGED <<at, op, redisVars>>

Spec == Init /\ [][Next]_vars

-----------------------------------------------------------------------------
TypeOK ==
    /\ at \in [Calls -> {"begun", "publishing", "polling", "ok", "raised"}]
    /\ op \in [Calls -> Ops] /\ message \in [Calls -> Messages]
    /\ second \subseteq Calls /\ lost \subseteq Calls /\ twice \subseteq Calls
    /\ queue \in Seq(Calls)
    /\ taken \in [Calls -> Calls \cup {"none"}]
    /\ inbox \in Messages \cup {"none"} /\ seen \subseteq Messages
    /\ responses \in [Messages -> Messages \cup {"none"}]
    /\ result \in [Calls -> Messages \cup {"none"}]

\* A request returns None or the response to its own message, though the agent
\* may answer late, when the inbox holds another message, and though commands
\* are executed twice: a second try with the same message keeps its
\* correlation id and gets the answer to the first.
OwnResponse ==
    \A c \in Calls : result[c] # "none" => result[c] = message[c]
=============================================================================

------------------------------ MODULE Webhooks ------------------------------
(***************************************************************************)
(* The webhooks table and the routes that change it: routes/webhooks.py    *)
(* over WebhookRepository.  Every statement commits by itself, so a route  *)
(* is atomic in what it changes; the names are unique in the table, which  *)
(* decides between two creations, and say nothing else.                    *)
(***************************************************************************)
EXTENDS Naturals, Sequences

CONSTANTS
    MaxHooks,    \* bound on the rows
    MaxChanges   \* bound on the calls of the routes

ASSUME HookAssumption == MaxHooks \in Nat \ {0} /\ MaxChanges \in Nat

VARIABLES
    hooks,   \* hooks[n]: the n-th row; deleted rows have no wants
    changes  \* calls of the routes so far

hookVars == <<hooks, changes>>

\* How a run can end; the events are "agent.run." and the status.
Statuses == {"completed", "failed"}

\* A row that is inactive wants nothing; of the last response code it matters
\* whether there is one.
Row == [exists : BOOLEAN, wants : SUBSET Statuses, code : {"none", "some"}]
Deleted == [exists |-> FALSE, wants |-> {}, code |-> "none"]
NewRow(wants) == [exists |-> TRUE, wants |-> wants, code |-> "none"]

HooksInit == hooks = <<NewRow({"completed"})>> /\ changes = 0

-----------------------------------------------------------------------------
Change == changes < MaxChanges /\ changes' = changes + 1

\* An empty list of events stands for the default; the row may be inactive.
CreateWebhook ==
    /\ Change /\ Len(hooks) < MaxHooks
    /\ \E events \in SUBSET Statuses, active \in BOOLEAN :
        LET wanted == IF events = {} THEN {"completed"} ELSE events
        IN  hooks' = Append(hooks, NewRow(IF active THEN wanted ELSE {}))

\* Here an empty list is stored as it is.
UpdateWebhook ==
    /\ Change
    /\ \E n \in DOMAIN hooks, wanted \in SUBSET Statuses :
        /\ hooks[n].exists
        /\ hooks' = [hooks EXCEPT ![n].wants = wanted]

DeleteWebhook ==
    /\ Change
    /\ \E n \in DOMAIN hooks :
        /\ hooks[n].exists
        /\ hooks' = [hooks EXCEPT ![n] = Deleted]

\* get_active_by_event; the newest row comes first.
ActiveByEvent(status) == {n \in DOMAIN hooks : status \in hooks[n].wants}
Newest(ns) == CHOOSE n \in ns : \A m \in ns : m <= n

\* UPDATE of the dispatch; a row that is gone is not found.
WithCode(n, code) ==
    IF hooks[n].exists THEN [hooks EXCEPT ![n].code = code] ELSE hooks

Routes == CreateWebhook \/ UpdateWebhook \/ DeleteWebhook
=============================================================================

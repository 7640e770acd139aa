------------------------------ MODULE Accounts ------------------------------
(***************************************************************************)
(* Users, passwords, API keys, roles and the audit log: routes/auth.py but *)
(* for the sessions (AuthServer), auth/dependencies.py and auth/models.py. *)
(* A request is a chain of transactions that other requests may come       *)
(* between: get_current_user, a check, the write, and the audit entry.     *)
(* Rows are never deleted, and the n-th row of a table has the id n.  No   *)
(* route disables a user or sets the roles of one, and expires_at of a key *)
(* is not looked at.                                                       *)
(***************************************************************************)
EXTENDS Naturals, Sequences, FiniteSets

CONSTANTS
    Calls,     \* requests to the router
    Requests,  \* what they may ask for
    FirstUser, \* the user that is registered already, the administrator
    MaxUsers, MaxKeys  \* bounds on the rows of two tables

VARIABLES
    users,    \* table users
    keys,     \* table api_keys
    roles,    \* names in table roles
    log,      \* audit entries: the call and whether it was a success
    at,       \* at[c]: the step that call c has reached
    request,  \* request[c]: its body
    caller,   \* caller[c]: the credential it is sent with
    made,     \* made[c]: the id of the row that c has written, or 0
    before    \* before[c]: calls that had been answered "ok" when c was sent

tables      == <<users, keys, roles, log>>
accountVars == <<tables, at, request, caller, made, before>>

Op == {"register", "login", "change", "create key", "revoke key", "create role",
       "read own", "read all"}
Unsent == [op |-> "none"]
Guarded(q) == q.op \notin {"register", "login"}

\* A bearer token names a user, X-API-Key a key.
Credential == [by : {"token"}, id : DOMAIN users] \cup [by : {"key"}, id : DOMAIN keys]
Nobody     == [by |-> "none", id |-> 0]

Steps   == {"sent", "scanned", "admitted", "checked", "mismatched", "committed"}
Answers == {"ok", "unauthorized", "refused", "forbidden", "conflict", "not found", "error"}

ASSUME AccountsAssumption ==
    /\ MaxUsers \in Nat /\ MaxKeys \in Nat \ {0}
    /\ \A q \in Requests : q.op \in Op
    /\ FirstUser = [name |-> FirstUser.name, email |-> FirstUser.email,
                    password |-> FirstUser.password, admin |-> FirstUser.admin]

NewKey(owner, admin) == [owner |-> owner, admin |-> admin, active |-> TRUE, used |-> FALSE]

\* An administrator, who has made a key.
AccountsInit ==
    /\ users = <<FirstUser>>
    /\ keys = <<NewKey(1, FALSE)>>
    /\ roles = {} /\ log = {}
    /\ at = [c \in Calls |-> "new"]
    /\ request = [c \in Calls |-> Unsent]
    /\ caller = [c \in Calls |-> Nobody]
    /\ made = [c \in Calls |-> 0]
    /\ before = [c \in Calls |-> {}]

-----------------------------------------------------------------------------
Goes(c, from, to) == at[c] = from /\ at' = [at EXCEPT ![c] = to]
Asks(c, op)       == request[c].op = op

Send(c, q, who) ==
    /\ Goes(c, "new", "sent")
    /\ request' = [request EXCEPT ![c] = q]
    /\ caller' = [caller EXCEPT ![c] = who]
    /\ before' = [before EXCEPT ![c] = {d \in Calls : at[d] = "ok"}]
    /\ UNCHANGED <<tables, made>>

\* The call has read what it needs, and nothing is written.
Checks(c, from, to) == Goes(c, from, to) /\ UNCHANGED <<tables, request, caller, made, before>>

\* The call has written row n of one table.
Commits(c, from, n) ==
    /\ Goes(c, from, "committed")
    /\ made' = [made EXCEPT ![c] = n]
    /\ UNCHANGED <<log, request, caller, before>>

-----------------------------------------------------------------------------
(* get_current_user and require_admin.                                      *)

\* A bearer token is believed by its signature until it expires; no row is read.
CheckToken(c) ==
    /\ Guarded(request[c]) /\ caller[c].by # "key"
    /\ \/ caller[c].by = "token" /\ Checks(c, "sent", "admitted")
       \/ Checks(c, "sent", "unauthorized")

\* The active keys are read and their hashes compared one after the other.
ScanKeys(c) ==
    /\ Guarded(request[c]) /\ caller[c].by = "key"
    /\ Checks(c, "sent", IF keys[caller[c].id].active THEN "scanned" ELSE "unauthorized")

\* Fault: the row is written back as it was read.
MarkUsedWhole(c) ==
    /\ Goes(c, "scanned", "admitted")
    /\ keys' = [keys EXCEPT ![caller[c].id].used = TRUE, ![caller[c].id].active = TRUE]
    /\ UNCHANGED <<users, roles, log, request, caller, made, before>>

\* last_used_at is the only column of the key that is written.
MarkUsed(c) ==
    /\ Goes(c, "scanned", "admitted")
    /\ keys' = [keys EXCEPT ![caller[c].id].used = TRUE]
    /\ UNCHANGED <<users, roles, log, request, caller, made, before>>

\* The user that the call acts for, and whether "admin" is one of its roles:
\* those of the token, or the permissions of the key.
Who(c) == IF caller[c].by = "key" THEN keys[caller[c].id].owner ELSE caller[c].id

IsAdmin(c) == IF caller[c].by = "key" THEN keys[caller[c].id].admin ELSE users[caller[c].id].admin

Forbid(c) ==
    /\ request[c].op \in {"create role", "read all"}
    /\ at[c] = "admitted" /\ ~IsAdmin(c)
    /\ Checks(c, "admitted", "forbidden")

-----------------------------------------------------------------------------
(* register and login.                                                      *)

\* One query for both columns; two rows make scalar_one_or_none raise.
FindUser(c) ==
    LET same == {n \in DOMAIN users : \/ users[n].name = request[c].name
                                      \/ users[n].email = request[c].email} IN
    /\ Asks(c, "register")
    /\ Checks(c, "sent", CASE Cardinality(same) = 0 -> "checked"
                           [] Cardinality(same) = 1 -> "conflict"
                           [] OTHER                 -> "error")

NewUser(q) == [name |-> q.name, email |-> q.email, password |-> q.new, admin |-> FALSE]

\* Fault: the columns are not unique.
InsertAnyUser(c) ==
    /\ Asks(c, "register") /\ at[c] = "checked"
    /\ Len(users) < MaxUsers
    /\ users' = Append(users, NewUser(request[c]))
    /\ Commits(c, "checked", Len(users) + 1)
    /\ UNCHANGED <<keys, roles>>

\* The unique constraints decide between registrations that both passed the check.
InsertUser(c) ==
    LET taken == \E n \in DOMAIN users : \/ users[n].name = request[c].name
                                         \/ users[n].email = request[c].email IN
    /\ Asks(c, "register")
    /\ \/ taken /\ Checks(c, "checked", "error")
       \/ /\ ~taken /\ Len(users) < MaxUsers
          /\ Commits(c, "checked", Len(users) + 1)
          /\ users' = Append(users, NewUser(request[c]))
          /\ UNCHANGED <<keys, roles>>

\* login, without the session that it opens; made[c] is the user, who may give
\* the address, which is unique as well, for the name.
CheckPassword(c) ==
    LET user == {n \in DOMAIN users : /\ users[n].name = request[c].name
                                      /\ users[n].password = request[c].old} IN
    /\ Asks(c, "login")
    /\ \/ user = {} /\ Checks(c, "sent", "mismatched")
       \/ \E n \in user : Commits(c, "sent", n) /\ UNCHANGED <<users, keys, roles>>

-----------------------------------------------------------------------------
(* change_password, the API keys, the roles and the lists.                  *)

VerifyOld(c) ==
    /\ Asks(c, "change") /\ at[c] = "admitted"
    /\ Checks(c, "admitted", IF users[Who(c)].password = request[c].old
                             THEN "checked" ELSE "mismatched")

\* Fault: the session is closed without commit().
SetPasswordUncommitted(c) ==
    /\ Asks(c, "change") /\ Commits(c, "checked", Who(c))
    /\ UNCHANGED <<users, keys, roles>>

\* The hash is set whatever it is by now.
SetPassword(c) ==
    /\ Asks(c, "change") /\ Commits(c, "checked", Who(c))
    /\ users' = [users EXCEPT ![Who(c)].password = request[c].new]
    /\ UNCHANGED <<keys, roles>>

CreateKey(c) ==
    /\ Asks(c, "create key") /\ Len(keys) < MaxKeys
    /\ Commits(c, "admitted", Len(keys) + 1)
    /\ keys' = Append(keys, NewKey(Who(c), request[c].admin))
    /\ UNCHANGED <<users, roles>>

\* Fault: a key is looked for by its id alone.
FindAnyKey(c) ==
    /\ Asks(c, "revoke key")
    /\ Checks(c, "admitted", IF request[c].key \in DOMAIN keys THEN "checked" ELSE "not found")

FindOwnKey(c) ==
    /\ Asks(c, "revoke key") /\ at[c] = "admitted"
    /\ \/ /\ request[c].key \in DOMAIN keys /\ keys[request[c].key].owner = Who(c)
          /\ Checks(c, "admitted", "checked")
       \/ /\ request[c].key \in DOMAIN keys => keys[request[c].key].owner # Who(c)
          /\ Checks(c, "admitted", "not found")

Revoke(c) ==
    /\ Asks(c, "revoke key") /\ Commits(c, "checked", request[c].key)
    /\ keys' = [keys EXCEPT ![request[c].key].active = FALSE]
    /\ UNCHANGED <<users, roles>>

FindRole(c) ==
    /\ Asks(c, "create role") /\ at[c] = "admitted" /\ IsAdmin(c)
    /\ Checks(c, "admitted", IF request[c].name \in roles THEN "conflict" ELSE "checked")

InsertRole(c) ==
    /\ Asks(c, "create role")
    /\ \/ request[c].name \in roles /\ Checks(c, "checked", "error")
       \/ /\ request[c].name \notin roles
          /\ Commits(c, "checked", 1)
          /\ roles' = roles \cup {request[c].name}
          /\ UNCHANGED <<users, keys>>

\* get_me and list_api_keys; list_roles, list_users and list_audit_logs.
Lists(c) ==
    /\ at[c] = "admitted"
    /\ Asks(c, "read own") \/ (Asks(c, "read all") /\ IsAdmin(c))
    /\ Checks(c, "admitted", "ok")

-----------------------------------------------------------------------------
\* Fault: the success is logged before the commit.
AuditAhead(c) ==
    \/ /\ at[c] = "checked" /\ <<c, TRUE>> \notin log
       /\ log' = log \cup {<<c, TRUE>>}
       /\ UNCHANGED <<users, keys, roles, at, request, caller, made, before>>
    \/ Checks(c, "committed", "ok")
    \/ Checks(c, "mismatched", "refused")

\* _audit_log has a session of its own; the answer comes after it.
Audit(c) ==
    /\ \/ Goes(c, "committed", "ok") /\ log' = log \cup {<<c, TRUE>>}
       \/ Goes(c, "mismatched", "refused") /\ log' = log \cup {<<c, FALSE>>}
    /\ UNCHANGED <<users, keys, roles, request, caller, made, before>>

\* Anything raises, or the process stops: what is committed stays committed.
Fail(c) ==
    /\ at[c] \in Steps
    /\ at' = [at EXCEPT ![c] = "error"]
    /\ UNCHANGED <<tables, request, caller, made, before>>

Serve(c) ==
    \/ CheckToken(c) \/ ScanKeys(c) \/ MarkUsed(c) \/ Forbid(c)
    \/ FindUser(c) \/ InsertUser(c) \/ CheckPassword(c)
    \/ VerifyOld(c) \/ SetPassword(c)
    \/ CreateKey(c) \/ FindOwnKey(c) \/ Revoke(c)
    \/ FindRole(c) \/ InsertRole(c) \/ Lists(c)
    \/ Audit(c) \/ Fail(c)
=============================================================================

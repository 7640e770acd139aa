----------------------------- MODULE Terminals ------------------------------
(***************************************************************************)
(* The router of Accounts and who calls it: terminals of one machine,      *)
(* which run the commands of cli/auth.py and share its credentials file,   *)
(* and other clients, with any credential that has been handed out.        *)
(***************************************************************************)
EXTENDS Accounts

CONSTANTS NoFile, Torn

ASSUME TerminalAssumption == NoFile \notin Nat \cup {Torn} /\ Torn \notin Nat

VARIABLES
    file,    \* whose token credentials.json has; Torn if it is no JSON
    shell,   \* shell[c]: how far the command that makes c is, "none" for a client
    opened   \* those that have the file open for writing that is there now

fileVars == <<file, shell, opened>>
vars     == <<accountVars, fileVars>>

Init ==
    /\ AccountsInit
    /\ file = NoFile /\ shell = [c \in Calls |-> "none"] /\ opened = {}

-----------------------------------------------------------------------------
\* A client knows the token or the key of an answer, and what the administrator
\* had before.
Handed(by, op) == {[by |-> by, id |-> made[d]] : d \in {d \in Calls : at[d] = "ok" /\ Asks(d, op)}}
HandedOut == Handed("token", "login") \cup Handed("key", "create key")
             \cup {[by |-> "token", id |-> 1], [by |-> "key", id |-> 1]}

ClientSends(c) ==
    /\ \E q \in Requests :
          \E who \in (IF Guarded(q) THEN HandedOut ELSE {Nobody}) : Send(c, q, who)
    /\ UNCHANGED fileVars

CommandSends(c, q, who) ==
    /\ Send(c, q, who)
    /\ shell' = [shell EXCEPT ![c] = "waiting"]
    /\ UNCHANGED <<file, opened>>

\* register and login take no notice of the file.
CommandLogsIn(c) ==
    \E q \in Requests : ~Guarded(q) /\ CommandSends(c, q, Nobody)

\* api-key, list-keys and revoke-key send the token of the file; a torn one
\* makes json.loads raise, and nothing is sent.
Headers == IF file = NoFile THEN Nobody ELSE [by |-> "token", id |-> file]

CommandActs(c) ==
    /\ file # Torn
    /\ \E q \in Requests :
          q.op \in {"create key", "revoke key", "read own"} /\ CommandSends(c, q, Headers)

\* login has its answer: write_text opens the file, which truncates it or makes
\* a new one,
StartSaving(c) ==
    /\ Asks(c, "login") /\ at[c] = "ok"
    /\ shell[c] = "waiting" /\ shell' = [shell EXCEPT ![c] = "saving"]
    /\ file' = Torn /\ opened' = opened \cup {c}
    /\ UNCHANGED accountVars

\* and writes it from its start.  Where another login has written meanwhile, the
\* end of a longer text may be left.  A file that has been removed is written in
\* vain.
Save(c) ==
    /\ shell[c] = "saving" /\ shell' = [shell EXCEPT ![c] = "over"]
    /\ IF c \in opened
       THEN file' \in {made[c]} \cup (IF file = Torn THEN {} ELSE {Torn})
       ELSE UNCHANGED file
    /\ opened' = opened \ {c}
    /\ UNCHANGED accountVars

\* The terminal is closed while it writes.
Killed(c) ==
    /\ shell[c] = "saving" /\ shell' = [shell EXCEPT ![c] = "over"]
    /\ opened' = opened \ {c}
    /\ UNCHANGED <<accountVars, file>>

\* logout removes the file; the tokens stay valid.
Logout ==
    /\ file # NoFile
    /\ file' = NoFile /\ opened' = {}
    /\ UNCHANGED <<accountVars, shell>>

Next ==
    \/ \E c \in Calls :
          \/ ClientSends(c) \/ CommandLogsIn(c) \/ CommandActs(c)
          \/ StartSaving(c) \/ Save(c) \/ Killed(c)
          \/ Serve(c) /\ UNCHANGED fileVars
    \/ Logout

Spec == Init /\ [][Next]_vars

-----------------------------------------------------------------------------
Values(field) == {q[field] : q \in Requests}

User == [name     : {FirstUser.name} \cup Values("name"),
         email    : {FirstUser.email} \cup Values("email"),
         password : {FirstUser.password} \cup Values("new"),
         admin    : {FirstUser.admin, FALSE}]
Key(owners) == [owner : owners, admin : {FALSE} \cup Values("admin"),
                active : BOOLEAN, used : BOOLEAN]

TypeOK ==
    /\ users \in Seq(User) /\ keys \in Seq(Key(DOMAIN users))
    /\ at \in [Calls -> {"new"} \cup Steps \cup Answers]
    /\ request \in [Calls -> Requests \cup {Unsent}]
    /\ caller \in [Calls -> Credential \cup {Nobody}]
    /\ made \in [Calls -> Nat]
    /\ before \in [Calls -> SUBSET Calls]
    /\ log \subseteq Calls \X BOOLEAN
    /\ file \in DOMAIN users \cup {NoFile, Torn}
    /\ shell \in [Calls -> {"none", "waiting", "saving", "over"}]
    /\ opened \subseteq {c \in Calls : shell[c] = "saving"}

\* Two users never share a name or an address, though a registration looks for
\* them long before it inserts its own.
UsersDiffer ==
    \A m, n \in DOMAIN users :
        users[m].name = users[n].name \/ users[m].email = users[n].email => m = n

\* The guarded part of a route begins.
Admitted(c) == Guarded(request[c]) /\ at[c] \notin {"new", "sent", "scanned", "unauthorized", "error"}

\* A key whose revocation has been answered admits no request sent later,
\* whatever other requests with that key were doing at the time.
RevokedKeyIsRefused ==
    \A c \in Calls : \A d \in before[c] :
        Asks(d, "revoke key") /\ caller[c] = [by |-> "key", id |-> request[d].key]
        => ~Admitted(c)

SetsTo(c, n, password) ==
    /\ Asks(c, "change") \/ Asks(c, "register")
    /\ made[c] = n /\ request[c].new = password

\* A password that a change, answered before the login was sent, has replaced
\* opens nothing, unless another request that was not over before that change
\* was sent has committed it again.
OldPasswordIsRefused ==
    \A c \in Calls : Asks(c, "login") /\ made[c] # 0 =>
        \A d \in before[c] :
            /\ Asks(d, "change") /\ Who(d) = made[c]
            /\ request[d].new # request[c].old
            => \E e \in Calls \ before[d] : SetsTo(e, made[c], request[c].old)

Committed(c) == made[c] # 0

\* A success in the audit log has been committed, and what is answered "ok" and
\* changes a table is in the log.
AuditIsTrue ==
    /\ \A c \in Calls : <<c, TRUE>> \in log => Committed(c)
    /\ \A c \in Calls : at[c] = "ok" /\ Committed(c) => <<c, TRUE>> \in log

\* A command touches keys of one user only, who has logged in on this machine
\* before it: neither a login on another terminal nor a torn file gives it the
\* keys of somebody else.
CommandTouchesOwnKeys ==
    \A c \in Calls :
        shell[c] # "none" /\ (Asks(c, "create key") \/ Asks(c, "revoke key")) /\ Committed(c) =>
            \E d \in before[c] :
                shell[d] # "none" /\ Asks(d, "login") /\ keys[made[c]].owner = made[d]
=============================================================================

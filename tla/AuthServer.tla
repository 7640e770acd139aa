----------------------------- MODULE AuthServer -----------------------------
(***************************************************************************)
(* The sessions of the API: routes/auth.py (login, refresh) with           *)
(* auth/service.py and auth/dependencies.py.  Every fetch of the browser   *)
(* has a request on the server, which goes on whether or not the browser   *)
(* still waits for it.  The n-th session row holds the n-th pair of        *)
(* tokens; a JWT is valid until it expires, whatever becomes of its row.   *)
(***************************************************************************)
EXTENDS Naturals, FiniteSets

CONSTANTS
    Calls,     \* calls of the browser's api client, each made once
    Kind,      \* Kind[c]: "login", "me" or "api", any other guarded route
    MaxTokens  \* bound on the session rows

ASSUME CallAssumption ==
    /\ Kind \in [Calls -> {"login", "me", "api"}]
    /\ MaxTokens \in Nat

VARIABLES
    stage,     \* stage[c]: how far the request that serves c is
    token,     \* token[c]: the pair it was sent with, 0 if none
    got,       \* got[c]: the pair it has issued
    issued,    \* session rows so far
    from,      \* from[n]: the row that was refreshed into n, 0 after a login
    active,    \* rows with is_active
    over,      \* rows whose access token has expired
    audited,   \* rows with an audit entry of success
    performed  \* performed[c]: times the handler of c has run

serverVars == <<stage, token, got, issued, from, active, over, audited, performed>>

Tokens == 1 .. MaxTokens

\* The stages of a request.
Busy    == {"call", "refresh", "checked login", "checked refresh", "committed"}
Answers == {"ok", "unauthorized", "error"}

ServerInit ==
    /\ stage = [c \in Calls |-> "none"]
    /\ token = [c \in Calls |-> 0]
    /\ got = [c \in Calls |-> 0]
    /\ issued = 0
    /\ from = [n \in Tokens |-> 0]
    /\ active = {}
    /\ over = {}
    /\ audited = {}
    /\ performed = [c \in Calls |-> 0]

-----------------------------------------------------------------------------
\* get_current_user: the signature and the expiry of the token, no row.
Valid(n) == n # 0 /\ n \notin over

\* A guarded route: refused, or performed with or without an error.
Guarded(c) ==
    /\ stage[c] = "call" /\ Kind[c] # "login"
    /\ IF Valid(token[c])
       THEN /\ \E answer \in {"ok", "error"} : stage' = [stage EXCEPT ![c] = answer]
            /\ performed' = [performed EXCEPT ![c] = @ + 1]
       ELSE /\ stage' = [stage EXCEPT ![c] = "unauthorized"]
            /\ UNCHANGED performed
    /\ UNCHANGED <<token, got, issued, from, active, over, audited>>

\* login finds the user and checks the password; what it was sent with is
\* not looked at.
CheckLogin(c) ==
    /\ stage[c] = "call" /\ Kind[c] = "login"
    /\ \E next \in {"checked login", "unauthorized"} : stage' = [stage EXCEPT ![c] = next]
    /\ UNCHANGED <<token, got, issued, from, active, over, audited, performed>>

\* refresh verifies the token, which may have passed its 30 days, and looks
\* for its active row.
CheckRefresh(c) ==
    /\ stage[c] = "refresh"
    /\ \/ /\ token[c] \in active
          /\ stage' = [stage EXCEPT ![c] = "checked refresh"]
       \/ stage' = [stage EXCEPT ![c] = "unauthorized"]
    /\ UNCHANGED <<token, got, issued, from, active, over, audited, performed>>

\* Fault: the refreshed row is closed, but no new one is added.
CommitNoRow(c) ==
    /\ stage[c] \in {"checked login", "checked refresh"}
    /\ issued < MaxTokens
    /\ issued' = issued + 1
    /\ got' = [got EXCEPT ![c] = issued']
    /\ active' = (active \ {token[c]}) \cup
                 (IF stage[c] = "checked login" THEN {issued'} ELSE {})
    /\ stage' = [stage EXCEPT ![c] = "committed"]
    /\ UNCHANGED <<token, from, over, audited, performed>>

\* One transaction adds the new row and closes the refreshed one.  It compares
\* nothing: two refreshes that have both passed the check both commit.
Commit(c) ==
    /\ stage[c] \in {"checked login", "checked refresh"}
    /\ issued < MaxTokens
    /\ issued' = issued + 1
    /\ got' = [got EXCEPT ![c] = issued']
    /\ \/ /\ stage[c] = "checked login"
          /\ active' = active \cup {issued'}
          /\ UNCHANGED from
       \/ /\ stage[c] = "checked refresh"
          /\ active' = (active \ {token[c]}) \cup {issued'}
          /\ from' = [from EXCEPT ![issued'] = token[c]]
    /\ stage' = [stage EXCEPT ![c] = "committed"]
    /\ UNCHANGED <<token, over, audited, performed>>

\* _audit_log, a transaction of its own, and the answer.
Audit(c) ==
    /\ stage[c] = "committed"
    /\ audited' = audited \cup {got[c]}
    /\ stage' = [stage EXCEPT ![c] = "ok"]
    /\ UNCHANGED <<token, got, issued, from, active, over, performed>>

\* Anything raised on the way, a disabled account included, is an error; what
\* is committed stays committed.
ServerFails(c) ==
    /\ stage[c] \in Busy
    /\ stage' = [stage EXCEPT ![c] = "error"]
    /\ UNCHANGED <<token, got, issued, from, active, over, audited, performed>>

Expire ==
    /\ \E n \in 1 .. issued : over' = over \cup {n}
    /\ UNCHANGED <<stage, token, got, issued, from, active, audited, performed>>

Serve(c) ==
    Guarded(c) \/ CheckLogin(c) \/ CheckRefresh(c) \/ Commit(c) \/ Audit(c) \/ ServerFails(c)
=============================================================================

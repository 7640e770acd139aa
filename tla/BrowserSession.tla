--------------------------- MODULE BrowserSession ---------------------------
(***************************************************************************)
(* One tab of the UI: request() of ui/src/api/client.ts, the store of      *)
(* store/auth.ts and useAuth of hooks/useAuth.ts, against AuthServer.      *)
(* JavaScript runs to its next await, so a step is the delivery of one     *)
(* answer with all that request() does before its next fetch.              *)
(***************************************************************************)
EXTENDS AuthServer

VARIABLES
    at,    \* at[c]: what call c waits for, or how it ended
    store  \* the auth store, kept in localStorage

vars == <<serverVars, at, store>>

\* accessToken, refreshToken (0 for null) and isAuthenticated.
Store     == [access : 0 .. MaxTokens, refresh : 0 .. MaxTokens, signedIn : BOOLEAN]
LoggedOut == [access |-> 0, refresh |-> 0, signedIn |-> FALSE]

Init ==
    /\ ServerInit
    /\ at = [c \in Calls |-> "new"]
    /\ store = LoggedOut

-----------------------------------------------------------------------------
Waiting == {"calling", "refreshing", "retrying"}

(* Changes of the store.                                                    *)

Logout == store' = LoggedOut

\* setTokens leaves the user and isAuthenticated as they are.
SetTokensAccess(n) == store' = [store EXCEPT !.access = n]  \* fault: the refresh token is kept
SetTokens(n) == store' = [store EXCEPT !.access = n, !.refresh = n]

\* setAuth, after a login.
SetAuth(n) == store' = [access |-> n, refresh |-> n, signedIn |-> TRUE]

\* A fetch of c, sent with the pair n.
Fetch(c, what, n) ==
    /\ stage' = [stage EXCEPT ![c] = what]
    /\ token' = [token EXCEPT ![c] = n]
    /\ UNCHANGED <<got, issued, from, active, over, audited, performed>>

Ends(c, how) == at' = [at EXCEPT ![c] = how] /\ UNCHANGED serverVars

-----------------------------------------------------------------------------
\* The first fetch.  Guarded pages and refreshUser need isAuthenticated; the
\* form on /login can be sent at any time.
Send(c) ==
    /\ at[c] = "new"
    /\ Kind[c] # "login" => store.signedIn
    /\ at' = [at EXCEPT ![c] = "calling"]
    /\ Fetch(c, "call", store.access)
    /\ UNCHANGED store

\* The call succeeds, at once or after a refresh.
Succeeds(c) ==
    /\ at[c] \in {"calling", "retrying"} /\ stage[c] = "ok"
    /\ IF Kind[c] = "login" THEN SetAuth(got[c]) ELSE UNCHANGED store
    /\ Ends(c, "done")

\* 401: the refresh token is read now, not when the call was sent.
Refused(c) ==
    /\ at[c] = "calling" /\ stage[c] = "unauthorized"
    /\ \/ /\ store.refresh # 0
          /\ at' = [at EXCEPT ![c] = "refreshing"]
          /\ Fetch(c, "refresh", store.refresh)
          /\ UNCHANGED store
       \/ /\ store.refresh = 0
          /\ Logout
          /\ Ends(c, "failed")

\* Another error, no answer at all, or one whose body cannot be read, goes to
\* the caller; refreshUser then logs out, every other caller shows it.
Broken(c) ==
    \/ at[c] = "calling" /\ stage[c] # "unauthorized"
    \/ at[c] = "retrying" /\ stage[c] = "ok"

\* Fault: a call whose answer is lost is sent again.
FailsRetried(c) ==
    /\ Broken(c)
    /\ at' = [at EXCEPT ![c] = "retrying"]
    /\ Fetch(c, "call", store.access)
    /\ UNCHANGED store

Fails(c) ==
    /\ Broken(c)
    /\ IF Kind[c] = "me" THEN Logout ELSE UNCHANGED store
    /\ Ends(c, "failed")

\* The new pair is stored and the call sent again with it.
Refreshed(c) ==
    /\ at[c] = "refreshing" /\ stage[c] = "ok"
    /\ SetTokens(got[c])
    /\ at' = [at EXCEPT ![c] = "retrying"]
    /\ Fetch(c, "call", got[c])

\* The refresh is refused, or it or the second attempt fails in any way, a
\* lost answer included: the catch block logs out.
GivesUpKeeping(c) ==  \* fault: without a logout
    /\ at[c] \in {"refreshing", "retrying"} /\ stage[c] # "ok"
    /\ Ends(c, "failed")
    /\ UNCHANGED store

GivesUp(c) ==
    /\ at[c] \in {"refreshing", "retrying"} /\ stage[c] # "ok"
    /\ Logout
    /\ Ends(c, "failed")

\* The user logs out; the server is not told.
UserLogsOut ==
    /\ store.signedIn
    /\ Logout
    /\ UNCHANGED <<serverVars, at>>

\* The page is loaded anew, by the user or by the redirect to /login: every
\* call dies, the store comes back from localStorage.
Reload ==
    /\ \E c \in Calls : at[c] \in Waiting
    /\ at' = [c \in Calls |-> IF at[c] \in {"calling", "retrying"} THEN "gone"
                              ELSE IF at[c] = "refreshing" THEN "gone refreshing" ELSE at[c]]
    /\ UNCHANGED <<serverVars, store>>

\* Nothing is under way.
Rest ==
    /\ \A c \in Calls : at[c] \notin Waiting /\ stage[c] \notin Busy
    /\ UNCHANGED vars

Deliver(c) == Succeeds(c) \/ Refused(c) \/ Fails(c) \/ Refreshed(c) \/ GivesUp(c)

Next ==
    \/ \E c \in Calls : Send(c) \/ Deliver(c) \/ (Serve(c) /\ UNCHANGED <<at, store>>)
    \/ Expire /\ UNCHANGED <<at, store>>
    \/ UserLogsOut
    \/ Reload
    \/ Rest

Spec == Init /\ [][Next]_vars

-----------------------------------------------------------------------------
TypeOK ==
    /\ stage \in [Calls -> {"none"} \cup Busy \cup Answers]
    /\ token \in [Calls -> 0 .. issued] /\ got \in [Calls -> 0 .. issued]
    /\ issued \in 0 .. MaxTokens
    /\ from \in [Tokens -> 0 .. issued]
    /\ active \subseteq 1 .. issued /\ audited \subseteq 1 .. issued /\ over \subseteq 1 .. issued
    /\ performed \in [Calls -> Nat]
    /\ at \in [Calls -> {"new", "calling", "refreshing", "retrying", "done", "failed",
                         "gone", "gone refreshing"}]
    /\ store \in Store

\* The refresh token in the store is that of an active session, unless a
\* refresh that was sent with it is still unanswered or died with its page:
\* whatever the order in which concurrent refreshes, logins and logouts are
\* answered, the tab is never left with a token that was used up.
StoredTokenLives ==
    store.refresh # 0 /\ store.refresh \notin active =>
        \E c \in Calls : at[c] \in {"refreshing", "gone refreshing"} /\ token[c] = store.refresh

\* request() sends a call again after a refresh, yet its handler never runs
\* twice; a call that succeeds has run once.
PerformedOnce ==
    \A c \in Calls :
        /\ performed[c] <= 1
        /\ at[c] = "done" /\ Kind[c] # "login" => performed[c] = 1

\* No refresh loses a session: a row is closed only together with the opening
\* of a later one in its place, so that every login keeps an active session.
SessionSurvives ==
    \A n \in 1 .. issued : n \in active \/ \E m \in n + 1 .. issued : from[m] = n

\* What the tab stores comes from one answer and is complete, and the audit log
\* has its tokens and the ones they were refreshed from, whichever of the
\* server's transactions failed on the way.
StoreIsWhole ==
    /\ store.access = store.refresh
    /\ store.signedIn => store.access # 0
    /\ store.refresh # 0 => store.refresh \in audited /\ {from[store.refresh]} \ {0} \subseteq audited

=============================================================================

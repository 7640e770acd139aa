------------------------- MODULE RequestPath_proofs -------------------------
(***************************************************************************)
(* Proofs about the two ends of a request's way into the API: the tab of   *)
(* the UI that sends it with its tokens (BrowserSession), and the limiter  *)
(* that it passes first (RateLimiter).  The two share no variable, and     *)
(* each has an inductive invariant of its own.                             *)
(***************************************************************************)
EXTENDS BrowserSession, RateLimiter, FiniteSetTheorems, TLAPS

-----------------------------------------------------------------------------
(* The session of a tab, for any calls and any number of session rows.      *)

Refreshing == {"refresh", "checked refresh"}

\* What a call waits for, and how far the request that serves it can be.
Follows(c) ==
    /\ at[c] = "new" => stage[c] = "none"
    /\ at[c] \in {"calling", "retrying"} =>
          /\ stage[c] \in {"call", "checked login", "committed"} \cup Answers
          /\ Kind[c] # "login" => stage[c] \notin {"checked login", "committed"}
    /\ at[c] \in {"refreshing", "gone refreshing"} =>
          stage[c] \in Refreshing \cup {"committed"} \cup Answers
    /\ stage[c] \in Refreshing => token[c] \in audited
    /\ stage[c] = "committed" => got[c] # 0

\* Whether its handler has run.
Once(c) ==
    /\ performed[c] # 0 => /\ performed[c] = 1 /\ stage[c] \in {"ok", "error"}
                           /\ at[c] \notin {"new", "refreshing", "gone refreshing"}
    /\ Kind[c] # "login" /\ (at[c] = "done" \/ (at[c] \in {"calling", "retrying"} /\ stage[c] = "ok"))
       => performed[c] = 1

\* The pair of c is issued, and the tab waits for it: nothing has it yet.
Fresh(c) ==
    /\ stage[c] \in {"committed", "ok"}
    /\ at[c] = "refreshing" \/ (at[c] \in {"calling", "retrying"} /\ Kind[c] = "login")

Undelivered(c) ==
    Fresh(c) =>
        /\ got[c] \in active /\ (stage[c] = "ok" => got[c] \in audited)
        /\ store.access # got[c]
        /\ \A d \in Calls : token[d] # got[c] /\ (d # c /\ Fresh(d) => got[d] # got[c])

\* A refresh that the tab has given up was not sent with the token it has now.
GivenUp(c) ==
    stage[c] \in Refreshing /\ at[c] \notin {"refreshing", "gone refreshing"}
    => token[c] # store.refresh

FetchInv(c) == Follows(c) /\ Once(c) /\ Undelivered(c) /\ GivenUp(c)

RowInv == store.access <= issued /\ \A n \in Tokens : from[n] = 0 \/ from[n] \in audited

SessionInv ==
    /\ TypeOK /\ RowInv /\ StoredTokenLives /\ SessionSurvives /\ StoreIsWhole
    /\ \A c \in Calls : FetchInv(c)

-----------------------------------------------------------------------------
(* The server.                                                              *)

\* A step that writes no row and no audit entry.
Quiet(c) ==
    /\ UNCHANGED <<token, got, issued, from, active, audited, at, store>>
    /\ over' = over
    /\ stage' \in [Calls -> {"none"} \cup Busy \cup Answers] /\ performed' \in [Calls -> Nat]
    /\ \A d \in Calls \ {c} : stage'[d] = stage[d] /\ performed'[d] = performed[d]
    /\ \/ /\ stage[c] = "call" /\ Kind[c] # "login"
          /\ stage'[c] \in {"ok", "error"} /\ performed'[c] = performed[c] + 1
       \/ stage[c] \in Busy /\ stage'[c] \in {"unauthorized", "error"} /\ performed'[c] = performed[c]
       \/ /\ stage[c] = "call" /\ Kind[c] = "login"
          /\ stage'[c] = "checked login" /\ performed'[c] = performed[c]
       \/ stage[c] = "refresh" /\ stage'[c] = "checked refresh" /\ performed'[c] = performed[c]

\* The numbers of the rows that the tab and the server know.
LEMMA Numbers ==
    ASSUME TypeOK
    PROVE  /\ issued \in Nat /\ issued <= MaxTokens /\ MaxTokens \in Nat
           /\ store = [access |-> store.access, refresh |-> store.refresh, signedIn |-> store.signedIn]
           /\ store.access \in Nat /\ store.refresh \in Nat /\ store.signedIn \in BOOLEAN
<1>1. MaxTokens \in Nat
  BY CallAssumption
<1>2. issued \in 0 .. MaxTokens /\ store \in [access : 0 .. MaxTokens, refresh : 0 .. MaxTokens, signedIn : BOOLEAN]
  BY DEF TypeOK, Store
<1> QED
  BY ONLY <1>1, <1>2

LEMMA StageSet ==
    ASSUME TypeOK, NEW c \in Calls, NEW s \in {"none"} \cup Busy \cup Answers,
           stage' = [stage EXCEPT ![c] = s]
    PROVE  /\ stage' \in [Calls -> {"none"} \cup Busy \cup Answers] /\ stage'[c] = s
           /\ \A d \in Calls \ {c} : stage'[d] = stage[d]
  BY DEF TypeOK

LEMMA QuietSteps ==
    ASSUME TypeOK, NEW c \in Calls, UNCHANGED <<at, store>>,
           Guarded(c) \/ CheckLogin(c) \/ CheckRefresh(c) \/ ServerFails(c)
    PROVE  Quiet(c)
<1> USE DEF Busy, Answers
<1>1. ASSUME NEW t \in {"unauthorized", "error"}, stage[c] \in Busy, stage' = [stage EXCEPT ![c] = t],
             UNCHANGED <<token, got, issued, from, active, over, audited, performed>>
      PROVE  Quiet(c)
  BY <1>1, StageSet DEF Quiet, TypeOK
<1>2. CASE Guarded(c)
  <2>1. CASE Valid(token[c])
    <3>1. PICK answer \in {"ok", "error"} : stage' = [stage EXCEPT ![c] = answer]
      BY <1>2, <2>1 DEF Guarded
    <3>2. performed' \in [Calls -> Nat] /\ performed'[c] = performed[c] + 1
          /\ \A d \in Calls \ {c} : performed'[d] = performed[d]
      <4>1. performed \in [Calls -> Nat]
        BY DEF TypeOK
      <4>2. performed' = [performed EXCEPT ![c] = performed[c] + 1]
        BY <1>2, <2>1 DEF Guarded
      <4> QED
        BY ONLY <4>1, <4>2, c \in Calls
    <3>3. /\ stage[c] = "call" /\ Kind[c] # "login"
          /\ UNCHANGED <<token, got, issued, from, active, over, audited>>
      BY <1>2 DEF Guarded
    <3> QED
      BY <3>1, <3>2, <3>3, StageSet DEF Quiet
  <2>2. CASE ~Valid(token[c])
    BY <1>1, <1>2, <2>2 DEF Guarded
  <2> QED
    BY <2>1, <2>2
<1>3. CASE CheckLogin(c)
  <2>1. CASE stage' = [stage EXCEPT ![c] = "checked login"]
    BY <1>3, <2>1, StageSet DEF CheckLogin, Quiet, TypeOK
  <2> QED
    BY <1>1, <1>3, <2>1 DEF CheckLogin
<1>4. CASE CheckRefresh(c)
  <2>1. CASE stage' = [stage EXCEPT ![c] = "checked refresh"]
    BY <1>4, <2>1, StageSet DEF CheckRefresh, Quiet, TypeOK
  <2> QED
    BY <1>1, <1>4, <2>1 DEF CheckRefresh
<1>5. CASE ServerFails(c)
  BY <1>1, <1>5 DEF ServerFails
<1> QED
  BY <1>2, <1>3, <1>4, <1>5

LEMMA QuietKeepsInv ==
    ASSUME SessionInv, NEW c \in Calls, Quiet(c)
    PROVE  SessionInv'
<1>1. /\ token' = token /\ got' = got /\ issued' = issued /\ from' = from /\ active' = active
      /\ audited' = audited /\ at' = at /\ store' = store /\ over' = over
      /\ \A d \in Calls \ {c} : stage'[d] = stage[d] /\ performed'[d] = performed[d]
  BY DEF Quiet
<1>2. TypeOK'
  BY <1>1 DEF SessionInv, TypeOK, Quiet, Store
<1>3. RowInv' /\ StoredTokenLives' /\ SessionSurvives' /\ StoreIsWhole'
  BY <1>1 DEF SessionInv, RowInv, StoredTokenLives, SessionSurvives, StoreIsWhole
<1>4. Follows(c) /\ Once(c) /\ GivenUp(c)
  BY DEF SessionInv, FetchInv
<1>5. Follows(c)'
  <2>1. CASE stage[c] \in Busy /\ stage'[c] \in {"unauthorized", "error"}
    BY <1>1, <1>4, <2>1 DEF Follows, Busy, Answers, Refreshing
  <2>2. CASE stage[c] = "call" /\ stage'[c] \in {"ok", "error"}
    BY <1>1, <1>4, <2>2 DEF Follows, Busy, Answers, Refreshing
  <2>3. CASE stage[c] = "call" /\ Kind[c] = "login" /\ stage'[c] = "checked login"
    BY <1>1, <1>4, <2>3 DEF Follows, Busy, Answers, Refreshing
  <2>4. CASE stage[c] = "refresh" /\ stage'[c] = "checked refresh"
    BY <1>1, <1>4, <2>4 DEF Follows, Busy, Answers, Refreshing
  <2> QED
    BY <2>1, <2>2, <2>3, <2>4 DEF Quiet
<1>6. Once(c)'
  <2>1. performed[c] # 0 => stage[c] \notin Busy
    BY <1>4 DEF Once, Busy
  <2>2. performed[c] \in Nat
    BY DEF SessionInv, TypeOK
  <2>3. at[c] = "done" /\ Kind[c] # "login" => performed[c] = 1
    BY <1>4 DEF Once
  <2>4. CASE stage[c] = "call" /\ stage'[c] \in {"ok", "error"} /\ performed'[c] = performed[c] + 1
    <3>1. performed'[c] = 1
      BY <2>1, <2>2, <2>4 DEF Busy
    <3>2. at[c] \notin {"new", "refreshing", "gone refreshing"}
      BY <1>4, <2>4 DEF Follows, Refreshing, Answers
    <3> QED
      BY <1>1, <2>4, <3>1, <3>2 DEF Once
  <2>5. CASE /\ stage[c] \in Busy /\ performed'[c] = performed[c]
             /\ stage'[c] \in {"unauthorized", "error", "checked login", "checked refresh"}
    BY <1>1, <2>1, <2>3, <2>5 DEF Once
  <2> QED
    BY <2>4, <2>5 DEF Quiet, Busy
<1>7. ~Fresh(c)'
  <2>1. stage'[c] \in {"ok", "committed"} => stage[c] = "call" /\ Kind[c] # "login"
    BY DEF Quiet
  <2>2. stage[c] = "call" => at[c] # "refreshing"
    BY <1>4 DEF Follows, Refreshing, Answers
  <2> QED
    BY <1>1, <2>1, <2>2 DEF Fresh
<1>8. GivenUp(c)'
  BY <1>1, <1>4 DEF GivenUp, Quiet, Refreshing
<1>9. \A d \in Calls : Fresh(d)' => d # c /\ Fresh(d)
  BY <1>1, <1>7 DEF Fresh
<1>10. ASSUME NEW d \in Calls PROVE Undelivered(d)'
  <2>1. Undelivered(d)
    BY DEF SessionInv, FetchInv
  <2> QED
    BY <1>1, <1>9, <2>1 DEF Undelivered
<1>11. ASSUME NEW d \in Calls, d # c PROVE Follows(d)' /\ Once(d)' /\ GivenUp(d)'
  <2>1. Follows(d) /\ Once(d) /\ GivenUp(d)
    BY DEF SessionInv, FetchInv
  <2> QED
    BY <1>1, <1>11, <2>1 DEF Follows, Once, GivenUp
<1> QED
  BY <1>2, <1>3, <1>5, <1>6, <1>8, <1>10, <1>11 DEF SessionInv, FetchInv

\* A row is added.
Adds(c) ==
    /\ UNCHANGED <<token, over, audited, performed, at, store>>
    /\ stage[c] \in {"checked login", "checked refresh"} /\ issued' = issued + 1
    /\ issued \in Nat /\ issued' \in Tokens
    /\ stage' \in [Calls -> {"none"} \cup Busy \cup Answers] /\ stage'[c] = "committed"
    /\ \A d \in Calls \ {c} : stage'[d] = stage[d] /\ got'[d] = got[d]
    /\ got'[c] = issued' /\ got' \in [Calls -> 0 .. issued']
    /\ from' \in [Tokens -> 0 .. issued']
    /\ \A n \in Tokens \ {issued'} : from'[n] = from[n]
    /\ active' \subseteq 1 .. issued' /\ issued' \in active'
    /\ \A n \in active : n \in active' \/ (stage[c] = "checked refresh" /\ n = token[c] /\ from'[issued'] = n)
    /\ from'[issued'] = from[issued'] \/ (stage[c] = "checked refresh" /\ from'[issued'] = token[c])

LEMMA CommitAdds ==
    ASSUME TypeOK, NEW c \in Calls, Commit(c), UNCHANGED <<at, store>>
    PROVE  Adds(c)
<1>1. /\ issued \in Nat /\ issued < MaxTokens /\ MaxTokens \in Nat /\ issued' = issued + 1
  BY Numbers DEF Commit
<1>2. issued' \in Tokens /\ 0 .. issued \subseteq 0 .. issued' /\ 1 .. issued \subseteq 1 .. issued'
      /\ issued' \in 1 .. issued' /\ issued' \in 0 .. issued' /\ issued' \notin 1 .. issued
  BY <1>1 DEF Tokens
<1>3. /\ stage' \in [Calls -> {"none"} \cup Busy \cup Answers] /\ stage'[c] = "committed"
      /\ \A d \in Calls \ {c} : stage'[d] = stage[d]
  BY StageSet DEF Commit, Busy
<1>4. /\ got'[c] = issued' /\ got' \in [Calls -> 0 .. issued']
      /\ \A d \in Calls \ {c} : got'[d] = got[d]
  <2>1. got \in [Calls -> 0 .. issued] /\ got' = [got EXCEPT ![c] = issued']
    BY DEF TypeOK, Commit
  <2> QED
    BY <1>2, <2>1
<1>5. /\ stage[c] \in {"checked login", "checked refresh"}
      /\ UNCHANGED <<token, over, audited, performed, at, store>>
  BY DEF Commit
<1>6. from \in [Tokens -> 0 .. issued] /\ active \subseteq 1 .. issued /\ token[c] \in 0 .. issued
  BY DEF TypeOK
<1>7. CASE stage[c] = "checked login" /\ active' = active \cup {issued'} /\ from' = from
  <2>1. from' \in [Tokens -> 0 .. issued']
    BY <1>2, <1>6, <1>7
  <2>2. active' \subseteq 1 .. issued' /\ issued' \in active'
    BY <1>2, <1>6, <1>7
  <2> QED
    BY <1>1, <1>2, <1>3, <1>4, <1>5, <1>7, <2>1, <2>2 DEF Adds
<1>8. CASE /\ stage[c] = "checked refresh" /\ active' = (active \ {token[c]}) \cup {issued'}
           /\ from' = [from EXCEPT ![issued'] = token[c]]
  <2>1. /\ from' \in [Tokens -> 0 .. issued'] /\ from'[issued'] = token[c]
        /\ \A n \in Tokens \ {issued'} : from'[n] = from[n]
    BY <1>2, <1>6, <1>8
  <2>2. active' \subseteq 1 .. issued' /\ issued' \in active'
    BY <1>2, <1>6, <1>8
  <2>3. \A n \in active : n \in active' \/ (stage[c] = "checked refresh" /\ n = token[c] /\ from'[issued'] = n)
    BY <1>8, <2>1
  <2> QED
    BY <1>1, <1>2, <1>3, <1>4, <1>5, <1>8, <2>1, <2>2, <2>3 DEF Adds
<1> QED
  BY <1>7, <1>8 DEF Commit

\* No token and no pair is as late as the new row.
LEMMA NewIsLatest ==
    ASSUME SessionInv, NEW c \in Calls, Adds(c)
    PROVE  /\ \A d \in Calls : token[d] # issued' /\ got[d] # issued'
           /\ store.access # issued' /\ store.refresh # issued' /\ issued' \notin 1 .. issued
           /\ issued' # 0 /\ issued' \in Tokens
<1>1. issued \in Nat /\ issued' = issued + 1 /\ issued' \in Tokens
  BY DEF Adds
<1>2. \A n \in 0 .. issued : n # issued'
  BY <1>1
<1>3. store.access \in 0 .. issued /\ store.refresh = store.access
  <2>1. store.access \in Nat /\ store.access <= issued
    BY Numbers DEF SessionInv, RowInv
  <2> QED
    BY <1>1, <2>1 DEF SessionInv, StoreIsWhole
<1>4. \A d \in Calls : token[d] \in 0 .. issued /\ got[d] \in 0 .. issued
  BY DEF SessionInv, TypeOK
<1> QED
  BY <1>1, <1>2, <1>3, <1>4

LEMMA AddsKeepsInv ==
    ASSUME SessionInv, NEW c \in Calls, Adds(c)
    PROVE  SessionInv'
<1>1. /\ token' = token /\ over' = over /\ audited' = audited /\ performed' = performed
      /\ at' = at /\ store' = store /\ stage'[c] = "committed" /\ got'[c] = issued'
      /\ stage[c] \in {"checked login", "checked refresh"}
      /\ \A d \in Calls \ {c} : stage'[d] = stage[d] /\ got'[d] = got[d]
  BY DEF Adds
<1>2. /\ \A d \in Calls : token[d] # issued' /\ got[d] # issued'
      /\ store.access # issued' /\ store.refresh # issued' /\ issued' \notin 1 .. issued
      /\ issued' # 0 /\ issued' \in Tokens
  BY NewIsLatest
<1>3. issued \in Nat /\ issued' = issued + 1 /\ issued' \in 0 .. MaxTokens
      /\ 0 .. issued \subseteq 0 .. issued' /\ 1 .. issued \subseteq 1 .. issued'
  <2>1. issued \in Nat /\ issued' = issued + 1 /\ issued' \in 1 .. MaxTokens /\ MaxTokens \in Nat
    BY Numbers DEF Adds, Tokens, SessionInv
  <2> QED
    BY ONLY <2>1
<1>4. \A d \in Calls : Follows(d) /\ Once(d) /\ Undelivered(d) /\ GivenUp(d)
  BY DEF SessionInv, FetchInv
<1>5. TypeOK'
  <2>1. token' \in [Calls -> 0 .. issued'] /\ over' \subseteq 1 .. issued' /\ audited' \subseteq 1 .. issued'
    BY <1>1, <1>3 DEF SessionInv, TypeOK
  <2> QED
    BY <1>1, <1>3, <2>1 DEF SessionInv, TypeOK, Adds, Store
<1>6. stage[c] = "checked refresh" => token[c] \in audited
  BY <1>4 DEF Follows, Refreshing
<1>7. RowInv'
  <2>1. store.access <= issued'
    <3>1. store.access \in Nat /\ store.access <= issued
      BY Numbers DEF SessionInv, RowInv
    <3> QED
      BY ONLY <1>3, <3>1
  <2>2. \A n \in Tokens : from'[n] = 0 \/ from'[n] \in audited
    BY <1>6 DEF Adds, SessionInv, RowInv
  <2> QED
    BY <1>1, <2>1, <2>2 DEF RowInv
<1>8. StoredTokenLives'
  <2> SUFFICES ASSUME store.refresh # 0, store.refresh \notin active'
               PROVE  \E d \in Calls : at[d] \in {"refreshing", "gone refreshing"} /\ token[d] = store.refresh
    BY <1>1 DEF StoredTokenLives
  <2>1. CASE store.refresh \in active
    <3>1. stage[c] = "checked refresh" /\ token[c] = store.refresh
      BY <2>1 DEF Adds
    <3>2. at[c] \in {"refreshing", "gone refreshing"}
      BY <1>4, <3>1 DEF GivenUp, Refreshing
    <3> QED
      BY <3>1, <3>2
  <2>2. CASE store.refresh \notin active
    BY <2>2 DEF SessionInv, StoredTokenLives
  <2> QED
    BY <2>1, <2>2
<1>9. SessionSurvives'
  <2> SUFFICES ASSUME NEW n \in 1 .. issued'
               PROVE  n \in active' \/ \E m \in n + 1 .. issued' : from'[m] = n
    BY DEF SessionSurvives
  <2>1. CASE n = issued'
    BY <2>1 DEF Adds
  <2>2. CASE n # issued'
    <3>1. n \in 1 .. issued /\ n \in Nat
      BY <1>3, <2>2
    <3>2. CASE n \in active
      <4>1. n \in active' \/ from'[issued'] = n
        BY <3>2 DEF Adds
      <4>2. issued' \in n + 1 .. issued'
        BY <1>3, <3>1
      <4> QED
        BY <4>1, <4>2
    <3>3. CASE \E m \in n + 1 .. issued : from[m] = n
      <4>1. PICK m \in n + 1 .. issued : from[m] = n
        BY <3>3
      <4>2. m \in Tokens /\ m # issued' /\ m \in n + 1 .. issued'
        BY <1>3, <3>1, <4>1, CallAssumption DEF Tokens
      <4>3. from'[m] = n
        BY <4>1, <4>2 DEF Adds
      <4> QED
        BY <4>2, <4>3
    <3> QED
      BY <3>1, <3>2, <3>3 DEF SessionInv, SessionSurvives
  <2> QED
    BY <2>1, <2>2
<1>10. StoreIsWhole'
  <2>1. store.refresh # 0 => store.refresh \in Tokens /\ store.refresh # issued'
    <3>1. MaxTokens \in Nat /\ store \in [access : 0 .. MaxTokens, refresh : 0 .. MaxTokens, signedIn : BOOLEAN]
      BY CallAssumption DEF SessionInv, TypeOK, Store
    <3> QED
      BY <1>2, <3>1 DEF Tokens
  <2>2. store.refresh # 0 => from'[store.refresh] = from[store.refresh]
    BY <2>1 DEF Adds
  <2> QED
    BY <1>1, <2>2 DEF SessionInv, StoreIsWhole
<1>11. \A n \in active : n \notin active' => n = token[c]
  BY DEF Adds
<1>12. ASSUME NEW d \in Calls, d # c PROVE FetchInv(d)'
  <2>1. Fresh(d)' <=> Fresh(d)
    BY <1>1, <1>12 DEF Fresh
  <2>2. Undelivered(d)'
    <3>1. SUFFICES ASSUME Fresh(d)
                   PROVE  /\ got[d] \in active' /\ (stage[d] = "ok" => got[d] \in audited)
                          /\ store.access # got[d]
                          /\ \A e \in Calls : token[e] # got[d] /\ (e # d /\ Fresh(e)' => got'[e] # got[d])
      BY <1>1, <1>12, <2>1, <3>1 DEF Undelivered
    <3>2. \A e \in Calls \ {c} : Fresh(e)' => Fresh(e)
      BY <1>1 DEF Fresh
    <3>3. \A e \in Calls : e # d /\ Fresh(e)' => got'[e] # got[d]
      BY <1>1, <1>2, <1>4, <3>1, <3>2 DEF Undelivered
    <3> QED
      BY <1>4, <1>11, <3>1, <3>3 DEF Undelivered
  <2>3. Follows(d)' /\ Once(d)' /\ GivenUp(d)'
    BY <1>1, <1>4, <1>12 DEF Follows, Once, GivenUp
  <2> QED
    BY <2>2, <2>3 DEF FetchInv
<1>13. FetchInv(c)'
  <2>1. Follows(c)'
    BY <1>1, <1>2, <1>4 DEF Follows, Refreshing, Answers
  <2>2. Once(c)' /\ GivenUp(c)'
    BY <1>1, <1>4 DEF Once, GivenUp, Refreshing
  <2>3. Undelivered(c)'
    <3>1. got'[c] \in active' /\ stage'[c] # "ok"
      BY <1>1 DEF Adds
    <3>2. \A e \in Calls : e # c => got'[e] # got'[c]
      BY <1>1, <1>2
    <3> QED
      BY <1>1, <1>2, <3>1, <3>2 DEF Undelivered
  <2> QED
    BY <2>1, <2>2, <2>3 DEF FetchInv
<1> QED
  BY <1>5, <1>7, <1>8, <1>9, <1>10, <1>12, <1>13 DEF SessionInv

LEMMA AuditKeepsInv ==
    ASSUME SessionInv, NEW c \in Calls, Audit(c), UNCHANGED <<at, store>>
    PROVE  SessionInv'
<1>1. /\ token' = token /\ got' = got /\ issued' = issued /\ from' = from /\ active' = active
      /\ over' = over /\ performed' = performed /\ at' = at /\ store' = store
      /\ stage[c] = "committed" /\ audited' = audited \cup {got[c]}
  BY DEF Audit
<1>2. /\ stage' \in [Calls -> {"none"} \cup Busy \cup Answers] /\ stage'[c] = "ok"
      /\ \A d \in Calls \ {c} : stage'[d] = stage[d]
  BY StageSet DEF Audit, Answers, SessionInv
<1>3. \A d \in Calls : Follows(d) /\ Once(d) /\ Undelivered(d) /\ GivenUp(d)
  BY DEF SessionInv, FetchInv
<1>4. TypeOK'
  <2>1. got[c] \in 0 .. issued /\ got[c] # 0 /\ issued \in Nat /\ audited \subseteq 1 .. issued
    BY <1>1, <1>3, Numbers DEF SessionInv, TypeOK, Follows
  <2>2. audited \cup {got[c]} \subseteq 1 .. issued
    <3>1. got[c] \in 1 .. issued
      BY ONLY <2>1
    <3> QED
      BY <2>1, <3>1
  <2> QED
    BY <1>1, <1>2, <2>2 DEF SessionInv, TypeOK, Store
<1>5. RowInv' /\ StoredTokenLives' /\ SessionSurvives' /\ StoreIsWhole'
  BY <1>1 DEF SessionInv, RowInv, StoredTokenLives, SessionSurvives, StoreIsWhole
<1>6. \A d \in Calls : Fresh(d)' <=> Fresh(d)
  BY <1>1, <1>2 DEF Fresh
<1>7. ASSUME NEW d \in Calls PROVE Undelivered(d)'
  BY <1>1, <1>2, <1>3, <1>6 DEF Undelivered
<1>8. ASSUME NEW d \in Calls, d # c PROVE Follows(d)' /\ Once(d)' /\ GivenUp(d)'
  BY <1>1, <1>2, <1>3, <1>8 DEF Follows, Once, GivenUp
<1>9. Follows(c)' /\ GivenUp(c)'
  BY <1>1, <1>2, <1>3 DEF Follows, GivenUp, Refreshing, Answers
<1>10. Once(c)'
  BY <1>1, <1>2, <1>3 DEF Once, Follows, Answers
<1> QED
  BY <1>4, <1>5, <1>7, <1>8, <1>9, <1>10 DEF SessionInv, FetchInv

LEMMA ExpireKeepsInv ==
    ASSUME SessionInv, Expire, UNCHANGED <<at, store>>
    PROVE  SessionInv'
<1>1. /\ token' = token /\ got' = got /\ issued' = issued /\ from' = from /\ active' = active
      /\ stage' = stage /\ audited' = audited /\ performed' = performed /\ at' = at /\ store' = store
  BY DEF Expire
<1>2. TypeOK'
  BY <1>1 DEF Expire, SessionInv, TypeOK, Store
<1>3. RowInv' /\ StoredTokenLives' /\ SessionSurvives' /\ StoreIsWhole'
  BY <1>1 DEF SessionInv, RowInv, StoredTokenLives, SessionSurvives, StoreIsWhole
<1>4. \A d \in Calls : Fresh(d)' <=> Fresh(d)
  BY <1>1 DEF Fresh
<1>5. ASSUME NEW d \in Calls PROVE FetchInv(d)'
  <2>1. FetchInv(d)
    BY DEF SessionInv
  <2> QED
    BY <1>1, <1>4, <2>1 DEF FetchInv, Follows, Once, Undelivered, GivenUp
<1> QED
  BY <1>2, <1>3, <1>5 DEF SessionInv

LEMMA ServeKeepsInv ==
    ASSUME SessionInv, NEW c \in Calls, Serve(c), UNCHANGED <<at, store>>
    PROVE  SessionInv'
<1>1. TypeOK
  BY DEF SessionInv
<1> QED
  BY <1>1, QuietSteps, QuietKeepsInv, CommitAdds, AddsKeepsInv, AuditKeepsInv DEF Serve

-----------------------------------------------------------------------------
(* The tab.                                                                 *)

\* The store is cleared, takes the pair that one of the calls C waits for, or
\* stays as it is.
StoreStep(C) ==
    \/ store' = store
    \/ store' = LoggedOut
    \/ \E c \in C : /\ Fresh(c) /\ stage[c] = "ok"
                    /\ store' \in Store /\ store'.access = got[c] /\ store'.refresh = got[c]

LEMMA StoreStepKeeps ==
    ASSUME SessionInv, UNCHANGED <<got, issued, from, active, over, audited, performed>>,
           NEW C \in SUBSET Calls, StoreStep(C)
    PROVE  /\ store' \in Store /\ RowInv' /\ StoreIsWhole'
           /\ store' = store \/ store'.refresh = 0 \/ store'.refresh \in active
           /\ \A d \in Calls : stage[d] \in Refreshing /\ at[d] \notin {"refreshing", "gone refreshing"}
                                 => token[d] # store'.refresh
           /\ \A d \in Calls \ C : Fresh(d) => store'.access # got[d]
<1>1. /\ got' = got /\ issued' = issued /\ from' = from /\ active' = active /\ audited' = audited
      /\ issued \in Nat /\ issued <= MaxTokens /\ MaxTokens \in Nat /\ active \subseteq 1 .. issued
      /\ audited \subseteq 1 .. issued
  BY Numbers DEF SessionInv, TypeOK
<1>2. \A d \in Calls : Follows(d) /\ Undelivered(d) /\ GivenUp(d)
  BY DEF SessionInv, FetchInv
<1>3. store \in Store /\ RowInv /\ StoreIsWhole
  BY DEF SessionInv, TypeOK
<1>4. \A d \in Calls : stage[d] \in Refreshing => token[d] \in audited
  BY <1>2 DEF Follows
<1>5. \A d \in Calls : Fresh(d) => got[d] \in active /\ store.access # got[d]
  BY <1>2 DEF Undelivered
<1>6. 0 \notin active /\ 0 \notin audited
  BY ONLY <1>1
<1>7. CASE store' = store
  BY <1>1, <1>2, <1>3, <1>5, <1>7 DEF RowInv, StoreIsWhole, GivenUp
<1>8. CASE store' = LoggedOut
  <2>1. /\ store'.access = 0 /\ store'.refresh = 0 /\ store'.signedIn = FALSE
        /\ store' = [access |-> 0, refresh |-> 0, signedIn |-> FALSE]
    BY <1>8 DEF LoggedOut
  <2>2. 0 \in 0 .. MaxTokens /\ 0 <= issued
    BY ONLY <1>1
  <2>3. store' \in Store
    BY <2>1, <2>2 DEF Store
  <2>4. RowInv'
    BY <1>1, <1>3, <2>1, <2>2 DEF RowInv
  <2>5. StoreIsWhole'
    BY <2>1 DEF StoreIsWhole
  <2> QED
    BY <1>4, <1>5, <1>6, <2>1, <2>3, <2>4, <2>5
<1>9. CASE \E c \in C : /\ Fresh(c) /\ stage[c] = "ok"
                        /\ store' \in Store /\ store'.access = got[c] /\ store'.refresh = got[c]
  <2>1. PICK c \in C : /\ Fresh(c) /\ stage[c] = "ok"
                       /\ store' \in Store /\ store'.access = got[c] /\ store'.refresh = got[c]
    BY <1>9
  <2>2. /\ got[c] \in active /\ got[c] \in audited
        /\ \A d \in Calls : token[d] # got[c] /\ (d # c /\ Fresh(d) => got[d] # got[c])
    BY <1>2, <2>1 DEF Undelivered
  <2>3. got[c] \in Nat /\ got[c] <= issued /\ got[c] \in Tokens
    <3>1. got[c] \in 1 .. issued
      BY <1>1, <2>2
    <3>2. got[c] \in Nat /\ got[c] <= issued /\ got[c] \in 1 .. MaxTokens
      BY ONLY <1>1, <3>1
    <3> QED
      BY <3>2 DEF Tokens
  <2>4. RowInv'
    BY <1>1, <1>3, <2>1, <2>3 DEF RowInv
  <2>5. from[got[c]] = 0 \/ from[got[c]] \in audited
    BY <1>3, <2>3 DEF RowInv
  <2>6. StoreIsWhole'
    BY <1>1, <1>6, <2>1, <2>2, <2>5 DEF StoreIsWhole
  <2> QED
    BY <2>1, <2>2, <2>4, <2>6
<1> QED
  BY <1>7, <1>8, <1>9 DEF StoreStep

\* A call c gets an answer, or none, and ends ...
Ending(c) ==
    /\ UNCHANGED serverVars
    /\ at' \in [Calls -> {"done", "failed"} \cup {at[d] : d \in Calls}]
    /\ at'[c] \in {"done", "failed"} /\ \A d \in Calls \ {c} : at'[d] = at[d]
    /\ at'[c] = "done" => at[c] \in {"calling", "retrying"} /\ stage[c] = "ok"
    /\ at[c] # "new" /\ StoreStep({c})
    /\ at[c] \in {"refreshing", "gone refreshing"} => store' = LoggedOut

\* ... or sends a fetch, with the pair that the store has after it.
Fetching(c) ==
    /\ UNCHANGED <<got, issued, from, active, over, audited, performed>>
    /\ \A d \in Calls \ {c} : at'[d] = at[d] /\ stage'[d] = stage[d] /\ token'[d] = token[d]
    /\ at' \in [Calls -> {"calling", "refreshing", "retrying"} \cup {at[d] : d \in Calls}]
    /\ stage' \in [Calls -> {"none"} \cup Busy \cup Answers]
    /\ token' = [token EXCEPT ![c] = store'.access] /\ StoreStep({c})
    /\ \/ at[c] = "new" /\ at'[c] = "calling" /\ stage'[c] = "call" /\ store' = store
       \/ /\ at[c] = "calling" /\ stage[c] = "unauthorized" /\ store' = store /\ store.refresh # 0
          /\ at'[c] = "refreshing" /\ stage'[c] = "refresh"
       \/ /\ at[c] = "refreshing" /\ at'[c] = "retrying" /\ stage'[c] = "call"
          /\ store'.refresh \in active

LEMMA EndingKeepsInv ==
    ASSUME SessionInv, NEW c \in Calls, Ending(c)
    PROVE  SessionInv'
<1>1. /\ token' = token /\ got' = got /\ issued' = issued /\ from' = from /\ active' = active
      /\ over' = over /\ stage' = stage /\ audited' = audited /\ performed' = performed
      /\ \A d \in Calls \ {c} : at'[d] = at[d]
      /\ at'[c] \in {"done", "failed"} /\ at[c] # "new"
      /\ at'[c] = "done" => at[c] \in {"calling", "retrying"} /\ stage[c] = "ok"
      /\ at[c] \in {"refreshing", "gone refreshing"} => store'.refresh = 0
  <2>1. LoggedOut.refresh = 0
    BY DEF LoggedOut
  <2> QED
    BY <2>1 DEF Ending, serverVars
<1>2. /\ store' \in Store /\ RowInv' /\ StoreIsWhole'
      /\ store' = store \/ store'.refresh = 0 \/ store'.refresh \in active
      /\ \A d \in Calls : stage[d] \in Refreshing /\ at[d] \notin {"refreshing", "gone refreshing"}
                            => token[d] # store'.refresh
      /\ \A d \in Calls \ {c} : Fresh(d) => store'.access # got[d]
  BY StoreStepKeeps DEF Ending, serverVars
<1>3. \A d \in Calls : Follows(d) /\ Once(d) /\ Undelivered(d)
  BY DEF SessionInv, FetchInv
<1>4. TypeOK'
  BY <1>1, <1>2 DEF SessionInv, TypeOK, Ending
<1>5. SessionSurvives'
  BY <1>1 DEF SessionInv, SessionSurvives
<1>6. StoredTokenLives'
  <2> SUFFICES ASSUME store'.refresh # 0, store'.refresh \notin active
               PROVE  \E d \in Calls : at'[d] \in {"refreshing", "gone refreshing"} /\ token[d] = store'.refresh
    BY <1>1 DEF StoredTokenLives
  <2>1. store' = store
    BY <1>2
  <2>2. PICK d \in Calls : at[d] \in {"refreshing", "gone refreshing"} /\ token[d] = store.refresh
    BY <2>1 DEF SessionInv, StoredTokenLives
  <2>3. d # c
    BY <1>1, <2>2
  <2> QED
    BY <1>1, <2>1, <2>2, <2>3
<1>7. \A d \in Calls : Fresh(d)' => d # c /\ Fresh(d)
  BY <1>1 DEF Fresh
<1>8. ASSUME NEW d \in Calls PROVE Undelivered(d)'
  BY <1>1, <1>2, <1>3, <1>7 DEF Undelivered
<1>9. ASSUME NEW d \in Calls, d # c PROVE Follows(d)' /\ Once(d)' /\ GivenUp(d)'
  BY <1>1, <1>2, <1>3, <1>9 DEF Follows, Once, GivenUp
<1>10. Follows(c)'
  BY <1>1, <1>3 DEF Follows
<1>11. Once(c)'
  BY <1>1, <1>3 DEF Once
<1>12. GivenUp(c)'
  <2>1. CASE at[c] \in {"refreshing", "gone refreshing"}
    <3>1. store'.refresh = 0
      BY <1>1, <2>1
    <3>2. stage[c] \in Refreshing => token[c] \in audited
      BY <1>3 DEF Follows
    <3>3. 0 \notin audited
      <4>1. audited \subseteq 1 .. issued /\ issued \in Nat
        BY Numbers DEF SessionInv, TypeOK
      <4> QED
        BY ONLY <4>1
    <3> QED
      BY <1>1, <3>1, <3>2, <3>3 DEF GivenUp
  <2>2. CASE at[c] \notin {"refreshing", "gone refreshing"}
    BY <1>1, <1>2, <2>2 DEF GivenUp
  <2> QED
    BY <2>1, <2>2
<1> QED
  BY <1>2, <1>4, <1>5, <1>6, <1>8, <1>9, <1>10, <1>11, <1>12 DEF SessionInv, FetchInv

LEMMA FetchingKeepsInv ==
    ASSUME SessionInv, NEW c \in Calls, Fetching(c)
    PROVE  SessionInv'
<1>1. /\ got' = got /\ issued' = issued /\ from' = from /\ active' = active
      /\ over' = over /\ audited' = audited /\ performed' = performed
      /\ \A d \in Calls \ {c} : at'[d] = at[d] /\ stage'[d] = stage[d] /\ token'[d] = token[d]
      /\ stage'[c] \in {"call", "refresh"} /\ at'[c] \in {"calling", "refreshing", "retrying"}
      /\ at[c] = "gone refreshing" => FALSE
      /\ stage'[c] = "refresh" => at'[c] = "refreshing" /\ store'.refresh # 0
      /\ stage'[c] = "call" => at'[c] \in {"calling", "retrying"}
      /\ at[c] = "refreshing" => store'.refresh \in active
      /\ at[c] \in {"new", "refreshing"} \/ stage[c] = "unauthorized"
  BY DEF Fetching
<1>2. /\ store' \in Store /\ RowInv' /\ StoreIsWhole'
      /\ store' = store \/ store'.refresh = 0 \/ store'.refresh \in active
      /\ \A d \in Calls : stage[d] \in Refreshing /\ at[d] \notin {"refreshing", "gone refreshing"}
                            => token[d] # store'.refresh
      /\ \A d \in Calls \ {c} : Fresh(d) => store'.access # got[d]
  BY StoreStepKeeps DEF Fetching
<1>3. \A d \in Calls : Follows(d) /\ Once(d) /\ Undelivered(d)
  BY DEF SessionInv, FetchInv
<1>4. token' \in [Calls -> 0 .. issued'] /\ token'[c] = store'.access
  <2>1. store'.access \in 0 .. issued
    <3>1. store'.access \in 0 .. MaxTokens /\ store'.access <= issued
      BY <1>1, <1>2 DEF Store, RowInv
    <3>2. issued \in Nat /\ MaxTokens \in Nat
      BY Numbers DEF SessionInv
    <3> QED
      BY ONLY <3>1, <3>2
  <2>2. token \in [Calls -> 0 .. issued] /\ token' = [token EXCEPT ![c] = store'.access] /\ issued' = issued
    BY DEF SessionInv, TypeOK, Fetching
  <2> QED
    BY ONLY <2>1, <2>2, c \in Calls
<1>5. TypeOK'
  <2>1. at' \in [Calls -> {"new", "calling", "refreshing", "retrying", "done", "failed",
                           "gone", "gone refreshing"}]
    BY DEF Fetching, SessionInv, TypeOK
  <2>2. stage' \in [Calls -> {"none"} \cup Busy \cup Answers]
    BY DEF Fetching
  <2> QED
    BY <1>1, <1>2, <1>4, <2>1, <2>2 DEF SessionInv, TypeOK
<1>6. SessionSurvives'
  BY <1>1 DEF SessionInv, SessionSurvives
<1>7. StoredTokenLives'
  <2> SUFFICES ASSUME store'.refresh # 0, store'.refresh \notin active
               PROVE  \E d \in Calls : at'[d] \in {"refreshing", "gone refreshing"} /\ token'[d] = store'.refresh
    BY <1>1 DEF StoredTokenLives
  <2>1. store' = store
    BY <1>2
  <2>2. PICK d \in Calls : at[d] \in {"refreshing", "gone refreshing"} /\ token[d] = store.refresh
    BY <2>1 DEF SessionInv, StoredTokenLives
  <2>3. d # c
    BY <1>1, <2>2
  <2> QED
    BY <1>1, <2>1, <2>2, <2>3
<1>8. \A d \in Calls : Fresh(d)' => d # c /\ Fresh(d)
  BY <1>1 DEF Fresh
<1>9. ASSUME NEW d \in Calls PROVE Undelivered(d)'
  <2> SUFFICES ASSUME Fresh(d)'
               PROVE  /\ got[d] \in active /\ (stage'[d] = "ok" => got[d] \in audited)
                      /\ store'.access # got[d]
                      /\ \A e \in Calls : token'[e] # got[d] /\ (e # d /\ Fresh(e)' => got[e] # got[d])
    BY <1>1 DEF Undelivered
  <2>1. d # c /\ Fresh(d) /\ Undelivered(d) /\ store'.access # got[d]
    BY <1>2, <1>3, <1>8
  <2> QED
    BY <1>1, <1>4, <1>8, <2>1 DEF Undelivered
<1>10. ASSUME NEW d \in Calls, d # c PROVE Follows(d)' /\ Once(d)' /\ GivenUp(d)'
  BY <1>1, <1>2, <1>3, <1>10 DEF Follows, Once, GivenUp
<1>11. Follows(c)'
  <2>1. stage'[c] = "refresh" => token'[c] \in audited'
    BY <1>1, <1>2, <1>4 DEF StoreIsWhole
  <2> QED
    BY <1>1, <2>1 DEF Follows, Refreshing, Answers
<1>12. Once(c)'
  <2>1. performed[c] = 0
    BY <1>1, <1>3 DEF Once
  <2> QED
    BY <1>1, <2>1 DEF Once
<1>13. GivenUp(c)'
  BY <1>1 DEF GivenUp, Refreshing
<1> QED
  BY <1>2, <1>5, <1>6, <1>7, <1>9, <1>10, <1>11, <1>12, <1>13 DEF SessionInv, FetchInv

LEMMA AtSet ==
    ASSUME TypeOK, NEW c \in Calls, NEW s, at' = [at EXCEPT ![c] = s]
    PROVE  /\ at' \in [Calls -> {s} \cup {at[d] : d \in Calls}] /\ at'[c] = s
           /\ \A d \in Calls \ {c} : at'[d] = at[d]
  BY DEF TypeOK

\* Each answer that reaches the tab ends its call or is followed by a fetch.
LEMMA DeliveredSteps ==
    ASSUME SessionInv, NEW c \in Calls, Send(c) \/ Deliver(c)
    PROVE  Ending(c) \/ Fetching(c)
<1>1. /\ TypeOK /\ store \in Store /\ store.refresh = store.access
      /\ at \in [Calls -> {at[d] : d \in Calls}]
      /\ at[c] \in {"new", "calling", "refreshing", "retrying"} => at[c] # "gone refreshing"
      /\ got[c] \in 0 .. MaxTokens
  <2>1. TypeOK /\ StoreIsWhole
    BY DEF SessionInv
  <2>2. got[c] \in 0 .. issued /\ issued \in 0 .. MaxTokens /\ MaxTokens \in Nat
    BY <2>1, CallAssumption DEF TypeOK
  <2>3. got[c] \in 0 .. MaxTokens
    BY ONLY <2>2
  <2> QED
    BY <2>1, <2>3 DEF TypeOK, StoreIsWhole
<1>2. Follows(c) /\ Undelivered(c)
  BY DEF SessionInv, FetchInv
<1>3. ASSUME NEW s \in {"done", "failed"}, at' = [at EXCEPT ![c] = s], UNCHANGED serverVars,
             s = "done" => at[c] \in {"calling", "retrying"} /\ stage[c] = "ok",
             at[c] # "new", at[c] # "gone refreshing", StoreStep({c}),
             at[c] = "refreshing" => store' = LoggedOut
      PROVE  Ending(c)
  <2>1. /\ at' \in [Calls -> {s} \cup {at[d] : d \in Calls}] /\ at'[c] = s
        /\ \A d \in Calls \ {c} : at'[d] = at[d]
    BY <1>1, <1>3, AtSet
  <2> QED
    BY <1>3, <2>1 DEF Ending
<1>4. ASSUME NEW s \in {"calling", "refreshing", "retrying"}, at' = [at EXCEPT ![c] = s],
             NEW t \in {"call", "refresh"}, Fetch(c, t, store'.access), StoreStep({c}),
             \/ at[c] = "new" /\ s = "calling" /\ t = "call" /\ store' = store
             \/ /\ at[c] = "calling" /\ stage[c] = "unauthorized" /\ store' = store /\ store.refresh # 0
                /\ s = "refreshing" /\ t = "refresh"
             \/ /\ at[c] = "refreshing" /\ s = "retrying" /\ t = "call"
                /\ store'.refresh \in active
      PROVE  Fetching(c)
  <2>1. /\ at' \in [Calls -> {s} \cup {at[d] : d \in Calls}] /\ at'[c] = s
        /\ \A d \in Calls \ {c} : at'[d] = at[d]
    BY <1>1, <1>4, AtSet
  <2>2. /\ stage' \in [Calls -> {"none"} \cup Busy \cup Answers] /\ stage'[c] = t
        /\ \A d \in Calls \ {c} : stage'[d] = stage[d]
    BY <1>1, <1>4, StageSet DEF Fetch, Busy
  <2>3. /\ token' = [token EXCEPT ![c] = store'.access]
        /\ \A d \in Calls \ {c} : token'[d] = token[d]
        /\ UNCHANGED <<got, issued, from, active, over, audited, performed>>
    <3>1. token \in [Calls -> 0 .. issued]
      BY <1>1 DEF TypeOK
    <3> QED
      BY <1>4, <3>1 DEF Fetch
  <2>4. at' \in [Calls -> {"calling", "refreshing", "retrying"} \cup {at[d] : d \in Calls}]
    BY <2>1
  <2> QED
    BY <1>4, <2>1, <2>2, <2>3, <2>4 DEF Fetching
<1>5. store' = store \/ store' = LoggedOut => StoreStep({c})
  BY DEF StoreStep
<1>6. ASSUME Fresh(c), stage[c] = "ok", store'.access = got[c], store'.refresh = got[c], store' \in Store
      PROVE  StoreStep({c})
  BY <1>6 DEF StoreStep
<1>7. CASE Send(c)
  BY <1>4, <1>5, <1>7 DEF Send
<1>8. CASE Succeeds(c)
  <2>1. CASE Kind[c] = "login"
    <3>1. store' = [access |-> got[c], refresh |-> got[c], signedIn |-> TRUE]
      BY <1>8, <2>1 DEF Succeeds, SetAuth
    <3>2. store' \in Store /\ store'.access = got[c] /\ store'.refresh = got[c]
      BY <1>1, <3>1 DEF Store
    <3>3. Fresh(c) /\ stage[c] = "ok"
      BY <1>8, <2>1 DEF Fresh, Succeeds
    <3>4. StoreStep({c})
      BY <1>6, <3>2, <3>3
    <3> QED
      BY <1>3, <1>8, <3>4 DEF Succeeds, Ends
  <2>2. CASE Kind[c] # "login"
    BY <1>3, <1>5, <1>8, <2>2 DEF Succeeds, Ends
  <2> QED
    BY <2>1, <2>2
<1>9. CASE Refused(c)
  <2>1. CASE store.refresh # 0
    BY <1>1, <1>4, <1>5, <1>9, <2>1 DEF Refused
  <2>2. CASE store.refresh = 0
    BY <1>3, <1>5, <1>9, <2>2 DEF Refused, Logout, Ends
  <2> QED
    BY <2>1, <2>2
<1>10. CASE Fails(c)
  BY <1>3, <1>5, <1>10 DEF Fails, Broken, Logout, Ends
<1>11. CASE Refreshed(c)
  <2>1. store' \in Store /\ store'.access = got[c] /\ store'.refresh = got[c]
    <3>1. store' = [store EXCEPT !.access = got[c], !.refresh = got[c]]
      BY <1>11 DEF Refreshed, SetTokens
    <3> QED
      BY <1>1, <3>1 DEF Store
  <2>2. Fresh(c) /\ stage[c] = "ok" /\ at[c] = "refreshing"
    BY <1>11 DEF Fresh, Refreshed
  <2>3. got[c] \in active /\ StoreStep({c})
    BY <1>2, <1>6, <2>1, <2>2 DEF Undelivered
  <2> QED
    BY <1>4, <1>11, <2>1, <2>2, <2>3 DEF Refreshed
<1>12. CASE GivesUp(c)
  BY <1>3, <1>5, <1>12 DEF GivesUp, Logout, Ends
<1> QED
  BY <1>7, <1>8, <1>9, <1>10, <1>11, <1>12 DEF Deliver

LEMMA LogoutKeepsInv ==
    ASSUME SessionInv, UserLogsOut
    PROVE  SessionInv'
<1>1. /\ UNCHANGED <<stage, token, got, issued, from, active, over, audited, performed, at>>
      /\ store' = LoggedOut
  BY DEF UserLogsOut, Logout, serverVars
<1>2. /\ store' \in Store /\ RowInv' /\ StoreIsWhole'
      /\ \A d \in Calls : stage[d] \in Refreshing /\ at[d] \notin {"refreshing", "gone refreshing"}
                            => token[d] # store'.refresh
      /\ \A d \in Calls : Fresh(d) => store'.access # got[d]
  <2>1. StoreStep({}) /\ {} \in SUBSET Calls
    BY <1>1 DEF StoreStep
  <2>2. UNCHANGED <<got, issued, from, active, over, audited, performed>>
    BY <1>1
  <2>3. /\ store' \in Store /\ RowInv' /\ StoreIsWhole'
        /\ \A d \in Calls : stage[d] \in Refreshing /\ at[d] \notin {"refreshing", "gone refreshing"}
                              => token[d] # store'.refresh
        /\ \A d \in Calls \ {} : Fresh(d) => store'.access # got[d]
    BY ONLY SessionInv, <2>1, <2>2, StoreStepKeeps
  <2> QED
    BY <2>3
<1>3. TypeOK' /\ SessionSurvives'
  BY <1>1, <1>2 DEF SessionInv, TypeOK, SessionSurvives
<1>4. StoredTokenLives'
  BY <1>1 DEF StoredTokenLives, LoggedOut
<1>5. \A d \in Calls : Fresh(d)' <=> Fresh(d)
  BY <1>1 DEF Fresh
<1>6. ASSUME NEW d \in Calls PROVE FetchInv(d)'
  <2>1. Follows(d) /\ Once(d) /\ Undelivered(d)
    BY DEF SessionInv, FetchInv
  <2>2. Follows(d)' /\ Once(d)'
    BY <1>1, <2>1 DEF Follows, Once
  <2>3. Undelivered(d)' /\ GivenUp(d)'
    BY <1>1, <1>2, <1>5, <2>1 DEF Undelivered, GivenUp
  <2> QED
    BY <2>2, <2>3 DEF FetchInv
<1> QED
  BY <1>2, <1>3, <1>4, <1>6 DEF SessionInv

LEMMA ReloadKeepsInv ==
    ASSUME SessionInv, Reload
    PROVE  SessionInv'
<1>1. /\ stage' = stage /\ token' = token /\ got' = got /\ issued' = issued /\ from' = from
      /\ active' = active /\ over' = over /\ audited' = audited /\ performed' = performed
      /\ store' = store
  BY DEF Reload, serverVars
<1>2. \A d \in Calls : at'[d] = IF at[d] \in {"calling", "retrying"} THEN "gone"
                                ELSE IF at[d] = "refreshing" THEN "gone refreshing" ELSE at[d]
  BY DEF Reload
<1>3. TypeOK'
  <2>1. at' \in [Calls -> {"new", "calling", "refreshing", "retrying", "done", "failed",
                           "gone", "gone refreshing"}]
    BY DEF SessionInv, TypeOK, Reload
  <2> QED
    BY <1>1, <2>1 DEF SessionInv, TypeOK, Store
<1>4. RowInv' /\ SessionSurvives' /\ StoreIsWhole'
  BY <1>1 DEF SessionInv, RowInv, SessionSurvives, StoreIsWhole
<1>5. StoredTokenLives'
  BY <1>1, <1>2 DEF SessionInv, StoredTokenLives
<1>6. ASSUME NEW d \in Calls PROVE FetchInv(d)'
  <2>1. Follows(d) /\ Once(d) /\ GivenUp(d)
    BY DEF SessionInv, FetchInv
  <2>2. ~Fresh(d)'
    BY <1>2 DEF Fresh
  <2>3. Follows(d)'
    BY <1>1, <1>2, <2>1 DEF Follows
  <2>4. Once(d)'
    BY <1>1, <1>2, <2>1 DEF Once
  <2>5. GivenUp(d)'
    BY <1>1, <1>2, <2>1 DEF GivenUp
  <2> QED
    BY <2>2, <2>3, <2>4, <2>5 DEF FetchInv, Undelivered
<1> QED
  BY <1>3, <1>4, <1>5, <1>6 DEF SessionInv

LEMMA SessionInit == Init => SessionInv
<1> SUFFICES ASSUME Init PROVE SessionInv
  OBVIOUS
<1>1. MaxTokens \in Nat /\ 0 \in 0 .. MaxTokens /\ 0 \in 0 .. 0 /\ \A n \in 1 .. 0 : FALSE
  BY CallAssumption
<1>2. /\ stage = [c \in Calls |-> "none"] /\ token = [c \in Calls |-> 0] /\ got = [c \in Calls |-> 0]
      /\ issued = 0 /\ from = [n \in Tokens |-> 0] /\ active = {} /\ over = {} /\ audited = {}
      /\ performed = [c \in Calls |-> 0] /\ at = [c \in Calls |-> "new"]
      /\ store = [access |-> 0, refresh |-> 0, signedIn |-> FALSE]
  BY DEF Init, ServerInit, LoggedOut
<1>3. TypeOK
  <2>1. store \in Store
    BY <1>1, <1>2 DEF Store
  <2> QED
    BY <1>1, <1>2, <2>1 DEF TypeOK
<1>4. RowInv /\ StoredTokenLives /\ SessionSurvives /\ StoreIsWhole
  BY <1>1, <1>2 DEF RowInv, StoredTokenLives, SessionSurvives, StoreIsWhole
<1>5. ASSUME NEW c \in Calls PROVE FetchInv(c)
  BY <1>2 DEF FetchInv, Follows, Once, Undelivered, Fresh, GivenUp, Refreshing
<1> QED
  BY <1>3, <1>4, <1>5 DEF SessionInv

LEMMA SessionNext == SessionInv /\ [Next]_vars => SessionInv'
<1> SUFFICES ASSUME SessionInv, [Next]_vars PROVE SessionInv'
  OBVIOUS
<1>1. ASSUME UNCHANGED vars PROVE SessionInv'
  <2>1. /\ UNCHANGED <<stage, token, got, issued, from, active, over, audited, performed, at, store>>
    BY <1>1 DEF vars, serverVars
  <2>2. TypeOK' /\ RowInv' /\ StoredTokenLives' /\ SessionSurvives' /\ StoreIsWhole'
    BY <2>1 DEF SessionInv, TypeOK, Store, RowInv, StoredTokenLives, SessionSurvives, StoreIsWhole
  <2>3. \A d \in Calls : Fresh(d)' <=> Fresh(d)
    BY <2>1 DEF Fresh
  <2>4. ASSUME NEW d \in Calls PROVE FetchInv(d)'
    <3>1. Follows(d) /\ Once(d) /\ Undelivered(d) /\ GivenUp(d)
      BY DEF SessionInv, FetchInv
    <3> QED
      BY <2>1, <2>3, <3>1 DEF FetchInv, Follows, Once, Undelivered, GivenUp
  <2> QED
    BY <2>2, <2>4 DEF SessionInv
<1>2. ASSUME NEW c \in Calls, Send(c) \/ Deliver(c) PROVE SessionInv'
  BY <1>2, DeliveredSteps, EndingKeepsInv, FetchingKeepsInv
<1>3. ASSUME NEW c \in Calls, Serve(c) /\ UNCHANGED <<at, store>> PROVE SessionInv'
  BY <1>3, ServeKeepsInv
<1>4. CASE Expire /\ UNCHANGED <<at, store>>
  BY <1>4, ExpireKeepsInv
<1>5. CASE Rest
  BY <1>1, <1>5 DEF Rest
<1> QED
  BY <1>1, <1>2, <1>3, <1>4, <1>5, LogoutKeepsInv, ReloadKeepsInv DEF Next

\* The inductive invariant holds in every reachable state.
THEOREM SessionInvariance == Spec => []SessionInv
  BY SessionInit, SessionNext, PTL DEF Spec

\* The requests, the rows and the store are always of the kinds that request()
\* and the session table give them.
THEOREM SessionTypeCorrect == Spec => []TypeOK
<1>1. SessionInv => TypeOK
  BY DEF SessionInv
<1> QED
  BY <1>1, SessionInvariance, PTL

\* However concurrent refreshes, logins, logouts and reloads are answered, the
\* refresh token that the tab stores is that of an active session or has a
\* refresh of its own under way.
THEOREM StoredTokensLive == Spec => []StoredTokenLives
<1>1. SessionInv => StoredTokenLives
  BY DEF SessionInv
<1> QED
  BY <1>1, SessionInvariance, PTL

\* A call that is sent again after a refresh has not been performed before.
THEOREM HandlersRunOnce == Spec => []PerformedOnce
<1>1. SessionInv => PerformedOnce
  <2> SUFFICES ASSUME SessionInv, NEW c \in Calls
               PROVE  /\ performed[c] <= 1
                      /\ at[c] = "done" /\ Kind[c] # "login" => performed[c] = 1
    BY DEF PerformedOnce
  <2>1. Once(c) /\ performed[c] \in Nat
    BY DEF SessionInv, FetchInv, TypeOK
  <2>2. performed[c] = 0 \/ performed[c] = 1
    BY <2>1 DEF Once
  <2>3. performed[c] <= 1
    BY ONLY <2>2
  <2> QED
    BY <2>1, <2>3 DEF Once
<1> QED
  BY <1>1, SessionInvariance, PTL

\* No refresh, concurrent ones included, leaves a login without a session.
THEOREM SessionsSurvive == Spec => []SessionSurvives
<1>1. SessionInv => SessionSurvives
  BY DEF SessionInv
<1> QED
  BY <1>1, SessionInvariance, PTL

\* The store never holds half an answer, nor tokens that the audit log lacks.
THEOREM StoresAreWhole == Spec => []StoreIsWhole
<1>1. SessionInv => StoreIsWhole
  BY DEF SessionInv
<1> QED
  BY <1>1, SessionInvariance, PTL

-----------------------------------------------------------------------------
(* The limiter, for every limit, window, clock horizon and finite set of    *)
(* requests.  A bucket only ever drops stamps that no later window can      *)
(* contain, so it holds all of the current one (KeepsRecent), and it never  *)
(* holds more than Limit of them.                                           *)

HoldsAdmitted == \A k \in Keys : bucket[k] \subseteq Admitted(k)
BucketBound   == \A k \in Keys : Cardinality(bucket[k]) <= Limit
StampsArePast == \A r \in Requests : stamp[r] <= now
KeepsRecent   == \A k \in Keys : \A r \in Admitted(k) :
                    stamp[r] + Window > now => r \in bucket[k]

LimiterInv == LimiterTypeOK /\ HoldsAdmitted /\ BucketBound /\ StampsArePast /\ KeepsRecent
               /\ WindowBound

-----------------------------------------------------------------------------
\* A subset of Requests is finite, and no larger than a set that contains it.
LEMMA Finite ==
    ASSUME NEW S \in SUBSET Requests
    PROVE  /\ IsFiniteSet(S)
           /\ Cardinality(S) \in Nat
           /\ \A T \in SUBSET S : Cardinality(T) <= Cardinality(S)
<1>1. IsFiniteSet(S)
  BY LimitAssumption, FS_Subset
<1>2. Cardinality(S) \in Nat
  BY <1>1, FS_CardinalityType
<1>3. ASSUME NEW T \in SUBSET S
      PROVE  Cardinality(T) <= Cardinality(S)
  BY <1>1, FS_Subset
<1>4. QED
  BY <1>1, <1>2, <1>3

\* The advertised remaining count and the stamps it is taken from fill at
\* most the limit.
LEMMA LeftBound ==
    ASSUME NEW S \in SUBSET Requests, Cardinality(S) <= Limit
    PROVE  Left(S) \in 0 .. Limit /\ Left(S) + Cardinality(S) <= Limit
<1>1. Cardinality(S) \in Nat
  BY Finite
<1>2. QED
  BY <1>1, LimitAssumption DEF Left

LEMMA KeyType == ASSUME NEW r \in Requests PROVE KeyOf[r] \in Keys
  BY DEF Keys

LEMMA LimiterInitInv == LimiterInit => LimiterInv
<1> SUFFICES ASSUME LimiterInit PROVE LimiterInv
  OBVIOUS
<1> USE DEF LimiterInit
<1>1. LimiterTypeOK
  BY LimitAssumption DEF LimiterTypeOK, States
<1>2. \A k \in Keys : Admitted(k) = {}
  BY DEF Admitted
<1>3. HoldsAdmitted /\ StampsArePast /\ KeepsRecent
  BY <1>2 DEF HoldsAdmitted, StampsArePast, KeepsRecent
<1>4. Cardinality({}) = 0
  BY FS_EmptySet
<1>5. BucketBound
  BY <1>4, LimitAssumption DEF BucketBound
<1>6. \A k \in Keys, t \in 0 .. now : InWindow(k, t) = {}
  BY <1>2 DEF InWindow
<1>7. WindowBound
  BY <1>4, <1>6, LimitAssumption DEF WindowBound
<1>8. QED
  BY <1>1, <1>3, <1>5, <1>7 DEF LimiterInv

-----------------------------------------------------------------------------
(* One lemma for each action that disturbs the invariant.                   *)

LEMMA RecentType ==
    ASSUME LimiterTypeOK, NEW k \in Keys
    PROVE  /\ Recent(bucket[k]) \in SUBSET Requests
           /\ Recent(bucket[k]) \subseteq bucket[k]
  BY DEF LimiterTypeOK, Recent

LEMMA RefuseInv ==
    ASSUME LimiterInv, NEW r \in Requests, Refuse(r)
    PROVE  LimiterInv'
<1> DEFINE b == KeyOf[r]
<1> USE DEF LimiterInv
<1>1. b \in Keys
  BY KeyType
<1>2. LimiterTypeOK'
  BY <1>1, RecentType DEF LimiterTypeOK, Refuse, States
<1>3. \A k \in Keys : bucket'[k] \subseteq bucket[k]
  BY <1>1, RecentType DEF LimiterTypeOK, Refuse
<1>4. \A k : Admitted(k)' = Admitted(k)
  BY DEF Refuse, Admitted, LimiterTypeOK
<1>5. HoldsAdmitted'
  BY <1>3, <1>4 DEF HoldsAdmitted
<1>6. BucketBound'
  <2> SUFFICES ASSUME NEW k \in Keys PROVE Cardinality(bucket'[k]) <= Limit
    BY DEF BucketBound
  <2>1. bucket[k] \in SUBSET Requests /\ bucket'[k] \in SUBSET bucket[k]
    BY <1>3 DEF LimiterTypeOK
  <2>2. Cardinality(bucket[k]) \in Nat /\ Cardinality(bucket'[k]) \in Nat
    BY <2>1, Finite
  <2>3. Cardinality(bucket'[k]) <= Cardinality(bucket[k])
    BY <2>1, Finite
  <2>4. QED
    BY <2>2, <2>3, LimitAssumption DEF BucketBound
<1>7. StampsArePast'
  BY DEF StampsArePast, Refuse
<1>8. KeepsRecent'
  BY <1>1, <1>4 DEF KeepsRecent, Refuse, Recent, LimiterTypeOK
<1>9. WindowBound'
  <2>1. \A k, t : InWindow(k, t)' = InWindow(k, t)
    BY <1>4 DEF InWindow, Refuse
  <2>2. QED
    BY <2>1 DEF WindowBound, Refuse
<1>10. QED
  BY <1>2, <1>5, <1>6, <1>7, <1>8, <1>9

LEMMA AdmitInv ==
    ASSUME LimiterInv, NEW r \in Requests, Admit(r)
    PROVE  LimiterInv'
<1> DEFINE b == KeyOf[r]
           R == Recent(bucket[b])
<1> USE DEF LimiterInv
<1>1. b \in Keys /\ R \in SUBSET Requests /\ R \subseteq bucket[b]
  BY KeyType, RecentType
<1>2. LimiterTypeOK'
  BY <1>1 DEF LimiterTypeOK, Admit, States
<1>3. r \notin Admitted(b) /\ Admitted(b)' = Admitted(b) \cup {r}
  BY DEF Admit, Admitted, LimiterTypeOK
<1>4. \A k \in Keys : k # b => Admitted(k)' = Admitted(k) /\ bucket'[k] = bucket[k]
  BY DEF Admit, Admitted, LimiterTypeOK
<1>5. bucket'[b] = R \cup {r}
  BY <1>1 DEF Admit, LimiterTypeOK
<1>6. stamp'[r] = now /\ \A q \in Requests : q # r => stamp'[q] = stamp[q]
  BY DEF Admit, LimiterTypeOK
<1>7. now' = now
  BY DEF Admit
<1>8. HoldsAdmitted'
  BY <1>1, <1>3, <1>4, <1>5 DEF HoldsAdmitted
<1>9. IsFiniteSet(R) /\ Cardinality(R) \in Nat /\ Cardinality(R) < Limit
  BY <1>1, Finite DEF Admit
<1>10. Cardinality(R \cup {r}) <= Limit
  <2>1. Cardinality(R \cup {r}) = IF r \in R THEN Cardinality(R) ELSE Cardinality(R) + 1
    BY <1>9, FS_AddElement
  <2> HIDE DEF b, R
  <2>2. QED
    BY <2>1, <1>9, LimitAssumption
<1>11. BucketBound'
  BY <1>4, <1>5, <1>10 DEF BucketBound
<1>12. StampsArePast'
  BY <1>6, <1>7 DEF StampsArePast, LimiterTypeOK
<1>13. KeepsRecent'
  <2> SUFFICES ASSUME NEW k \in Keys, NEW q \in Admitted(k)', (stamp'[q] + Window > now')
               PROVE  q \in bucket'[k]
    BY DEF KeepsRecent
  <2>1. q \in Requests
    BY DEF Admitted
  <2>2. CASE k # b
    <3>1. q # r
      BY <2>2 DEF Admitted
    <3>2. QED
      BY <2>1, <2>2, <3>1, <1>4, <1>6, <1>7 DEF KeepsRecent
  <2>3. CASE k = b /\ q # r
    BY <2>1, <2>3, <1>3, <1>5, <1>6, <1>7 DEF KeepsRecent, Recent
  <2>4. CASE k = b /\ q = r
    BY <2>4, <1>5
  <2>5. QED
    BY <2>2, <2>3, <2>4
<1>14. WindowBound'
  <2> SUFFICES ASSUME NEW k \in Keys, NEW t \in 0 .. now
               PROVE  Cardinality(InWindow(k, t)') <= Limit
    BY <1>7 DEF WindowBound
  <2>1. CASE k # b \/ t < now
    <3>1. InWindow(k, t)' = InWindow(k, t)
      <4>1. ASSUME NEW q \in Requests PROVE q \in InWindow(k, t)' <=> q \in InWindow(k, t)
        <5>1. CASE q # r
          BY <5>1, <1>6, <1>3, <1>4 DEF InWindow, Admitted, Admit, LimiterTypeOK
        <5>2. CASE q = r
          BY <5>2, <2>1, <1>6, <1>3, <1>4, <1>7 DEF InWindow, Admitted, LimiterTypeOK
        <5>3. QED
          BY <5>1, <5>2
      <4>2. QED
        BY <4>1 DEF InWindow, Admitted
    <3>2. QED
      BY <3>1 DEF WindowBound
  <2>2. CASE k = b /\ t = now
    <3>1. InWindow(b, t)' \subseteq R \cup {r}
      <4> SUFFICES ASSUME NEW q \in InWindow(b, t)', q # r PROVE q \in R
        OBVIOUS
      <4>1. q \in Admitted(b) /\ stamp[q] + Window > now
        BY <2>2, <1>3, <1>6, <1>7, LimitAssumption DEF InWindow, Admitted, LimiterTypeOK
      <4>2. QED
        BY <1>1, <4>1 DEF KeepsRecent, Recent
    <3>2. R \cup {r} \in SUBSET Requests
      BY <1>1
    <3>3. /\ Cardinality(InWindow(b, t)') <= Cardinality(R \cup {r})
          /\ Cardinality(InWindow(b, t)') \in Nat
          /\ Cardinality(R \cup {r}) \in Nat
      BY <3>1, <3>2, Finite
    <3>4. Cardinality(InWindow(b, t)') <= Limit
      <4> HIDE DEF b, R
      <4> QED BY <3>3, <1>10, LimitAssumption
    <3>5. QED
      BY <2>2, <3>4
  <2>3. QED
    BY <2>1, <2>2 DEF LimiterTypeOK
<1>15. QED
  BY <1>2, <1>8, <1>11, <1>12, <1>13, <1>14

LEMMA AnswerInv ==
    ASSUME LimiterInv, NEW r \in Requests, Answer(r)
    PROVE  LimiterInv'
<1> USE DEF LimiterInv
<1>1. /\ UNCHANGED <<now, bucket, stamp>>
      /\ \A k : Admitted(k)' = Admitted(k)
  BY DEF Answer, Admitted, LimiterTypeOK
<1>2. LimiterTypeOK'
  <2>1. bucket[KeyOf[r]] \in SUBSET Requests /\ Cardinality(bucket[KeyOf[r]]) <= Limit
    BY KeyType DEF LimiterTypeOK, BucketBound
  <2>2. Left(bucket[KeyOf[r]]) \in 0 .. Limit
    BY <2>1, LeftBound
  <2>3. QED
    BY <2>2 DEF LimiterTypeOK, Answer, States
<1>3. HoldsAdmitted' /\ BucketBound' /\ StampsArePast' /\ KeepsRecent'
  BY <1>1 DEF HoldsAdmitted, BucketBound, StampsArePast, KeepsRecent
<1>4. \A k, t : InWindow(k, t)' = InWindow(k, t)
  BY <1>1 DEF InWindow
<1>5. WindowBound'
  BY <1>1, <1>4 DEF WindowBound
<1>6. QED
  BY <1>2, <1>3, <1>5

LEMMA PassThroughInv ==
    ASSUME LimiterInv, NEW r \in Requests, PassThrough(r)
    PROVE  LimiterInv'
<1> USE DEF LimiterInv
<1>1. /\ UNCHANGED <<now, bucket, stamp>>
      /\ \A k : Admitted(k)' = Admitted(k)
  BY DEF PassThrough, Admitted, LimiterTypeOK
<1>2. LimiterTypeOK'
  BY DEF LimiterTypeOK, PassThrough, States
<1>3. HoldsAdmitted' /\ BucketBound' /\ StampsArePast' /\ KeepsRecent'
  BY <1>1 DEF HoldsAdmitted, BucketBound, StampsArePast, KeepsRecent
<1>4. \A k, t : InWindow(k, t)' = InWindow(k, t)
  BY <1>1 DEF InWindow
<1>5. WindowBound'
  BY <1>1, <1>4 DEF WindowBound
<1>6. QED
  BY <1>2, <1>3, <1>5

\* The clock opens the window that ends now + 1: nothing was admitted in its
\* last second, so it is no fuller than the bucket.
LEMMA TickInv ==
    ASSUME LimiterInv, Tick
    PROVE  LimiterInv'
<1> USE DEF LimiterInv
<1>1. /\ now' = now + 1 /\ now \in Nat
      /\ UNCHANGED <<bucket, stamp, state, told>>
      /\ \A k : Admitted(k)' = Admitted(k)
  BY DEF Tick, Admitted, LimiterTypeOK
<1>2. LimiterTypeOK'
  BY <1>1 DEF LimiterTypeOK
<1>3. HoldsAdmitted' /\ BucketBound'
  BY <1>1 DEF HoldsAdmitted, BucketBound
<1>4. StampsArePast' /\ KeepsRecent'
  BY <1>1, LimitAssumption DEF StampsArePast, KeepsRecent, LimiterTypeOK, Admitted
<1>5. \A k, t : InWindow(k, t)' = InWindow(k, t)
  BY <1>1 DEF InWindow
<1>6. WindowBound'
  <2> SUFFICES ASSUME NEW k \in Keys, NEW t \in 0 .. now + 1
               PROVE  Cardinality(InWindow(k, t)) <= Limit
    BY <1>1, <1>5 DEF WindowBound
  <2>1. CASE t <= now
    BY <2>1, <1>1 DEF WindowBound
  <2>2. CASE t = now + 1
    <3>1. InWindow(k, t) \subseteq bucket[k] /\ bucket[k] \in SUBSET Requests
      BY <2>2, <1>1, LimitAssumption DEF InWindow, KeepsRecent, Admitted, LimiterTypeOK
    <3>2. /\ Cardinality(InWindow(k, t)) <= Cardinality(bucket[k])
          /\ Cardinality(InWindow(k, t)) \in Nat
          /\ Cardinality(bucket[k]) \in Nat
      BY <3>1, Finite
    <3>3. QED
      BY <3>2, LimitAssumption DEF BucketBound
  <2>3. QED
    BY <2>1, <2>2, <1>1
<1>7. QED
  BY <1>2, <1>3, <1>4, <1>6

LEMMA LimiterNextInv == LimiterInv /\ [LimiterNext]_limiterVars => LimiterInv'
<1> SUFFICES ASSUME LimiterInv, [LimiterNext]_limiterVars PROVE LimiterInv'
  OBVIOUS
<1>1. CASE LimiterNext
  BY <1>1, PassThroughInv, RefuseInv, AdmitInv, AnswerInv, TickInv DEF LimiterNext
<1>2. CASE UNCHANGED limiterVars
  BY <1>2 DEF limiterVars, LimiterInv, LimiterTypeOK, HoldsAdmitted, BucketBound, StampsArePast, KeepsRecent,
              WindowBound, Admitted, InWindow
<1>3. QED
  BY <1>1, <1>2

\* The inductive invariant holds in every reachable state.
THEOREM LimiterInvariance == LimiterSpec => []LimiterInv
<1>1. QED
  BY LimiterInitInv, LimiterNextInv, PTL DEF LimiterSpec

-----------------------------------------------------------------------------
\* Every variable keeps its type, and no advertised count exceeds the limit.
THEOREM LimiterTypeCorrect == LimiterSpec => []LimiterTypeOK
<1>1. LimiterInv => LimiterTypeOK
  BY DEF LimiterInv
<1>2. QED
  BY <1>1, LimiterInvariance, PTL

\* No window of Window seconds admits more than Limit requests of one key.
THEOREM LimitHolds == LimiterSpec => []WindowBound
<1>1. LimiterInv => WindowBound
  BY DEF LimiterInv
<1>2. QED
  BY <1>1, LimiterInvariance, PTL

\* A request is refused only when the last window is full.
THEOREM RefusalIsDue == LimiterSpec => NoUndueRefusal
<1>1. ASSUME LimiterInv, [LimiterNext]_limiterVars, NEW r \in Requests,
             state[r] # "refused", state'[r] = "refused"
      PROVE  Cardinality(InWindow(KeyOf[r], now)) >= Limit
  <2> DEFINE k == KeyOf[r]
             W == InWindow(k, now)
  <2>1. Refuse(r)
    BY <1>1 DEF LimiterInv, LimiterTypeOK, LimiterNext, limiterVars, PassThrough, Refuse, Admit, Answer, Tick
  <2>2. k \in Keys /\ Cardinality(Recent(bucket[k])) >= Limit
    BY <2>1, KeyType DEF Refuse
  <2>3. Recent(bucket[k]) \subseteq W /\ W \in SUBSET Requests
    BY <1>1, <2>2 DEF LimiterInv, LimiterTypeOK, HoldsAdmitted, StampsArePast, Recent, InWindow, Admitted
  <2>4. /\ Cardinality(Recent(bucket[k])) <= Cardinality(W)
        /\ Cardinality(Recent(bucket[k])) \in Nat
        /\ Cardinality(W) \in Nat
    BY <2>3, Finite
  <2> HIDE DEF k, W
  <2>5. Cardinality(W) >= Limit
    BY <2>2, <2>4, LimitAssumption
  <2>6. QED
    BY <2>5 DEF k, W
<1>2. LimiterInv /\ [LimiterNext]_limiterVars =>
        [\A r \in Requests :
            state[r] # "refused" /\ state'[r] = "refused" =>
                Cardinality(InWindow(KeyOf[r], now)) >= Limit]_limiterVars
  BY <1>1
<1>3. QED
  BY <1>2, LimiterInvariance, PTL DEF LimiterSpec, NoUndueRefusal

\* An advertised remaining count is still available when it is sent.
THEOREM RemainingIsTrue == LimiterSpec => RemainingIsAvailable
<1>1. ASSUME LimiterInv, [LimiterNext]_limiterVars, NEW r \in Requests,
             state[r] = "serving", state'[r] = "answered"
      PROVE  told'[r] + Cardinality(InWindow(KeyOf[r], now)) <= Limit
  <2> DEFINE k == KeyOf[r]
             W == InWindow(k, now)
  <2>1. Answer(r)
    BY <1>1 DEF LimiterInv, LimiterTypeOK, LimiterNext, limiterVars, PassThrough, Refuse, Admit, Answer, Tick
  <2>2. k \in Keys /\ told'[r] = Left(bucket[k])
    BY <1>1, <2>1, KeyType DEF Answer, LimiterInv, LimiterTypeOK
  <2>3. W \subseteq bucket[k] /\ bucket[k] \in SUBSET Requests
    BY <1>1, <2>2, LimitAssumption DEF LimiterInv, LimiterTypeOK, KeepsRecent, InWindow, Admitted
  <2>4. Cardinality(bucket[k]) <= Limit
    BY <1>1, <2>2 DEF LimiterInv, BucketBound
  <2>5. told'[r] \in 0 .. Limit /\ told'[r] + Cardinality(bucket[k]) <= Limit
    BY <2>2, <2>3, <2>4, LeftBound
  <2>6. /\ Cardinality(W) <= Cardinality(bucket[k])
        /\ Cardinality(W) \in Nat
        /\ Cardinality(bucket[k]) \in Nat
    BY <2>3, Finite
  <2> HIDE DEF k, W
  <2>7. told'[r] + Cardinality(W) <= Limit
    BY <2>5, <2>6, LimitAssumption
  <2>8. QED
    BY <2>7 DEF k, W
<1>2. LimiterInv /\ [LimiterNext]_limiterVars =>
        [\A r \in Requests :
            state[r] = "serving" /\ state'[r] = "answered" =>
                told'[r] + Cardinality(InWindow(KeyOf[r], now)) <= Limit]_limiterVars
  BY <1>1
<1>3. QED
  BY <1>2, LimiterInvariance, PTL DEF LimiterSpec, RemainingIsAvailable

=============================================================================

-------------------------- MODULE Terminals_proofs --------------------------
(***************************************************************************)
(* Proofs about Accounts and Terminals, for any calls and requests and any *)
(* number of users and keys: the types, that users differ, that a revoked  *)
(* key and a replaced password are refused, that the audit log is true,    *)
(* and that a command touches its own keys only.                           *)
(***************************************************************************)
EXTENDS Terminals, TLAPS

-----------------------------------------------------------------------------
(* The tables.  A sequence is used by its length and its elements.          *)

LEMMA LongerDomain ==
    ASSUME NEW n \in Nat
    PROVE  \A i : i \in 1 .. n + 1 <=> i = n + 1 \/ i \in 1 .. n
  OBVIOUS

LEMMA LargerRange ==
    ASSUME NEW S, NEW T, S \subseteq T, NEW s \in Seq(S)
    PROVE  s \in Seq(T)
  OBVIOUS

\* Elements and positions of a sequence.
LEMMA Elements ==
    ASSUME NEW S, NEW s \in Seq(S)
    PROVE  /\ Len(s) \in Nat /\ DOMAIN s = 1 .. Len(s)
           /\ \A n \in DOMAIN s : s[n] \in S /\ n \in Nat /\ n # 0
  OBVIOUS

\* A new row is the last one.
LEMMA RowAdded ==
    ASSUME NEW S, NEW s \in Seq(S), NEW e \in S
    PROVE  /\ Append(s, e) \in Seq(S)
           /\ DOMAIN Append(s, e) = DOMAIN s \cup {Len(s) + 1}
           /\ Append(s, e)[Len(s) + 1] = e
           /\ Len(s) + 1 \notin DOMAIN s /\ Len(s) + 1 \in Nat \ {0}
           /\ \A n \in DOMAIN s : Append(s, e)[n] = s[n]
<1>1. /\ Append(s, e) \in Seq(S) /\ Len(Append(s, e)) = Len(s) + 1 /\ Len(s) \in Nat
      /\ Append(s, e)[Len(s) + 1] = e
      /\ \A i \in 1 .. Len(s) : Append(s, e)[i] = s[i]
  OBVIOUS
<1>2. DOMAIN Append(s, e) = 1 .. Len(s) + 1 /\ DOMAIN s = 1 .. Len(s)
  BY <1>1
<1>3. 1 .. Len(s) + 1 = 1 .. Len(s) \cup {Len(s) + 1} /\ Len(s) + 1 \notin 1 .. Len(s)
  BY <1>1
<1> QED
  BY <1>1, <1>2, <1>3

\* A row is written in its place.
LEMMA RowWritten ==
    ASSUME NEW S, NEW s \in Seq(S), NEW n \in DOMAIN s, NEW e \in S
    PROVE  /\ [s EXCEPT ![n] = e] \in Seq(S)
           /\ DOMAIN [s EXCEPT ![n] = e] = DOMAIN s
           /\ [s EXCEPT ![n] = e][n] = e
           /\ \A m \in DOMAIN s : m # n => [s EXCEPT ![n] = e][m] = s[m]
  OBVIOUS

LEMMA NewUserIsUser == \A q \in Requests : NewUser(q) \in User
  BY DEF NewUser, User, Values

LEMMA NewKeyIsKey ==
    ASSUME NEW D, NEW n \in D, NEW admin \in {FALSE} \cup Values("admin")
    PROVE  NewKey(n, admin) \in Key(D)
  BY DEF NewKey, Key


-----------------------------------------------------------------------------
(* What a step of the router does, value by value.                          *)

Changing == {"register", "login", "change", "create key", "revoke key", "create role"}

\* The tables after any step: rows stay, the owner of a key too, and a key that
\* is not active never becomes it.
Grows ==
    /\ users' \in Seq(User) /\ keys' \in Seq(Key(DOMAIN users'))
    /\ DOMAIN users \subseteq DOMAIN users' /\ DOMAIN keys \subseteq DOMAIN keys'
    /\ \A k \in DOMAIN keys : /\ keys'[k].owner = keys[k].owner
                              /\ keys'[k].active => keys[k].active

\* What a step of call c leaves alone.
ServeFrame(c) ==
    /\ UNCHANGED <<request, caller, before>>
    /\ at' \in [Calls -> {"new"} \cup Steps \cup Answers] /\ made' \in [Calls -> Nat]
    /\ \A d \in Calls \ {c} : at'[d] = at[d] /\ made'[d] = made[d]
    /\ at[c] \in Steps
    /\ Grows

\* A step that writes no row.
Passes(c) ==
    /\ UNCHANGED <<users, made, log>>
    /\ at'[c] # "committed" /\ (at[c] = "committed" => at'[c] = "error")
    /\ at'[c] \in Steps \cup Answers
    /\ Guarded(request[c]) /\ at[c] = "sent" =>
          \/ at'[c] = "admitted" /\ caller[c].by = "token"
          \/ at'[c] = "scanned" /\ caller[c].by = "key" /\ keys[caller[c].id].active
          \/ at'[c] \in {"unauthorized", "error"}
    /\ at'[c] = "ok" => request[c].op \notin Changing
    /\ at'[c] = "checked" /\ Asks(c, "revoke key") =>
          at[c] = "admitted" /\ request[c].key \in DOMAIN keys /\ keys[request[c].key].owner = Who(c)

\* A step that commits a row, and the row that it is.
WritesUser(c) ==
    /\ at[c] = "checked" /\ Asks(c, "register") /\ made'[c] \in Nat \ {0}
    /\ made'[c] \notin DOMAIN users /\ DOMAIN users' = DOMAIN users \cup {made'[c]}
    /\ users'[made'[c]].password = request[c].new
    /\ \A n \in DOMAIN users : users'[n] = users[n]

WritesPassword(c) ==
    /\ at[c] = "checked" /\ Asks(c, "change") /\ made'[c] = Who(c) /\ DOMAIN users' = DOMAIN users
    /\ Who(c) \in DOMAIN users => users'[Who(c)].password = request[c].new
    /\ \A n \in DOMAIN users : n # Who(c) => users'[n].password = users[n].password

WritesKey(c) ==
    /\ at[c] = "admitted" /\ Asks(c, "create key") /\ users' = users /\ made'[c] \in DOMAIN keys'
    /\ keys'[made'[c]].owner = Who(c)

Revokes(c) ==
    /\ at[c] = "checked" /\ Asks(c, "revoke key") /\ users' = users /\ made'[c] = request[c].key
    /\ request[c].key \in DOMAIN keys => ~keys'[request[c].key].active

WritesNothingHere(c) ==
    /\ users' = users /\ keys' = keys
    /\ \/ /\ at[c] = "sent" /\ Asks(c, "login") /\ made'[c] \in DOMAIN users
          /\ users[made'[c]].password = request[c].old
       \/ at[c] = "checked" /\ Asks(c, "create role") /\ made'[c] = 1

Writes(c) ==
    /\ at'[c] = "committed" /\ log' = log
    /\ \/ WritesUser(c) \/ WritesPassword(c) \/ WritesKey(c) \/ Revokes(c) \/ WritesNothingHere(c)

\* A step that writes the audit log.
Reports(c) ==
    /\ UNCHANGED <<users, keys, made>>
    /\ \/ at[c] = "committed" /\ at'[c] = "ok" /\ log' = log \cup {<<c, TRUE>>}
       \/ at[c] = "mismatched" /\ at'[c] = "refused" /\ log' = log \cup {<<c, FALSE>>}

LEMMA GoesEffect ==
    ASSUME TypeOK, NEW c \in Calls, NEW from \in Steps, NEW to \in Steps \cup Answers, Goes(c, from, to)
    PROVE  /\ at[c] = from /\ at'[c] = to
           /\ at' \in [Calls -> {"new"} \cup Steps \cup Answers]
           /\ \A d \in Calls \ {c} : at'[d] = at[d]
  BY DEF TypeOK, Goes

LEMMA Unwritten == TypeOK /\ users' = users /\ keys' = keys => Grows
  BY Elements DEF TypeOK, Grows

LEMMA ChecksEffect ==
    ASSUME TypeOK, NEW c \in Calls, NEW from \in Steps, NEW to \in Steps \cup Answers, Checks(c, from, to)
    PROVE  /\ ServeFrame(c) /\ at[c] = from /\ at'[c] = to
           /\ UNCHANGED <<users, keys, roles, log, made>>
<1>1. Goes(c, from, to) /\ UNCHANGED <<users, keys, roles, log, request, caller, made, before>>
  BY DEF Checks, tables
<1>2. /\ at[c] = from /\ at'[c] = to
      /\ at' \in [Calls -> {"new"} \cup Steps \cup Answers]
      /\ \A d \in Calls \ {c} : at'[d] = at[d]
  BY <1>1, GoesEffect
<1>3. Grows
  BY <1>1, Unwritten
<1> QED
  BY <1>1, <1>2, <1>3 DEF ServeFrame, TypeOK

LEMMA CommitsEffect ==
    ASSUME TypeOK, NEW c \in Calls, NEW from \in Steps, NEW n \in Nat, Commits(c, from, n), Grows
    PROVE  /\ ServeFrame(c) /\ at[c] = from /\ at'[c] = "committed" /\ log' = log /\ made'[c] = n
<1>1. /\ Goes(c, from, "committed") /\ made' = [made EXCEPT ![c] = n]
      /\ UNCHANGED <<log, request, caller, before>>
  BY DEF Commits
<1>2. /\ at[c] = from /\ at'[c] = "committed"
      /\ at' \in [Calls -> {"new"} \cup Steps \cup Answers]
      /\ \A d \in Calls \ {c} : at'[d] = at[d]
  BY <1>1, GoesEffect DEF Steps
<1>3. made' \in [Calls -> Nat] /\ made'[c] = n /\ \A d \in Calls \ {c} : made'[d] = made[d]
  BY <1>1 DEF TypeOK
<1> QED
  BY <1>1, <1>2, <1>3 DEF ServeFrame


\* The tables after each write.
LEMMA UserAppended ==
    ASSUME TypeOK, NEW q \in Requests, users' = Append(users, NewUser(q)), keys' = keys
    PROVE  /\ Grows /\ Len(users) + 1 \in Nat \ {0} /\ Len(users) + 1 \notin DOMAIN users
           /\ DOMAIN users' = DOMAIN users \cup {Len(users) + 1}
           /\ users'[Len(users) + 1] = NewUser(q)
           /\ \A n \in DOMAIN users : users'[n] = users[n]
<1>1. users \in Seq(User) /\ keys \in Seq(Key(DOMAIN users)) /\ NewUser(q) \in User
  BY NewUserIsUser DEF TypeOK
<1>2. /\ users' \in Seq(User) /\ Len(users) + 1 \in Nat \ {0} /\ Len(users) + 1 \notin DOMAIN users
      /\ DOMAIN users' = DOMAIN users \cup {Len(users) + 1}
      /\ users'[Len(users) + 1] = NewUser(q)
      /\ \A n \in DOMAIN users : users'[n] = users[n]
  BY <1>1, RowAdded
<1>3. Key(DOMAIN users) \subseteq Key(DOMAIN users')
  BY <1>2 DEF Key
<1>4. keys' \in Seq(Key(DOMAIN users'))
  BY <1>1, <1>3, LargerRange
<1> QED
  BY <1>2, <1>4 DEF Grows

LEMMA PasswordReplaced ==
    ASSUME TypeOK, NEW n, NEW q \in Requests,
           users' = [users EXCEPT ![n].password = q.new], keys' = keys
    PROVE  /\ Grows /\ DOMAIN users' = DOMAIN users
           /\ n \in DOMAIN users => users'[n].password = q.new
           /\ \A m \in DOMAIN users : m # n => users'[m] = users[m]
           /\ \A m \in DOMAIN users : users'[m].name = users[m].name /\ users'[m].email = users[m].email
<1>1. users \in Seq(User) /\ keys \in Seq(Key(DOMAIN users))
  BY DEF TypeOK
<1>2. CASE n \notin DOMAIN users
  <2>1. users' = users
    BY <1>1, <1>2
  <2> QED
    BY <1>2, <2>1, Unwritten
<1>3. CASE n \in DOMAIN users
  <2> DEFINE u == [users[n] EXCEPT !.password = q.new]
  <2>1. users[n] \in User
    BY <1>1, <1>3
  <2>2. u \in User /\ u.password = q.new /\ u.name = users[n].name /\ u.email = users[n].email
    BY <2>1 DEF User, Values
  <2>3. users' = [users EXCEPT ![n] = u]
    OBVIOUS
  <2> HIDE DEF u
  <2>4. /\ users' \in Seq(User) /\ DOMAIN users' = DOMAIN users /\ users'[n] = u
        /\ \A m \in DOMAIN users : m # n => users'[m] = users[m]
    BY ONLY <1>1, <1>3, <2>2, <2>3, RowWritten, Zenon
  <2>5. Grows
    BY <1>1, <2>4 DEF Grows
  <2> QED
    BY <2>2, <2>4, <2>5
<1> QED
  BY <1>2, <1>3

LEMMA KeyAppended ==
    ASSUME TypeOK, NEW n \in DOMAIN users, NEW q \in Requests,
           keys' = Append(keys, NewKey(n, q.admin)), users' = users
    PROVE  /\ Grows /\ Len(keys) + 1 \in DOMAIN keys' /\ Len(keys) + 1 \in Nat \ {0}
           /\ keys'[Len(keys) + 1].owner = n
<1>1. users \in Seq(User) /\ keys \in Seq(Key(DOMAIN users)) /\ NewKey(n, q.admin) \in Key(DOMAIN users)
  BY NewKeyIsKey DEF TypeOK, Values
<1>2. /\ keys' \in Seq(Key(DOMAIN users)) /\ Len(keys) + 1 \in Nat \ {0}
      /\ DOMAIN keys' = DOMAIN keys \cup {Len(keys) + 1}
      /\ keys'[Len(keys) + 1] = NewKey(n, q.admin)
      /\ \A k \in DOMAIN keys : keys'[k] = keys[k]
  BY <1>1, RowAdded
<1>3. keys'[Len(keys) + 1].owner = n
  BY <1>2 DEF NewKey
<1> QED
  BY <1>1, <1>2, <1>3 DEF Grows

LEMMA KeyMarked ==
    ASSUME TypeOK, NEW k, keys' = [keys EXCEPT ![k].used = TRUE], users' = users
    PROVE  Grows /\ DOMAIN keys' = DOMAIN keys
<1>1. users \in Seq(User) /\ keys \in Seq(Key(DOMAIN users))
  BY DEF TypeOK
<1>2. CASE k \notin DOMAIN keys
  <2>1. keys' = keys
    BY <1>1, <1>2
  <2> QED
    BY <2>1, Unwritten
<1>3. CASE k \in DOMAIN keys
  <2> DEFINE r == [keys[k] EXCEPT !.used = TRUE]
  <2>1. keys[k] \in Key(DOMAIN users)
    BY <1>1, <1>3
  <2>2. r \in Key(DOMAIN users) /\ r.owner = keys[k].owner /\ r.active = keys[k].active
    BY <2>1 DEF Key
  <2>3. keys' = [keys EXCEPT ![k] = r]
    OBVIOUS
  <2> HIDE DEF r
  <2>4. /\ keys' \in Seq(Key(DOMAIN users)) /\ DOMAIN keys' = DOMAIN keys /\ keys'[k] = r
        /\ \A m \in DOMAIN keys : m # k => keys'[m] = keys[m]
    BY ONLY <1>1, <1>3, <2>2, <2>3, RowWritten, Zenon
  <2> QED
    BY <1>1, <2>2, <2>4 DEF Grows
<1> QED
  BY <1>2, <1>3

LEMMA KeyRevoked ==
    ASSUME TypeOK, NEW k, keys' = [keys EXCEPT ![k].active = FALSE], users' = users
    PROVE  Grows /\ (k \in DOMAIN keys => ~keys'[k].active)
<1>1. users \in Seq(User) /\ keys \in Seq(Key(DOMAIN users))
  BY DEF TypeOK
<1>2. CASE k \notin DOMAIN keys
  <2>1. keys' = keys
    BY <1>1, <1>2
  <2> QED
    BY <1>2, <2>1, Unwritten
<1>3. CASE k \in DOMAIN keys
  <2> DEFINE r == [keys[k] EXCEPT !.active = FALSE]
  <2>1. keys[k] \in Key(DOMAIN users)
    BY <1>1, <1>3
  <2>2. r \in Key(DOMAIN users) /\ r.owner = keys[k].owner /\ r.active = FALSE
    BY <2>1 DEF Key
  <2>3. keys' = [keys EXCEPT ![k] = r]
    OBVIOUS
  <2> HIDE DEF r
  <2>4. /\ keys' \in Seq(Key(DOMAIN users)) /\ DOMAIN keys' = DOMAIN keys /\ keys'[k] = r
        /\ \A m \in DOMAIN keys : m # k => keys'[m] = keys[m]
    BY ONLY <1>1, <1>3, <2>2, <2>3, RowWritten, Zenon
  <2> QED
    BY <1>1, <2>2, <2>4 DEF Grows
<1> QED
  BY <1>2, <1>3


-----------------------------------------------------------------------------
(* Each step of the router is one of the three.                             *)

ServeEffect(c) == ServeFrame(c) /\ (Passes(c) \/ Writes(c) \/ Reports(c))

\* Users stay as they are but for one that is new, with a name and an address
\* that nobody has, and for passwords.
UsersStep ==
    \/ /\ DOMAIN users' = DOMAIN users
       /\ \A n \in DOMAIN users : users'[n].name = users[n].name /\ users'[n].email = users[n].email
    \/ \E m : /\ DOMAIN users' = DOMAIN users \cup {m}
              /\ \A n \in DOMAIN users : /\ users'[n] = users[n]
                                         /\ users[n].name # users'[m].name
                                         /\ users[n].email # users'[m].email

LEMMA UsersKept == users' = users => UsersStep
  BY DEF UsersStep

\* Requests are what Requests holds, and they differ by op.
LEMMA OpIsKnown ==
    ASSUME TypeOK, NEW c \in Calls, request[c].op \in Op
    PROVE  request[c] \in Requests
<1>1. request[c] \in Requests \cup {Unsent}
  BY DEF TypeOK
<1>2. Unsent.op = "none"
  BY DEF Unsent
<1>3. "none" \notin Op
  BY DEF Op
<1> QED
  BY <1>1, <1>2, <1>3

LEMMA StepNames ==
    /\ Steps \cap Answers = {} /\ "new" \notin Steps \cup Answers
    /\ {"sent", "scanned", "admitted", "checked", "mismatched", "committed"} = Steps
    /\ {"ok", "unauthorized", "refused", "forbidden", "conflict", "not found", "error"} = Answers
  BY DEF Steps, Answers

LEMMA Admissions ==
    ASSUME TypeOK, NEW c \in Calls, CheckToken(c) \/ ScanKeys(c) \/ MarkUsed(c)
    PROVE  ServeFrame(c) /\ Passes(c) /\ users' = users
<1>1. CASE CheckToken(c)
  <2>1. PICK to \in {"admitted", "unauthorized"} :
          Checks(c, "sent", to) /\ (to = "admitted" => caller[c].by = "token")
    BY <1>1 DEF CheckToken
  <2>2. "sent" \in Steps /\ to \in Steps \cup Answers /\ to # "committed"
    BY <2>1 DEF Steps, Answers
  <2>3. /\ ServeFrame(c) /\ at[c] = "sent" /\ at'[c] = to
        /\ UNCHANGED <<users, keys, roles, log, made>>
    BY <2>1, <2>2, ChecksEffect
  <2> QED
    BY <2>1, <2>2, <2>3 DEF Passes
<1>2. CASE ScanKeys(c)
  <2>1. PICK to \in {"scanned", "unauthorized"} :
          /\ Checks(c, "sent", to) /\ caller[c].by = "key"
          /\ to = "scanned" => keys[caller[c].id].active
    BY <1>2 DEF ScanKeys
  <2>2. "sent" \in Steps /\ to \in Steps \cup Answers /\ to # "committed"
    BY <2>1 DEF Steps, Answers
  <2>3. /\ ServeFrame(c) /\ at[c] = "sent" /\ at'[c] = to
        /\ UNCHANGED <<users, keys, roles, log, made>>
    BY <2>1, <2>2, ChecksEffect
  <2> QED
    BY <2>1, <2>2, <2>3 DEF Passes
<1>3. CASE MarkUsed(c)
  <2>1. /\ Goes(c, "scanned", "admitted") /\ keys' = [keys EXCEPT ![caller[c].id].used = TRUE]
        /\ UNCHANGED <<users, roles, log, request, caller, made, before>>
    BY <1>3 DEF MarkUsed
  <2>2. /\ at[c] = "scanned" /\ at'[c] = "admitted"
        /\ at' \in [Calls -> {"new"} \cup Steps \cup Answers]
        /\ \A d \in Calls \ {c} : at'[d] = at[d]
    BY <2>1, GoesEffect DEF Steps
  <2>3. Grows
    BY <2>1, KeyMarked
  <2>4. ServeFrame(c)
    BY <2>1, <2>2, <2>3 DEF ServeFrame, TypeOK, Steps
  <2> QED
    BY <2>1, <2>2, <2>4 DEF Passes, Steps
<1> QED
  BY <1>1, <1>2, <1>3

\* A check after the admission, but for the one before a revocation.
LEMMA PlainCheck ==
    ASSUME TypeOK, NEW c \in Calls, NEW from \in {"sent", "admitted", "checked"},
           NEW to \in {"checked", "mismatched", "conflict", "not found", "forbidden", "error"},
           Checks(c, from, to), from = "sent" => ~Guarded(request[c]),
           to = "checked" => ~Asks(c, "revoke key")
    PROVE  ServeFrame(c) /\ Passes(c) /\ users' = users
<1>1. from \in Steps /\ to \in Steps \cup Answers /\ to \notin {"committed", "ok"}
  BY DEF Steps, Answers
<1>2. /\ ServeFrame(c) /\ at[c] = from /\ at'[c] = to
      /\ UNCHANGED <<users, keys, roles, log, made>>
  BY <1>1, ChecksEffect
<1> QED
  BY <1>1, <1>2 DEF Passes

LEMMA Inspections ==
    ASSUME TypeOK, NEW c \in Calls,
           Forbid(c) \/ FindUser(c) \/ VerifyOld(c) \/ FindOwnKey(c) \/ FindRole(c) \/ Lists(c)
    PROVE  ServeFrame(c) /\ Passes(c) /\ users' = users
<1>1. CASE Forbid(c)
  <2>1. Checks(c, "admitted", "forbidden")
    BY <1>1 DEF Forbid
  <2> QED
    BY <2>1, PlainCheck
<1>2. CASE FindUser(c)
  <2>1. Asks(c, "register") /\ \E to \in {"checked", "conflict", "error"} : Checks(c, "sent", to)
    BY <1>2 DEF FindUser
  <2>2. ~Guarded(request[c]) /\ ~Asks(c, "revoke key")
    BY <2>1 DEF Guarded, Asks
  <2> QED
    BY <2>1, <2>2, PlainCheck
<1>3. CASE VerifyOld(c)
  <2>1. Asks(c, "change") /\ \E to \in {"checked", "mismatched"} : Checks(c, "admitted", to)
    BY <1>3 DEF VerifyOld
  <2>2. ~Asks(c, "revoke key")
    BY <2>1 DEF Asks
  <2> QED
    BY <2>1, <2>2, PlainCheck
<1>4. CASE FindOwnKey(c)
  <2>1. CASE Checks(c, "admitted", "not found")
    BY <2>1, PlainCheck
  <2>2. CASE /\ request[c].key \in DOMAIN keys /\ keys[request[c].key].owner = Who(c)
             /\ Checks(c, "admitted", "checked")
    <3>1. "admitted" \in Steps /\ "checked" \in Steps \cup Answers
      BY DEF Steps
    <3>2. /\ ServeFrame(c) /\ at[c] = "admitted" /\ at'[c] = "checked"
          /\ UNCHANGED <<users, keys, roles, log, made>>
      BY <2>2, <3>1, ChecksEffect
    <3> QED
      BY <2>2, <3>1, <3>2 DEF Passes
  <2> QED
    BY <1>4, <2>1, <2>2 DEF FindOwnKey
<1>5. CASE FindRole(c)
  <2>1. Asks(c, "create role") /\ \E to \in {"checked", "conflict"} : Checks(c, "admitted", to)
    BY <1>5 DEF FindRole
  <2>2. ~Asks(c, "revoke key")
    BY <2>1 DEF Asks
  <2> QED
    BY <2>1, <2>2, PlainCheck
<1>6. CASE Lists(c)
  <2>1. request[c].op \notin Changing /\ Checks(c, "admitted", "ok")
    BY <1>6 DEF Lists, Asks, Changing
  <2>2. "admitted" \in Steps /\ "ok" \in Steps \cup Answers
    BY DEF Steps, Answers
  <2>3. /\ ServeFrame(c) /\ at[c] = "admitted" /\ at'[c] = "ok"
        /\ UNCHANGED <<users, keys, roles, log, made>>
    BY <2>1, <2>2, ChecksEffect
  <2> QED
    BY <2>1, <2>2, <2>3 DEF Passes
<1> QED
  BY <1>1, <1>2, <1>3, <1>4, <1>5, <1>6

LEMMA Insertions ==
    ASSUME TypeOK, NEW c \in Calls, InsertUser(c)
    PROVE  ServeEffect(c) /\ UsersStep
<1>1. Asks(c, "register") /\ ~Asks(c, "revoke key") /\ request[c] \in Requests
  BY OpIsKnown DEF InsertUser, Asks, Op
<1>2. CASE Checks(c, "checked", "error")
  <2>1. ServeFrame(c) /\ Passes(c) /\ users' = users
    BY <1>2, PlainCheck
  <2> QED
    BY <2>1, UsersKept DEF ServeEffect
<1>3. CASE /\ Commits(c, "checked", Len(users) + 1)
           /\ users' = Append(users, NewUser(request[c])) /\ keys' = keys
           /\ \A n \in DOMAIN users : users[n].name # request[c].name /\ users[n].email # request[c].email
  <2> DEFINE m == Len(users) + 1
  <2>1. /\ Grows /\ m \in Nat \ {0} /\ m \notin DOMAIN users
        /\ DOMAIN users' = DOMAIN users \cup {m}
        /\ users'[m] = NewUser(request[c])
        /\ \A n \in DOMAIN users : users'[n] = users[n]
    BY <1>1, <1>3, UserAppended
  <2> HIDE DEF m
  <2>2. Commits(c, "checked", m)
    BY <1>3 DEF m
  <2>3. /\ ServeFrame(c) /\ at[c] = "checked" /\ at'[c] = "committed" /\ log' = log /\ made'[c] = m
    BY <2>1, <2>2, CommitsEffect DEF Steps
  <2>4. /\ users'[m].password = request[c].new /\ users'[m].name = request[c].name
        /\ users'[m].email = request[c].email
    BY <2>1 DEF NewUser
  <2>5. UsersStep
    BY <1>3, <2>1, <2>4 DEF UsersStep
  <2>6. WritesUser(c)
    BY <1>1, <2>1, <2>3, <2>4 DEF WritesUser
  <2> QED
    BY <2>3, <2>5, <2>6 DEF Writes, ServeEffect
<1> QED
  BY <1>2, <1>3 DEF InsertUser

\* The acting call is somebody's, so that its id is a row.
LEMMA WhoIsUser ==
    ASSUME TypeOK, NEW c \in Calls, caller[c] # Nobody
    PROVE  /\ Who(c) \in DOMAIN users /\ Who(c) \in Nat \ {0}
           /\ caller[c].by = "key" => caller[c].id \in DOMAIN keys
<1>1. caller[c] \in Credential
  BY DEF TypeOK
<1>2. /\ \A n \in DOMAIN users : n \in Nat \ {0}
      /\ \A k \in DOMAIN keys : keys[k] \in Key(DOMAIN users)
  BY Elements DEF TypeOK
<1> QED
  BY <1>1, <1>2 DEF Credential, Who, Key

\* Of the calls that act for somebody.
Identified(c) ==
    Guarded(request[c]) /\ at[c] \in {"scanned", "admitted", "checked", "mismatched", "committed", "ok"}
    => caller[c] # Nobody

LEMMA Commitments ==
    ASSUME TypeOK, NEW c \in Calls, Identified(c),
           Asks(c, "revoke key") /\ at[c] = "checked" => request[c].key \in DOMAIN keys,
           CheckPassword(c) \/ SetPassword(c) \/ CreateKey(c) \/ Revoke(c) \/ InsertRole(c)
    PROVE  ServeEffect(c) /\ UsersStep
<1>1. CASE CheckPassword(c)
  <2>1. Asks(c, "login") /\ ~Guarded(request[c]) /\ ~Asks(c, "revoke key")
    BY <1>1 DEF CheckPassword, Asks, Guarded
  <2>2. CASE Checks(c, "sent", "mismatched")
    <3>1. ServeFrame(c) /\ Passes(c) /\ users' = users
      BY <2>1, <2>2, PlainCheck
    <3> QED
      BY <3>1, UsersKept DEF ServeEffect
  <2>3. CASE \E n \in DOMAIN users : /\ users[n].password = request[c].old
                                     /\ Commits(c, "sent", n) /\ users' = users /\ keys' = keys
    <3>1. PICK n \in DOMAIN users : /\ users[n].password = request[c].old
                                    /\ Commits(c, "sent", n) /\ users' = users /\ keys' = keys
      BY <2>3
    <3>2. n \in Nat /\ Grows
      BY <3>1, Elements, Unwritten DEF TypeOK
    <3>3. /\ ServeFrame(c) /\ at[c] = "sent" /\ at'[c] = "committed" /\ log' = log /\ made'[c] = n
      BY <3>1, <3>2, CommitsEffect DEF Steps
    <3>4. WritesNothingHere(c)
      BY <2>1, <3>1, <3>3 DEF WritesNothingHere
    <3> QED
      BY <3>1, <3>3, <3>4, UsersKept DEF Writes, ServeEffect
  <2> QED
    BY <1>1, <2>2, <2>3 DEF CheckPassword
<1>2. CASE SetPassword(c)
  <2>1. /\ Asks(c, "change") /\ Commits(c, "checked", Who(c)) /\ keys' = keys
        /\ users' = [users EXCEPT ![Who(c)].password = request[c].new]
    BY <1>2 DEF SetPassword
  <2>2. at[c] = "checked" /\ Guarded(request[c]) /\ request[c] \in Requests
    BY <2>1, OpIsKnown DEF Commits, Goes, Asks, Guarded, Op
  <2>3. Who(c) \in DOMAIN users /\ Who(c) \in Nat
    BY <2>2, WhoIsUser DEF Identified
  <2> DEFINE n == Who(c)
  <2> HIDE DEF n
  <2>4. /\ users' = [users EXCEPT ![n].password = request[c].new] /\ n \in Nat /\ Commits(c, "checked", n)
    BY <2>1, <2>3 DEF n
  <2>5. /\ Grows /\ DOMAIN users' = DOMAIN users
        /\ n \in DOMAIN users => users'[n].password = request[c].new
        /\ \A m \in DOMAIN users : m # n => users'[m] = users[m]
        /\ \A m \in DOMAIN users : users'[m].name = users[m].name /\ users'[m].email = users[m].email
    BY <2>1, <2>2, <2>4, PasswordReplaced
  <2>6. /\ ServeFrame(c) /\ at[c] = "checked" /\ at'[c] = "committed" /\ log' = log /\ made'[c] = n
    BY <2>4, <2>5, CommitsEffect DEF Steps
  <2>7. WritesPassword(c)
    BY <2>1, <2>5, <2>6 DEF WritesPassword, n
  <2>8. UsersStep
    BY <2>5 DEF UsersStep
  <2> QED
    BY <2>6, <2>7, <2>8 DEF Writes, ServeEffect
<1>3. CASE CreateKey(c)
  <2>1. /\ Asks(c, "create key") /\ Commits(c, "admitted", Len(keys) + 1) /\ users' = users
        /\ keys' = Append(keys, NewKey(Who(c), request[c].admin))
    BY <1>3 DEF CreateKey
  <2>2. at[c] = "admitted" /\ Guarded(request[c]) /\ request[c] \in Requests
    BY <2>1, OpIsKnown DEF Commits, Goes, Asks, Guarded, Op
  <2>3. Who(c) \in DOMAIN users
    BY <2>2, WhoIsUser DEF Identified
  <2>4. /\ Grows /\ Len(keys) + 1 \in DOMAIN keys' /\ Len(keys) + 1 \in Nat \ {0}
        /\ keys'[Len(keys) + 1].owner = Who(c)
    BY <2>1, <2>2, <2>3, KeyAppended
  <2>5. /\ ServeFrame(c) /\ at[c] = "admitted" /\ at'[c] = "committed" /\ log' = log
        /\ made'[c] = Len(keys) + 1
    BY <2>1, <2>4, CommitsEffect DEF Steps
  <2>6. WritesKey(c)
    BY <2>1, <2>4, <2>5 DEF WritesKey
  <2> QED
    BY <2>1, <2>5, <2>6, UsersKept DEF Writes, ServeEffect
<1>4. CASE Revoke(c)
  <2>1. /\ Asks(c, "revoke key") /\ Commits(c, "checked", request[c].key) /\ users' = users
        /\ keys' = [keys EXCEPT ![request[c].key].active = FALSE]
    BY <1>4 DEF Revoke
  <2>2. at[c] = "checked" /\ request[c].key \in DOMAIN keys
    BY <2>1 DEF Commits, Goes
  <2>3. request[c].key \in Nat
    BY <2>2, Elements DEF TypeOK
  <2>4. Grows /\ ~keys'[request[c].key].active
    BY <2>1, <2>2, KeyRevoked
  <2>5. /\ ServeFrame(c) /\ at'[c] = "committed" /\ log' = log /\ made'[c] = request[c].key
    BY <2>1, <2>3, <2>4, CommitsEffect DEF Steps
  <2>6. Revokes(c)
    BY <2>1, <2>2, <2>4, <2>5 DEF Revokes
  <2> QED
    BY <2>1, <2>5, <2>6, UsersKept DEF Writes, ServeEffect
<1>5. CASE InsertRole(c)
  <2>1. Asks(c, "create role") /\ ~Asks(c, "revoke key")
    BY <1>5 DEF InsertRole, Asks
  <2>2. CASE Checks(c, "checked", "error")
    <3>1. ServeFrame(c) /\ Passes(c) /\ users' = users
      BY <2>1, <2>2, PlainCheck
    <3> QED
      BY <3>1, UsersKept DEF ServeEffect
  <2>3. CASE Commits(c, "checked", 1) /\ users' = users /\ keys' = keys
    <3>1. Grows
      BY <2>3, Unwritten
    <3>2. /\ ServeFrame(c) /\ at[c] = "checked" /\ at'[c] = "committed" /\ log' = log /\ made'[c] = 1
      BY <2>3, <3>1, CommitsEffect DEF Steps
    <3>3. WritesNothingHere(c)
      BY <2>1, <2>3, <3>2 DEF WritesNothingHere
    <3> QED
      BY <2>3, <3>2, <3>3, UsersKept DEF Writes, ServeEffect
  <2> QED
    BY <1>5, <2>2, <2>3 DEF InsertRole
<1> QED
  BY <1>1, <1>2, <1>3, <1>4, <1>5

LEMMA Endings ==
    ASSUME TypeOK, NEW c \in Calls, Audit(c) \/ Fail(c)
    PROVE  ServeEffect(c) /\ users' = users
<1>1. CASE Audit(c)
  <2>1. UNCHANGED <<users, keys, roles, request, caller, made, before>>
    BY <1>1 DEF Audit
  <2>2. \/ Goes(c, "committed", "ok") /\ log' = log \cup {<<c, TRUE>>}
        \/ Goes(c, "mismatched", "refused") /\ log' = log \cup {<<c, FALSE>>}
    BY <1>1 DEF Audit
  <2>3. /\ at[c] \in {"committed", "mismatched"} /\ Reports(c)
        /\ at' \in [Calls -> {"new"} \cup Steps \cup Answers]
        /\ \A d \in Calls \ {c} : at'[d] = at[d]
    BY <2>1, <2>2, GoesEffect DEF Steps, Answers, Reports
  <2>4. Grows
    BY <2>1, Unwritten
  <2> QED
    BY <2>1, <2>3, <2>4 DEF ServeEffect, ServeFrame, TypeOK, Steps
<1>2. CASE Fail(c)
  <2>1. /\ at[c] \in Steps /\ at' = [at EXCEPT ![c] = "error"]
        /\ UNCHANGED <<users, keys, roles, log, request, caller, made, before>>
    BY <1>2 DEF Fail, tables
  <2>2. /\ at' \in [Calls -> {"new"} \cup Steps \cup Answers] /\ at'[c] = "error"
        /\ \A d \in Calls \ {c} : at'[d] = at[d]
    BY <2>1 DEF TypeOK, Answers
  <2>3. Grows
    BY <2>1, Unwritten
  <2>4. ServeFrame(c)
    BY <2>1, <2>2, <2>3 DEF ServeFrame, TypeOK
  <2> QED
    BY <2>1, <2>2, <2>4 DEF ServeEffect, Passes, Answers
<1> QED
  BY <1>1, <1>2

LEMMA ServeHasEffect ==
    ASSUME TypeOK, NEW c \in Calls, Identified(c),
           Asks(c, "revoke key") /\ at[c] = "checked" => request[c].key \in DOMAIN keys,
           Serve(c)
    PROVE  ServeEffect(c) /\ UsersStep
<1>1. CASE CheckToken(c) \/ ScanKeys(c) \/ MarkUsed(c)
  BY <1>1, Admissions, UsersKept DEF ServeEffect
<1>2. CASE Forbid(c) \/ FindUser(c) \/ VerifyOld(c) \/ FindOwnKey(c) \/ FindRole(c) \/ Lists(c)
  BY <1>2, Inspections, UsersKept DEF ServeEffect
<1>3. CASE InsertUser(c)
  BY <1>3, Insertions
<1>4. CASE CheckPassword(c) \/ SetPassword(c) \/ CreateKey(c) \/ Revoke(c) \/ InsertRole(c)
  BY <1>4, Commitments
<1>5. CASE Audit(c) \/ Fail(c)
  BY <1>5, Endings, UsersKept
<1> QED
  BY <1>1, <1>2, <1>3, <1>4, <1>5 DEF Serve

-----------------------------------------------------------------------------
(* The inductive invariant.                                                 *)

\* What a call has when it is sent: those that have been answered before it.
Sent(c) ==
    /\ at[c] = "new" => request[c] = Unsent /\ before[c] = {} /\ shell[c] = "none"
    /\ before[c] \subseteq {d \in Calls : at[d] = "ok"}

\* A row is written in the step to "committed", and stays what it is.
Progress(c) ==
    /\ made[c] # 0 => at[c] \in {"committed", "ok", "error"}
    /\ at[c] = "committed" => made[c] # 0
    /\ at[c] = "ok" /\ request[c].op \in Changing => made[c] # 0

\* A key that a call has found, or has made.
OwnsKey(c, n) == n \in DOMAIN keys /\ caller[c] # Nobody /\ keys[n].owner = Who(c)

Found(c) == Asks(c, "revoke key") /\ at[c] = "checked" => OwnsKey(c, request[c].key)

Written(c) ==
    made[c] # 0 =>
        /\ Asks(c, "register") \/ Asks(c, "login") => made[c] \in DOMAIN users
        /\ Asks(c, "change") => caller[c] # Nobody /\ made[c] = Who(c)
        /\ Asks(c, "create key") => OwnsKey(c, made[c])
        /\ Asks(c, "revoke key") => /\ OwnsKey(c, made[c]) /\ made[c] = request[c].key
                                    /\ ~keys[made[c]].active

Logged(c) ==
    /\ <<c, TRUE>> \in log => at[c] = "ok" /\ made[c] # 0
    /\ at[c] = "ok" /\ made[c] # 0 => <<c, TRUE>> \in log

\* A key that a call in before[c] has revoked stops c before its row is looked for.
Stopped(c) ==
    \A d \in before[c] :
        /\ Asks(d, "revoke key") /\ caller[c] = [by |-> "key", id |-> request[d].key]
        /\ Guarded(request[c])
        => at[c] # "scanned" /\ ~Admitted(c)

\* Where the password of user n comes from, as against a change that has been
\* committed: from a call that was not over when that change was sent.
Current(n) ==
    \A d \in Calls :
        Asks(d, "change") /\ made[d] = n /\ request[d].new # users[n].password =>
            \E e \in Calls \ before[d] : SetsTo(e, n, users[n].password)

LoginIsCurrent(c) ==
    Asks(c, "login") /\ made[c] # 0 =>
        \A d \in before[c] :
            Asks(d, "change") /\ made[d] = made[c] /\ request[d].new # request[c].old
            => \E e \in Calls \ before[d] : SetsTo(e, made[c], request[c].old)

\* A login on this machine, and what the file and the commands have from one.
LocalLogin(d, n) == at[d] = "ok" /\ shell[d] # "none" /\ Asks(d, "login") /\ made[d] = n

Saving(c) == shell[c] = "saving" => at[c] = "ok" /\ Asks(c, "login")

FileIsOurs == file \notin {NoFile, Torn} => \E d \in Calls : LocalLogin(d, file)

CommandIsOurs(c) ==
    shell[c] # "none" /\ Guarded(request[c]) /\ caller[c] # Nobody =>
        /\ caller[c].by = "token"
        /\ \E d \in before[c] : LocalLogin(d, caller[c].id)

CallInv(c) ==
    /\ Sent(c) /\ Identified(c) /\ Progress(c) /\ Found(c) /\ Written(c) /\ Logged(c)
    /\ Stopped(c) /\ LoginIsCurrent(c) /\ Saving(c) /\ CommandIsOurs(c)

\* The administrator and its first key.
Founded == 1 \in DOMAIN users /\ 1 \in DOMAIN keys

IInv ==
    /\ TypeOK /\ Founded /\ UsersDiffer /\ FileIsOurs
    /\ \A c \in Calls : CallInv(c)
    /\ \A n \in DOMAIN users : Current(n)

-----------------------------------------------------------------------------
(* The router keeps it.  What a call has written, and that it is answered   *)
(* "ok", is final.                                                          *)

LEMMA UsersStepsDiffer == UsersDiffer /\ UsersStep => UsersDiffer'
<1>1. ASSUME UsersDiffer, DOMAIN users' = DOMAIN users,
             \A n \in DOMAIN users : users'[n].name = users[n].name /\ users'[n].email = users[n].email
      PROVE  UsersDiffer'
  BY <1>1 DEF UsersDiffer
<1>2. ASSUME UsersDiffer, NEW m, DOMAIN users' = DOMAIN users \cup {m},
             \A n \in DOMAIN users : /\ users'[n] = users[n]
                                     /\ users[n].name # users'[m].name
                                     /\ users[n].email # users'[m].email
      PROVE  UsersDiffer'
  BY <1>2 DEF UsersDiffer
<1> QED
  BY <1>1, <1>2 DEF UsersStep

LEMMA WriteIsNew ==
    ASSUME IInv, NEW c \in Calls, ServeFrame(c), Writes(c)
    PROVE  /\ made[c] = 0 /\ made'[c] # 0 /\ at'[c] = "committed" /\ log' = log
           /\ request[c].op \in Changing /\ at[c] \in {"sent", "admitted", "checked"}
           /\ at[c] = "sent" => ~Guarded(request[c])
<1>1. /\ at[c] \in {"sent", "admitted", "checked"} /\ request[c].op \in Changing
      /\ at[c] = "sent" => Asks(c, "login")
      /\ at'[c] = "committed" /\ log' = log
  BY DEF Writes, WritesUser, WritesPassword, WritesKey, Revokes, WritesNothingHere, Asks, Changing
<1>2. made[c] = 0
  BY <1>1 DEF IInv, CallInv, Progress
<1>3. at[c] = "sent" => ~Guarded(request[c])
  BY <1>1 DEF Asks, Guarded
<1>4. /\ \A n \in DOMAIN users : n # 0
      /\ \A n \in DOMAIN keys : n # 0
  BY Elements DEF IInv, TypeOK
<1>5. made'[c] # 0
  <2>1. CASE WritesUser(c)
    BY <2>1 DEF WritesUser
  <2>2. CASE WritesPassword(c)
    <3>1. caller[c] # Nobody
      BY <2>2 DEF WritesPassword, IInv, CallInv, Identified, Asks, Guarded
    <3>2. Who(c) # 0
      BY <3>1, WhoIsUser DEF IInv
    <3> QED
      BY <2>2, <3>2 DEF WritesPassword
  <2>3. CASE Revokes(c)
    <3>1. request[c].key \in DOMAIN keys
      BY <2>3 DEF Revokes, IInv, CallInv, Found, OwnsKey
    <3> QED
      BY <1>4, <2>3, <3>1 DEF Revokes
  <2>4. CASE WritesNothingHere(c)
    <3>1. made'[c] \in DOMAIN users \/ made'[c] = 1
      BY <2>4 DEF WritesNothingHere
    <3>2. CASE made'[c] \in DOMAIN users
      BY ONLY <1>4, <3>2
    <3>3. CASE made'[c] = 1
      BY ONLY <3>3
    <3> QED
      BY <3>1, <3>2, <3>3
  <2>5. CASE WritesKey(c)
    <3>1. \A n \in DOMAIN keys' : n # 0
      BY Elements DEF ServeFrame, Grows
    <3> QED
      BY <2>5, <3>1 DEF WritesKey
  <2> QED
    BY <2>1, <2>2, <2>3, <2>4, <2>5 DEF Writes
<1> QED
  BY <1>1, <1>2, <1>3, <1>5

LEMMA ServeStable ==
    ASSUME IInv, NEW c \in Calls, ServeEffect(c)
    PROVE  /\ \A d \in Calls : made[d] # 0 => made'[d] = made[d]
           /\ \A d \in Calls : at[d] = "ok" => at'[d] = "ok" /\ made'[d] = made[d]
           /\ \A d \in Calls : at[d] = "new" => at'[d] = "new"
           /\ \A d \in Calls \ {c} : at'[d] = at[d] /\ made'[d] = made[d]
           /\ at[c] \in Steps /\ at'[c] # "new"
<1>1. /\ \A d \in Calls \ {c} : at'[d] = at[d] /\ made'[d] = made[d]
      /\ at[c] \in Steps
  BY DEF ServeEffect, ServeFrame
<1>2. made' = made \/ made[c] = 0
  BY WriteIsNew DEF ServeEffect, Passes, Reports
<1>3. at[c] # "ok" /\ at[c] # "new" /\ at'[c] # "new"
  BY <1>1, WriteIsNew DEF Steps, Answers, ServeEffect, Passes, Reports
<1>4. \A d \in Calls : made[d] # 0 => made'[d] = made[d]
  BY <1>1, <1>2
<1>5. \A d \in Calls : at[d] = "ok" => d # c
  BY <1>3
<1>6. \A d \in Calls : at[d] = "new" => d # c
  BY <1>3
<1> QED
  BY <1>1, <1>3, <1>4, <1>5, <1>6

LEMMA ServeSent ==
    ASSUME IInv, NEW c \in Calls, ServeEffect(c), UNCHANGED fileVars, NEW d \in Calls
    PROVE  Sent(d)'
<1>1. request' = request /\ before' = before /\ shell' = shell
  BY DEF ServeEffect, ServeFrame, fileVars
<1>2. /\ \A e \in Calls : at[e] = "ok" => at'[e] = "ok"
      /\ at'[d] = "new" => at[d] = "new"
  BY ServeStable
<1>3. Sent(d)
  BY DEF IInv, CallInv
<1> QED
  BY <1>1, <1>2, <1>3 DEF Sent

LEMMA ServeIdentified ==
    ASSUME IInv, NEW c \in Calls, ServeEffect(c), NEW d \in Calls
    PROVE  Identified(d)'
<1>1. request' = request /\ caller' = caller /\ Identified(d)
  BY DEF ServeEffect, ServeFrame, IInv, CallInv
<1>2. CASE d # c
  BY <1>1, <1>2, ServeStable DEF Identified
<1>3. ASSUME d = c, Guarded(request[c]), 
             at'[c] \in {"scanned", "admitted", "checked", "mismatched", "committed", "ok"}
      PROVE  caller[c] # Nobody
  <2>1. CASE at[c] = "sent"
    <3>1. ~Writes(c)
      BY <1>3, <2>1, WriteIsNew DEF ServeEffect
    <3>2. ~Reports(c)
      BY <2>1 DEF Reports
    <3>3. caller[c].by \in {"token", "key"}
      BY <1>3, <2>1, <3>1, <3>2 DEF ServeEffect, Passes
    <3> QED
      BY <3>3 DEF Nobody
  <2>2. CASE at[c] \in {"scanned", "admitted", "checked", "mismatched", "committed"}
    BY <1>1, <1>3, <2>2 DEF Identified
  <2> QED
    BY <2>1, <2>2, ServeStable DEF Steps
<1> QED
  BY <1>1, <1>2, <1>3 DEF Identified

LEMMA ServeProgress ==
    ASSUME IInv, NEW c \in Calls, ServeEffect(c), NEW d \in Calls
    PROVE  Progress(d)'
<1>1. request' = request /\ Progress(d)
  BY DEF ServeEffect, ServeFrame, IInv, CallInv
<1>2. CASE d # c
  BY <1>1, <1>2, ServeStable DEF Progress
<1>3. ASSUME d = c
      PROVE  /\ made'[c] # 0 => at'[c] \in {"committed", "ok", "error"}
             /\ at'[c] = "committed" => made'[c] # 0
             /\ at'[c] = "ok" /\ request[c].op \in Changing => made'[c] # 0
  <2>1. CASE Passes(c)
    <3>1. /\ made'[c] = made[c] /\ at'[c] # "committed" /\ (at[c] = "committed" => at'[c] = "error")
          /\ at'[c] = "ok" => request[c].op \notin Changing
      BY <2>1 DEF Passes
    <3>2. made[c] # 0 => at[c] = "committed"
      BY <1>1, <1>3, ServeStable DEF Progress, Steps
    <3> QED
      BY <3>1, <3>2
  <2>2. CASE Writes(c)
    <3>1. made'[c] # 0 /\ at'[c] = "committed"
      BY <2>2, WriteIsNew DEF ServeEffect
    <3> QED
      BY <3>1
  <2>3. CASE Reports(c)
    BY <1>1, <1>3, <2>3 DEF Reports, Progress, Changing
  <2> QED
    BY <2>1, <2>2, <2>3 DEF ServeEffect
<1> QED
  BY <1>1, <1>2, <1>3 DEF Progress

\* A key that a call owns stays its own.
LEMMA OwnsKeyStable ==
    ASSUME TypeOK, Grows, caller' = caller, NEW d \in Calls, NEW n, OwnsKey(d, n)
    PROVE  n \in DOMAIN keys' /\ keys'[n].owner = Who(d)' /\ Who(d)' = Who(d)
<1>1. /\ n \in DOMAIN keys /\ caller[d] # Nobody /\ keys[n].owner = Who(d)
      /\ caller[d].by = "key" => caller[d].id \in DOMAIN keys
  BY WhoIsUser DEF OwnsKey
<1>2. Who(d)' = Who(d)
  BY <1>1 DEF Grows, Who
<1> QED
  BY <1>1, <1>2 DEF Grows

LEMMA WhoIsStable ==
    ASSUME TypeOK, Grows, caller' = caller, NEW d \in Calls, caller[d] # Nobody
    PROVE  Who(d)' = Who(d)
<1>1. caller[d].by = "key" => caller[d].id \in DOMAIN keys
  BY WhoIsUser
<1> QED
  BY <1>1 DEF Grows, Who

LEMMA ServeFound ==
    ASSUME IInv, NEW c \in Calls, ServeEffect(c), NEW d \in Calls
    PROVE  Found(d)'
<1>1. TypeOK /\ request' = request /\ caller' = caller /\ Found(d) /\ Identified(d) /\ Grows
  BY DEF ServeEffect, ServeFrame, IInv, CallInv
<1>2. SUFFICES ASSUME Asks(d, "revoke key"), at'[d] = "checked"
               PROVE  OwnsKey(d, request[d].key)
  <2>1. CASE Asks(d, "revoke key") /\ at'[d] = "checked"
    <3>1. OwnsKey(d, request[d].key)
      BY <1>2, <2>1
    <3>2. /\ request[d].key \in DOMAIN keys' /\ keys'[request[d].key].owner = Who(d)'
      BY <1>1, <3>1, OwnsKeyStable
    <3>3. OwnsKey(d, request[d].key)'
      BY <1>1, <3>1, <3>2 DEF OwnsKey
    <3> QED
      BY <3>3 DEF Found
  <2> QED
    BY <1>1, <2>1 DEF Found, Asks
<1>3. CASE d # c
  BY <1>1, <1>2, <1>3, ServeStable DEF Found
<1>4. CASE d = c
  <2>1. Passes(c)
    BY <1>2, <1>4, WriteIsNew DEF ServeEffect, Reports
  <2>2. at[c] = "admitted" /\ request[c].key \in DOMAIN keys /\ keys[request[c].key].owner = Who(c)
    BY <1>2, <1>4, <2>1 DEF Passes
  <2>3. caller[c] # Nobody
    BY <1>1, <1>2, <1>4, <2>2 DEF Identified, Guarded, Asks
  <2> QED
    BY <1>4, <2>2, <2>3 DEF OwnsKey
<1> QED
  BY <1>3, <1>4

LEMMA ServeWritten ==
    ASSUME IInv, NEW c \in Calls, ServeEffect(c), NEW d \in Calls
    PROVE  Written(d)'
<1>1. /\ TypeOK /\ request' = request /\ caller' = caller /\ Written(d) /\ Identified(d) /\ Grows
      /\ DOMAIN users \subseteq DOMAIN users'
  BY DEF ServeEffect, ServeFrame, IInv, CallInv, Grows
<1>2. ASSUME made[d] # 0 PROVE Written(d)'
  <2>1. made'[d] = made[d]
    BY <1>2, ServeStable
  <2>2. Asks(d, "register") \/ Asks(d, "login") => made[d] \in DOMAIN users'
    BY <1>1, <1>2 DEF Written
  <2>3. ASSUME Asks(d, "change") PROVE caller[d] # Nobody /\ made[d] = Who(d)'
    <3>1. caller[d] # Nobody /\ made[d] = Who(d)
      BY <1>1, <1>2, <2>3 DEF Written
    <3> QED
      BY <1>1, <3>1, WhoIsStable
  <2>4. ASSUME Asks(d, "create key") \/ Asks(d, "revoke key")
        PROVE  caller[d] # Nobody /\ made[d] \in DOMAIN keys' /\ keys'[made[d]].owner = Who(d)'
    <3>1. OwnsKey(d, made[d])
      BY <1>1, <1>2, <2>4 DEF Written
    <3>2. caller[d] # Nobody
      BY <3>1 DEF OwnsKey
    <3> QED
      BY <1>1, <3>1, <3>2, OwnsKeyStable
  <2>5. Asks(d, "revoke key") => made[d] = request[d].key /\ ~keys'[made[d]].active
    BY <1>1, <1>2 DEF Written, OwnsKey, Grows
  <2> QED
    BY <1>1, <2>1, <2>2, <2>3, <2>4, <2>5 DEF Written, OwnsKey, Asks
<1>3. ASSUME made[d] = 0, made'[d] # 0 PROVE Written(d)'
  <2>1. d = c /\ Writes(c)
    BY <1>3, ServeStable DEF ServeEffect, Passes, Reports
  <2>2. CASE WritesUser(c)
    BY <1>1, <2>1, <2>2 DEF WritesUser, Written, Asks
  <2>3. CASE WritesPassword(c)
    <3>1. Asks(c, "change") /\ made'[c] = Who(c) /\ at[c] = "checked"
      BY <2>3 DEF WritesPassword
    <3>2. caller[c] # Nobody
      BY <1>1, <2>1, <3>1 DEF Identified, Guarded, Asks
    <3>3. made'[c] = Who(c)'
      BY <1>1, <3>1, <3>2, WhoIsStable
    <3> QED
      BY <1>1, <2>1, <3>1, <3>2, <3>3 DEF Written, Asks
  <2>4. CASE WritesKey(c)
    <3>1. Asks(c, "create key") /\ made'[c] \in DOMAIN keys' /\ keys'[made'[c]].owner = Who(c)
          /\ at[c] = "admitted"
      BY <2>4 DEF WritesKey
    <3>2. caller[c] # Nobody
      BY <1>1, <2>1, <3>1 DEF Identified, Guarded, Asks
    <3>3. keys'[made'[c]].owner = Who(c)'
      BY <1>1, <3>1, <3>2, WhoIsStable
    <3> QED
      BY <1>1, <2>1, <3>1, <3>2, <3>3 DEF Written, OwnsKey, Asks
  <2>5. CASE Revokes(c)
    <3>1. Asks(c, "revoke key") /\ made'[c] = request[c].key /\ at[c] = "checked"
      BY <2>5 DEF Revokes
    <3>2. OwnsKey(c, request[c].key)
      BY <3>1 DEF IInv, CallInv, Found
    <3>3. /\ request[c].key \in DOMAIN keys' /\ keys'[request[c].key].owner = Who(c)'
          /\ ~keys'[request[c].key].active /\ caller[c] # Nobody
      BY <1>1, <2>5, <3>2, OwnsKeyStable DEF Revokes, OwnsKey
    <3> QED
      BY <1>1, <2>1, <3>1, <3>3 DEF Written, OwnsKey, Asks
  <2>6. CASE WritesNothingHere(c)
    BY <1>1, <2>1, <2>6 DEF WritesNothingHere, Written, Asks
  <2> QED
    BY <2>1, <2>2, <2>3, <2>4, <2>5, <2>6 DEF Writes
<1>4. CASE made'[d] = 0
  BY <1>4 DEF Written
<1> QED
  BY <1>2, <1>3, <1>4

LEMMA ServeLogged ==
    ASSUME IInv, NEW c \in Calls, ServeEffect(c), NEW d \in Calls
    PROVE  Logged(d)'
<1>1. Logged(d) /\ Logged(c)
  BY DEF IInv, CallInv
<1>2. /\ made[d] # 0 => made'[d] = made[d]
      /\ at[d] = "ok" => at'[d] = "ok" /\ made'[d] = made[d]
      /\ d # c => at'[d] = at[d] /\ made'[d] = made[d]
      /\ at[c] # "ok"
  BY ServeStable DEF Steps
<1>3. CASE Passes(c)
  <2>1. log' = log /\ made' = made
    BY <1>3 DEF Passes
  <2>2. at'[c] = "ok" => made[c] = 0
    BY <1>3, ServeStable DEF IInv, CallInv, Progress, Passes, Steps
  <2> QED
    BY <1>1, <1>2, <2>1, <2>2 DEF Logged
<1>4. CASE Writes(c)
  <2>1. log' = log /\ at'[c] = "committed"
    BY <1>4, WriteIsNew DEF ServeEffect
  <2> QED
    BY <1>1, <1>2, <2>1 DEF Logged
<1>5. CASE Reports(c)
  <2>1. made' = made
    BY <1>5 DEF Reports
  <2>2. CASE at[c] = "committed" /\ at'[c] = "ok" /\ log' = log \cup {<<c, TRUE>>}
    <3>1. made[c] # 0
      BY <2>2 DEF IInv, CallInv, Progress
    <3>2. <<d, TRUE>> \in log' <=> d = c \/ <<d, TRUE>> \in log
      BY <2>2
    <3> QED
      BY <1>1, <1>2, <2>1, <2>2, <3>1, <3>2 DEF Logged
  <2>3. CASE at'[c] = "refused" /\ log' = log \cup {<<c, FALSE>>}
    <3>1. <<d, TRUE>> \in log' <=> <<d, TRUE>> \in log
      BY <2>3
    <3> QED
      BY <1>1, <1>2, <2>1, <2>3, <3>1 DEF Logged
  <2> QED
    BY <1>5, <2>2, <2>3 DEF Reports
<1> QED
  BY <1>3, <1>4, <1>5 DEF ServeEffect

LEMMA KeyCredential ==
    ASSUME NEW who, NEW k, who = [by |-> "key", id |-> k]
    PROVE  who.by = "key" /\ who.id = k
<1>1. [by |-> "key", id |-> k].by = "key" /\ [by |-> "key", id |-> k].id = k
  OBVIOUS
<1> QED
  BY <1>1

\* A revocation that has been answered.
LEMMA RevokedStays ==
    ASSUME IInv, NEW c \in Calls, NEW d \in before[c], Asks(d, "revoke key")
    PROVE  request[d].key \in DOMAIN keys /\ ~keys[request[d].key].active
<1>1. d \in Calls /\ at[d] = "ok"
  BY DEF IInv, CallInv, Sent, TypeOK
<1>2. made[d] # 0
  BY <1>1 DEF IInv, CallInv, Progress, Asks, Changing
<1> QED
  BY <1>1, <1>2 DEF IInv, CallInv, Written, OwnsKey

LEMMA ServeStopped ==
    ASSUME IInv, NEW c \in Calls, ServeEffect(c), NEW d \in Calls
    PROVE  Stopped(d)'
<1>1. request' = request /\ caller' = caller /\ before' = before /\ Stopped(d)
  BY DEF ServeEffect, ServeFrame, IInv, CallInv
<1>2. CASE d # c
  <2>1. at'[d] = at[d]
    BY <1>2, ServeStable
  <2> QED
    BY ONLY <1>1, <2>1 DEF Stopped, Admitted, Asks
<1>3. ASSUME d = c, NEW e \in before[c], Asks(e, "revoke key"),
             caller[c] = [by |-> "key", id |-> request[e].key], Guarded(request[c])
      PROVE  at'[c] \in {"unauthorized", "error"}
  <2>1. caller[c].by = "key" /\ ~keys[caller[c].id].active
    <3>1. request[e].key \in DOMAIN keys /\ ~keys[request[e].key].active
      BY <1>3, RevokedStays
    <3>2. caller[c].by = "key" /\ caller[c].id = request[e].key
      BY <1>3, KeyCredential
    <3> QED
      BY <3>1, <3>2
  <2>2. at[c] # "scanned" /\ ~Admitted(c)
    BY <1>1, <1>3 DEF Stopped
  <2>3. at[c] = "sent"
    BY <1>3, <2>2, ServeStable DEF Admitted, Steps
  <2>4. ~Writes(c) /\ ~Reports(c)
    BY <1>3, <2>3, WriteIsNew DEF ServeEffect, Reports
  <2> QED
    BY <1>3, <2>1, <2>3, <2>4 DEF ServeEffect, Passes
<1> QED
  BY <1>1, <1>2, <1>3 DEF Stopped, Admitted, Asks

\* The call that writes now was not over when any other was sent.
LEMMA WriterIsNotBefore ==
    ASSUME IInv, NEW c \in Calls, ServeFrame(c), NEW d \in Calls
    PROVE  c \notin before[d]
<1>1. at[c] # "ok"
  BY DEF ServeFrame, Steps
<1> QED
  BY <1>1 DEF IInv, CallInv, Sent

LEMMA ServeCurrent ==
    ASSUME IInv, NEW c \in Calls, ServeEffect(c), NEW n \in DOMAIN users'
    PROVE  Current(n)'
<1>1. /\ request' = request /\ before' = before /\ TypeOK /\ ServeFrame(c)
      /\ DOMAIN users \subseteq DOMAIN users'
  BY DEF ServeEffect, ServeFrame, IInv, Grows
<1>2. \A m \in DOMAIN users' : m # 0
  BY Elements DEF ServeEffect, ServeFrame, Grows
<1>3. ASSUME n \in DOMAIN users, users'[n].password = users[n].password,
             \A d \in Calls : Asks(d, "change") /\ made'[d] = n /\ request[d].new # users[n].password
                              => made[d] = n
      PROVE  Current(n)'
  <2>1. Current(n)
    BY <1>3 DEF IInv
  <2>2. ASSUME NEW d \in Calls, Asks(d, "change"), made'[d] = n, request[d].new # users'[n].password
        PROVE  \E e \in Calls \ before[d] :
                  /\ Asks(e, "change") \/ Asks(e, "register")
                  /\ made'[e] = n /\ request[e].new = users'[n].password
    <3>1. PICK e \in Calls \ before[d] : SetsTo(e, n, users[n].password)
      BY <1>3, <2>1, <2>2 DEF Current
    <3>2. made'[e] = made[e]
      BY <1>2, <3>1, ServeStable DEF SetsTo
    <3> QED
      BY <1>1, <1>3, <3>1, <3>2 DEF SetsTo
  <2> QED
    BY <1>1, <2>2 DEF Current, Asks, SetsTo
<1>4. ASSUME Asks(c, "change") \/ Asks(c, "register"), made'[c] = n, users'[n].password = request[c].new
      PROVE  Current(n)'
  <2>1. \A d \in Calls : c \notin before[d]
    BY <1>1, WriterIsNotBefore
  <2> QED
    BY <1>1, <1>4, <2>1 DEF Current, Asks, SetsTo
<1>5. CASE Passes(c) \/ Reports(c)
  <2>1. users' = users /\ made' = made
    BY <1>5 DEF Passes, Reports
  <2> QED
    BY <1>3, <2>1
<1>6. CASE Writes(c)
  <2>1. \A d \in Calls \ {c} : made'[d] = made[d]
    BY ServeStable
  <2>2. CASE WritesUser(c)
    <3>1. CASE n = made'[c]
      BY <1>4, <2>2, <3>1 DEF WritesUser
    <3>2. CASE n # made'[c]
      <4>1. n \in DOMAIN users /\ users'[n] = users[n]
        BY <2>2, <3>2 DEF WritesUser
      <4> QED
        BY <1>3, <2>1, <3>2, <4>1
    <3> QED
      BY <3>1, <3>2
  <2>3. CASE WritesPassword(c)
    <3>1. n \in DOMAIN users
      BY <2>3 DEF WritesPassword
    <3>2. CASE n = made'[c]
      BY <1>4, <2>3, <3>1, <3>2 DEF WritesPassword
    <3>3. CASE n # made'[c]
      BY <1>3, <2>1, <2>3, <3>1, <3>3 DEF WritesPassword
    <3> QED
      BY <3>2, <3>3
  <2>4. CASE WritesKey(c) \/ Revokes(c) \/ WritesNothingHere(c)
    <3>1. users' = users /\ ~Asks(c, "change")
      BY <2>4 DEF WritesKey, Revokes, WritesNothingHere, Asks
    <3> QED
      BY <1>3, <2>1, <3>1
  <2> QED
    BY <1>6, <2>2, <2>3, <2>4 DEF Writes
<1> QED
  BY <1>5, <1>6 DEF ServeEffect

LEMMA ServeLoginIsCurrent ==
    ASSUME IInv, NEW c \in Calls, ServeEffect(c), NEW d \in Calls
    PROVE  LoginIsCurrent(d)'
<1>1. request' = request /\ before' = before /\ TypeOK
  BY DEF ServeEffect, ServeFrame, IInv
<1>2. ASSUME NEW g \in before[d] PROVE g \in Calls /\ made'[g] = made[g]
  <2>1. g \in Calls /\ at[g] = "ok"
    BY DEF IInv, CallInv, Sent, TypeOK
  <2> QED
    BY <2>1, ServeStable
<1>3. SUFFICES ASSUME Asks(d, "login"), made'[d] # 0, NEW g \in before[d], Asks(g, "change"),
                      made[g] = made'[d], request[g].new # request[d].old
               PROVE  \E e \in Calls \ before[g] : SetsTo(e, made'[d], request[d].old)
  <2>1. ASSUME NEW g \in before[d], NEW e \in Calls \ before[g], made'[d] # 0,
               SetsTo(e, made'[d], request[d].old)
        PROVE  made'[e] = made[e]
    BY <2>1, ServeStable DEF SetsTo
  <2> QED
    BY <1>1, <1>2, <1>3, <2>1 DEF LoginIsCurrent, SetsTo, Asks
<1>4. CASE made[d] # 0
  <2>1. made'[d] = made[d]
    BY <1>4, ServeStable
  <2> QED
    BY <1>3, <1>4, <2>1 DEF IInv, CallInv, LoginIsCurrent
<1>5. CASE made[d] = 0
  <2>1. d = c /\ Writes(c)
    BY <1>3, <1>5, ServeStable DEF ServeEffect, Passes, Reports
  <2>2. made'[d] \in DOMAIN users /\ users[made'[d]].password = request[d].old
    BY <1>3, <2>1 DEF Writes, WritesUser, WritesPassword, WritesKey, Revokes, WritesNothingHere, Asks
  <2>3. Current(made'[d])
    BY <2>2 DEF IInv
  <2> QED
    BY <1>2, <1>3, <2>2, <2>3 DEF Current
<1> QED
  BY <1>4, <1>5

LEMMA ServeLocal ==
    ASSUME IInv, NEW c \in Calls, ServeEffect(c), UNCHANGED fileVars
    PROVE  /\ FileIsOurs' /\ \A d \in Calls : Saving(d)' /\ CommandIsOurs(d)'
<1>1. request' = request /\ caller' = caller /\ before' = before /\ file' = file /\ shell' = shell
  BY DEF ServeEffect, ServeFrame, fileVars
<1>2. ASSUME NEW d \in Calls, NEW n, LocalLogin(d, n)
      PROVE  at'[d] = "ok" /\ shell[d] # "none" /\ Asks(d, "login") /\ made'[d] = n
  BY <1>2, ServeStable DEF LocalLogin
<1>3. FileIsOurs'
  <2>1. FileIsOurs
    BY DEF IInv
  <2> QED
    BY <1>1, <1>2, <2>1 DEF FileIsOurs, LocalLogin, Asks
<1>4. ASSUME NEW d \in Calls PROVE Saving(d)'
  <2>1. Saving(d)
    BY DEF IInv, CallInv
  <2> QED
    BY <1>1, <2>1, ServeStable DEF Saving, Asks
<1>5. ASSUME NEW d \in Calls PROVE CommandIsOurs(d)'
  <2>1. CommandIsOurs(d) /\ before[d] \subseteq Calls
    BY DEF IInv, CallInv, TypeOK
  <2> QED
    BY <1>1, <1>2, <2>1 DEF CommandIsOurs, LocalLogin, Asks
<1> QED
  BY <1>3, <1>4, <1>5

LEMMA ServeTypes ==
    ASSUME TypeOK, NEW c \in Calls, ServeEffect(c), UNCHANGED fileVars
    PROVE  TypeOK'
<1>1. /\ request' = request /\ caller' = caller /\ before' = before
      /\ file' = file /\ shell' = shell /\ opened' = opened
      /\ ServeFrame(c) /\ Grows
  BY DEF ServeEffect, ServeFrame, fileVars
<1>2. /\ users' \in Seq(User) /\ keys' \in Seq(Key(DOMAIN users'))
      /\ DOMAIN users \subseteq DOMAIN users' /\ DOMAIN keys \subseteq DOMAIN keys'
  BY <1>1 DEF Grows
<1>3. at' \in [Calls -> {"new"} \cup Steps \cup Answers] /\ made' \in [Calls -> Nat]
  BY <1>1 DEF ServeFrame
<1>4. log' \subseteq Calls \X BOOLEAN
  <2>1. log \subseteq Calls \X BOOLEAN
    BY DEF TypeOK
  <2>2. log' = log \/ log' = log \cup {<<c, TRUE>>} \/ log' = log \cup {<<c, FALSE>>}
    BY DEF ServeEffect, Passes, Writes, Reports
  <2>3. <<c, TRUE>> \in Calls \X BOOLEAN /\ <<c, FALSE>> \in Calls \X BOOLEAN
    OBVIOUS
  <2> QED
    BY <2>1, <2>2, <2>3
<1>5. caller' \in [Calls -> (Credential \cup {Nobody})']
  <2>1. Credential \subseteq Credential'
    BY <1>2 DEF Credential
  <2> QED
    BY <1>1, <2>1 DEF TypeOK, Nobody
<1>6. file' \in DOMAIN users' \cup {NoFile, Torn}
  BY <1>1, <1>2 DEF TypeOK
<1> QED
  BY <1>1, <1>2, <1>3, <1>4, <1>5, <1>6 DEF TypeOK, User, Values, Unsent

LEMMA ServeKeepsInv ==
    ASSUME IInv, NEW c \in Calls, Serve(c), UNCHANGED fileVars
    PROVE  IInv'
<1>1. TypeOK /\ UsersDiffer /\ Identified(c) /\ Found(c)
  BY DEF IInv, CallInv
<1>2. ServeEffect(c) /\ UsersStep
  BY <1>1, ServeHasEffect DEF Found, OwnsKey
<1>3. TypeOK'
  BY <1>1, <1>2, ServeTypes
<1>4. UsersDiffer'
  BY <1>1, <1>2, UsersStepsDiffer
<1>5. FileIsOurs' /\ \A d \in Calls : Saving(d)' /\ CommandIsOurs(d)'
  BY <1>2, ServeLocal
<1>6. \A n \in DOMAIN users' : Current(n)'
  BY <1>2, ServeCurrent
<1>7. ASSUME NEW d \in Calls PROVE CallInv(d)'
  <2>1. Sent(d)'
    BY <1>2, ServeSent
  <2>2. Identified(d)'
    BY <1>2, ServeIdentified
  <2>3. Progress(d)'
    BY <1>2, ServeProgress
  <2>4. Found(d)'
    BY <1>2, ServeFound
  <2>5. Written(d)'
    BY <1>2, ServeWritten
  <2>6. Logged(d)'
    BY <1>2, ServeLogged
  <2>7. Stopped(d)'
    BY <1>2, ServeStopped
  <2>8. LoginIsCurrent(d)'
    BY <1>2, ServeLoginIsCurrent
  <2> QED
    BY <1>5, <2>1, <2>2, <2>3, <2>4, <2>5, <2>6, <2>7, <2>8 DEF CallInv
<1>8. Founded'
  BY <1>2 DEF IInv, Founded, ServeEffect, ServeFrame, Grows
<1> QED
  BY <1>3, <1>4, <1>5, <1>6, <1>7, <1>8 DEF IInv

-----------------------------------------------------------------------------
(* A call is sent.                                                          *)

SendFrame(c) ==
    /\ at[c] = "new" /\ at'[c] = "sent" /\ UNCHANGED <<users, keys, log, made, file, opened>>
    /\ at' \in [Calls -> {"new"} \cup Steps \cup Answers]
    /\ request' \in [Calls -> Requests \cup {Unsent}]
    /\ caller' \in [Calls -> Credential \cup {Nobody}]
    /\ before' \in [Calls -> SUBSET Calls]
    /\ shell' \in [Calls -> {"none", "waiting", "saving", "over"}]
    /\ before'[c] = {d \in Calls : at[d] = "ok"}
    /\ \A d \in Calls \ {c} :
          /\ at'[d] = at[d] /\ request'[d] = request[d] /\ caller'[d] = caller[d]
          /\ before'[d] = before[d] /\ shell'[d] = shell[d]
    /\ shell[c] = "none" /\ shell'[c] \in {"none", "waiting"}
    /\ shell'[c] # "none" /\ caller'[c] # Nobody =>
          caller'[c] = [by |-> "token", id |-> file] /\ file \notin {NoFile, Torn}

LEMMA SendEffect ==
    ASSUME TypeOK, NEW c \in Calls, NEW q \in Requests, NEW who \in Credential \cup {Nobody}, Send(c, q, who)
    PROVE  /\ at[c] = "new" /\ at'[c] = "sent" /\ UNCHANGED <<users, keys, roles, log, made>>
           /\ at' \in [Calls -> {"new"} \cup Steps \cup Answers]
           /\ request' \in [Calls -> Requests \cup {Unsent}]
           /\ caller' \in [Calls -> Credential \cup {Nobody}]
           /\ before' \in [Calls -> SUBSET Calls]
           /\ before'[c] = {d \in Calls : at[d] = "ok"} /\ caller'[c] = who /\ request'[c] = q
           /\ \A d \in Calls \ {c} : /\ at'[d] = at[d] /\ request'[d] = request[d]
                                     /\ caller'[d] = caller[d] /\ before'[d] = before[d]
<1>1. /\ at[c] = "new" /\ at' = [at EXCEPT ![c] = "sent"]
      /\ request' = [request EXCEPT ![c] = q]
      /\ caller' = [caller EXCEPT ![c] = who]
      /\ before' = [before EXCEPT ![c] = {d \in Calls : at[d] = "ok"}]
      /\ UNCHANGED <<users, keys, roles, log, made>>
  BY DEF Send, Goes, tables
<1>2. /\ at \in [Calls -> {"new"} \cup Steps \cup Answers]
      /\ request \in [Calls -> Requests \cup {Unsent}]
      /\ caller \in [Calls -> Credential \cup {Nobody}]
      /\ before \in [Calls -> SUBSET Calls]
  BY DEF TypeOK
<1>3. "sent" \in Steps /\ {d \in Calls : at[d] = "ok"} \subseteq Calls
  BY DEF Steps
<1> QED
  BY <1>1, <1>2, <1>3

\* A client has what has been handed out: the tokens of users and the keys.
LEMMA HandedOutIsCredential ==
    ASSUME IInv
    PROVE  HandedOut \subseteq Credential
<1>1. ASSUME NEW d \in Calls, at[d] = "ok", Asks(d, "login") PROVE made[d] \in DOMAIN users
  <2>1. made[d] # 0
    BY <1>1 DEF IInv, CallInv, Progress, Asks, Changing
  <2> QED
    BY <1>1, <2>1 DEF IInv, CallInv, Written
<1>2. ASSUME NEW d \in Calls, at[d] = "ok", Asks(d, "create key") PROVE made[d] \in DOMAIN keys
  <2>1. made[d] # 0
    BY <1>2 DEF IInv, CallInv, Progress, Asks, Changing
  <2> QED
    BY <1>2, <2>1 DEF IInv, CallInv, Written, OwnsKey
<1>3. \A n \in DOMAIN users : [by |-> "token", id |-> n] \in Credential
  BY DEF Credential
<1>4. \A n \in DOMAIN keys : [by |-> "key", id |-> n] \in Credential
  BY DEF Credential
<1>5. Handed("token", "login") \subseteq Credential
  BY <1>1, <1>3 DEF Handed
<1>6. Handed("key", "create key") \subseteq Credential
  BY <1>2, <1>4 DEF Handed
<1> QED
  BY <1>3, <1>4, <1>5, <1>6 DEF HandedOut, IInv, Founded

LEMMA Sends ==
    ASSUME IInv, NEW c \in Calls, ClientSends(c) \/ CommandLogsIn(c) \/ CommandActs(c)
    PROVE  SendFrame(c)
<1>1. /\ TypeOK /\ shell \in [Calls -> {"none", "waiting", "saving", "over"}]
      /\ at[c] = "new" => shell[c] = "none"
  BY DEF IInv, TypeOK, CallInv, Sent
<1>2. CASE ClientSends(c)
  <2>1. PICK q \in Requests : \E who \in (IF Guarded(q) THEN HandedOut ELSE {Nobody}) : Send(c, q, who)
    BY <1>2 DEF ClientSends
  <2>2. PICK who \in Credential \cup {Nobody} : Send(c, q, who)
    BY <2>1, HandedOutIsCredential
  <2>3. file' = file /\ shell' = shell /\ opened' = opened
    BY <1>2 DEF ClientSends, fileVars
  <2> QED
    BY <1>1, <2>2, <2>3, SendEffect DEF SendFrame
<1>3. ASSUME NEW q \in Requests, NEW who \in Credential \cup {Nobody}, CommandSends(c, q, who),
             who # Nobody => who = [by |-> "token", id |-> file] /\ file \notin {NoFile, Torn}
      PROVE  SendFrame(c)
  <2>1. /\ Send(c, q, who) /\ file' = file /\ opened' = opened
        /\ shell' = [shell EXCEPT ![c] = "waiting"]
    BY <1>3 DEF CommandSends
  <2>2. /\ shell' \in [Calls -> {"none", "waiting", "saving", "over"}] /\ shell'[c] = "waiting"
        /\ \A d \in Calls \ {c} : shell'[d] = shell[d]
    BY <1>1, <2>1
  <2> QED
    BY <1>1, <1>3, <2>1, <2>2, SendEffect DEF SendFrame
<1>4. CASE CommandLogsIn(c)
  BY <1>3, <1>4 DEF CommandLogsIn
<1>5. CASE CommandActs(c)
  <2>1. PICK q \in Requests : CommandSends(c, q, Headers)
    BY <1>5 DEF CommandActs
  <2>2. file # Torn
    BY <1>5 DEF CommandActs
  <2>3. CASE file = NoFile
    BY <1>3, <2>1, <2>3 DEF Headers
  <2>4. CASE file # NoFile
    <3>1. file \in DOMAIN users /\ Headers = [by |-> "token", id |-> file]
      BY <1>1, <2>2, <2>4 DEF Headers, TypeOK
    <3>2. Headers \in Credential
      BY <3>1 DEF Credential
    <3> QED
      BY <1>3, <2>1, <2>2, <2>4, <3>1, <3>2
  <2> QED
    BY <2>3, <2>4
<1> QED
  BY <1>2, <1>4, <1>5

\* The rows and the others' calls are what they were.
LEMMA SendKeeps ==
    ASSUME IInv, NEW c \in Calls, SendFrame(c)
    PROVE  /\ TypeOK' /\ UsersDiffer' /\ Founded'
           /\ made[c] = 0
           /\ \A e \in Calls : made[e] # 0 \/ at[e] = "ok" => e # c
           /\ \A d \in Calls : c \notin before[d]
<1>1. made[c] = 0 /\ at[c] = "new"
  BY DEF IInv, CallInv, Progress, SendFrame
<1>2. \A d \in Calls : c \notin before[d]
  BY <1>1 DEF IInv, CallInv, Sent
<1>3. TypeOK /\ users' = users /\ keys' = keys /\ shell[c] # "saving"
      /\ \A d \in Calls \ {c} : shell'[d] = shell[d]
  BY DEF IInv, SendFrame
<1>4. opened' \subseteq {d \in Calls : shell'[d] = "saving"}
  BY <1>3 DEF TypeOK, SendFrame
<1>5. caller' \in [Calls -> (Credential \cup {Nobody})']
  BY <1>3 DEF SendFrame, Credential, Nobody
<1>6. TypeOK'
  BY <1>3, <1>4, <1>5 DEF TypeOK, SendFrame, User, Values, Unsent
<1>7. UsersDiffer' /\ Founded'
  BY <1>3 DEF IInv, UsersDiffer, Founded
<1> QED
  BY <1>1, <1>2, <1>6, <1>7

LEMMA SendKeepsOthers ==
    ASSUME IInv, NEW c \in Calls, SendFrame(c), NEW d \in Calls, d # c
    PROVE  CallInv(d)'
<1>1. /\ at'[d] = at[d] /\ request'[d] = request[d] /\ caller'[d] = caller[d]
      /\ before'[d] = before[d] /\ shell'[d] = shell[d]
      /\ users' = users /\ keys' = keys /\ log' = log /\ made' = made
  BY DEF SendFrame
<1>2. /\ \A e \in Calls : made[e] # 0 \/ at[e] = "ok" => e # c
      /\ \A e \in Calls : c \notin before[e]
  BY SendKeeps
<1>3. \A e \in Calls \ {c} :
         /\ at'[e] = at[e] /\ request'[e] = request[e] /\ before'[e] = before[e] /\ shell'[e] = shell[e]
  BY DEF SendFrame
<1>4. before[d] \subseteq Calls /\ CallInv(d)
  BY DEF IInv, TypeOK
<1>5. Sent(d)'
  BY <1>1, <1>2, <1>3, <1>4 DEF CallInv, Sent
<1>6. Identified(d)' /\ Progress(d)' /\ Found(d)' /\ Logged(d)' /\ Saving(d)'
  BY <1>1, <1>4 DEF CallInv, Identified, Progress, Found, Logged, Saving, OwnsKey, Who, Asks, Nobody
<1>7. Written(d)'
  BY <1>1, <1>4 DEF CallInv, Written, OwnsKey, Who, Asks, Nobody
<1>8. Stopped(d)'
  <2>1. \A e \in before[d] : request'[e] = request[e]
    BY <1>2, <1>3, <1>4
  <2> QED
    BY ONLY <1>1, <1>4, <2>1 DEF CallInv, Stopped, Admitted, Asks
<1>9. LoginIsCurrent(d)'
  BY <1>1, <1>2, <1>3, <1>4 DEF CallInv, LoginIsCurrent, SetsTo, Asks
<1>10. CommandIsOurs(d)'
  BY <1>1, <1>2, <1>3, <1>4 DEF CallInv, CommandIsOurs, LocalLogin, Asks, Nobody
<1> QED
  BY <1>5, <1>6, <1>7, <1>8, <1>9, <1>10 DEF CallInv

LEMMA SendStartsWell ==
    ASSUME IInv, NEW c \in Calls, SendFrame(c)
    PROVE  CallInv(c)'
<1>1. /\ at[c] = "new" /\ at'[c] = "sent" /\ made' = made /\ log' = log /\ made[c] = 0
      /\ before'[c] = {d \in Calls : at[d] = "ok"}
      /\ shell'[c] \in {"none", "waiting"}
  BY SendKeeps DEF SendFrame
<1>2. \A e \in Calls \ {c} :
         /\ at'[e] = at[e] /\ request'[e] = request[e] /\ shell'[e] = shell[e]
  BY DEF SendFrame
<1>3. /\ Sent(c)' /\ Identified(c)' /\ Progress(c)' /\ Found(c)' /\ Written(c)' /\ LoginIsCurrent(c)'
      /\ Saving(c)'
  BY <1>1, <1>2 DEF Sent, Identified, Progress, Found, Written, LoginIsCurrent, Saving
<1>4. Logged(c)'
  BY <1>1 DEF IInv, CallInv, Logged
<1>5. Stopped(c)'
  BY <1>1 DEF Stopped, Admitted
<1>6. CommandIsOurs(c)'
  <2>1. ASSUME shell'[c] # "none", caller'[c] # Nobody
        PROVE  /\ caller'[c].by = "token"
               /\ \E d \in before'[c] : /\ at'[d] = "ok" /\ shell'[d] # "none"
                                        /\ request'[d].op = "login" /\ made'[d] = caller'[c].id
    <3>1. caller'[c] = [by |-> "token", id |-> file] /\ file \notin {NoFile, Torn}
      BY <2>1 DEF SendFrame
    <3>2. caller'[c].by = "token" /\ caller'[c].id = file
      BY <3>1
    <3>3. PICK d \in Calls : LocalLogin(d, file)
      BY <3>1 DEF IInv, FileIsOurs
    <3>4. d # c /\ d \in before'[c]
      BY <1>1, <3>3 DEF LocalLogin
    <3> QED
      BY <1>1, <1>2, <3>2, <3>3, <3>4 DEF LocalLogin, Asks
  <2> QED
    BY <2>1 DEF CommandIsOurs, LocalLogin, Asks, Nobody
<1> QED
  BY <1>3, <1>4, <1>5, <1>6 DEF CallInv

LEMMA SendKeepsInv ==
    ASSUME IInv, NEW c \in Calls, ClientSends(c) \/ CommandLogsIn(c) \/ CommandActs(c)
    PROVE  IInv'
<1>1. SendFrame(c)
  BY Sends
<1>2. /\ TypeOK' /\ UsersDiffer' /\ Founded' /\ made[c] = 0
      /\ \A e \in Calls : made[e] # 0 \/ at[e] = "ok" => e # c
  BY <1>1, SendKeeps
<1>3. \A d \in Calls : CallInv(d)'
  BY <1>1, SendKeepsOthers, SendStartsWell
<1>4. /\ users' = users /\ made' = made /\ file' = file
      /\ \A d \in Calls \ {c} : /\ at'[d] = at[d] /\ request'[d] = request[d]
                                /\ before'[d] = before[d] /\ shell'[d] = shell[d]
  BY <1>1 DEF SendFrame
<1>5. FileIsOurs'
  BY <1>2, <1>4 DEF IInv, FileIsOurs, LocalLogin, Asks
<1>6. ASSUME NEW n \in DOMAIN users PROVE Current(n)'
  <2>1. n # 0 /\ Current(n)
    BY Elements DEF IInv, TypeOK
  <2> QED
    BY <1>2, <1>4, <2>1 DEF Current, SetsTo, Asks
<1> QED
  BY <1>2, <1>3, <1>4, <1>5, <1>6 DEF IInv

-----------------------------------------------------------------------------
(* The file is written and removed.                                         *)

\* The router and its calls are untouched, and what was a command stays one.
LEMMA FileStepKeeps ==
    ASSUME IInv, UNCHANGED accountVars,
           shell' \in [Calls -> {"none", "waiting", "saving", "over"}],
           \A d \in Calls : /\ shell'[d] = "none" <=> shell[d] = "none"
                            /\ shell'[d] = "saving" => at[d] = "ok" /\ Asks(d, "login"),
           file' \in {file, NoFile, Torn} \/ \E d \in Calls : LocalLogin(d, file'),
           opened' \subseteq {d \in Calls : shell'[d] = "saving"}
    PROVE  IInv'
<1>1. /\ users' = users /\ keys' = keys /\ log' = log /\ at' = at /\ request' = request
      /\ caller' = caller /\ made' = made /\ before' = before
  BY DEF accountVars, tables
<1>2. TypeOK'
  <2>1. ASSUME NEW d \in Calls, LocalLogin(d, file') PROVE file' \in DOMAIN users
    <3>1. made[d] # 0
      BY <2>1 DEF IInv, CallInv, Progress, LocalLogin, Asks, Changing
    <3> QED
      BY <2>1, <3>1 DEF IInv, CallInv, Written, LocalLogin
  <2>2. file' \in DOMAIN users' \cup {NoFile, Torn}
    BY <1>1, <2>1 DEF IInv, TypeOK
  <2> QED
    BY <1>1, <2>2 DEF IInv, TypeOK, Credential, Nobody, User, Values, Unsent
<1>3. UsersDiffer' /\ Founded'
  BY <1>1 DEF IInv, UsersDiffer, Founded
<1>4. FileIsOurs'
  <2>1. ASSUME NEW d \in Calls, NEW n, LocalLogin(d, n)
        PROVE  at'[d] = "ok" /\ shell'[d] # "none" /\ request'[d].op = "login" /\ made'[d] = n
    BY <1>1, <2>1 DEF LocalLogin, Asks
  <2>2. file' \notin {NoFile, Torn} => \E d \in Calls : LocalLogin(d, file')
    BY DEF IInv, FileIsOurs
  <2> QED
    BY <2>1, <2>2 DEF FileIsOurs, LocalLogin, Asks
<1>5. ASSUME NEW d \in Calls PROVE CallInv(d)'
  <2>1. CallInv(d) /\ before[d] \subseteq Calls
    BY DEF IInv, TypeOK
  <2>2. \A e \in Calls : shell'[e] = "none" <=> shell[e] = "none"
    OBVIOUS
  <2>3. Saving(d)'
    BY <1>1 DEF Saving, Asks
  <2>4. Sent(d)'
    BY ONLY <1>1, <2>1, <2>2 DEF CallInv, Sent
  <2>5. Identified(d)' /\ Progress(d)' /\ Found(d)' /\ Logged(d)'
    BY ONLY <1>1, <2>1 DEF CallInv, Identified, Progress, Found, Logged, OwnsKey, Who, Asks, Nobody
  <2>6. Written(d)'
    BY ONLY <1>1, <2>1 DEF CallInv, Written, OwnsKey, Who, Asks, Nobody
  <2>7. Stopped(d)'
    BY ONLY <1>1, <2>1 DEF CallInv, Stopped, Admitted, Asks
  <2>8. LoginIsCurrent(d)'
    BY ONLY <1>1, <2>1 DEF CallInv, LoginIsCurrent, SetsTo, Asks
  <2>9. CommandIsOurs(d)'
    BY ONLY <1>1, <2>1, <2>2 DEF CallInv, CommandIsOurs, LocalLogin, Asks, Nobody
  <2> QED
    BY <2>3, <2>4, <2>5, <2>6, <2>7, <2>8, <2>9 DEF CallInv
<1>6. \A n \in DOMAIN users' : Current(n)'
  BY <1>1 DEF IInv, Current, SetsTo, Asks
<1> QED
  BY <1>2, <1>3, <1>4, <1>5, <1>6 DEF IInv

LEMMA FileKeepsInv ==
    ASSUME IInv, NEW c \in Calls, StartSaving(c) \/ Save(c) \/ Killed(c)
    PROVE  IInv'
<1>1. /\ shell \in [Calls -> {"none", "waiting", "saving", "over"}]
      /\ opened \subseteq {d \in Calls : shell[d] = "saving"}
      /\ \A d \in Calls : shell[d] = "saving" => at[d] = "ok" /\ Asks(d, "login")
  BY DEF IInv, TypeOK, CallInv, Saving
<1>2. CASE StartSaving(c)
  <2>1. /\ Asks(c, "login") /\ at[c] = "ok" /\ shell[c] = "waiting"
        /\ shell' = [shell EXCEPT ![c] = "saving"] /\ file' = Torn /\ opened' = opened \cup {c}
        /\ UNCHANGED accountVars
    BY <1>2 DEF StartSaving
  <2>2. /\ shell' \in [Calls -> {"none", "waiting", "saving", "over"}] /\ shell'[c] = "saving"
        /\ \A d \in Calls \ {c} : shell'[d] = shell[d]
    BY <1>1, <2>1
  <2>3. /\ \A d \in Calls : /\ shell'[d] = "none" <=> shell[d] = "none"
                            /\ shell'[d] = "saving" => at[d] = "ok" /\ Asks(d, "login")
        /\ opened' \subseteq {d \in Calls : shell'[d] = "saving"}
    BY <1>1, <2>1, <2>2
  <2> QED
    BY <2>1, <2>2, <2>3, FileStepKeeps
<1>3. ASSUME shell[c] = "saving", shell' = [shell EXCEPT ![c] = "over"], opened' = opened \ {c},
             UNCHANGED accountVars, file' \in {made[c], Torn, file}
      PROVE  IInv'
  <2>1. /\ shell' \in [Calls -> {"none", "waiting", "saving", "over"}] /\ shell'[c] = "over"
        /\ \A d \in Calls \ {c} : shell'[d] = shell[d]
    BY <1>1, <1>3
  <2>2. /\ \A d \in Calls : /\ shell'[d] = "none" <=> shell[d] = "none"
                            /\ shell'[d] = "saving" => at[d] = "ok" /\ Asks(d, "login")
        /\ opened' \subseteq {d \in Calls : shell'[d] = "saving"}
    BY <1>1, <1>3, <2>1
  <2>3. LocalLogin(c, made[c])
    BY <1>1, <1>3 DEF LocalLogin
  <2>4. file' \in {file, NoFile, Torn} \/ \E d \in Calls : LocalLogin(d, file')
    BY <1>3, <2>3
  <2> QED
    BY <1>3, <2>1, <2>2, <2>4, FileStepKeeps
<1>4. CASE Save(c)
  BY <1>3, <1>4 DEF Save
<1>5. CASE Killed(c)
  BY <1>3, <1>5 DEF Killed
<1> QED
  BY <1>2, <1>4, <1>5

LEMMA LogoutKeepsInv ==
    ASSUME IInv, Logout
    PROVE  IInv'
<1>1. /\ shell \in [Calls -> {"none", "waiting", "saving", "over"}]
      /\ \A d \in Calls : shell[d] = "saving" => at[d] = "ok" /\ Asks(d, "login")
  BY DEF IInv, TypeOK, CallInv, Saving
<1>2. UNCHANGED accountVars /\ shell' = shell /\ file' = NoFile /\ opened' = {}
  BY DEF Logout
<1> QED
  BY <1>1, <1>2, FileStepKeeps

-----------------------------------------------------------------------------
LEMMA InitInv == Init => IInv
<1> SUFFICES ASSUME Init PROVE IInv
  OBVIOUS
<1>1. /\ users = <<FirstUser>> /\ keys = <<NewKey(1, FALSE)>> /\ log = {}
      /\ at = [c \in Calls |-> "new"] /\ request = [c \in Calls |-> Unsent]
      /\ caller = [c \in Calls |-> Nobody] /\ made = [c \in Calls |-> 0]
      /\ before = [c \in Calls |-> {}]
      /\ file = NoFile /\ shell = [c \in Calls |-> "none"] /\ opened = {}
  BY DEF Init, AccountsInit
<1>2. FirstUser \in User
  <2>1. FirstUser = [name |-> FirstUser.name, email |-> FirstUser.email,
                     password |-> FirstUser.password, admin |-> FirstUser.admin]
    BY AccountsAssumption
  <2> QED
    BY <2>1 DEF User
<1>3. DOMAIN users = {1} /\ users \in Seq(User)
  BY <1>1, <1>2
<1>4. NewKey(1, FALSE) \in Key(DOMAIN users)
  BY <1>3, NewKeyIsKey
<1>5. DOMAIN keys = {1} /\ keys \in Seq(Key(DOMAIN users))
  <2>1. \A k : DOMAIN <<k>> = {1} /\ \A S : k \in S => <<k>> \in Seq(S)
    OBVIOUS
  <2> QED
    BY <1>1, <1>4, <2>1
<1>6. TypeOK
  BY <1>1, <1>3, <1>5 DEF TypeOK
<1>7. UsersDiffer /\ Founded /\ FileIsOurs
  BY <1>1, <1>3, <1>5 DEF UsersDiffer, Founded, FileIsOurs
<1>8. ASSUME NEW c \in Calls PROVE CallInv(c)
  BY <1>1 DEF CallInv, Sent, Identified, Progress, Found, Written, Logged, Stopped, LoginIsCurrent,
              Saving, CommandIsOurs
<1>9. ASSUME NEW n \in DOMAIN users PROVE Current(n)
  BY <1>1, <1>3 DEF Current
<1> QED
  BY <1>6, <1>7, <1>8, <1>9 DEF IInv

LEMMA NextKeepsInv == IInv /\ [Next]_vars => IInv'
<1> SUFFICES ASSUME IInv, [Next]_vars PROVE IInv'
  OBVIOUS
<1>1. ASSUME NEW c \in Calls, ClientSends(c) \/ CommandLogsIn(c) \/ CommandActs(c) PROVE IInv'
  BY <1>1, SendKeepsInv
<1>2. ASSUME NEW c \in Calls, StartSaving(c) \/ Save(c) \/ Killed(c) PROVE IInv'
  BY <1>2, FileKeepsInv
<1>3. ASSUME NEW c \in Calls, Serve(c), UNCHANGED fileVars PROVE IInv'
  BY <1>3, ServeKeepsInv
<1>4. CASE Logout
  BY <1>4, LogoutKeepsInv
<1>5. CASE UNCHANGED vars
  <2>1. UNCHANGED accountVars /\ file' = file /\ shell' = shell /\ opened' = opened
    BY <1>5 DEF vars, fileVars
  <2>2. /\ shell \in [Calls -> {"none", "waiting", "saving", "over"}]
        /\ opened \subseteq {d \in Calls : shell[d] = "saving"}
        /\ \A d \in Calls : shell[d] = "saving" => at[d] = "ok" /\ Asks(d, "login")
    BY DEF IInv, TypeOK, CallInv, Saving
  <2> QED
    BY <2>1, <2>2, FileStepKeeps
<1> QED
  BY <1>1, <1>2, <1>3, <1>4, <1>5 DEF Next

\* The inductive invariant holds in every reachable state of the router and of
\* the terminals that call it.
THEOREM Invariance == Spec => []IInv
  BY InitInv, NextKeepsInv, PTL DEF Spec

\* Every variable keeps its type: a token names a row of the users and a key one
\* of the keys, whatever the order in which registrations, keys and calls come.
THEOREM TypeCorrect == Spec => []TypeOK
<1>1. IInv => TypeOK
  BY DEF IInv
<1> QED
  BY <1>1, Invariance, PTL

\* However many registrations pass the look-up together, no two users share a
\* name or an address.
THEOREM UsersAreDifferent == Spec => []UsersDiffer
<1>1. IInv => UsersDiffer
  BY DEF IInv
<1> QED
  BY <1>1, Invariance, PTL

\* get_current_user admits nobody with a key whose revocation has been answered
\* before the request was sent.
THEOREM RevokedKeysAreRefused == Spec => []RevokedKeyIsRefused
<1>1. IInv => RevokedKeyIsRefused
  BY DEF IInv, CallInv, Stopped, RevokedKeyIsRefused, Admitted
<1> QED
  BY <1>1, Invariance, PTL

\* A login with a password that a change has replaced succeeds only where a call
\* that was not over before that change was sent has set the password again.
THEOREM OldPasswordsAreRefused == Spec => []OldPasswordIsRefused
<1>1. ASSUME IInv, NEW c \in Calls, Asks(c, "login"), made[c] # 0, NEW d \in before[c],
             Asks(d, "change"), Who(d) = made[c], request[d].new # request[c].old
      PROVE  \E e \in Calls \ before[d] : SetsTo(e, made[c], request[c].old)
  <2>1. d \in Calls /\ at[d] = "ok"
    BY <1>1 DEF IInv, CallInv, Sent, TypeOK
  <2>2. made[d] # 0
    BY <1>1, <2>1 DEF IInv, CallInv, Progress, Asks, Changing
  <2>3. made[d] = Who(d)
    BY <1>1, <2>1, <2>2 DEF IInv, CallInv, Written
  <2> QED
    BY <1>1, <2>3 DEF IInv, CallInv, LoginIsCurrent
<1>2. IInv => OldPasswordIsRefused
  BY <1>1 DEF OldPasswordIsRefused
<1> QED
  BY <1>2, Invariance, PTL

\* The audit log has a success for a call exactly if the call has committed and
\* been answered.
THEOREM AuditLogIsTrue == Spec => []AuditIsTrue
<1>1. IInv => AuditIsTrue
  BY DEF IInv, CallInv, Logged, AuditIsTrue, Committed
<1> QED
  BY <1>1, Invariance, PTL

\* A command of the CLI makes and revokes keys of one user, who has logged in on
\* this machine, through every order of logins, interrupted writes of the
\* credentials file and logouts.
THEOREM CommandsTouchOwnKeys == Spec => []CommandTouchesOwnKeys
<1>1. ASSUME IInv, NEW c \in Calls, shell[c] # "none", Asks(c, "create key") \/ Asks(c, "revoke key"),
             made[c] # 0
      PROVE  \E d \in before[c] : /\ shell[d] # "none" /\ Asks(d, "login")
                                  /\ keys[made[c]].owner = made[d]
  <2>1. OwnsKey(c, made[c])
    BY <1>1 DEF IInv, CallInv, Written
  <2>2. Guarded(request[c]) /\ caller[c] # Nobody /\ keys[made[c]].owner = Who(c)
    BY <1>1, <2>1 DEF Guarded, Asks, OwnsKey
  <2>3. /\ caller[c].by = "token"
        /\ \E d \in before[c] : LocalLogin(d, caller[c].id)
    BY <1>1, <2>2 DEF IInv, CallInv, CommandIsOurs
  <2>4. Who(c) = caller[c].id
    BY <2>3 DEF Who
  <2> QED
    BY <2>2, <2>3, <2>4 DEF LocalLogin
<1>2. IInv => CommandTouchesOwnKeys
  BY <1>1 DEF CommandTouchesOwnKeys, Committed
<1> QED
  BY <1>2, Invariance, PTL
=============================================================================

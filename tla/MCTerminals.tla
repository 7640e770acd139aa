---------------------------- MODULE MCTerminals -----------------------------
(* The administrator "a", and requests about a second user "b".             *)
EXTENDS Terminals, TLC

MCFirst == [name |-> "a", email |-> "a", password |-> "p", admin |-> TRUE]

Ask(op, name, email, old, new, key) ==
    [op |-> op, name |-> name, email |-> email, old |-> old, new |-> new, key |-> key,
     admin |-> FALSE]

MCRequests ==
    {Ask("register", "b", "b", "", "p", 0), Ask("register", "b", "a", "", "p", 0),
     Ask("login", "a", "", "p", "", 0), Ask("login", "b", "", "p", "", 0),
     Ask("login", "a", "", "q", "", 0),
     Ask("change", "", "", "p", "q", 0),
     Ask("create key", "", "", "", "", 0),
     Ask("revoke key", "", "", "", "", 1),
     Ask("create role", "r", "", "", "", 0),
     Ask("read all", "", "", "", "", 0)}

Symmetry == Permutations(Calls)
=============================================================================

-------------------------- MODULE MCBrowserSession --------------------------
(* Two logins and the guarded call that refreshUser makes.                  *)
EXTENDS BrowserSession

CONSTANTS login, again, me

MCKind == [c \in Calls |-> CASE c \in {login, again} -> "login" [] c = me -> "me"]
=============================================================================

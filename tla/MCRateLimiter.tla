--------------------------- MODULE MCRateLimiter ---------------------------
(* Four interchangeable requests of one client to one path, one request to  *)
(* another path and one to an exempt path.                                  *)
EXTENDS RateLimiter, TLC

CONSTANTS r1, r2, r3, r4, q1, x1

Busy     == {r1, r2, r3, r4}
MCKeyOf  == [r \in Requests |-> IF r \in Busy THEN "agents"
                                ELSE IF r = q1 THEN "logs" ELSE "health"]
Symmetry == Permutations(Busy)
=============================================================================

----------------------------- MODULE MCPlanner -----------------------------
(* Answers of up to three items, which write an index as a text or, which   *)
(* is invalid, as a number; lists in code of up to three items, which name  *)
(* each other, themselves or ids that the list does not have.               *)
EXTENDS Planner

Written == {Text(0), Text(1), Text(2), Number(0)}
=============================================================================

---------------------------- MODULE MCAgentLoop ----------------------------
(* A run with a workspace and a stream without one, two iterations each.    *)
EXTENDS AgentLoop

CONSTANTS run, plain, dir

MCMaxIterations == [r \in Runs |-> 2]
MCWorkspace     == [r \in Runs |-> IF r = run THEN dir ELSE NoDir]
=============================================================================

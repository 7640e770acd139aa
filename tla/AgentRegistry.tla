---------------------------- MODULE AgentRegistry ----------------------------
(***************************************************************************)
(* forge/orchestrator/registry.py: the process-wide registry of agents,    *)
(* shared by every orchestration of the API process (get_registry).  The   *)
(* operations are those the program calls: nothing in it deregisters an    *)
(* agent, sends a heartbeat of its own, prunes or clears the registry.     *)
(* Time is the age of an agent's last heartbeat.  health_check alone looks *)
(* at it, so ages from HeartbeatTimeout on cannot be told apart and the    *)
(* clock stops there.                                                      *)
(***************************************************************************)
EXTENDS Naturals, Sequences

CONSTANTS
    Agents,            \* agent names
    CapsOf,            \* CapsOf[a]: the capabilities register is given, in order
    HeartbeatTimeout,  \* _timeout_seconds, in ticks
    Absent             \* the descriptor of a name that is not registered

ASSUME TimeoutAssumption == HeartbeatTimeout \in Nat \ {0}

VARIABLES
    names,  \* keys of the dictionary _agents, in insertion order
    desc    \* desc[a]: the AgentDescriptor stored under a, or Absent

regVars == <<names, desc>>

AgentStatus == {"idle", "busy", "error", "offline"}
Ages        == 0 .. HeartbeatTimeout
Descriptor  == [status : AgentStatus, age : Ages]

Registered(a) == desc[a] # Absent

RegInit ==
    /\ names = << >>
    /\ desc = [a \in Agents |-> Absent]

-----------------------------------------------------------------------------
(* The operations.  get raises AgentNotFoundError for an unknown name, so   *)
(* update_status changes nothing then.                                      *)

\* register: a new descriptor, idle and just heard of, whatever was stored
\* before; a name already present keeps its place in the dictionary.
RegisterAll(S, fresh) ==
    /\ desc' = [a \in Agents |-> IF a \in S THEN [status |-> "idle", age |-> 0]
                                            ELSE desc[a]]
    /\ names' = names \o fresh

\* update_status: only going idle counts as a heartbeat.
WithStatus(a, st) ==
    [desc EXCEPT ![a] = [status |-> st, age |-> IF st = "idle" THEN 0 ELSE @.age]]

UpdateStatus(a, st) ==
    /\ Registered(a)
    /\ desc' = WithStatus(a, st)
    /\ UNCHANGED names

Healthy(a) == Registered(a) /\ desc[a].age < HeartbeatTimeout

\* Time passes for every agent at once.
Older == [a \in Agents |->
            IF Registered(a) /\ desc[a].age < HeartbeatTimeout
            THEN [desc[a] EXCEPT !.age = @ + 1] ELSE desc[a]]

Tick ==
    /\ desc' = Older
    /\ UNCHANGED names

\* find_by_capability and find_by_role with their default status filter:
\* the idle agents that match, in dictionary order.
Idle(a) == Registered(a) /\ desc[a].status = "idle"

FindByCapability(c) ==
    SelectSeq(names, LAMBDA a : Idle(a) /\ \E i \in DOMAIN CapsOf[a] : CapsOf[a][i] = c)

FindByRole(matching) ==
    SelectSeq(names, LAMBDA a : Idle(a) /\ a \in matching)
=============================================================================

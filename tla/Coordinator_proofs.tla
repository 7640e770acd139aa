------------------------- MODULE Coordinator_proofs -------------------------
(***************************************************************************)
(* The guarantees of Coordinator for any orchestrations, plans, teams and  *)
(* configurations: the invariant Inv, one lemma for each action that it is *)
(* kept, and what follows from it: the refinement of OrchestrationContract,*)
(* the order and the end of a sequence, and the total that is reported.    *)
(* Then Planner: the sort of any plan lists each sub-task once, after what *)
(* it depends on, and a plan of the LLM as the LLM has listed it.          *)
(***************************************************************************)
EXTENDS Coordinator, Planner, FiniteSetTheorems, TLAPS

-----------------------------------------------------------------------------
(* The inductive invariant: what each sub-task and each orchestration keep. *)

StateOK ==
    /\ phase \in [Orchs -> {"new", "planning", "working", "synthesis", "done"}]
    /\ status \in [Orchs -> {"running", "completed", "failed"}]
    /\ cursor \in [Orchs -> Nat \ {0}]
    /\ permits \in [Orchs -> Nat]
    /\ total \in [Orchs -> Nat]
    /\ work \in [SubTasks -> Attempt]
    /\ result \in [SubTasks -> Outcome \cup {NoResult}]

Active(s) == work[s].at \notin {"pending", "ended"}

\* A result exists once an attempt is over; before a retry it is a failure,
\* before a rework a success.
SubTaskInv(s) ==
    /\ work[s].at = "ended" => result[s] \in Outcome
    /\ work[s].at \in {"pending", "running", "closing"} /\ work[s].tries = 0 =>
          result[s] = NoResult
    /\ work[s].tries > 0 =>
          /\ Strategy(Owner[s]) # "parallel"
          /\ result[s] \in Outcome
          /\ result[s].ok = (Strategy(Owner[s]) = "supervisor")
    /\ work[s].at = "asleep" => Strategy(Owner[s]) = "sequential" /\ work[s].tries > 0
    /\ work[s].at = "review" =>
          Strategy(Owner[s]) = "supervisor" /\ result[s] \in Outcome /\ result[s].ok
    /\ Working(s) => work[s].agent \in Agents

EarlyInv(o) ==
    phase[o] \in {"new", "planning"} =>
        permits[o] = 0 /\ \A s \in Mine(o) : work[s].at = "pending"

\* A loop has finished all before its cursor, and only the sub-task at the
\* cursor can be in progress.
LoopInv(o) ==
    Strategy(o) # "parallel" =>
        /\ cursor[o] <= Len(Queue(o))
        /\ \A s \in Mine(o) : Active(s) =>
              phase[o] = "working" /\ Queue(o)[cursor[o]] = s
        /\ \A i \in 1 .. Len(Queue(o)) : i < cursor[o] => work[Queue(o)[i]].at = "ended"
        /\ phase[o] = "synthesis" => \A s \in Mine(o) : work[s].at = "ended"

VerdictInv(o) ==
    /\ phase[o] = "done" <=> status[o] # "running"
    /\ status[o] = "completed" =>
          \A s \in Mine(o) : work[s].at = "ended" /\ result[s].ok

BudgetInv(o) ==
    total[o] > Config[o].token_budget => phase[o] = "done" /\ status[o] = "failed"

\* A permit of the semaphore is free or held by a sub-task in flight.
PermitsInv(o) ==
    Strategy(o) = "parallel" =>
        /\ phase[o] # "synthesis"
        /\ permits[o] + Cardinality(InFlight(o)) <= Config[o].max_concurrency

OrchInv(o) == EarlyInv(o) /\ LoopInv(o) /\ VerdictInv(o) /\ BudgetInv(o) /\ PermitsInv(o)

CoreInv ==
    /\ StateOK
    /\ \A s \in SubTasks : SubTaskInv(s)
    /\ \A o \in Orchs : OrchInv(o)

\* A step of sub-task s leaves the other sub-tasks and orchestrations alone.
Frame(s) ==
    /\ \A t \in SubTasks : t # s => work'[t] = work[t] /\ result'[t] = result[t]
    /\ \A q \in Orchs : q # Owner[s] =>
          /\ phase'[q] = phase[q]
          /\ status'[q] = status[q]
          /\ cursor'[q] = cursor[q]
          /\ permits'[q] = permits[q]
          /\ total'[q] = total[q]

Kept(s) == StateOK' /\ Frame(s) /\ SubTaskInv(s)' /\ OrchInv(Owner[s])'

-----------------------------------------------------------------------------
(* The constants.                                                           *)

LEMMA StrategyType == \A o \in Orchs : Strategy(o) \in Strategies
  BY ConfigAssumption DEF Strategy, Strategies

LEMMA QueueType ==
    ASSUME NEW o \in Orchs
    PROVE  /\ Queue(o) \in Seq(SubTasks)
           /\ Len(Queue(o)) \in Nat \ {0}
           /\ \A i \in 1 .. Len(Queue(o)) : Queue(o)[i] \in Mine(o)
           /\ \A s \in Mine(o) : \E i \in 1 .. Len(Queue(o)) : Queue(o)[i] = s
<1>1. ASSUME NEW q, q = Plan[o] \/ q = Sorted[o]
      PROVE  /\ q \in Seq(SubTasks)
             /\ Len(q) \in Nat \ {0}
             /\ \A i \in 1 .. Len(q) : q[i] \in Mine(o)
             /\ \A s \in Mine(o) : \E i \in 1 .. Len(q) : q[i] = s
  <2>1. q \in Seq(SubTasks) /\ Len(q) > 0
    BY <1>1, PlanAssumption
  <2>2. {q[i] : i \in 1 .. Len(q)} = Mine(o)
    <3>1. /\ {Plan[o][i] : i \in 1 .. Len(Plan[o])} = Mine(o)
          /\ {Sorted[o][i] : i \in 1 .. Len(Sorted[o])} = Mine(o)
      BY PlanAssumption, Zenon DEF Mine
    <3>2. QED
      BY <1>1, <3>1
  <2>3. Len(q) \in Nat \ {0}
    BY <2>1
  <2>4. \A i \in 1 .. Len(q) : q[i] \in Mine(o)
    BY <2>2
  <2>5. \A s \in Mine(o) : \E i \in 1 .. Len(q) : q[i] = s
    BY <2>2
  <2>6. QED
    BY <2>1, <2>3, <2>4, <2>5
<1>2. Queue(o) = Plan[o] \/ Queue(o) = Sorted[o]
  BY DEF Queue
<1>3. QED
  BY <1>1, <1>2

LEMMA OwnerType == \A s \in SubTasks : Owner[s] \in Orchs /\ s \in Mine(Owner[s])
  BY PlanAssumption DEF Mine

LEMMA BudgetType ==
    ASSUME NEW o \in Orchs
    PROVE  /\ Config[o].token_budget \in Nat
           /\ Config[o].max_concurrency \in Nat \ {0}
           /\ Config[o].fallback_behavior \in Fallbacks
  BY ConfigAssumption

-----------------------------------------------------------------------------
(* What is kept for the owner is kept for all.                              *)

LEMMA FrameInv ==
    ASSUME CoreInv, NEW s \in SubTasks, Kept(s)
    PROVE  CoreInv'
<1>1. ASSUME NEW t \in SubTasks PROVE SubTaskInv(t)'
  <2>1. CASE t = s
    BY <2>1 DEF Kept
  <2>2. CASE t # s
    BY <2>2 DEF Kept, Frame, CoreInv, SubTaskInv, Working
  <2>3. QED
    BY <2>1, <2>2
<1>2. ASSUME NEW q \in Orchs PROVE OrchInv(q)'
  <2>1. CASE q = Owner[s]
    BY <2>1 DEF Kept
  <2>2. CASE q # Owner[s]
    <3>1. \A t \in Mine(q) : t \in SubTasks /\ t # s
      BY <2>2 DEF Mine
    <3>2. \A t \in Mine(q) : work'[t] = work[t] /\ result'[t] = result[t]
      BY <3>1 DEF Kept, Frame
    <3>3. /\ phase'[q] = phase[q] /\ status'[q] = status[q] /\ cursor'[q] = cursor[q]
          /\ permits'[q] = permits[q] /\ total'[q] = total[q]
      BY <2>2 DEF Kept, Frame
    <3>4. InFlight(q)' = InFlight(q)
      BY <3>2 DEF InFlight, Working
    <3>5. EarlyInv(q)' /\ VerdictInv(q)' /\ BudgetInv(q)' /\ PermitsInv(q)'
      BY <3>2, <3>3, <3>4 DEF CoreInv, OrchInv, EarlyInv, VerdictInv, BudgetInv, PermitsInv
    <3>6. LoopInv(q)'
      <4>1. \A i \in 1 .. Len(Queue(q)) : work'[Queue(q)[i]] = work[Queue(q)[i]]
        BY <3>2, QueueType
      <4>2. LoopInv(q)
        BY DEF CoreInv, OrchInv
      <4>3. \A t \in Mine(q) : Active(t)' = Active(t)
        BY <3>2 DEF Active
      <4>4. QED
        BY <3>2, <3>3, <4>1, <4>2, <4>3 DEF LoopInv
    <3>7. QED
      BY <3>5, <3>6 DEF OrchInv
  <2>3. QED
    BY <2>1, <2>2
<1>3. QED
  BY <1>1, <1>2 DEF CoreInv, Kept

-----------------------------------------------------------------------------
(* Counting the sub-tasks in flight.                                        *)

LEMMA InFlightCount ==
    ASSUME NEW s \in SubTasks, Frame(s)
    PROVE  LET o == Owner[s] IN
           /\ Cardinality(InFlight(o)) \in Nat
           /\ Working(s)' = Working(s) =>
                 Cardinality(InFlight(o))' = Cardinality(InFlight(o))
           /\ ~Working(s) /\ Working(s)' =>
                 Cardinality(InFlight(o))' = Cardinality(InFlight(o)) + 1
           /\ Working(s) /\ ~Working(s)' =>
                 Cardinality(InFlight(o))' = Cardinality(InFlight(o)) - 1
<1> DEFINE o == Owner[s]
<1>1. IsFiniteSet(InFlight(o)) /\ Cardinality(InFlight(o)) \in Nat
  <2>1. InFlight(o) \subseteq SubTasks
    BY DEF InFlight, Mine
  <2>2. QED
    BY <2>1, PlanAssumption, FS_Subset, FS_CardinalityType
<1>2. \A t \in SubTasks : t # s => Working(t)' = Working(t)
  BY DEF Frame, Working
<1>3. s \in Mine(o)
  BY OwnerType
<1>4. ASSUME Working(s)' = Working(s)
      PROVE  InFlight(o)' = InFlight(o)
  BY <1>2, <1>4 DEF InFlight, Mine
<1>5. ASSUME ~Working(s), Working(s)'
      PROVE  InFlight(o)' = InFlight(o) \cup {s} /\ s \notin InFlight(o)
  BY <1>2, <1>3, <1>5 DEF InFlight, Mine
<1>6. ASSUME Working(s), ~Working(s)'
      PROVE  InFlight(o)' = InFlight(o) \ {s} /\ s \in InFlight(o)
  BY <1>2, <1>3, <1>6 DEF InFlight, Mine
<1>7. ASSUME ~Working(s), Working(s)'
      PROVE  Cardinality(InFlight(o))' = Cardinality(InFlight(o)) + 1
  BY <1>1, <1>5, <1>7, FS_AddElement
<1>8. ASSUME Working(s), ~Working(s)'
      PROVE  Cardinality(InFlight(o))' = Cardinality(InFlight(o)) - 1
  BY <1>1, <1>6, <1>8, FS_RemoveElement
<1>9. QED
  BY <1>1, <1>4, <1>7, <1>8

-----------------------------------------------------------------------------
(* A sub-task that returns, and what each strategy makes of it.             *)

\* Where a sub-task is when an attempt of it has just returned.
Ready(s) ==
    /\ work[s].at \in {"pending", "running", "closing"}
    /\ phase[Owner[s]] \notin {"new", "planning"}
    /\ Strategy(Owner[s]) # "parallel" =>
          phase[Owner[s]] = "working" /\ Queue(Owner[s])[cursor[Owner[s]]] = s

LEMMA MoveType ==
    ASSUME StateOK, NEW s \in SubTasks, NEW place \in Places, NEW n \in 0 .. MaxRetries
    PROVE  /\ Move(s, place, n) \in [SubTasks -> Attempt]
           /\ Move(s, place, n)[s].at = place
           /\ Move(s, place, n)[s].tries = n
           /\ \A t \in SubTasks : t # s => Move(s, place, n)[t] = work[t]
<1>1. [NoAttempt EXCEPT !.at = place, !.tries = n] \in Attempt
  BY DEF NoAttempt, Attempt, MaxRetries
<1>2. QED
  BY <1>1 DEF StateOK, Move, NoAttempt

LEMMA RecordType ==
    ASSUME StateOK, NEW s \in SubTasks, NEW ok \in BOOLEAN, NEW n \in Nat
    PROVE  /\ Record(s, ok, n) \in [SubTasks -> Outcome \cup {NoResult}]
           /\ Record(s, ok, n)[s] \in Outcome
           /\ Record(s, ok, n)[s].ok = ok
           /\ \A t \in SubTasks : t # s => Record(s, ok, n)[t] = result[t]
<1>1. [ok |-> ok, tokens |-> n] \in Outcome
  BY DEF Outcome
<1>2. QED
  BY <1>1 DEF StateOK, Record

\* The loop of a one-at-a-time strategy goes on from sub-task s, or ends.
LEMMA AdvanceKept ==
    ASSUME CoreInv, NEW s \in SubTasks, Ready(s) \/ work[s].at \in {"asleep", "review"},
           Strategy(Owner[s]) # "parallel",
           NEW res \in [SubTasks -> Outcome \cup {NoResult}],
           res[s] \in Outcome,
           \A t \in SubTasks : t # s => res[t] = result[t],
           Advance(s, res),
           permits' = permits,
           total' \in [Orchs -> Nat],
           \A q \in Orchs : q # Owner[s] => total'[q] = total[q],
           total'[Owner[s]] <= Config[Owner[s]].token_budget
    PROVE  Kept(s)
<1> DEFINE o == Owner[s]
           c == cursor[o]
<1>1. o \in Orchs /\ s \in Mine(o)
  BY OwnerType
<1>2. StateOK /\ OrchInv(o) /\ \A t \in SubTasks : SubTaskInv(t)
  BY <1>1 DEF CoreInv
<1>3. phase[o] = "working" /\ Queue(o)[c] = s
  <2>1. CASE work[s].at \in {"asleep", "review"}
    BY <1>1, <1>2, <2>1 DEF OrchInv, LoopInv, Active
  <2>2. CASE Ready(s)
    BY <2>2 DEF Ready
  <2>3. QED
    BY <2>1, <2>2
<1>4. /\ work' = Move(s, "ended", 0) /\ result' = res
      /\ work' \in [SubTasks -> Attempt]
      /\ work'[s].at = "ended" /\ work'[s].tries = 0
      /\ \A t \in SubTasks : t # s => work'[t] = work[t] /\ result'[t] = result[t]
  BY <1>2, MoveType DEF Advance, Places, MaxRetries
<1>5. /\ c \in Nat \ {0} /\ c <= Len(Queue(o)) /\ Len(Queue(o)) \in Nat
      /\ \A i \in 1 .. Len(Queue(o)) : Queue(o)[i] \in Mine(o)
      /\ \A t \in Mine(o) : \E i \in 1 .. Len(Queue(o)) : Queue(o)[i] = t
  BY <1>1, <1>2, QueueType DEF StateOK, OrchInv, LoopInv
<1>6. Mine(o) \subseteq SubTasks
  BY DEF Mine
<1>7. \A t \in Mine(o) : ~Active(t)'
  BY <1>2, <1>3, <1>4, <1>6 DEF OrchInv, LoopInv, Active
<1>8. \A i \in 1 .. Len(Queue(o)) : i <= c => work'[Queue(o)[i]].at = "ended"
  <2>1. ASSUME NEW i \in 1 .. Len(Queue(o)), i <= c
        PROVE  work'[Queue(o)[i]].at = "ended"
    <3>1. CASE Queue(o)[i] = s
      BY <1>4, <3>1
    <3>2. CASE Queue(o)[i] # s
      <4>1. i # c
        BY <1>3, <3>2
      <4>2. i < c
        BY <1>5, <2>1, <4>1
      <4>3. work[Queue(o)[i]].at = "ended"
        BY <1>2, <4>2 DEF OrchInv, LoopInv
      <4>4. QED
        BY <1>4, <1>5, <1>6, <3>2, <4>3
    <3>3. QED
      BY <3>1, <3>2
  <2>2. QED
    BY <2>1
<1>9. SubTaskInv(s)'
  BY <1>4 DEF SubTaskInv, Working
<1>10. status[o] = "running"
  BY <1>2, <1>3 DEF OrchInv, VerdictInv
<1>11. ASSUME StateOK', Frame(s), EarlyInv(o)', LoopInv(o)', VerdictInv(o)', BudgetInv(o)'
       PROVE  Kept(s)
  BY <1>9, <1>11 DEF Kept, OrchInv, PermitsInv
<1>12. CASE /\ c < Len(Queue(o))
            /\ cursor' = [cursor EXCEPT ![o] = @ + 1]
            /\ UNCHANGED <<phase, status>>
  <2>1. cursor'[o] = c + 1 /\ StateOK' /\ Frame(s)
    BY <1>1, <1>2, <1>4, <1>5, <1>12, SMTT(30) DEF StateOK, Frame
  <2>2. LoopInv(o)'
    BY <1>3, <1>5, <1>7, <1>8, <1>12, <2>1 DEF LoopInv
  <2>3. EarlyInv(o)' /\ VerdictInv(o)' /\ BudgetInv(o)'
    <3>1. total'[o] \in Nat /\ Config[o].token_budget \in Nat
      BY <1>1, BudgetType
    <3>2. BudgetInv(o)'
      BY <3>1 DEF BudgetInv
    <3>3. QED
      BY <1>3, <1>10, <1>12, <3>2 DEF EarlyInv, VerdictInv
  <2>4. QED
    BY <1>11, <2>1, <2>2, <2>3
<1>13. CASE c = Len(Queue(o)) /\ UNCHANGED cursor
  <2>1. \A t \in Mine(o) : work'[t].at = "ended"
    BY <1>5, <1>8, <1>13
  <2>2. \A t \in Mine(o) : result'[t] \in Outcome
    BY <1>2, <1>4, <1>6, <2>1 DEF SubTaskInv
  <2>3. total'[o] \in Nat /\ Config[o].token_budget \in Nat
    BY <1>1, BudgetType
  <2>4. BudgetInv(o)'
    BY <2>3 DEF BudgetInv
  <2>5. ASSUME NEW p \in {"synthesis", "done"}, phase' = [phase EXCEPT ![o] = p]
        PROVE  LoopInv(o)' /\ EarlyInv(o)'
    <3>1. phase'[o] = p
      BY <1>1, <1>2, <2>5 DEF StateOK
    <3>2. EarlyInv(o)'
      BY <3>1 DEF EarlyInv
    <3>3. LoopInv(o)'
      BY <1>5, <1>7, <1>8, <1>13, <2>1 DEF LoopInv
    <3>4. QED
      BY <3>2, <3>3
  <2>6. CASE phase' = [phase EXCEPT ![o] = "synthesis"] /\ UNCHANGED status
    <3>1. StateOK' /\ Frame(s) /\ phase'[o] = "synthesis"
      BY <1>1, <1>2, <1>4, <1>13, <2>6 DEF StateOK, Frame
    <3>2. VerdictInv(o)'
      BY <1>10, <2>6, <3>1 DEF VerdictInv
    <3>3. QED
      BY <1>11, <2>4, <2>5, <2>6, <3>1, <3>2
  <2>7. CASE Conclude(o, Verdict(o, res))
    <3>1. Verdict(o, res) \in {"completed", "failed"}
      BY DEF Verdict
    <3>2. /\ StateOK' /\ Frame(s)
          /\ phase'[o] = "done" /\ status'[o] = Verdict(o, res)
      BY <1>1, <1>2, <1>4, <1>13, <2>7, <3>1 DEF StateOK, Frame, Conclude
    <3>3. Verdict(o, res) = "completed" => \A t \in Mine(o) : res[t].ok
      BY <1>4, <2>2, ConfigAssumption DEF Verdict
    <3>4. VerdictInv(o)'
      BY <1>4, <2>1, <3>1, <3>2, <3>3 DEF VerdictInv
    <3>5. LoopInv(o)' /\ EarlyInv(o)'
      BY <2>5, <2>7 DEF Conclude
    <3>6. QED
      BY <1>11, <2>4, <3>2, <3>4, <3>5
  <2>8. QED
    BY <1>13, <2>6, <2>7 DEF Advance
<1>14. QED
  BY <1>12, <1>13 DEF Advance

\* A one-at-a-time sub-task that stays at the cursor: it is put back, or sent
\* to sleep or review, or its orchestration is given up.
LEMMA StayKept ==
    ASSUME CoreInv, NEW s \in SubTasks, Ready(s) \/ work[s].at \in {"asleep", "review"},
           Strategy(Owner[s]) # "parallel",
           work' \in [SubTasks -> Attempt],
           work'[s].at \in {"pending", "asleep", "review", "ended"},
           \A t \in SubTasks : t # s => work'[t] = work[t],
           result' \in [SubTasks -> Outcome \cup {NoResult}],
           \A t \in SubTasks : t # s => result'[t] = result[t],
           SubTaskInv(s)',
           permits' = permits, cursor' = cursor,
           total' \in [Orchs -> Nat],
           \A q \in Orchs : q # Owner[s] => total'[q] = total[q],
           \/ /\ total'[Owner[s]] <= Config[Owner[s]].token_budget
              /\ work'[s].at # "ended"
              /\ UNCHANGED <<phase, status>>
           \/ /\ work'[s].at = "ended"
              /\ Conclude(Owner[s], "failed")
    PROVE  Kept(s)
<1> DEFINE o == Owner[s]
           c == cursor[o]
<1>1. o \in Orchs /\ s \in Mine(o) /\ Mine(o) \subseteq SubTasks
  BY OwnerType DEF Mine
<1>2. StateOK /\ OrchInv(o) /\ \A t \in SubTasks : SubTaskInv(t)
  BY <1>1 DEF CoreInv
<1>3. phase[o] = "working" /\ Queue(o)[c] = s
  <2>1. CASE work[s].at \in {"asleep", "review"}
    BY <1>1, <1>2, <2>1 DEF OrchInv, LoopInv, Active
  <2>2. CASE Ready(s)
    BY <2>2 DEF Ready
  <2>3. QED
    BY <2>1, <2>2
<1>4. status[o] = "running"
  BY <1>2, <1>3 DEF OrchInv, VerdictInv
<1>5. \A t \in Mine(o) : t # s => ~Active(t)'
  BY <1>1, <1>2, <1>3 DEF OrchInv, LoopInv, Active
<1>6. /\ c <= Len(Queue(o))
      /\ \A i \in 1 .. Len(Queue(o)) : Queue(o)[i] \in SubTasks
      /\ \A i \in 1 .. Len(Queue(o)) : i < c => work[Queue(o)[i]].at = "ended"
  BY <1>1, <1>2, QueueType DEF OrchInv, LoopInv
<1>7. work[s].at # "ended"
  BY DEF Ready
<1>8. \A i \in 1 .. Len(Queue(o)) : i < c => work'[Queue(o)[i]].at = "ended"
  BY <1>6, <1>7
<1>9. CASE /\ total'[o] <= Config[o].token_budget
           /\ work'[s].at # "ended"
           /\ UNCHANGED <<phase, status>>
  <2>1. StateOK' /\ Frame(s)
    BY <1>2, <1>9 DEF StateOK, Frame
  <2>2. LoopInv(o)'
    BY <1>3, <1>5, <1>6, <1>8, <1>9 DEF LoopInv
  <2>3. BudgetInv(o)'
    <3>1. total'[o] \in Nat /\ Config[o].token_budget \in Nat
      BY <1>1, BudgetType
    <3>2. QED
      BY <1>9, <3>1 DEF BudgetInv
  <2>4. EarlyInv(o)' /\ VerdictInv(o)' /\ PermitsInv(o)'
    BY <1>3, <1>4, <1>9 DEF EarlyInv, VerdictInv, PermitsInv
  <2>5. QED
    BY <2>1, <2>2, <2>3, <2>4 DEF Kept, OrchInv
<1>10. CASE work'[s].at = "ended" /\ Conclude(o, "failed")
  <2>1. StateOK' /\ Frame(s) /\ phase'[o] = "done" /\ status'[o] = "failed"
    BY <1>1, <1>2, <1>10 DEF StateOK, Frame, Conclude
  <2>2. \A t \in Mine(o) : ~Active(t)'
    BY <1>5, <1>10 DEF Active
  <2>3. LoopInv(o)'
    BY <1>6, <1>8, <2>1, <2>2 DEF LoopInv
  <2>4. EarlyInv(o)' /\ VerdictInv(o)' /\ PermitsInv(o)' /\ BudgetInv(o)'
    BY <2>1 DEF EarlyInv, VerdictInv, PermitsInv, BudgetInv
  <2>5. QED
    BY <2>1, <2>3, <2>4 DEF Kept, OrchInv
<1>11. QED
  BY <1>9, <1>10

LEMMA SequentialReturnKept ==
    ASSUME CoreInv, NEW s \in SubTasks, NEW ok \in BOOLEAN, NEW n \in Nat,
           Ready(s), SequentialReturn(s, ok, n)
    PROVE  Kept(s)
<1> DEFINE o == Owner[s]
<1>1. o \in Orchs /\ StateOK /\ SubTaskInv(s)
  BY OwnerType DEF CoreInv
<1>2. Strategy(o) = "sequential" /\ permits' = permits
  BY DEF SequentialReturn
<1>3. /\ total' \in [Orchs -> Nat]
      /\ total'[o] = Spent(s, n)
      /\ \A q \in Orchs : q # o => total'[q] = total[q]
  BY <1>1 DEF SequentialReturn, Charge, StateOK, Spent
<1>4. total'[o] \in Nat /\ Config[o].token_budget \in Nat
  BY <1>1, <1>3, BudgetType
<1>5. ~OverBudget(s, n) => total'[o] <= Config[o].token_budget
  BY <1>3, <1>4 DEF OverBudget
<1>6. CASE /\ work' = Move(s, "ended", 0)
           /\ result' = Record(s, ok, n)
           /\ Conclude(o, "failed")
           /\ UNCHANGED cursor
  <2>1. /\ work' \in [SubTasks -> Attempt]
        /\ work'[s].at = "ended" /\ work'[s].tries = 0
        /\ \A t \in SubTasks : t # s => work'[t] = work[t]
    BY <1>1, <1>6, MoveType DEF Places, MaxRetries
  <2>2. /\ result' \in [SubTasks -> Outcome \cup {NoResult}]
        /\ result'[s] \in Outcome
        /\ \A t \in SubTasks : t # s => result'[t] = result[t]
    BY <1>1, <1>6, RecordType
  <2>3. SubTaskInv(s)'
    BY <2>1, <2>2 DEF SubTaskInv, Working
  <2>4. QED
    BY <1>2, <1>3, <1>6, <2>1, <2>2, <2>3, StayKept
<1>7. CASE ~OverBudget(s, n) /\ Advance(s, Record(s, ok, n))
  BY <1>1, <1>2, <1>3, <1>5, <1>7, RecordType, AdvanceKept, ZenonT(40)
<1>8. CASE /\ ~OverBudget(s, n) /\ ~ok
           /\ work' = Move(s, "pending", 1)
           /\ result' = Record(s, ok, n)
           /\ UNCHANGED <<cursor, phase, status>>
  <2>1. /\ work' \in [SubTasks -> Attempt]
        /\ work'[s].at = "pending" /\ work'[s].tries = 1
        /\ \A t \in SubTasks : t # s => work'[t] = work[t]
    BY <1>1, <1>8, MoveType DEF Places, MaxRetries
  <2>2. /\ result' \in [SubTasks -> Outcome \cup {NoResult}]
        /\ result'[s] \in Outcome /\ result'[s].ok = FALSE
        /\ \A t \in SubTasks : t # s => result'[t] = result[t]
    BY <1>1, <1>8, RecordType
  <2>3. SubTaskInv(s)'
    <3>1. result'[s].ok = (Strategy(o) = "supervisor")
      BY <1>2, <2>2
    <3>2. QED
      BY <1>2, <2>1, <2>2, <3>1 DEF SubTaskInv, Working
  <2>4. QED
    BY <1>2, <1>3, <1>5, <1>8, <2>1, <2>2, <2>3, StayKept
<1>9. QED
  BY <1>6, <1>7, <1>8 DEF SequentialReturn

\* Where the steps of a one-at-a-time sub-task start from.
LEMMA AtCursor ==
    ASSUME CoreInv, NEW s \in SubTasks, Strategy(Owner[s]) # "parallel",
           Ready(s) \/ work[s].at \in {"asleep", "review"}
    PROVE  /\ StateOK /\ SubTaskInv(s)
           /\ total \in [Orchs -> Nat]
           /\ total[Owner[s]] <= Config[Owner[s]].token_budget
<1>1. Owner[s] \in Orchs /\ s \in Mine(Owner[s])
  BY OwnerType
<1>2. StateOK /\ SubTaskInv(s) /\ OrchInv(Owner[s])
  BY <1>1 DEF CoreInv
<1>3. phase[Owner[s]] = "working"
  BY <1>1, <1>2 DEF Ready, OrchInv, LoopInv, Active
<1>4. total[Owner[s]] \in Nat /\ Config[Owner[s]].token_budget \in Nat
  BY <1>1, <1>2, BudgetType DEF StateOK
<1>5. total[Owner[s]] <= Config[Owner[s]].token_budget
  BY <1>2, <1>3, <1>4 DEF OrchInv, BudgetInv
<1>6. QED
  BY <1>2, <1>5 DEF StateOK

LEMMA RetryReturnKept ==
    ASSUME CoreInv, NEW s \in SubTasks, NEW ok \in BOOLEAN, NEW n \in Nat,
           Ready(s), RetryReturn(s, ok, n)
    PROVE  Kept(s)
<1>1. /\ Strategy(Owner[s]) = "sequential" /\ work[s].tries > 0
      /\ permits' = permits /\ total' = total
  BY DEF RetryReturn
<1>2. /\ StateOK /\ SubTaskInv(s)
      /\ total \in [Orchs -> Nat]
      /\ total[Owner[s]] <= Config[Owner[s]].token_budget
  BY <1>1, AtCursor
<1>3. CASE ok /\ Advance(s, Record(s, ok, n))
  BY <1>1, <1>2, <1>3, RecordType, AdvanceKept
<1>4. CASE /\ work' = [Move(s, "asleep", work[s].tries) EXCEPT ![s].tokens = n]
           /\ UNCHANGED <<result, cursor, phase, status>>
  <2>1. work[s].tries \in 0 .. MaxRetries
    BY <1>2 DEF StateOK, Attempt
  <2>2. /\ Move(s, "asleep", work[s].tries) \in [SubTasks -> Attempt]
        /\ Move(s, "asleep", work[s].tries)[s].at = "asleep"
        /\ Move(s, "asleep", work[s].tries)[s].tries = work[s].tries
        /\ \A t \in SubTasks : t # s => Move(s, "asleep", work[s].tries)[t] = work[t]
    BY <1>2, <2>1, MoveType DEF Places
  <2>3. /\ work' \in [SubTasks -> Attempt]
        /\ work'[s].at = "asleep" /\ work'[s].tries = work[s].tries
        /\ \A t \in SubTasks : t # s => work'[t] = work[t]
    BY <1>4, <2>2 DEF Attempt
  <2>4. SubTaskInv(s)'
    BY <1>1, <1>2, <1>4, <2>3 DEF SubTaskInv, Working
  <2>5. result' \in [SubTasks -> Outcome \cup {NoResult}] /\ result' = result
    BY <1>2, <1>4 DEF StateOK
  <2>6. QED
    BY <1>1, <1>2, <1>4, <2>3, <2>4, <2>5, StayKept
<1>5. QED
  BY <1>3, <1>4 DEF RetryReturn

LEMMA WakeKept ==
    ASSUME CoreInv, NEW s \in SubTasks, Wake(s)
    PROVE  Kept(s)
<1>1. work[s].at = "asleep" /\ permits' = permits /\ total' = total
  BY DEF Wake
<1>2. /\ Strategy(Owner[s]) = "sequential" /\ work[s].tries > 0
  BY <1>1 DEF CoreInv, SubTaskInv
<1>3. /\ StateOK /\ SubTaskInv(s)
      /\ total \in [Orchs -> Nat]
      /\ total[Owner[s]] <= Config[Owner[s]].token_budget
  BY <1>1, <1>2, AtCursor
<1>4. work[s].tries \in 0 .. MaxRetries /\ work[s].tokens \in Nat
  BY <1>3 DEF StateOK, Attempt
<1>5. CASE /\ work[s].tries < MaxRetries
           /\ work' = Move(s, "pending", work[s].tries + 1)
           /\ UNCHANGED <<result, cursor, phase, status>>
  <2>1. work[s].tries + 1 \in 0 .. MaxRetries /\ work[s].tries + 1 > 0
    BY <1>4, <1>5 DEF MaxRetries
  <2>2. /\ work' \in [SubTasks -> Attempt]
        /\ work'[s].at = "pending" /\ work'[s].tries > 0
        /\ \A t \in SubTasks : t # s => work'[t] = work[t]
    BY <1>3, <1>5, <2>1, MoveType DEF Places
  <2>3. SubTaskInv(s)'
    BY <1>2, <1>3, <1>5, <2>2 DEF SubTaskInv, Working
  <2>4. result' \in [SubTasks -> Outcome \cup {NoResult}] /\ result' = result
    BY <1>3, <1>5 DEF StateOK
  <2>5. QED
    BY <1>1, <1>2, <1>3, <1>5, <2>2, <2>3, <2>4, StayKept
<1>6. CASE Advance(s, Record(s, FALSE, work[s].tokens))
  BY <1>1, <1>2, <1>3, <1>4, <1>6, RecordType, AdvanceKept
<1>7. QED
  BY <1>5, <1>6 DEF Wake

LEMMA SupervisedReturnKept ==
    ASSUME CoreInv, NEW s \in SubTasks, NEW ok \in BOOLEAN, NEW n \in Nat,
           Ready(s), SupervisedReturn(s, ok, n)
    PROVE  Kept(s)
<1>1. /\ Strategy(Owner[s]) = "supervisor"
      /\ permits' = permits /\ total' = total
  BY DEF SupervisedReturn
<1>2. /\ StateOK /\ SubTaskInv(s)
      /\ total \in [Orchs -> Nat]
      /\ total[Owner[s]] <= Config[Owner[s]].token_budget
  BY <1>1, AtCursor
<1>3. CASE ~ok /\ Advance(s, Record(s, ok, n))
  BY <1>1, <1>2, <1>3, RecordType, AdvanceKept, ZenonT(40)
<1>4. CASE /\ ok
           /\ work' = Move(s, "review", 0)
           /\ result' = Record(s, ok, n)
           /\ UNCHANGED <<cursor, phase, status>>
  <2>1. /\ work' \in [SubTasks -> Attempt]
        /\ work'[s].at = "review" /\ work'[s].tries = 0
        /\ \A t \in SubTasks : t # s => work'[t] = work[t]
    BY <1>2, <1>4, MoveType DEF Places, MaxRetries
  <2>2. /\ result' \in [SubTasks -> Outcome \cup {NoResult}]
        /\ result'[s] \in Outcome /\ result'[s].ok
        /\ \A t \in SubTasks : t # s => result'[t] = result[t]
    BY <1>2, <1>4, RecordType, ZenonT(40)
  <2>3. SubTaskInv(s)'
    BY <1>1, <2>1, <2>2 DEF SubTaskInv, Working
  <2>4. QED
    BY <1>1, <1>2, <1>4, <2>1, <2>2, <2>3, StayKept
<1>5. QED
  BY <1>3, <1>4 DEF SupervisedReturn

LEMMA ReworkReturnKept ==
    ASSUME CoreInv, NEW s \in SubTasks, NEW ok \in BOOLEAN, NEW n \in Nat,
           Ready(s), ReworkReturn(s, ok, n)
    PROVE  Kept(s)
<1> DEFINE res == IF ok THEN Record(s, TRUE, result[s].tokens + n) ELSE result
<1>1. /\ Strategy(Owner[s]) = "supervisor" /\ work[s].tries > 0
      /\ permits' = permits /\ total' = total
      /\ Advance(s, res)
  BY DEF ReworkReturn
<1>2. /\ StateOK /\ SubTaskInv(s)
      /\ total \in [Orchs -> Nat]
      /\ total[Owner[s]] <= Config[Owner[s]].token_budget
  BY <1>1, AtCursor
<1>3. result[s] \in Outcome
  BY <1>1, <1>2 DEF SubTaskInv
<1>4. result[s].tokens + n \in Nat
  BY <1>3 DEF Outcome
<1>5. /\ Record(s, TRUE, result[s].tokens + n) \in [SubTasks -> Outcome \cup {NoResult}]
      /\ Record(s, TRUE, result[s].tokens + n)[s] \in Outcome
      /\ \A t \in SubTasks : t # s => Record(s, TRUE, result[s].tokens + n)[t] = result[t]
  BY <1>2, <1>4, RecordType
<1>6. /\ res \in [SubTasks -> Outcome \cup {NoResult}]
      /\ res[s] \in Outcome
      /\ \A t \in SubTasks : t # s => res[t] = result[t]
  BY <1>2, <1>3, <1>5 DEF StateOK
<1> HIDE DEF res
<1>7. QED
  BY <1>1, <1>2, <1>6, AdvanceKept

LEMMA ReviewKept ==
    ASSUME CoreInv, NEW s \in SubTasks, Approve(s) \/ Reject(s)
    PROVE  Kept(s)
<1>1. work[s].at = "review" /\ permits' = permits /\ total' = total
  BY DEF Approve, Reject, orchVars
<1>2. Strategy(Owner[s]) = "supervisor" /\ result[s] \in Outcome /\ result[s].ok
  BY <1>1 DEF CoreInv, SubTaskInv
<1>3. /\ StateOK /\ SubTaskInv(s)
      /\ total \in [Orchs -> Nat]
      /\ total[Owner[s]] <= Config[Owner[s]].token_budget
  BY <1>1, <1>2, AtCursor
<1>4. result \in [SubTasks -> Outcome \cup {NoResult}]
  BY <1>3 DEF StateOK
<1>5. CASE Approve(s)
  BY <1>1, <1>2, <1>3, <1>4, <1>5, AdvanceKept DEF Approve
<1>6. CASE Reject(s)
  <2>1. /\ work' = Move(s, "pending", 1) /\ result' = result
        /\ UNCHANGED <<cursor, phase, status>>
    BY <1>6 DEF Reject, orchVars
  <2>2. /\ work' \in [SubTasks -> Attempt]
        /\ work'[s].at = "pending" /\ work'[s].tries = 1
        /\ \A t \in SubTasks : t # s => work'[t] = work[t]
    BY <1>3, <2>1, MoveType DEF Places, MaxRetries
  <2>3. result[s].ok = (Strategy(Owner[s]) = "supervisor")
    <3>1. result[s].ok \in BOOLEAN
      BY <1>2 DEF Outcome
    <3>2. QED
      BY <1>2, <3>1
  <2>4. SubTaskInv(s)'
    BY <1>2, <2>1, <2>2, <2>3 DEF SubTaskInv, Working
  <2>5. QED
    BY <1>1, <1>2, <1>3, <1>4, <2>1, <2>2, <2>4, StayKept
<1>7. QED
  BY <1>5, <1>6

LEMMA ParallelReturnKept ==
    ASSUME CoreInv, NEW s \in SubTasks, NEW ok \in BOOLEAN, NEW n \in Nat,
           Ready(s), ParallelReturn(s, ok, n)
    PROVE  Kept(s)
<1> DEFINE o == Owner[s]
<1>1. o \in Orchs /\ s \in Mine(o) /\ Mine(o) \subseteq SubTasks
  BY OwnerType DEF Mine
<1>2. StateOK /\ OrchInv(o) /\ \A t \in SubTasks : SubTaskInv(t)
  BY <1>1 DEF CoreInv
<1>3. /\ Strategy(o) = "parallel" /\ cursor' = cursor
      /\ phase[o] \notin {"new", "planning"}
      /\ work[s].at \in {"pending", "running", "closing"}
  BY DEF ParallelReturn, Ready
<1>4. /\ total' \in [Orchs -> Nat] /\ total'[o] = Spent(s, n)
      /\ \A q \in Orchs : q # o => total'[q] = total[q]
  BY <1>1, <1>2 DEF ParallelReturn, Charge, StateOK, Spent
<1>5. /\ work' \in [SubTasks -> Attempt]
      /\ work'[s].at = "ended" /\ work'[s].tries = 0
      /\ \A t \in SubTasks : t # s => work'[t] = work[t]
  BY <1>2, MoveType DEF ParallelReturn, Places, MaxRetries
<1>6. /\ result' \in [SubTasks -> Outcome \cup {NoResult}]
      /\ result'[s] \in Outcome
      /\ \A t \in SubTasks : t # s => result'[t] = result[t]
  BY <1>2, RecordType DEF ParallelReturn
<1>7. /\ permits' \in [Orchs -> Nat]
      /\ permits'[o] = IF work[s].at # "pending" THEN permits[o] + 1 ELSE permits[o]
      /\ \A q \in Orchs : q # o => permits'[q] = permits[q]
  BY <1>1, <1>2 DEF ParallelReturn, StateOK
<1>8. SubTaskInv(s)'
  BY <1>5, <1>6 DEF SubTaskInv, Working
<1>9. /\ phase' \in [Orchs -> {"new", "planning", "working", "synthesis", "done"}]
      /\ status' \in [Orchs -> {"running", "completed", "failed"}]
      /\ \A q \in Orchs : q # o => phase'[q] = phase[q] /\ status'[q] = status[q]
      /\ \/ phase[o] = "done" /\ phase'[o] = phase[o] /\ status'[o] = status[o]
         \/ OverBudget(s, n) /\ phase'[o] = "done" /\ status'[o] = "failed"
         \/ /\ ~OverBudget(s, n)
            /\ phase'[o] = "done" /\ status'[o] = Verdict(o, result')
            /\ \A t \in Mine(o) : work'[t].at = "ended"
         \/ ~OverBudget(s, n) /\ phase'[o] = phase[o] /\ status'[o] = status[o]
            /\ phase[o] # "done"
  <2>1. Verdict(o, result') \in {"completed", "failed"}
    BY DEF Verdict
  <2>2. QED
    BY <1>1, <1>2, <2>1 DEF ParallelReturn, Conclude, StateOK
<1>10. StateOK' /\ Frame(s)
  BY <1>2, <1>3, <1>4, <1>5, <1>6, <1>7, <1>9 DEF StateOK, Frame
<1>11. PermitsInv(o)'
  <2>1. Frame(s)
    BY <1>10
  <2>2. PermitsInv(o) /\ permits[o] \in Nat /\ Config[o].max_concurrency \in Nat
    BY <1>1, <1>2, BudgetType DEF OrchInv, StateOK
  <2>3. ~Working(s)'
    BY <1>5 DEF Working
  <2>4. phase'[o] # "synthesis"
    BY <1>3, <1>9, <2>2 DEF PermitsInv
  <2>5. CASE work[s].at \in {"running", "closing"}
    <3>1. /\ Cardinality(InFlight(o)) \in Nat
          /\ Cardinality(InFlight(o))' = Cardinality(InFlight(o)) - 1
      BY <2>1, <2>3, <2>5, InFlightCount DEF Working
    <3>2. QED
      BY <1>3, <1>7, <2>2, <2>5, <2>4, <3>1 DEF PermitsInv
  <2>6. CASE work[s].at = "pending"
    <3>1. Working(s)' = Working(s)
      BY <2>3, <2>6 DEF Working
    <3>2. Cardinality(InFlight(o))' = Cardinality(InFlight(o))
      BY <2>1, <3>1, InFlightCount
    <3>3. QED
      BY <1>3, <1>7, <2>2, <2>6, <2>4, <3>2 DEF PermitsInv
  <2>7. QED
    BY <1>3, <2>5, <2>6
<1>12. status[o] # "completed"
  BY <1>1, <1>2, <1>3 DEF OrchInv, VerdictInv
<1>13. phase[o] = "done" => status[o] = "failed"
  BY <1>1, <1>2, <1>12 DEF OrchInv, VerdictInv, StateOK
<1>14. VerdictInv(o)'
  <2>1. CASE /\ phase'[o] = "done" /\ status'[o] = Verdict(o, result')
             /\ \A t \in Mine(o) : work'[t].at = "ended"
    <3>1. \A t \in Mine(o) : result'[t] \in Outcome
      BY <1>1, <1>2, <1>5, <1>6, <2>1 DEF SubTaskInv
    <3>2. Verdict(o, result') = "completed" => \A t \in Mine(o) : result'[t].ok
      BY <3>1, ConfigAssumption DEF Verdict
    <3>3. Verdict(o, result') \in {"completed", "failed"}
      BY DEF Verdict
    <3>4. QED
      BY <2>1, <3>2, <3>3 DEF VerdictInv
  <2>2. CASE phase'[o] = phase[o] /\ status'[o] = status[o]
    BY <1>2, <1>12, <2>2 DEF OrchInv, VerdictInv
  <2>3. QED
    BY <1>9, <2>1, <2>2 DEF VerdictInv
<1>15. BudgetInv(o)'
  <2>1. total'[o] \in Nat /\ Config[o].token_budget \in Nat
    BY <1>1, <1>4, BudgetType
  <2>2. CASE ~OverBudget(s, n)
    BY <1>4, <2>1, <2>2 DEF BudgetInv, OverBudget
  <2>3. CASE OverBudget(s, n)
    BY <1>9, <1>13, <2>3 DEF BudgetInv
  <2>4. QED
    BY <2>2, <2>3
<1>16. EarlyInv(o)' /\ LoopInv(o)'
  BY <1>3, <1>9 DEF EarlyInv, LoopInv
<1>17. QED
  BY <1>8, <1>10, <1>11, <1>14, <1>15, <1>16 DEF Kept, OrchInv

LEMMA ReturnsKept ==
    ASSUME CoreInv, NEW s \in SubTasks, NEW ok \in BOOLEAN, NEW n \in Nat,
           Ready(s), Returns(s, ok, n)
    PROVE  Kept(s)
  BY SequentialReturnKept, RetryReturnKept, ParallelReturnKept, SupervisedReturnKept,
     ReworkReturnKept DEF Returns

\* A sub-task whose turn it is, or whose agent is at work, may return.
LEMMA TurnReady ==
    ASSUME CoreInv, NEW s \in SubTasks, Turn(s) \/ Working(s)
    PROVE  Ready(s)
<1>1. Owner[s] \in Orchs /\ s \in Mine(Owner[s])
  BY OwnerType
<1>2. OrchInv(Owner[s])
  BY <1>1 DEF CoreInv
<1>3. CASE Turn(s)
  <2>1. CASE Strategy(Owner[s]) = "parallel"
    BY <1>2, <1>3, <2>1 DEF Turn, Ready, OrchInv, EarlyInv
  <2>2. CASE Strategy(Owner[s]) # "parallel"
    BY <1>3, <2>2 DEF Turn, Ready
  <2>3. QED
    BY <2>1, <2>2
<1>4. CASE Working(s)
  BY <1>1, <1>2, <1>4 DEF Working, Ready, OrchInv, EarlyInv, LoopInv, Active
<1>5. QED
  BY <1>3, <1>4

LEMMA NoDispatchKept ==
    ASSUME CoreInv, NEW s \in SubTasks, NoDispatch(s)
    PROVE  Kept(s)
  BY TurnReady, ReturnsKept DEF NoDispatch

LEMMA ClosesKept ==
    ASSUME CoreInv, NEW s \in SubTasks, Closes(s)
    PROVE  Kept(s)
<1>1. work[s].ok \in BOOLEAN /\ work[s].tokens \in Nat
  BY DEF CoreInv, StateOK, Attempt
<1>2. QED
  BY <1>1, TurnReady, ReturnsKept DEF Closes, Working

\* A close that raises is the return of a failure.
LEMMA CloseRaisesReturns ==
    ASSUME CoreInv, NEW s \in SubTasks, CloseRaises(s)
    PROVE  /\ Working(s) /\ Ready(s) /\ UNCHANGED <<desc, client>>
           /\ \E n \in Nat : Returns(s, FALSE, n)
<1>1. /\ Working(s) /\ UNCHANGED <<desc, client>>
      /\ \E n \in TokenCounts \cup {0, work[s].tokens} : Returns(s, FALSE, n)
  BY DEF CloseRaises, Working
<1>2. work[s].tokens \in Nat /\ TokenCounts \subseteq Nat /\ 0 \in Nat
  BY ConfigAssumption DEF CoreInv, StateOK, Attempt
<1>3. TokenCounts \cup {0, work[s].tokens} \subseteq Nat
  BY ONLY <1>2
<1> QED
  BY <1>1, <1>3, TurnReady

LEMMA CloseRaisesKept ==
    ASSUME CoreInv, NEW s \in SubTasks, CloseRaises(s)
    PROVE  Kept(s)
<1>1. PICK n \in Nat : Ready(s) /\ Returns(s, FALSE, n)
  BY CloseRaisesReturns
<1> QED
  BY <1>1, ReturnsKept

-----------------------------------------------------------------------------
(* The start and the end of a run.                                          *)

LEMMA DispatchKept ==
    ASSUME CoreInv, NEW s \in SubTasks, Dispatch(s)
    PROVE  Kept(s)
<1> DEFINE o == Owner[s]
<1>1. o \in Orchs /\ s \in Mine(o) /\ Mine(o) \subseteq SubTasks
  BY OwnerType DEF Mine
<1>2. StateOK /\ OrchInv(o) /\ SubTaskInv(s)
  BY <1>1 DEF CoreInv
<1>3. Turn(s) /\ Ready(s) /\ UNCHANGED <<phase, status, cursor, total, result>>
  BY TurnReady DEF Dispatch
<1>4. PICK a \in Members(o) :
         work' = [work EXCEPT ![s].at = "running", ![s].agent = a, ![s].live = Usable]
  BY DEF Dispatch
<1>5. a \in Agents
  <2>1. Team[o] \in Seq(Agents)
    BY <1>1, ConfigAssumption
  <2>2. QED
    BY <2>1 DEF Members
<1>6. Usable \in BOOLEAN
  BY DEF Usable
<1>7. [work[s] EXCEPT !.at = "running", !.agent = a, !.live = Usable] \in Attempt
  BY <1>2, <1>5, <1>6, ZenonT(40) DEF StateOK, Attempt, Places
<1>8. /\ work' \in [SubTasks -> Attempt]
      /\ work'[s].at = "running" /\ work'[s].agent = a
      /\ work'[s].tries = work[s].tries
      /\ \A t \in SubTasks : t # s => work'[t] = work[t]
  BY <1>2, <1>4, <1>7 DEF StateOK, Attempt
<1>9. /\ permits' \in [Orchs -> Nat]
      /\ Strategy(o) = "parallel" => permits'[o] = permits[o] - 1 /\ permits[o] > 0
      /\ \A q \in Orchs : q # o => permits'[q] = permits[q]
  BY <1>1, <1>2, <1>3 DEF Dispatch, Turn, StateOK
<1>10. StateOK' /\ Frame(s)
  BY <1>2, <1>3, <1>8, <1>9 DEF StateOK, Frame
<1>11. SubTaskInv(s)'
  BY <1>2, <1>3, <1>5, <1>8 DEF SubTaskInv, Working, Turn
<1>12. PermitsInv(o)'
  <2>1. CASE Strategy(o) = "parallel"
    <3>1. ~Working(s) /\ Working(s)'
      BY <1>3, <1>8 DEF Turn, Working
    <3>2. /\ Cardinality(InFlight(o)) \in Nat
          /\ Cardinality(InFlight(o))' = Cardinality(InFlight(o)) + 1
      BY <1>10, <3>1, InFlightCount
    <3>3. PermitsInv(o) /\ permits[o] \in Nat /\ Config[o].max_concurrency \in Nat
      BY <1>1, <1>2, BudgetType DEF OrchInv, StateOK
    <3>4. QED
      BY <1>3, <1>9, <2>1, <3>2, <3>3 DEF PermitsInv
  <2>2. CASE Strategy(o) # "parallel"
    BY <2>2 DEF PermitsInv
  <2>3. QED
    BY <2>1, <2>2
<1>13. LoopInv(o)'
  <2>1. CASE Strategy(o) # "parallel"
    <3>1. /\ phase[o] = "working" /\ Queue(o)[cursor[o]] = s
          /\ work[s].at = "pending"
      BY <1>3, <2>1 DEF Turn
    <3>2. \A t \in Mine(o) : Active(t)' => t = s
      <4>1. \A t \in Mine(o) : Active(t) => t = s
        BY <1>2, <2>1, <3>1 DEF OrchInv, LoopInv
      <4>2. QED
        BY <1>1, <1>8, <4>1 DEF Active
    <3>3. \A i \in 1 .. Len(Queue(o)) : i < cursor[o] => work'[Queue(o)[i]].at = "ended"
      <4>1. \A i \in 1 .. Len(Queue(o)) :
               Queue(o)[i] \in SubTasks /\ (i < cursor[o] => work[Queue(o)[i]].at = "ended")
        BY <1>1, <1>2, <2>1, QueueType DEF OrchInv, LoopInv
      <4>2. QED
        BY <1>8, <3>1, <4>1
    <3>4. cursor[o] <= Len(Queue(o))
      BY <1>2, <2>1 DEF OrchInv, LoopInv
    <3>5. QED
      BY <1>3, <3>1, <3>2, <3>3, <3>4 DEF LoopInv
  <2>2. CASE Strategy(o) = "parallel"
    BY <2>2 DEF LoopInv
  <2>3. QED
    BY <2>1, <2>2
<1>14. EarlyInv(o)' /\ BudgetInv(o)'
  BY <1>2, <1>3 DEF Ready, EarlyInv, BudgetInv, OrchInv
<1>15. VerdictInv(o)'
  <2>1. status[o] # "completed"
    BY <1>1, <1>2, <1>3 DEF OrchInv, VerdictInv, Turn
  <2>2. QED
    BY <1>2, <1>3, <2>1 DEF OrchInv, VerdictInv
<1>16. QED
  BY <1>10, <1>11, <1>12, <1>13, <1>14, <1>15 DEF Kept, OrchInv

LEMMA RunEndsKept ==
    ASSUME CoreInv, NEW s \in SubTasks, RunEnds(s)
    PROVE  Kept(s)
<1> DEFINE o == Owner[s]
<1>1. o \in Orchs /\ s \in Mine(o) /\ Mine(o) \subseteq SubTasks
  BY OwnerType DEF Mine
<1>2. StateOK /\ OrchInv(o) /\ SubTaskInv(s) /\ work[s].at = "running"
  BY <1>1 DEF CoreInv, RunEnds
<1>3. UNCHANGED <<phase, status, cursor, permits, total, result>>
  BY DEF RunEnds, orchVars
<1>4. PICK ok \in BOOLEAN, n \in TokenCounts \cup {0} :
         work' = [work EXCEPT ![s].at = "closing", ![s].ok = ok, ![s].tokens = n]
  BY DEF RunEnds
<1>5. n \in Nat
  BY ConfigAssumption
<1>6. [work[s] EXCEPT !.at = "closing", !.ok = ok, !.tokens = n] \in Attempt
  <2>1. work[s] \in Attempt /\ "closing" \in Places
    BY <1>2 DEF StateOK, Places
  <2> QED
    BY ONLY <1>5, <2>1 DEF Attempt
<1>7. /\ work' \in [SubTasks -> Attempt]
      /\ work'[s].at = "closing" /\ work'[s].agent = work[s].agent
      /\ work'[s].tries = work[s].tries
      /\ \A t \in SubTasks : t # s => work'[t] = work[t]
  BY <1>2, <1>4, <1>6 DEF StateOK, Attempt
<1>8. StateOK' /\ Frame(s)
  BY <1>2, <1>3, <1>7 DEF StateOK, Frame
<1>9. SubTaskInv(s)'
  BY <1>2, <1>3, <1>7 DEF SubTaskInv, Working
<1>10. PermitsInv(o)'
  <2>1. Working(s)' = Working(s)
    BY <1>2, <1>7 DEF Working
  <2>2. Cardinality(InFlight(o))' = Cardinality(InFlight(o))
    BY <1>8, <2>1, InFlightCount
  <2>3. QED
    BY <1>2, <1>3, <2>2 DEF OrchInv, PermitsInv
<1>11. LoopInv(o)'
  <2>1. CASE Strategy(o) # "parallel"
    <3>1. \A t \in Mine(o) : Active(t)' = Active(t)
      BY <1>1, <1>2, <1>7 DEF Active
    <3>2. \A t \in SubTasks : work[t].at = "ended" => work'[t].at = "ended"
      BY <1>2, <1>7
    <3>3. \A i \in 1 .. Len(Queue(o)) : Queue(o)[i] \in SubTasks
      BY <1>1, QueueType
    <3>4. LoopInv(o)
      BY <1>2 DEF OrchInv
    <3>5. QED
      BY <1>1, <1>3, <2>1, <3>1, <3>2, <3>3, <3>4 DEF LoopInv
  <2>2. CASE Strategy(o) = "parallel"
    BY <2>2 DEF LoopInv
  <2>3. QED
    BY <2>1, <2>2
<1>12. EarlyInv(o)' /\ BudgetInv(o)' /\ VerdictInv(o)'
  <2>1. status[o] # "completed"
    BY <1>1, <1>2 DEF OrchInv, VerdictInv
  <2>2. phase[o] \notin {"new", "planning"}
    BY <1>1, <1>2 DEF OrchInv, EarlyInv
  <2>3. QED
    BY <1>2, <1>3, <2>1, <2>2 DEF OrchInv, EarlyInv, BudgetInv, VerdictInv
<1>13. QED
  BY <1>8, <1>9, <1>10, <1>11, <1>12 DEF Kept, OrchInv

-----------------------------------------------------------------------------
(* The steps of an orchestration.                                           *)

LEMMA OrchFrame ==
    ASSUME CoreInv, NEW o \in Orchs, UNCHANGED <<cursor, total, work, result>>,
           StateOK',
           \A q \in Orchs : q # o => /\ phase'[q] = phase[q]
                                     /\ status'[q] = status[q]
                                     /\ permits'[q] = permits[q],
           OrchInv(o)'
    PROVE  CoreInv'
<1>1. \A s \in SubTasks : SubTaskInv(s)'
  BY DEF CoreInv, SubTaskInv, Working
<1>2. ASSUME NEW q \in Orchs, q # o PROVE OrchInv(q)'
  <2>1. OrchInv(q) /\ phase'[q] = phase[q] /\ status'[q] = status[q] /\ permits'[q] = permits[q]
    BY <1>2 DEF CoreInv
  <2>2. InFlight(q)' = InFlight(q)
    BY DEF InFlight, Working
  <2>3. EarlyInv(q)' /\ VerdictInv(q)' /\ BudgetInv(q)' /\ PermitsInv(q)'
    BY <2>1, <2>2 DEF OrchInv, EarlyInv, VerdictInv, BudgetInv, PermitsInv
  <2>4. LoopInv(q)'
    BY <2>1 DEF OrchInv, LoopInv, Active
  <2>5. QED
    BY <2>3, <2>4 DEF OrchInv
<1>3. QED
  BY <1>1, <1>2 DEF CoreInv

LEMMA OrchStepCore ==
    ASSUME CoreInv, NEW o \in Orchs, OrchStep(o)
    PROVE  CoreInv'
<1>1. StateOK /\ OrchInv(o) /\ (\A s \in SubTasks : SubTaskInv(s)) /\ Mine(o) \subseteq SubTasks
  BY DEF CoreInv, Mine
<1>2. UNCHANGED <<cursor, total, work, result>>
  BY DEF OrchStep, Accept, PlanReady, PlanFails, Synthesize
<1>3. InFlight(o)' = InFlight(o)
  BY <1>2 DEF InFlight, Working
<1>4. ASSUME \A s \in Mine(o) : ~Active(s), phase'[o] # "synthesis"
      PROVE  LoopInv(o)'
  BY <1>1, <1>2, <1>4 DEF OrchInv, LoopInv, Active
<1>5. phase[o] \in {"new", "planning"} =>
         /\ permits[o] = 0 /\ Cardinality(InFlight(o)) = 0
         /\ \A s \in Mine(o) : ~Active(s)
  <2>1. ASSUME phase[o] \in {"new", "planning"}
        PROVE  permits[o] = 0 /\ \A s \in Mine(o) : work[s].at = "pending"
    BY <1>1, <2>1 DEF OrchInv, EarlyInv
  <2>2. ASSUME phase[o] \in {"new", "planning"}
        PROVE  InFlight(o) = {}
    BY <2>1, <2>2 DEF InFlight, Working
  <2>3. QED
    BY <2>1, <2>2, FS_EmptySet DEF Active
<1>6. ASSUME Accept(o) PROVE CoreInv'
  <2>1. /\ phase[o] = "new" /\ phase'[o] = "planning"
        /\ \A q \in Orchs : q # o => phase'[q] = phase[q]
        /\ UNCHANGED <<status, permits>> /\ StateOK'
    BY <1>1, <1>2, <1>6 DEF Accept, StateOK
  <2>2. EarlyInv(o)' /\ VerdictInv(o)' /\ BudgetInv(o)' /\ PermitsInv(o)'
    BY <1>1, <1>2, <1>3, <2>1
       DEF OrchInv, EarlyInv, VerdictInv, BudgetInv, PermitsInv
  <2>3. LoopInv(o)'
    BY <1>4, <1>5, <2>1
  <2>4. QED
    BY <1>2, <2>1, <2>2, <2>3, OrchFrame DEF OrchInv
<1>7. ASSUME PlanReady(o) PROVE CoreInv'
  <2>1. /\ phase[o] = "planning" /\ phase'[o] = "working"
        /\ \A q \in Orchs : q # o => phase'[q] = phase[q] /\ permits'[q] = permits[q]
        /\ permits' \in [Orchs -> Nat]
        /\ Strategy(o) = "parallel" => permits'[o] = Config[o].max_concurrency
        /\ UNCHANGED status /\ StateOK'
    BY <1>1, <1>2, <1>7, BudgetType DEF PlanReady, StateOK
  <2>2. EarlyInv(o)' /\ VerdictInv(o)' /\ BudgetInv(o)'
    BY <1>1, <1>2, <2>1 DEF OrchInv, EarlyInv, VerdictInv, BudgetInv
  <2>3. PermitsInv(o)'
    BY <1>3, <1>5, <2>1, BudgetType DEF PermitsInv
  <2>4. LoopInv(o)'
    BY <1>4, <1>5, <2>1
  <2>5. QED
    BY <1>2, <2>1, <2>2, <2>3, <2>4, OrchFrame DEF OrchInv
<1>8. ASSUME PlanFails(o) PROVE CoreInv'
  <2>1. /\ phase[o] = "planning" /\ phase'[o] = "done" /\ status'[o] = "failed"
        /\ \A q \in Orchs : q # o => phase'[q] = phase[q] /\ status'[q] = status[q]
        /\ UNCHANGED permits /\ StateOK'
    BY <1>1, <1>2, <1>8 DEF PlanFails, Conclude, StateOK
  <2>2. EarlyInv(o)' /\ VerdictInv(o)' /\ BudgetInv(o)'
    BY <2>1 DEF EarlyInv, VerdictInv, BudgetInv
  <2>3. PermitsInv(o)'
    BY <1>1, <1>3, <2>1 DEF OrchInv, PermitsInv
  <2>4. LoopInv(o)'
    BY <1>4, <1>5, <2>1
  <2>5. QED
    BY <1>2, <2>1, <2>2, <2>3, <2>4, OrchFrame DEF OrchInv
<1>9. ASSUME Synthesize(o) PROVE CoreInv'
  <2>0. Strategy(o) # "parallel"
    BY <1>1, <1>9 DEF OrchInv, PermitsInv, Synthesize
  <2>1. Verdict(o, result) \in {"completed", "failed"}
    BY DEF Verdict
  <2>2. /\ phase[o] = "synthesis" /\ phase'[o] = "done"
        /\ status'[o] = Verdict(o, result)
        /\ \A q \in Orchs : q # o => phase'[q] = phase[q] /\ status'[q] = status[q]
        /\ UNCHANGED permits /\ StateOK'
    BY <1>1, <1>2, <1>9, <2>1 DEF Synthesize, Conclude, StateOK
  <2>3. \A s \in Mine(o) : work[s].at = "ended" /\ result[s] \in Outcome
    BY <1>1, <2>0, <2>2 DEF OrchInv, LoopInv, SubTaskInv
  <2>4. Verdict(o, result) = "completed" => \A s \in Mine(o) : result[s].ok
    BY <2>3, ConfigAssumption DEF Verdict
  <2>5. VerdictInv(o)'
    BY <1>2, <2>1, <2>2, <2>3, <2>4 DEF VerdictInv
  <2>6. BudgetInv(o)'
    BY <1>1, <1>2, <2>2 DEF OrchInv, BudgetInv
  <2>7. EarlyInv(o)' /\ PermitsInv(o)'
    BY <2>0, <2>2 DEF EarlyInv, PermitsInv
  <2>8. LoopInv(o)'
    BY <1>4, <2>2, <2>3 DEF Active
  <2>9. QED
    BY <1>2, <2>2, <2>5, <2>6, <2>7, <2>8, OrchFrame DEF OrchInv
<1>10. QED
  BY <1>6, <1>7, <1>8, <1>9 DEF OrchStep

-----------------------------------------------------------------------------
(* The agents: a busy one is always accounted for.                          *)

AgentsOK ==
    /\ desc \in [Agents -> Descriptor \cup {Absent}]
    /\ client \in {"open", "closed"}

Inv == CoreInv /\ AgentsOK /\ BusyAgentIsWorking

LEMMA DescriptorType ==
    ASSUME AgentsOK, NEW a \in Agents, NEW st \in AgentStatus, UpdateStatus(a, st)
    PROVE  /\ desc' \in [Agents -> Descriptor \cup {Absent}]
           /\ desc'[a].status = st
           /\ \A b \in Agents : b # a => desc'[b] = desc[b]
<1>1. desc[a] \in Descriptor /\ desc' = WithStatus(a, st)
  BY DEF AgentsOK, UpdateStatus, Registered
<1>2. [status |-> st, age |-> IF st = "idle" THEN 0 ELSE desc[a].age] \in Descriptor
  BY <1>1, TimeoutAssumption DEF Descriptor, Ages
<1>3. QED
  BY <1>1, <1>2 DEF AgentsOK, WithStatus

\* A step of s that moves no agent and does not end the run of s.
LEMMA BusyKept ==
    ASSUME BusyAgentIsWorking, NEW s \in SubTasks, Frame(s), UNCHANGED <<desc, leftBusy>>,
           Working(s) => Working(s)' /\ work'[s].agent = work[s].agent
    PROVE  BusyAgentIsWorking'
<1>1. \A t \in SubTasks : Working(t) => Working(t)' /\ work'[t].agent = work[t].agent
  BY DEF Frame, Working
<1>2. QED
  BY <1>1 DEF BusyAgentIsWorking, Registered

LEMMA SubTaskStepInv ==
    ASSUME Inv, NEW s \in SubTasks, SubTaskStep(s)
    PROVE  Inv'
<1>1. CoreInv /\ AgentsOK /\ BusyAgentIsWorking /\ StateOK
  BY DEF Inv, CoreInv
<1>2. Kept(s)
  BY <1>1, DispatchKept, NoDispatchKept, RunEndsKept, ClosesKept, CloseRaisesKept, WakeKept, ReviewKept
     DEF SubTaskStep
<1>3. CoreInv' /\ Frame(s)
  BY <1>1, <1>2, FrameInv DEF Kept
<1>4. client' \in {"open", "closed"}
  BY <1>1 DEF SubTaskStep, Dispatch, NoDispatch, RunEnds, Closes, CloseRaises, Wake, Approve, Reject,
              AgentsOK
<1>5. CASE Dispatch(s)
  <2>1. PICK a \in Members(Owner[s]) :
           /\ UpdateStatus(a, "busy")
           /\ work' = [work EXCEPT ![s].at = "running", ![s].agent = a, ![s].live = Usable]
    BY <1>5 DEF Dispatch
  <2>2. a \in Agents
    <3>1. Owner[s] \in Orchs
      BY OwnerType
    <3>2. Team[Owner[s]] \in Seq(Agents)
      BY <3>1, ConfigAssumption
    <3>3. QED
      BY <3>2 DEF Members
  <2>3. /\ desc' \in [Agents -> Descriptor \cup {Absent}]
        /\ \A b \in Agents : b # a => desc'[b] = desc[b]
        /\ leftBusy' = leftBusy
    BY <1>1, <1>5, <2>1, <2>2, DescriptorType DEF AgentStatus, Dispatch
  <2>4. Working(s)' /\ work'[s].agent = a /\ ~Working(s)
    BY <1>1, <1>5, <2>1 DEF StateOK, Attempt, Working, Dispatch, Turn
  <2>5. BusyAgentIsWorking'
    <3>1. ASSUME NEW b \in Agents \ leftBusy', Registered(b)', desc'[b].status = "busy"
          PROVE  \E t \in SubTasks : Working(t)' /\ work'[t].agent = b
      <4>1. CASE b = a
        BY <2>4, <4>1
      <4>2. CASE b # a
        <5>1. PICK t \in SubTasks : Working(t) /\ work[t].agent = b
          BY <1>1, <2>3, <3>1, <4>2 DEF BusyAgentIsWorking, Registered
        <5>2. t # s
          BY <2>4, <5>1
        <5>3. work'[t] = work[t]
          BY <1>3, <5>2 DEF Frame
        <5>4. QED
          BY <5>1, <5>3 DEF Working
      <4>3. QED
        BY <4>1, <4>2
    <3>2. QED
      BY <3>1 DEF BusyAgentIsWorking
  <2>6. QED
    BY <1>3, <1>4, <2>3, <2>5 DEF Inv, AgentsOK
<1>6. CASE Closes(s)
  <2>1. UpdateStatus(work[s].agent, "idle")
    BY <1>6 DEF Closes
  <2>2. work[s].agent \in Agents /\ Working(s)
    BY <1>1, <1>6 DEF Closes, CoreInv, SubTaskInv, Working
  <2>3. /\ desc' \in [Agents -> Descriptor \cup {Absent}]
        /\ desc'[work[s].agent].status = "idle"
        /\ \A b \in Agents : b # work[s].agent => desc'[b] = desc[b]
        /\ leftBusy' = leftBusy \ {work[s].agent}
    BY <1>1, <1>6, <2>1, <2>2, DescriptorType DEF AgentStatus, Closes
  <2>4. BusyAgentIsWorking'
    <3>1. ASSUME NEW b \in Agents \ leftBusy', Registered(b)', desc'[b].status = "busy"
          PROVE  \E t \in SubTasks : Working(t)' /\ work'[t].agent = b
      <4>1. b # work[s].agent
        BY <2>3, <3>1
      <4>2. PICK t \in SubTasks : Working(t) /\ work[t].agent = b
        BY <1>1, <2>3, <3>1, <4>1 DEF BusyAgentIsWorking, Registered
      <4>3. work'[t] = work[t]
        BY <1>3, <4>1, <4>2 DEF Frame
      <4>4. QED
        BY <4>2, <4>3 DEF Working
    <3>2. QED
      BY <3>1 DEF BusyAgentIsWorking
  <2>5. QED
    BY <1>3, <1>4, <2>3, <2>4 DEF Inv, AgentsOK
<1>7. CASE RunEnds(s)
  <2>1. UNCHANGED <<desc, leftBusy>> /\ Working(s)' /\ work'[s].agent = work[s].agent
    BY <1>1, <1>7 DEF RunEnds, StateOK, Attempt, Working
  <2>2. QED
    BY <1>1, <1>3, <1>4, <2>1, BusyKept DEF Inv, AgentsOK
<1>8. CASE NoDispatch(s) \/ Wake(s) \/ Approve(s) \/ Reject(s)
  <2>1. UNCHANGED <<desc, leftBusy>> /\ ~Working(s)
    BY <1>8 DEF NoDispatch, Wake, Approve, Reject, Turn, Working
  <2>2. QED
    BY <1>1, <1>3, <1>4, <2>1, BusyKept DEF Inv, AgentsOK
<1>9. CASE CloseRaises(s)
  <2>1. /\ UNCHANGED <<desc, client>> /\ leftBusy' = leftBusy \cup {work[s].agent}
    BY <1>9 DEF CloseRaises
  <2>2. BusyAgentIsWorking'
    <3>1. ASSUME NEW b \in Agents \ leftBusy', Registered(b)', desc'[b].status = "busy"
          PROVE  \E t \in SubTasks : Working(t)' /\ work'[t].agent = b
      <4>1. b \notin leftBusy /\ b # work[s].agent
        BY <2>1
      <4>2. PICK t \in SubTasks : Working(t) /\ work[t].agent = b
        BY <1>1, <2>1, <3>1, <4>1 DEF BusyAgentIsWorking, Registered
      <4>3. work'[t] = work[t]
        BY <1>3, <4>1, <4>2 DEF Frame
      <4> QED
        BY <4>2, <4>3 DEF Working
    <3> QED
      BY <3>1 DEF BusyAgentIsWorking
  <2> QED
    BY <1>1, <1>3, <2>1, <2>2 DEF Inv, AgentsOK
<1>10. QED
  BY <1>5, <1>6, <1>7, <1>8, <1>9 DEF SubTaskStep

LEMMA OrchStepInv ==
    ASSUME Inv, NEW o \in Orchs, OrchStep(o)
    PROVE  Inv'
<1>1. CoreInv /\ AgentsOK /\ BusyAgentIsWorking
  BY DEF Inv
<1>2. CoreInv'
  BY <1>1, OrchStepCore
<1>3. UNCHANGED <<client, work>>
  BY DEF OrchStep, Accept, PlanReady, PlanFails, Synthesize
<1>4. \A s \in SubTasks : Working(s)' = Working(s)
  BY <1>3 DEF Working
<1>5. CASE UNCHANGED <<desc, leftBusy>>
  BY <1>1, <1>2, <1>3, <1>4, <1>5 DEF Inv, AgentsOK, BusyAgentIsWorking, Registered
<1>6. CASE Accept(o)
  <2>1. desc' = [a \in Agents |-> IF a \in Members(o) THEN [status |-> "idle", age |-> 0]
                                                      ELSE desc[a]]
    BY <1>6 DEF Accept, RegisterAll
  <2>2. [status |-> "idle", age |-> 0] \in Descriptor
    BY TimeoutAssumption DEF Descriptor, AgentStatus, Ages
  <2>3. AgentsOK'
    BY <1>1, <1>3, <2>1, <2>2 DEF AgentsOK
  <2>4. leftBusy' = leftBusy \ Members(o)
    BY <1>6 DEF Accept
  <2>6. BusyAgentIsWorking'
    <3>1. ASSUME NEW b \in Agents \ leftBusy', Registered(b)', desc'[b].status = "busy"
          PROVE  \E t \in SubTasks : Working(t)' /\ work'[t].agent = b
      <4>1. b \notin Members(o) /\ b \notin leftBusy /\ desc'[b] = desc[b]
        BY <2>1, <2>4, <3>1
      <4>2. PICK t \in SubTasks : Working(t) /\ work[t].agent = b
        BY <1>1, <3>1, <4>1 DEF BusyAgentIsWorking, Registered
      <4> QED
        BY <1>3, <1>4, <4>2
    <3> QED
      BY <3>1 DEF BusyAgentIsWorking
  <2>5. QED
    BY <1>2, <2>3, <2>6 DEF Inv
<1>7. QED
  BY <1>5, <1>6 DEF OrchStep, PlanReady, PlanFails, Synthesize

LEMMA UnchangedCore ==
    ASSUME CoreInv, UNCHANGED <<orchVars, work, result>>
    PROVE  CoreInv'
<1>1. /\ phase' = phase /\ status' = status /\ cursor' = cursor
      /\ permits' = permits /\ total' = total
    BY DEF orchVars
<1>2. StateOK' /\ \A s \in SubTasks : SubTaskInv(s)'
  BY <1>1 DEF CoreInv, StateOK, SubTaskInv, Working
<1>3. ASSUME NEW o \in Orchs PROVE OrchInv(o)'
  <2>1. OrchInv(o) /\ InFlight(o)' = InFlight(o)
    BY DEF CoreInv, InFlight, Working
  <2>2. EarlyInv(o)' /\ VerdictInv(o)' /\ BudgetInv(o)' /\ PermitsInv(o)'
    BY <1>1, <2>1 DEF OrchInv, EarlyInv, VerdictInv, BudgetInv, PermitsInv
  <2>3. LoopInv(o)'
    BY <1>1, <2>1 DEF OrchInv, LoopInv, Active
  <2>4. QED
    BY <2>2, <2>3 DEF OrchInv
<1>4. QED
  BY <1>2, <1>3 DEF CoreInv

LEMMA TimePassesInv ==
    ASSUME Inv, TimePasses
    PROVE  Inv'
<1>1. CoreInv'
  BY UnchangedCore DEF Inv, TimePasses
<1>2. desc' = Older /\ UNCHANGED <<client, work, leftBusy>>
  BY DEF TimePasses, Tick
<1>3. \A a \in Agents : /\ desc'[a] \in Descriptor \cup {Absent}
                        /\ Registered(a)' /\ desc'[a].status = "busy" =>
                              Registered(a) /\ desc[a].status = "busy"
  <2>1. ASSUME NEW a \in Agents, Registered(a), desc[a].age < HeartbeatTimeout
        PROVE  /\ desc'[a] \in Descriptor
               /\ desc'[a].status = desc[a].status
    <3>1. desc[a] \in Descriptor
      BY <2>1 DEF Inv, AgentsOK, Registered
    <3>2. desc'[a] = [desc[a] EXCEPT !.age = @ + 1]
      BY <1>2, <2>1 DEF Older
    <3>3. desc[a].age + 1 \in Ages
      BY <2>1, <3>1, TimeoutAssumption DEF Descriptor, Ages
    <3>4. QED
      BY <3>1, <3>2, <3>3 DEF Descriptor
  <2>2. ASSUME NEW a \in Agents, ~(Registered(a) /\ desc[a].age < HeartbeatTimeout)
        PROVE  desc'[a] = desc[a] /\ desc[a] \in Descriptor \cup {Absent}
    BY <1>2, <2>2 DEF Older, Inv, AgentsOK
  <2>3. QED
    BY <2>1, <2>2 DEF Registered
<1>4. desc' \in [Agents -> Descriptor \cup {Absent}]
  BY <1>2, <1>3 DEF Older
<1>5. BusyAgentIsWorking'
  BY <1>2, <1>3 DEF Inv, BusyAgentIsWorking, Working
<1>6. QED
  BY <1>1, <1>2, <1>4, <1>5 DEF Inv, AgentsOK

LEMMA InitInv == ASSUME Init PROVE Inv
<1>1. StateOK
  <2>1. NoAttempt \in Attempt
    BY DEF NoAttempt, Attempt, Places, MaxRetries
  <2>2. QED
    BY <2>1 DEF Init, StateOK
<1>2. \A s \in SubTasks : SubTaskInv(s) /\ ~Working(s) /\ ~Active(s) /\ work[s].at = "pending"
  BY DEF Init, NoAttempt, SubTaskInv, Working, Active
<1>3. ASSUME NEW o \in Orchs PROVE OrchInv(o)
  <2>1. /\ phase[o] = "new" /\ status[o] = "running" /\ cursor[o] = 1
        /\ permits[o] = 0 /\ total[o] = 0 /\ Mine(o) \subseteq SubTasks
    BY DEF Init, Mine
  <2>2. EarlyInv(o) /\ VerdictInv(o)
    BY <1>2, <2>1 DEF EarlyInv, VerdictInv
  <2>3. LoopInv(o)
    BY <1>2, <2>1, QueueType DEF LoopInv
  <2>4. Config[o].token_budget \in Nat /\ Config[o].max_concurrency \in Nat
    BY BudgetType
  <2>5. InFlight(o) = {}
    BY <1>2, <2>1 DEF InFlight
  <2>6. BudgetInv(o) /\ PermitsInv(o)
    BY <2>1, <2>4, <2>5, FS_EmptySet DEF BudgetInv, PermitsInv
  <2>7. QED
    BY <2>2, <2>3, <2>6 DEF OrchInv
<1>4. AgentsOK /\ BusyAgentIsWorking
  BY DEF Init, RegInit, AgentsOK, BusyAgentIsWorking, Registered
<1>5. QED
  BY <1>1, <1>2, <1>3, <1>4 DEF Inv, CoreInv

LEMMA NextInv == ASSUME Inv, [Next]_vars PROVE Inv'
<1>1. CASE \E o \in Orchs : OrchStep(o)
  BY <1>1, OrchStepInv
<1>2. CASE \E s \in SubTasks : SubTaskStep(s)
  BY <1>2, SubTaskStepInv
<1>3. CASE TimePasses
  BY <1>3, TimePassesInv
<1>4. CASE UNCHANGED vars
  <2>1. CoreInv'
    BY <1>4, UnchangedCore DEF vars, Inv
  <2>2. AgentsOK' /\ BusyAgentIsWorking'
    BY <1>4 DEF vars, Inv, AgentsOK, BusyAgentIsWorking, Registered, Working
  <2>3. QED
    BY <2>1, <2>2 DEF Inv
<1>5. QED
  BY <1>1, <1>2, <1>3, <1>4 DEF Next, Quiet

\* The inductive invariant holds of every run.
THEOREM Invariance == Spec => []Inv
<1>1. Init => Inv
  BY InitInv
<1>2. Inv /\ [Next]_vars => Inv'
  BY NextInv
<1>3. QED
  BY <1>1, <1>2, PTL DEF Spec

-----------------------------------------------------------------------------
(* What it implies.                                                         *)

\* Every variable of the coordinator keeps its type.
THEOREM TypeCorrect == Spec => []TypeOK
<1>1. Inv => TypeOK
  BY DEF Inv, CoreInv, StateOK, AgentsOK, TypeOK
<1>2. QED
  BY <1>1, Invariance, PTL

\* For any number of orchestrations and agents: whatever way a run ends, its
\* finally block leaves no agent busy behind it, unless runtime.close raises.
THEOREM BusyAgentsAreWorking == Spec => []BusyAgentIsWorking
<1>1. Inv => BusyAgentIsWorking
  BY DEF Inv
<1>2. QED
  BY <1>1, Invariance, PTL

\* Only the sub-task at the cursor of its loop can be in progress.
THEOREM LoopsAreSequential == Spec => []OneAtATime
<1>1. Inv => OneAtATime
  BY DEF Inv, CoreInv, OrchInv, LoopInv, Active, OneAtATime
<1>2. QED
  BY <1>1, Invariance, PTL

\* A permit is held by every sub-task in flight, so there are never more than
\* the semaphore had.
THEOREM SemaphoreHolds == Spec => []SemaphoreBound
<1>1. ASSUME Inv, NEW o \in Orchs, Strategy(o) = "parallel"
      PROVE  Cardinality(InFlight(o)) <= Config[o].max_concurrency
  <2>1. permits[o] + Cardinality(InFlight(o)) <= Config[o].max_concurrency
    BY <1>1 DEF Inv, CoreInv, OrchInv, PermitsInv
  <2>2. permits[o] \in Nat /\ Config[o].max_concurrency \in Nat
    BY <1>1, BudgetType DEF Inv, CoreInv, StateOK
  <2>3. Cardinality(InFlight(o)) \in Nat
    <3>1. InFlight(o) \subseteq SubTasks
      BY DEF InFlight, Mine
    <3>2. QED
      BY <3>1, PlanAssumption, FS_Subset, FS_CardinalityType
  <2>4. QED
    BY <2>1, <2>2, <2>3
<1>2. Inv => SemaphoreBound
  BY <1>1 DEF SemaphoreBound
<1>3. QED
  BY <1>2, Invariance, PTL

\* The step that takes the counter past the budget fails the orchestration,
\* and nothing un-fails it, the siblings that go on included.
THEOREM BudgetIsEnforced == Spec => []OverBudgetFails
<1>1. Inv => OverBudgetFails
  BY DEF Inv, CoreInv, OrchInv, BudgetInv, OverBudgetFails
<1>2. QED
  BY <1>1, Invariance, PTL

\* A success is final: a result that is ok belongs to a sub-task that is over
\* (or under a supervisor), and no action starts one that is over.
THEOREM SuccessIsFinal == Spec => NoRerunOfSuccess
<1> DEFINE NoRerun == \A s \in SubTasks :
              Strategy(Owner[s]) # "supervisor" /\ result[s] # NoResult /\ result[s].ok
              => work'[s].at # "running"
<1>1. ASSUME Inv, [Next]_vars, NEW s \in SubTasks,
             Strategy(Owner[s]) # "supervisor", result[s] # NoResult, result[s].ok
      PROVE  work'[s].at # "running"
  <2>1. work[s].at = "ended"
    <3>1. SubTaskInv(s) /\ work[s].at \in Places /\ work[s].tries \in 0 .. MaxRetries
      BY <1>1 DEF Inv, CoreInv, StateOK, Attempt
    <3>2. ~(work[s].tries > 0)
      BY <1>1, <3>1 DEF SubTaskInv
    <3>3. work[s].tries = 0
      BY <3>1, <3>2
    <3>4. QED
      BY <1>1, <3>1, <3>2, <3>3 DEF SubTaskInv, Places
  <2>2. ASSUME NEW t \in SubTasks, SubTaskStep(t)
        PROVE  work'[s] = work[s]
    <3>1. t # s
      BY <2>1, <2>2 DEF SubTaskStep, Dispatch, NoDispatch, RunEnds, Closes, CloseRaises, Wake, Approve,
                        Reject, Turn
    <3>2. Kept(t)
      BY <1>1, <2>2, DispatchKept, NoDispatchKept, RunEndsKept, ClosesKept, CloseRaisesKept, WakeKept,
         ReviewKept DEF SubTaskStep, Inv
    <3>3. QED
      BY <3>1, <3>2 DEF Kept, Frame
  <2>3. ASSUME \/ \E o \in Orchs : OrchStep(o)
               \/ TimePasses \/ Quiet \/ UNCHANGED vars
        PROVE  work' = work
    BY <2>3 DEF OrchStep, Accept, PlanReady, PlanFails, Synthesize, TimePasses, Quiet, vars
  <2>4. QED
    BY <1>1, <2>1, <2>2, <2>3 DEF Next
<1>2. Inv /\ [Next]_vars => [NoRerun]_vars
  BY <1>1
<1>3. QED
  BY <1>2, Invariance, PTL DEF Spec, NoRerunOfSuccess

-----------------------------------------------------------------------------
(* The coordinator implements the contract.                                 *)

Success(s) == result[s] # NoResult /\ result[s].ok

\* What the caller sees of orchestration o.
Seen(o) == IF phase[o] = "new" THEN "none" ELSE status[o]

\* A step of sub-task s takes back neither a verdict nor a request.
LEMMA VerdictIsFinal ==
    ASSUME Inv, NEW s \in SubTasks, SubTaskStep(s)
    PROVE  /\ phase[Owner[s]] # "new" /\ phase'[Owner[s]] # "new"
           /\ status[Owner[s]] # "completed"
           /\ status[Owner[s]] # "running" => status'[Owner[s]] = status[Owner[s]]
<1> DEFINE o == Owner[s]
<1>1. o \in Orchs /\ s \in Mine(o)
  BY OwnerType
<1>2. CoreInv /\ StateOK /\ OrchInv(o) /\ SubTaskInv(s)
  BY <1>1 DEF Inv, CoreInv
<1>3. work[s].at # "ended"
  BY DEF SubTaskStep, Dispatch, NoDispatch, RunEnds, Closes, CloseRaises, Wake, Approve, Reject, Turn
<1>4. status[o] # "completed"
  BY <1>1, <1>2, <1>3 DEF OrchInv, VerdictInv
<1>5. CASE UNCHANGED <<phase, status>> /\ (Turn(s) \/ work[s].at # "pending")
  <2>1. phase[o] # "new"
    BY <1>1, <1>2, <1>5, TurnReady DEF Ready, OrchInv, EarlyInv
  <2>2. QED
    BY <1>4, <1>5, <2>1
<1>6. ASSUME NEW ok \in BOOLEAN, NEW n \in Nat, Ready(s), Returns(s, ok, n)
      PROVE  /\ phase[o] # "new" /\ phase'[o] # "new"
             /\ status[o] # "running" => status'[o] = status[o]
  <2>1. phase[o] # "new"
    BY <1>6 DEF Ready
  <2>2. CASE Strategy(o) # "parallel"
    <3>1. phase[o] = "working" /\ status[o] = "running"
      BY <1>2, <1>6, <2>2 DEF Ready, OrchInv, VerdictInv
    <3>2. phase'[o] # "new"
      BY <1>1, <1>2, <1>6, <2>2, <3>1
         DEF Returns, SequentialReturn, RetryReturn, ParallelReturn, SupervisedReturn,
             ReworkReturn, Advance, Conclude, StateOK
    <3>3. QED
      BY <3>1, <3>2
  <2>3. CASE Strategy(o) = "parallel"
    <3>1. ParallelReturn(s, ok, n)
      BY <1>6, <2>3 DEF Returns, SequentialReturn, RetryReturn, SupervisedReturn, ReworkReturn
    <3>2. status[o] # "running" => phase[o] = "done"
      BY <1>2 DEF OrchInv, VerdictInv
    <3>3. QED
      BY <1>1, <1>2, <2>1, <3>1, <3>2 DEF ParallelReturn, Conclude, StateOK
  <2>4. QED
    BY <2>2, <2>3
<1>7. CASE Dispatch(s) \/ RunEnds(s) \/ Reject(s)
  BY <1>5, <1>7 DEF Dispatch, RunEnds, Reject, orchVars
<1>8. CASE NoDispatch(s)
  BY <1>2, <1>4, <1>6, <1>8, TurnReady DEF NoDispatch
<1>9. CASE Closes(s)
  <2>1. work[s].ok \in BOOLEAN /\ work[s].tokens \in Nat
    BY <1>2 DEF StateOK, Attempt
  <2>2. QED
    BY <1>2, <1>4, <1>6, <1>9, <2>1, TurnReady DEF Closes, Working
<1>10. CASE Wake(s) \/ Approve(s)
  <2>1. Strategy(o) # "parallel" /\ work[s].at \in {"asleep", "review"}
    BY <1>2, <1>10 DEF Wake, Approve, SubTaskInv
  <2>2. phase[o] = "working" /\ status[o] = "running"
    BY <1>1, <1>2, <2>1 DEF OrchInv, LoopInv, Active, VerdictInv
  <2>3. phase'[o] # "new"
    BY <1>1, <1>2, <1>10, <2>2 DEF Wake, Approve, Advance, Conclude, StateOK
  <2>4. QED
    BY <1>4, <2>2, <2>3
<1>11. CASE CloseRaises(s)
  <2>1. PICK n \in Nat : Ready(s) /\ Returns(s, FALSE, n)
    BY <1>2, <1>11, CloseRaisesReturns
  <2> QED
    BY <1>4, <1>6, <2>1
<1>12. QED
  BY <1>7, <1>8, <1>9, <1>10, <1>11 DEF SubTaskStep

\* Nor does it take back a success: only a rework follows one, and it keeps it.
LEMMA SuccessKept ==
    ASSUME Inv, NEW s \in SubTasks, SubTaskStep(s), Success(s)
    PROVE  Success(s)'
<1>1. CoreInv /\ StateOK /\ SubTaskInv(s)
  BY DEF Inv, CoreInv
<1>2. work[s].tries \in 0 .. MaxRetries /\ result[s] \in Outcome
  BY <1>1 DEF StateOK, Attempt, Success
<1>3. CASE result' = result
  BY <1>3 DEF Success
<1>4. ASSUME work[s].at \in {"pending", "running", "closing"}, NEW ok \in BOOLEAN, NEW n \in Nat,
             Returns(s, ok, n)
      PROVE  Success(s)'
  <2>1. work[s].tries > 0 /\ Strategy(Owner[s]) = "supervisor"
    <3>1. work[s].tries # 0
      BY <1>1, <1>4 DEF SubTaskInv, Success
    <3>2. work[s].tries > 0
      BY <1>2, <3>1
    <3>3. result[s].ok = (Strategy(Owner[s]) = "supervisor")
      BY <1>1, <3>2 DEF SubTaskInv
    <3>4. QED
      BY <3>2, <3>3 DEF Success
  <2>2. ReworkReturn(s, ok, n)
    BY <1>4, <2>1 DEF Returns, SequentialReturn, RetryReturn, ParallelReturn, SupervisedReturn
  <2>3. result' = IF ok THEN Record(s, TRUE, result[s].tokens + n) ELSE result
    BY <2>2 DEF ReworkReturn, Advance
  <2>4. CASE ok
    <3>1. result[s].tokens + n \in Nat
      BY <1>2 DEF Outcome
    <3>2. result'[s] \in Outcome /\ result'[s].ok = TRUE
      BY <1>1, <2>3, <2>4, <3>1, RecordType
    <3>3. QED
      BY <3>2, ConfigAssumption DEF Success
  <2>5. CASE ~ok
    BY <1>3, <2>3, <2>5
  <2>6. QED
    BY <2>4, <2>5
<1>5. CASE Wake(s)
  <2>1. Strategy(Owner[s]) = "sequential" /\ work[s].tries > 0
    BY <1>1, <1>5 DEF Wake, SubTaskInv
  <2>2. QED
    BY <1>1, <2>1 DEF SubTaskInv, Success
<1>6. CASE Closes(s)
  <2>1. work[s].ok \in BOOLEAN /\ work[s].tokens \in Nat
    BY <1>1 DEF StateOK, Attempt
  <2>2. QED
    BY <1>4, <1>6, <2>1 DEF Closes
<1>7. CASE NoDispatch(s)
  BY <1>4, <1>7 DEF NoDispatch, Turn
<1>8. CASE Dispatch(s) \/ RunEnds(s) \/ Approve(s) \/ Reject(s)
  BY <1>3, <1>8 DEF Dispatch, RunEnds, Approve, Reject, Advance
<1>9. CASE CloseRaises(s)
  BY <1>1, <1>4, <1>9, CloseRaisesReturns DEF Ready
<1>10. QED
  BY <1>5, <1>6, <1>7, <1>8, <1>9 DEF SubTaskStep

\* A step that moves the verdict of o alone, and the success of s at most.
LEMMA ConcludeStep ==
    ASSUME Inv, Inv', NEW o \in Orchs, NEW S \in {{}} \cup {{s} : s \in Mine(o)},
           Seen(o) = "running", Seen(o)' \in {"completed", "failed"},
           \A q \in Orchs : q # o => Seen(q)' = Seen(q),
           {s \in SubTasks : Success(s)}' = {s \in SubTasks : Success(s)} \cup S
    PROVE  Contract!Conclude(o)
<1>1. Contract!Conclude(o) <=>
        /\ [q \in Orchs |-> Seen(q)][o] = "running"
        /\ \E T \in {{}} \cup {{s} : s \in Mine(o)} :
              {s \in SubTasks : Success(s)}' = {s \in SubTasks : Success(s)} \cup T
        /\ \E v \in {"completed", "failed"} :
              /\ v = "completed" => \A s \in SubTasks : Owner[s] = o =>
                    s \in {t \in SubTasks : Success(t)}'
              /\ [q \in Orchs |-> Seen(q)]' =
                    [[q \in Orchs |-> Seen(q)] EXCEPT ![o] = v]
  BY DEF Contract!Conclude, Seen, Success, Mine
<1>2. [q \in Orchs |-> Seen(q)]' = [[q \in Orchs |-> Seen(q)] EXCEPT ![o] = Seen(o)']
  BY Zenon
<1>3. Seen(o)' = "completed" => \A s \in SubTasks : Owner[s] = o => Success(s)'
  <2>1. OrchInv(o)' /\ \A s \in SubTasks : SubTaskInv(s)'
    BY DEF Inv, CoreInv
  <2>2. Seen(o)' = "completed" => \A s \in Mine(o) : work'[s].at = "ended" /\ result'[s].ok
    BY <2>1 DEF Seen, OrchInv, VerdictInv
  <2>3. QED
    BY <2>1, <2>2, ConfigAssumption DEF SubTaskInv, Success, Mine
<1>4. QED
  BY <1>1, <1>2, <1>3

LEMMA ContractSubTaskStep ==
    ASSUME Inv, Inv', NEW s \in SubTasks, SubTaskStep(s)
    PROVE  Contract!Next \/ UNCHANGED Contract!contractVars
<1> DEFINE o == Owner[s]
           done == {t \in SubTasks : Success(t)}
<1>1. o \in Orchs /\ s \in Mine(o)
  BY OwnerType
<1>2. Kept(s)
  BY DispatchKept, NoDispatchKept, RunEndsKept, ClosesKept, CloseRaisesKept, WakeKept, ReviewKept
     DEF SubTaskStep, Inv
<1>3. /\ \A t \in SubTasks : t # s => Success(t)' = Success(t)
      /\ \A q \in Orchs : q # o => Seen(q)' = Seen(q)
  BY <1>2 DEF Kept, Frame, Success, Seen
<1>4. /\ Seen(o) = status[o] /\ Seen(o)' = status'[o]
      /\ Seen(o) # "completed"
      /\ Seen(o) # "running" => Seen(o)' = Seen(o)
  BY VerdictIsFinal DEF Seen
<1>5. /\ Seen(o) \in {"running", "failed"}
      /\ Seen(o)' \in {"running", "completed", "failed"}
  BY <1>1, <1>4 DEF Inv, CoreInv, StateOK
<1>6. PICK S \in {{}, {s}} : done' = done \cup S
  <2>1. CASE Success(s)' <=> Success(s)
    BY <1>3, <2>1
  <2>2. CASE ~(Success(s)' <=> Success(s))
    <3>1. ~Success(s) /\ Success(s)'
      BY <2>2, SuccessKept
    <3>2. done' = done \cup {s}
      BY <1>3, <3>1
    <3>3. QED
      BY <3>2
  <2>3. QED
    BY <2>1, <2>2
<1>7. CASE Seen(o)' = Seen(o)
  <2>1. [q \in Orchs |-> Seen(q)]' = [q \in Orchs |-> Seen(q)]
    BY <1>3, <1>7, Zenon
  <2>2. CASE S = {}
    <3>1. done' = done
      BY <1>6, <2>2
    <3>2. QED
      BY <2>1, <3>1 DEF Contract!contractVars, Seen, Success
  <2>3. CASE S = {s}
    <3>1. done' = done \cup {s}
      BY <1>6, <2>3
    <3>2. [q \in Orchs |-> Seen(q)][o] \in {"running", "failed"}
      BY <1>1, <1>5
    <3>3. Contract!Succeed(s)
      BY <2>1, <3>1, <3>2 DEF Contract!Succeed, Seen, Success
    <3>4. QED
      BY <3>3 DEF Contract!Next
  <2>4. QED
    BY <2>2, <2>3
<1>8. CASE Seen(o)' # Seen(o)
  <2>1. Seen(o) = "running" /\ Seen(o)' \in {"completed", "failed"}
    BY <1>4, <1>5, <1>8
  <2>2. S \in {{}} \cup {{t} : t \in Mine(o)}
    BY <1>1
  <2>3. Contract!Conclude(o)
    BY <1>1, <1>3, <1>6, <2>1, <2>2, ConcludeStep
  <2>4. QED
    BY <1>1, <2>3 DEF Contract!Next
<1>9. QED
  BY <1>7, <1>8

LEMMA ContractOrchStep ==
    ASSUME Inv, Inv', NEW o \in Orchs, OrchStep(o)
    PROVE  Contract!Next \/ UNCHANGED Contract!contractVars
<1> DEFINE done == {t \in SubTasks : Success(t)}
<1>1. done' = done
  BY DEF OrchStep, Accept, PlanReady, PlanFails, Synthesize, Success
<1>2. StateOK /\ OrchInv(o)
  BY DEF Inv, CoreInv
<1>3. CASE Accept(o)
  <2>1. Seen(o) = "none" /\ Seen(o)' = "running"
    BY <1>2, <1>3 DEF Seen, Accept, StateOK, OrchInv, VerdictInv
  <2>2. \A q \in Orchs : q # o => Seen(q)' = Seen(q)
    BY <1>2, <1>3 DEF Seen, Accept, StateOK
  <2>3. [q \in Orchs |-> Seen(q)]' = [[q \in Orchs |-> Seen(q)] EXCEPT ![o] = "running"]
    BY <2>1, <2>2, Zenon
  <2>4. [q \in Orchs |-> Seen(q)][o] = "none"
    BY <2>1
  <2>5. Contract!Accept(o)
    BY <1>1, <2>3, <2>4 DEF Contract!Accept, Seen, Success
  <2>6. QED
    BY <2>5 DEF Contract!Next
<1>4. CASE PlanReady(o)
  <2>1. \A q \in Orchs : Seen(q)' = Seen(q)
    BY <1>2, <1>4 DEF Seen, PlanReady, StateOK
  <2>2. [q \in Orchs |-> Seen(q)]' = [q \in Orchs |-> Seen(q)]
    BY <2>1, Zenon
  <2>3. QED
    BY <1>1, <2>2 DEF Contract!contractVars, Seen, Success
<1>5. CASE PlanFails(o) \/ Synthesize(o)
  <2>1. Verdict(o, result) \in {"completed", "failed"}
    BY DEF Verdict
  <2>2. Seen(o) = "running" /\ Seen(o)' \in {"completed", "failed"}
    BY <1>2, <1>5, <2>1
       DEF Seen, PlanFails, Synthesize, Conclude, StateOK, OrchInv, VerdictInv
  <2>3. \A q \in Orchs : q # o => Seen(q)' = Seen(q)
    BY <1>2, <1>5 DEF Seen, PlanFails, Synthesize, Conclude, StateOK
  <2>4. done' = done \cup {} /\ {} \in {{}} \cup {{t} : t \in Mine(o)}
    BY <1>1
  <2>5. Contract!Conclude(o)
    BY <2>2, <2>3, <2>4, ConcludeStep
  <2>6. QED
    BY <2>5 DEF Contract!Next
<1>6. QED
  BY <1>3, <1>4, <1>5 DEF OrchStep

\* Whatever the strategy, the fallbacks and the interleaving, the caller gets
\* at most one verdict and never an undeserved "completed".
THEOREM Refinement == Spec => KeepsContract
<1>1. Init => Contract!Init
  <2>1. ASSUME Init
        PROVE  /\ [o \in Orchs |-> Seen(o)] = [o \in Orchs |-> "none"]
               /\ {s \in SubTasks : Success(s)} = {}
    BY <2>1 DEF Init, Seen, Success
  <2>2. QED
    BY <2>1 DEF Contract!Init, Seen, Success
<1>2. Inv /\ Inv' /\ [Next]_vars => [Contract!Next]_(Contract!contractVars)
  <2>1. ASSUME TimePasses \/ Quiet \/ UNCHANGED vars
        PROVE  UNCHANGED Contract!contractVars
    BY <2>1 DEF TimePasses, Quiet, vars, orchVars, Contract!contractVars
  <2>2. QED
    BY <2>1, ContractSubTaskStep, ContractOrchStep DEF Next
<1>3. QED
  BY <1>1, <1>2, Invariance, PTL DEF Spec, KeepsContract, Contract!Spec

-----------------------------------------------------------------------------
(* Order and failure in a sequence.                                        *)

\* A step starts from a sub-task that is not over, and touches no other.
LEMMA StepOfOne ==
    ASSUME Inv, NEW s \in SubTasks, SubTaskStep(s)
    PROVE  /\ work[s].at # "ended"
           /\ \A t \in SubTasks \ {s} : work'[t] = work[t] /\ result'[t] = result[t]
<1>1. work[s].at # "ended"
  BY DEF SubTaskStep, Dispatch, NoDispatch, RunEnds, Closes, CloseRaises, Wake, Approve, Reject, Turn
<1>2. Kept(s)
  BY DispatchKept, NoDispatchKept, RunEndsKept, ClosesKept, CloseRaisesKept, WakeKept, ReviewKept
     DEF SubTaskStep, Inv
<1> QED
  BY <1>1, <1>2 DEF Kept, Frame

\* Every sub-task is listed after those that it depends on.
InOrder ==
    \A o \in Orchs : \A i \in 1 .. Len(Sorted[o]) :
       DependsOn[Sorted[o][i]] \cap Mine(o) \subseteq {Sorted[o][j] : j \in 1 .. i - 1}

\* If the sort has put dependencies first, which it does unless they are cyclic,
\* every sub-task of a sequence starts after those it depends on are over.
THEOREM DependenciesComeFirst ==
    ASSUME InOrder
    PROVE  Spec => []DependenciesFirst
<1>1. Init => DependenciesFirst
  BY DEF Init, NoAttempt, DependenciesFirst
<1>2. ASSUME Inv, DependenciesFirst, NEW s \in SubTasks, SubTaskStep(s)
      PROVE  DependenciesFirst'
  <2>1. /\ work[s].at # "ended"
        /\ \A t \in SubTasks \ {s} : work'[t] = work[t]
    BY <1>2, StepOfOne
  <2> SUFFICES ASSUME NEW t \in SubTasks, Strategy(Owner[t]) = "sequential", work'[t].at # "pending",
                      NEW d \in DependsOn[t] \cap Mine(Owner[t])
               PROVE  work'[d].at = "ended"
    BY DEF DependenciesFirst
  <2>2. d \in SubTasks
    BY DEF Mine
  <2>3. ASSUME work[t].at # "pending" PROVE work[d].at = "ended"
    BY <1>2, <2>3 DEF DependenciesFirst
  <2>4. ASSUME work[t].at = "pending" PROVE work[d].at = "ended"
    <3>1. t = s
      BY <2>1, <2>4
    <3>2. Turn(s)
      BY <1>2, <2>4, <3>1 DEF SubTaskStep, Dispatch, NoDispatch, RunEnds, Closes, CloseRaises, Wake, Approve, Reject
    <3> DEFINE o == Owner[s]
    <3>3. o \in Orchs /\ Queue(o) = Sorted[o] /\ Sorted[o][cursor[o]] = s
      BY <3>1, <3>2, OwnerType DEF Turn, Queue
    <3>4. /\ cursor[o] \in Nat \ {0} /\ cursor[o] <= Len(Sorted[o]) /\ Len(Sorted[o]) \in Nat
          /\ \A i \in 1 .. Len(Sorted[o]) : i < cursor[o] => work[Sorted[o][i]].at = "ended"
      <4>1. LoopInv(o) /\ cursor[o] \in Nat \ {0} /\ Strategy(o) # "parallel"
        BY <1>2, <3>1, <3>3 DEF Inv, CoreInv, OrchInv, StateOK
      <4>2. Len(Sorted[o]) \in Nat
        BY <3>3, QueueType
      <4> QED
        BY <3>3, <4>1, <4>2 DEF LoopInv
    <3>5. PICK j \in 1 .. cursor[o] - 1 : d = Sorted[o][j]
      BY <3>1, <3>3, <3>4 DEF InOrder
    <3> QED
      BY <3>4, <3>5
  <2>5. work[d].at = "ended"
    BY <2>3, <2>4
  <2> QED
    BY <2>1, <2>2, <2>5
<1>3. ASSUME DependenciesFirst, work' = work PROVE DependenciesFirst'
  BY <1>3 DEF DependenciesFirst
<1>4. Inv /\ DependenciesFirst /\ [Next]_vars => DependenciesFirst'
  <2>1. ASSUME \/ \E o \in Orchs : OrchStep(o)
               \/ TimePasses \/ Quiet \/ UNCHANGED vars
        PROVE  work' = work
    BY <2>1 DEF OrchStep, Accept, PlanReady, PlanFails, Synthesize, TimePasses, Quiet, vars
  <2> QED
    BY <1>2, <1>3, <2>1 DEF Next
<1> QED
  BY <1>1, <1>4, Invariance, PTL DEF Spec

\* A sequence with fallback "error": no attempt is repeated, and a failure has
\* ended it.
StopsAtFailure(s) ==
    Strategy(Owner[s]) = "sequential" /\ Config[Owner[s]].fallback_behavior = "error" =>
       /\ work[s].tries = 0
       /\ work[s].at = "ended" /\ ~result[s].ok => status[Owner[s]] = "failed"

LEMMA StopsAtFailureKept ==
    ASSUME Inv, NEW s \in SubTasks, SubTaskStep(s), StopsAtFailure(s),
           Strategy(Owner[s]) = "sequential", Config[Owner[s]].fallback_behavior = "error"
    PROVE  work'[s].tries = 0 /\ (work'[s].at = "ended" /\ ~result'[s].ok => status'[Owner[s]] = "failed")
<1>1. StateOK /\ SubTaskInv(s) /\ work[s].tries = 0 /\ Owner[s] \in Orchs /\ work[s] \in Attempt
  BY OwnerType DEF Inv, CoreInv, StopsAtFailure, StateOK
<1>2. work[s].at # "asleep" /\ work[s].at # "review"
  BY <1>1 DEF SubTaskInv
<1>3. CASE Dispatch(s) \/ RunEnds(s)
  <2>1. CASE Dispatch(s)
    <3>1. PICK a \in Members(Owner[s]) :
             work' = [work EXCEPT ![s].at = "running", ![s].agent = a, ![s].live = Usable]
      BY <2>1 DEF Dispatch
    <3> QED
      BY <1>1, <3>1 DEF StateOK, Attempt
  <2>2. CASE RunEnds(s)
    <3>1. PICK ok \in BOOLEAN, n \in TokenCounts \cup {0} :
             work' = [work EXCEPT ![s].at = "closing", ![s].ok = ok, ![s].tokens = n]
      BY <2>2 DEF RunEnds
    <3> QED
      BY <1>1, <3>1 DEF StateOK, Attempt
  <2> QED
    BY <1>3, <2>1, <2>2
<1>4. ASSUME NEW ok \in BOOLEAN, NEW n \in Nat, Returns(s, ok, n)
      PROVE  work'[s].tries = 0 /\ (work'[s].at = "ended" /\ ~result'[s].ok => status'[Owner[s]] = "failed")
  <2>1. SequentialReturn(s, ok, n)
    BY <1>1, <1>4 DEF Returns, RetryReturn, ParallelReturn, SupervisedReturn, ReworkReturn
  <2>2. CASE work' = Move(s, "ended", 0) /\ Conclude(Owner[s], "failed")
    BY <1>1, <2>2 DEF Conclude, StateOK, Move, NoAttempt
  <2>3. CASE ok /\ Advance(s, Record(s, ok, n))
    BY <1>1, <2>3 DEF Advance, Record, StateOK, Move, NoAttempt
  <2> QED
    BY <2>1, <2>2, <2>3 DEF SequentialReturn
<1>5. CASE Closes(s)
  BY <1>1, <1>4, <1>5 DEF Closes, Attempt
<1>6. CASE NoDispatch(s)
  BY <1>4, <1>6 DEF NoDispatch
<1>7. CASE CloseRaises(s)
  <2>1. CoreInv
    BY DEF Inv
  <2> QED
    BY <1>4, <1>7, <2>1, CloseRaisesReturns
<1> QED
  BY <1>2, <1>3, <1>5, <1>6, <1>7 DEF SubTaskStep, Wake, Approve, Reject

\* With fallback "error" the first failure ends a sequence: it has failed, and
\* nothing of it starts or goes on afterwards.
THEOREM FailureEndsSequence == Spec => []FailureStopsSequence
<1> DEFINE AllStop == \A s \in SubTasks : StopsAtFailure(s)
<1>1. Init => AllStop
  BY DEF Init, NoAttempt, StopsAtFailure
<1>2. ASSUME Inv, AllStop, NEW s \in SubTasks, SubTaskStep(s), NEW t \in SubTasks
      PROVE  StopsAtFailure(t)'
  <2>1. CASE t = s
    BY <1>2, <2>1, StopsAtFailureKept DEF StopsAtFailure
  <2>2. CASE t # s
    <3>1. work'[t] = work[t] /\ result'[t] = result[t] /\ Owner[t] \in Orchs
      BY <1>2, <2>2, StepOfOne, OwnerType
    <3>2. status[Owner[t]] = "failed" => status'[Owner[t]] = "failed"
      <4>1. CASE Owner[t] = Owner[s]
        BY <1>2, <4>1, VerdictIsFinal
      <4>2. CASE Owner[t] # Owner[s]
        <5>1. Kept(s)
          BY <1>2, DispatchKept, NoDispatchKept, RunEndsKept, ClosesKept, CloseRaisesKept, WakeKept, ReviewKept
             DEF SubTaskStep, Inv
        <5> QED
          BY <3>1, <4>2, <5>1 DEF Kept, Frame
      <4> QED
        BY <4>1, <4>2
    <3> QED
      BY <1>2, <3>1, <3>2 DEF StopsAtFailure
  <2> QED
    BY <2>1, <2>2
<1>3. ASSUME Inv, AllStop, NEW o \in Orchs, OrchStep(o), NEW t \in SubTasks
      PROVE  StopsAtFailure(t)'
  <2>1. work' = work /\ result' = result /\ StateOK
    BY <1>3 DEF OrchStep, Accept, PlanReady, PlanFails, Synthesize, Inv, CoreInv
  <2>2. status[Owner[t]] = "failed" => status'[Owner[t]] = "failed"
    <3>1. Owner[t] \in Orchs /\ VerdictInv(Owner[t])
      BY <1>3, OwnerType DEF Inv, CoreInv, OrchInv
    <3> QED
      BY <1>3, <2>1, <3>1 DEF OrchStep, Accept, PlanReady, PlanFails, Synthesize, Conclude, VerdictInv, StateOK
  <2> QED
    BY <1>3, <2>1, <2>2 DEF StopsAtFailure
<1>4. ASSUME AllStop, UNCHANGED <<work, result, status>> PROVE AllStop'
  BY <1>4 DEF StopsAtFailure
<1>5. Inv /\ AllStop /\ [Next]_vars => AllStop'
  <2>1. ASSUME TimePasses \/ Quiet \/ UNCHANGED vars PROVE UNCHANGED <<work, result, status>>
    BY <2>1 DEF TimePasses, Quiet, vars, orchVars
  <2> QED
    BY <1>2, <1>3, <1>4, <2>1 DEF Next
<1>6. Inv /\ AllStop => FailureStopsSequence
  <2> SUFFICES ASSUME Inv, AllStop, NEW o \in Orchs,
                      Strategy(o) = "sequential", Config[o].fallback_behavior = "error",
                      NEW f \in Mine(o), work[f].at = "ended", ~result[f].ok
               PROVE  /\ phase[o] = "done" /\ status[o] = "failed"
                      /\ \A s \in Mine(o) : work[s].at \in {"pending", "ended"}
    BY DEF FailureStopsSequence
  <2>1. status[o] = "failed"
    BY DEF StopsAtFailure, Mine
  <2>2. phase[o] = "done"
    BY <2>1 DEF Inv, CoreInv, OrchInv, VerdictInv
  <2>3. \A s \in Mine(o) : ~Active(s)
    BY <2>2 DEF Inv, CoreInv, OrchInv, LoopInv
  <2> QED
    BY <2>1, <2>2, <2>3 DEF Active
<1> QED
  BY <1>1, <1>5, <1>6, Invariance, PTL DEF Spec

-----------------------------------------------------------------------------
(* Sums of tokens.                                                          *)

\* One pebble for each token of each result: a sum is a number of pebbles.
Pebbles(res, S) == {p \in S \X Nat : p[2] \in 1 .. res[p[1]].tokens}

LEMMA PebblesAdd ==
    ASSUME NEW res, NEW S, NEW s, s \notin S, res[s].tokens \in Nat, IsFiniteSet(Pebbles(res, S))
    PROVE  /\ IsFiniteSet(Pebbles(res, S \cup {s}))
           /\ Cardinality(Pebbles(res, S \cup {s})) = res[s].tokens + Cardinality(Pebbles(res, S))
<1> DEFINE more == {s} \X (1 .. res[s].tokens)
<1>1. Pebbles(res, S \cup {s}) = Pebbles(res, S) \cup more /\ Pebbles(res, S) \cap more = {}
  BY DEF Pebbles
<1>2. IsFiniteSet(1 .. res[s].tokens) /\ Cardinality(1 .. res[s].tokens) = res[s].tokens
  <2>1. \A n \in Nat : IsFiniteSet(1 .. n) /\ Cardinality(1 .. n) = IF 1 > n THEN 0 ELSE n - 1 + 1
    BY FS_Interval
  <2>2. \A n \in Nat : IsFiniteSet(1 .. n) /\ Cardinality(1 .. n) = n
    BY <2>1
  <2> QED
    BY <2>2
<1>3. IsFiniteSet({s}) /\ Cardinality({s}) = 1
  BY FS_Singleton
<1>4. IsFiniteSet(more) /\ Cardinality(more) = res[s].tokens
  <2>1. /\ IsFiniteSet(more)
        /\ Cardinality(more) = Cardinality({s}) * Cardinality(1 .. res[s].tokens)
    BY ONLY <1>2, <1>3, FS_Product, Zenon
  <2>2. Cardinality(more) = 1 * res[s].tokens
    BY ONLY <1>2, <1>3, <2>1, Zenon
  <2>3. \A n \in Nat : 1 * n = n
    OBVIOUS
  <2> QED
    BY <2>1, <2>2, <2>3
<1> HIDE DEF more
<1>5. /\ IsFiniteSet(Pebbles(res, S) \cup more)
      /\ Cardinality(Pebbles(res, S) \cup more) =
            Cardinality(Pebbles(res, S)) + Cardinality(more) - Cardinality(Pebbles(res, S) \cap more)
  BY <1>4, FS_Union
<1>6. Cardinality({}) = 0 /\ Cardinality(Pebbles(res, S)) \in Nat
  BY FS_EmptySet, FS_CardinalityType
<1>7. Cardinality(Pebbles(res, S) \cup more) = res[s].tokens + Cardinality(Pebbles(res, S))
  <2>1. Cardinality(Pebbles(res, S) \cup more) = Cardinality(Pebbles(res, S)) + res[s].tokens - 0
    BY <1>1, <1>4, <1>5, <1>6
  <2>2. Cardinality(Pebbles(res, S)) \in Nat
    BY <1>6
  <2> QED
    BY ONLY <2>1, <2>2, res[s].tokens \in Nat
<1> QED
  BY <1>1, <1>5, <1>7, Zenon

LEMMA EmptyPebbles ==
    ASSUME NEW res
    PROVE  Pebbles(res, {}) = {} /\ IsFiniteSet(Pebbles(res, {})) /\ Cardinality(Pebbles(res, {})) = 0
<1>1. Pebbles(res, {}) = {}
  BY DEF Pebbles
<1> QED
  BY <1>1, FS_EmptySet

\* Induction: a set of subsets of S has all of them, if it has the empty one
\* and grows by one element.
LEMMA SubsetsByOne ==
    ASSUME NEW S, IsFiniteSet(S), NEW good \in SUBSET SUBSET S, {} \in good,
           \A T \in SUBSET S : T # {} /\ (\A s \in T : T \ {s} \in good) => T \in good
    PROVE  good = SUBSET S
<1> DEFINE bad == (SUBSET S) \ good
<1> SUFFICES ASSUME bad # {} PROVE FALSE
  OBVIOUS
<1>1. bad \subseteq FiniteSubsetsOf(S)
  BY FS_FiniteSubsetsOfFinite
<1>2. PICK T \in bad : \A U \in bad : ~ (<<U, T>> \in StrictSubsetOrdering(S))
  <2> HIDE DEF bad
  <2> QED
    BY <1>1, FS_StrictSubsetOrderingWellFounded, WFMin
<1>3. PICK s \in T : T \ {s} \notin good
  BY <1>2
<1>4. T \ {s} \in bad /\ <<T \ {s}, T>> \in StrictSubsetOrdering(S)
  BY <1>3 DEF StrictSubsetOrdering
<1> QED
  BY <1>2, <1>4

LEMMA PebblesAreFinite ==
    ASSUME NEW res, NEW S, IsFiniteSet(S), \A s \in S : res[s].tokens \in Nat
    PROVE  \A T \in SUBSET S : IsFiniteSet(Pebbles(res, T))
<1> DEFINE good == {T \in SUBSET S : IsFiniteSet(Pebbles(res, T))}
<1>1. {} \in good
  BY EmptyPebbles
<1>2. ASSUME NEW T \in SUBSET S, T # {}, \A s \in T : T \ {s} \in good PROVE T \in good
  <2>1. PICK s \in T : T = (T \ {s}) \cup {s}
    BY <1>2
  <2>2. IsFiniteSet(Pebbles(res, (T \ {s}) \cup {s}))
    BY <1>2, PebblesAdd
  <2> QED
    BY <2>1, <2>2
<1> HIDE DEF good
<1>3. good \in SUBSET SUBSET S
  BY DEF good
<1>4. good = SUBSET S
  BY <1>1, <1>2, <1>3, SubsetsByOne
<1> QED
  BY <1>4 DEF good

\* The sum over the results of S counts their pebbles.
LEMMA SumOfTokens ==
    ASSUME NEW S, IsFiniteSet(S), \A s \in S : result[s].tokens \in Nat
    PROVE  TokensOf(S) = Cardinality(Pebbles(result, S))
<1> DEFINE one(T)   == CHOOSE s \in T : TRUE
           step(g)  == [T \in SUBSET S |-> IF T = {} THEN 0
                                           ELSE result[one(T)].tokens + g[T \ {one(T)}]]
           sum      == CHOOSE g : g = step(g)
           count    == [T \in SUBSET S |-> Cardinality(Pebbles(result, T))]
<1>1. TokensOf(S) = sum[S]
  BY DEF TokensOf, MapThenSumSet, MapThenFoldSet
<1>2. ASSUME NEW T \in SUBSET S, T # {}
      PROVE  /\ one(T) \in T /\ T \ {one(T)} \in SUBSET S
             /\ count[T] = result[one(T)].tokens + count[T \ {one(T)}]
  <2>1. one(T) \in T
    BY <1>2
  <2> HIDE DEF one
  <2>2. T = (T \ {one(T)}) \cup {one(T)} /\ one(T) \notin T \ {one(T)}
    BY <2>1
  <2>3. IsFiniteSet(Pebbles(result, T \ {one(T)})) /\ result[one(T)].tokens \in Nat
    BY <2>1, PebblesAreFinite
  <2>4. Cardinality(Pebbles(result, (T \ {one(T)}) \cup {one(T)})) =
           result[one(T)].tokens + Cardinality(Pebbles(result, T \ {one(T)}))
    BY <2>2, <2>3, PebblesAdd
  <2> QED
    BY <2>1, <2>2, <2>4
<1>3. count[{}] = 0
  BY EmptyPebbles
<1>4. count = step(count)
  <2> SUFFICES ASSUME NEW T \in SUBSET S
               PROVE  count[T] = IF T = {} THEN 0 ELSE result[one(T)].tokens + count[T \ {one(T)}]
    BY Zenon
  <2> HIDE DEF count
  <2> QED
    BY <1>2, <1>3
<1>5. sum = step(sum)
  <2> HIDE DEF step, count
  <2> QED
    BY <1>4
<1>6. sum[S] = count[S]
  <2> HIDE DEF sum, count
  <2>1. \A T \in SUBSET S : sum[T] = IF T = {} THEN 0 ELSE result[one(T)].tokens + sum[T \ {one(T)}]
    BY <1>5
  <2> HIDE DEF step
  <2> DEFINE good == {T \in SUBSET S : sum[T] = count[T]}
  <2>2. {} \in good
    BY <1>3, <2>1
  <2>3. ASSUME NEW T \in SUBSET S, T # {}, \A s \in T : T \ {s} \in good PROVE T \in good
    <3>1. sum[T \ {one(T)}] = count[T \ {one(T)}]
      BY <1>2, <2>3
    <3> QED
      BY <1>2, <2>1, <2>3, <3>1
  <2> HIDE DEF good
  <2>4. good \in SUBSET SUBSET S
    BY DEF good
  <2>5. good = SUBSET S
    BY <2>2, <2>3, <2>4, SubsetsByOne
  <2> QED
    BY <2>5 DEF good
<1> QED
  BY <1>1, <1>6

-----------------------------------------------------------------------------
(* The total.                                                               *)

\* Orchestrations that charge each attempt once: no supervisor, no retries.
Charged(o) == Strategy(o) # "supervisor" /\ Config[o].fallback_behavior # "retry"

Reported(o) == {s \in Mine(o) : result[s] # NoResult}

ReportInv ==
    /\ \A s \in SubTasks : Charged(Owner[s]) => work[s].tries = 0
    /\ \A o \in Orchs : Charged(o) => total[o] = Cardinality(Pebbles(result, Reported(o)))

\* A step of a sub-task that is charged once records and adds the same number,
\* or neither.
LEMMA ChargedStep ==
    ASSUME Inv, NEW s \in SubTasks, SubTaskStep(s), Charged(Owner[s]), work[s].tries = 0
    PROVE  /\ work'[s].tries = 0
           /\ \/ UNCHANGED <<result, total>>
              \/ /\ result[s] = NoResult
                 /\ \E ok \in BOOLEAN, n \in Nat :
                       /\ result' = Record(s, ok, n)
                       /\ total' = [total EXCEPT ![Owner[s]] = total[Owner[s]] + n]
<1>1. StateOK /\ SubTaskInv(s) /\ Owner[s] \in Orchs /\ work[s] \in Attempt
  BY OwnerType DEF Inv, CoreInv, StateOK
<1>2. work[s].at # "asleep" /\ work[s].at # "review"
  BY <1>1 DEF SubTaskInv, Charged
<1>3. ASSUME work[s].at \in {"pending", "running", "closing"}, NEW ok \in BOOLEAN, NEW n \in Nat, Returns(s, ok, n)
      PROVE  /\ work'[s].tries = 0 /\ result[s] = NoResult
             /\ result' = Record(s, ok, n)
             /\ total' = [total EXCEPT ![Owner[s]] = total[Owner[s]] + n]
  <2>1. result[s] = NoResult
    BY <1>1, <1>3 DEF SubTaskInv
  <2>2. SequentialReturn(s, ok, n) \/ ParallelReturn(s, ok, n)
    BY <1>3 DEF Returns, RetryReturn, SupervisedReturn, ReworkReturn, Charged
  <2>3. work' = Move(s, "ended", 0) /\ result' = Record(s, ok, n)
    BY <2>2 DEF SequentialReturn, ParallelReturn, Advance, Charged
  <2>4. work'[s].tries = 0
    <3>1. 0 \in 0 .. MaxRetries /\ "ended" \in Places
      BY DEF MaxRetries, Places
    <3> QED
      BY <1>1, <2>3, <3>1, MoveType
  <2> QED
    BY <2>1, <2>2, <2>3, <2>4 DEF SequentialReturn, ParallelReturn, Charge, Spent
<1>4. CASE Dispatch(s)
  <2>1. PICK a \in Members(Owner[s]) :
           work' = [work EXCEPT ![s].at = "running", ![s].agent = a, ![s].live = Usable]
    BY <1>4 DEF Dispatch
  <2> QED
    BY <1>1, <1>4, <2>1 DEF Dispatch, StateOK, Attempt
<1>5. CASE RunEnds(s)
  <2>1. PICK ok \in BOOLEAN, n \in TokenCounts \cup {0} :
           work' = [work EXCEPT ![s].at = "closing", ![s].ok = ok, ![s].tokens = n]
    BY <1>5 DEF RunEnds
  <2> QED
    BY <1>1, <1>5, <2>1 DEF RunEnds, orchVars, StateOK, Attempt
<1>6. CASE Closes(s)
  <2>1. work[s].ok \in BOOLEAN /\ work[s].tokens \in Nat
    BY <1>1 DEF Attempt
  <2> QED
    BY <1>3, <1>6, <2>1 DEF Closes
<1>7. CASE NoDispatch(s)
  <2>1. Returns(s, FALSE, 0) /\ work[s].at = "pending" /\ 0 \in Nat
    BY <1>7 DEF NoDispatch, Turn
  <2> QED
    BY <1>3, <2>1
<1>8. CASE CloseRaises(s)
  <2>1. PICK n \in Nat : Ready(s) /\ Returns(s, FALSE, n)
    BY <1>8, CloseRaisesReturns DEF Inv
  <2> QED
    BY <1>3, <2>1 DEF Ready
<1> QED
  BY <1>2, <1>4, <1>5, <1>6, <1>7, <1>8 DEF SubTaskStep, Wake, Approve, Reject

LEMMA PebblesAgree ==
    ASSUME NEW res, NEW new, NEW S, \A s \in S : new[s] = res[s]
    PROVE  Pebbles(new, S) = Pebbles(res, S)
  BY DEF Pebbles

LEMMA ReportKept ==
    ASSUME Inv, ReportInv, NEW s \in SubTasks, SubTaskStep(s)
    PROVE  ReportInv'
<1>1. /\ \A t \in SubTasks : t # s => work'[t] = work[t] /\ result'[t] = result[t]
      /\ \A q \in Orchs : q # Owner[s] => total'[q] = total[q]
  <2>1. Kept(s)
    BY DispatchKept, NoDispatchKept, RunEndsKept, ClosesKept, CloseRaisesKept, WakeKept, ReviewKept
       DEF SubTaskStep, Inv
  <2> QED
    BY <2>1 DEF Kept, Frame
<1>2. StateOK /\ Owner[s] \in Orchs /\ s \in Mine(Owner[s])
  BY OwnerType DEF Inv, CoreInv
<1>3. ASSUME NEW o \in Orchs, o # Owner[s], Charged(o)
      PROVE  total'[o] = Cardinality(Pebbles(result', Reported(o)'))
  <2>1. s \notin Mine(o) /\ Mine(o) \subseteq SubTasks
    BY <1>3 DEF Mine
  <2>2. Reported(o)' = Reported(o) /\ \A t \in Reported(o) : result'[t] = result[t]
    BY <1>1, <2>1 DEF Reported
  <2>3. Pebbles(result', Reported(o)) = Pebbles(result, Reported(o))
    BY <2>2, PebblesAgree
  <2> QED
    BY <1>1, <1>3, <2>2, <2>3 DEF ReportInv
<1>4. ASSUME Charged(Owner[s])
      PROVE  /\ work'[s].tries = 0
             /\ total'[Owner[s]] = Cardinality(Pebbles(result', Reported(Owner[s])'))
  <2> DEFINE o == Owner[s]
             R == Reported(o)
  <2>1. work[s].tries = 0 /\ total[o] = Cardinality(Pebbles(result, R))
    BY <1>2, <1>4 DEF ReportInv
  <2>2. work'[s].tries = 0
    BY <1>4, <2>1, ChargedStep
  <2>3. CASE UNCHANGED <<result, total>>
    BY <2>1, <2>2, <2>3 DEF Reported
  <2>4. ASSUME result[s] = NoResult, NEW ok \in BOOLEAN, NEW n \in Nat, result' = Record(s, ok, n),
               total' = [total EXCEPT ![o] = total[o] + n]
        PROVE  total'[o] = Cardinality(Pebbles(result', Reported(o)'))
    <3>1. /\ result'[s] = [ok |-> ok, tokens |-> n] /\ result'[s] \in Outcome
          /\ result'[s] # NoResult /\ result'[s].tokens = n
      <4>1. result \in [SubTasks -> Outcome \cup {NoResult}]
        BY <1>2 DEF StateOK
      <4>2. result'[s] = [ok |-> ok, tokens |-> n]
        BY <2>4, <4>1 DEF Record
      <4>3. [ok |-> ok, tokens |-> n] \in Outcome
        BY DEF Outcome
      <4> QED
        BY <4>2, <4>3, ConfigAssumption
    <3>2. Mine(o) \subseteq SubTasks /\ s \notin R
      BY <2>4 DEF Mine, Reported
    <3>3. Reported(o)' = R \cup {s}
      BY <1>1, <1>2, <3>1, <3>2 DEF Reported
    <3>4. Pebbles(result', R) = Pebbles(result, R)
      <4>1. \A t \in R : result'[t] = result[t]
        BY <1>1, <3>2 DEF Reported
      <4> QED
        BY <4>1, PebblesAgree
    <3>5. IsFiniteSet(Pebbles(result, R))
      <4>1. IsFiniteSet(R)
        BY <3>2, PlanAssumption, FS_Subset DEF Reported
      <4>2. \A t \in R : result[t].tokens \in Nat
        BY <1>2, <3>2 DEF Reported, StateOK, Outcome
      <4> QED
        BY <4>1, <4>2, PebblesAreFinite
    <3>6. Cardinality(Pebbles(result', R \cup {s})) = n + Cardinality(Pebbles(result, R))
      <4> HIDE DEF R
      <4>1. Cardinality(Pebbles(result', R \cup {s})) = result'[s].tokens + Cardinality(Pebbles(result', R))
        BY <2>4, <3>1, <3>2, <3>4, <3>5, PebblesAdd
      <4> QED
        BY <3>1, <3>4, <4>1
    <3>7. total'[o] = total[o] + n /\ total[o] \in Nat
      BY <1>2, <2>4 DEF StateOK
    <3> HIDE DEF R
    <3>8. total'[o] = n + Cardinality(Pebbles(result, R))
      BY ONLY <2>1, <3>7, <2>4
    <3> QED
      BY <3>3, <3>6, <3>8
  <2> QED
    BY <1>4, <2>1, <2>2, <2>3, <2>4, ChargedStep
<1>5. \A t \in SubTasks : Charged(Owner[t]) => work'[t].tries = 0
  BY <1>1, <1>4 DEF ReportInv
<1>6. \A o \in Orchs : Charged(o)' <=> Charged(o)
  BY DEF Charged, Strategy, Mine
<1> QED
  BY <1>3, <1>4, <1>5, <1>6 DEF ReportInv, Charged, Strategy, Mine

\* Where no retry and no supervisor runs a sub-task again, the total that is
\* charged and reported is the sum over the results, for any number of
\* sub-tasks, also of those that outlive a parallel orchestration.
THEOREM TotalIsTheSum == Spec => []TotalMatchesResults
<1>1. Init => ReportInv
  <2> SUFFICES ASSUME Init PROVE ReportInv
    OBVIOUS
  <2>1. ASSUME NEW o \in Orchs PROVE total[o] = Cardinality(Pebbles(result, Reported(o)))
    <3>1. Reported(o) = {}
      BY DEF Init, Reported, Mine
    <3> QED
      BY <3>1, EmptyPebbles DEF Init
  <2> QED
    BY <2>1 DEF ReportInv, Init, NoAttempt
<1>2. Inv /\ ReportInv /\ [Next]_vars => ReportInv'
  <2> SUFFICES ASSUME Inv, ReportInv, [Next]_vars PROVE ReportInv'
    OBVIOUS
  <2>1. ASSUME UNCHANGED <<work, result, total>> PROVE ReportInv'
    BY <2>1 DEF ReportInv, Charged, Strategy, Reported, Mine
  <2>2. ASSUME \/ \E o \in Orchs : OrchStep(o)
               \/ TimePasses \/ Quiet \/ UNCHANGED vars
        PROVE  UNCHANGED <<work, result, total>>
    BY <2>2 DEF OrchStep, Accept, PlanReady, PlanFails, Synthesize, TimePasses, Quiet, vars, orchVars
  <2> QED
    BY <2>1, <2>2, ReportKept DEF Next
<1>3. Inv /\ ReportInv => TotalMatchesResults
  <2> SUFFICES ASSUME Inv, ReportInv, NEW o \in Orchs, Charged(o)
               PROVE  total[o] = TokensOf({s \in Mine(o) : result[s] # NoResult})
    BY DEF TotalMatchesResults, Charged
  <2>1. IsFiniteSet(Reported(o)) /\ \A s \in Reported(o) : result[s].tokens \in Nat
    <3>1. Reported(o) \subseteq SubTasks /\ IsFiniteSet(SubTasks)
      BY PlanAssumption DEF Reported, Mine
    <3>2. \A s \in Reported(o) : result[s] \in Outcome
      BY <3>1 DEF Inv, CoreInv, StateOK, Reported
    <3> QED
      BY <3>1, <3>2, FS_Subset DEF Outcome
  <2>2. TokensOf(Reported(o)) = Cardinality(Pebbles(result, Reported(o)))
    BY <2>1, SumOfTokens
  <2> QED
    BY <2>2 DEF ReportInv, Reported
<1> QED
  BY <1>1, <1>2, <1>3, Invariance, PTL DEF Spec

-----------------------------------------------------------------------------
(* The plan and its sort: what _topological_sort keeps while it visits.     *)

\* What may stand in a dependency list.
Names == Mentions \cup {Id(i) : i \in 1 .. MaxItems}

\* A call of _visit under way.
Call == [id : Known \cup Names, left : SUBSET Names]

\* The calls under way, each made for a dependency of the one before,
\* when the ids seen have been visited and those done are in the order.
FramesOK(fs, seen, done) ==
    /\ fs \in Seq(Call)
    /\ \A k \in 1 .. Len(fs) :
          /\ fs[k].id \in seen /\ fs[k].id \notin done
          /\ fs[k].left \subseteq Deps(fs[k].id) /\ Deps(fs[k].id) \ fs[k].left \subseteq seen
    /\ \A j, k \in 1 .. Len(fs) : j < k =>
          /\ fs[j].id # fs[k].id /\ fs[j].id \in Known
          /\ fs[k].id \in Known => fs[k].id \in Reaches(fs[j].id)

\* What is visited is in the order, or its _visit is under way.
VisitedOK ==
    /\ next \in Nat /\ 1 <= next /\ next <= Len(plan) + 1
    /\ \A i \in 1 .. Len(plan) : i < next => plan[i] \in visited
    /\ \A n \in visited \cap Known : n \in ToSet(order) \/ \E k \in 1 .. Len(frames) : frames[k].id = n

\* Of a sub-task and one it depends on, the dependency comes first or the two
\* depend on each other.
OrderOK ==
    /\ order \in Seq(Known) /\ ToSet(order) \subseteq visited
    /\ \A i, j \in 1 .. Len(order) : order[i] = order[j] => i = j
    /\ \A s \in ToSet(order) : \A d \in depends[s] \cap Known : Before(d, s) \/ s \in Reaches(d)

\* The sub-tasks have ids of their own.
PlanOK ==
    /\ Len(plan) \in Nat /\ plan = [i \in 1 .. Len(plan) |-> Id(i)]
    /\ depends \in [Known -> SUBSET Names]

SortInv == PlanOK /\ FramesOK(frames, visited, ToSet(order)) /\ VisitedOK /\ OrderOK

PlannerInv ==
    /\ SortInv
    /\ stage \in {"asked", "failed"} => frames = << >> /\ visited = {} /\ order = << >> /\ next = 1
    /\ stage = "sorted" => SortEnds

LEMMA IdsDiffer ==
    ASSUME NEW i, NEW j, Id(i) = Id(j)
    PROVE  i = j
<1>1. Id(i).n = i /\ Id(j).n = j
  BY DEF Id
<1> QED
  BY <1>1

\* The plan lists each id once.
LEMMA PlanFacts ==
    ASSUME PlanOK
    PROVE  /\ plan \in Seq(Known) /\ Len(plan) \in Nat
           /\ \A i \in 1 .. Len(plan) : plan[i] \in Known
           /\ \A s \in Known : \E i \in 1 .. Len(plan) : plan[i] = s
           /\ \A i, j \in 1 .. Len(plan) : plan[i] = plan[j] => i = j
<1>1. /\ Len(plan) \in Nat /\ plan = [i \in 1 .. Len(plan) |-> Id(i)]
      /\ DOMAIN plan = 1 .. Len(plan)
  BY DEF PlanOK
<1>2. \A i, j \in 1 .. Len(plan) : plan[i] = plan[j] => i = j
  <2>1. \A i \in 1 .. Len(plan) : plan[i] = Id(i)
    BY <1>1
  <2> QED
    BY <2>1, IdsDiffer
<1>3. /\ \A i \in 1 .. Len(plan) : plan[i] \in Known
      /\ \A s \in Known : \E i \in 1 .. Len(plan) : plan[i] = s
  BY <1>1 DEF Known, ToSet
<1>4. plan \in [1 .. Len(plan) -> Known]
  BY <1>1, <1>3
<1>5. plan \in Seq(Known)
  BY <1>1, <1>4
<1> QED
  BY <1>1, <1>2, <1>3, <1>5

\* Reaches is closed under dependency.
LEMMA ReachesDirectly ==
    ASSUME NEW s \in Known, NEW t \in depends[s] \cap Known
    PROVE  t \in Reaches(s)
  BY DEF Reaches

LEMMA ReachesFurther ==
    ASSUME NEW s \in Known, NEW r \in Reaches(s), NEW t \in depends[r] \cap Known
    PROVE  t \in Reaches(s)
<1>1. ASSUME NEW S \in SUBSET Known, \A q \in S \cup {s} : depends[q] \cap Known \subseteq S PROVE t \in S
  <2>1. r \in S
    BY <1>1 DEF Reaches
  <2> QED
    BY <1>1, <2>1
<1> QED
  BY <1>1 DEF Reaches

\* Reaching is transitive.
LEMMA ReachesAlong ==
    ASSUME NEW s \in Known, NEW r \in Reaches(s), NEW t \in Reaches(r)
    PROVE  t \in Reaches(s)
<1>1. ASSUME NEW S \in SUBSET Known, \A q \in S \cup {s} : depends[q] \cap Known \subseteq S PROVE t \in S
  <2>1. r \in S
    BY <1>1 DEF Reaches
  <2> QED
    BY <1>1, <2>1 DEF Reaches
<1>2. t \in Known
  BY DEF Reaches
<1> QED
  BY <1>1, <1>2 DEF Reaches

LEMMA AppendFacts ==
    ASSUME NEW S, NEW q \in Seq(S), NEW x \in S
    PROVE  /\ Append(q, x) \in Seq(S) /\ Len(Append(q, x)) = Len(q) + 1 /\ Len(q) \in Nat
           /\ \A i \in 1 .. Len(q) : Append(q, x)[i] = q[i]
           /\ Append(q, x)[Len(q) + 1] = x
           /\ \A i \in 1 .. Len(q) + 1 : i \in 1 .. Len(q) \/ i = Len(q) + 1
           /\ ToSet(Append(q, x)) = ToSet(q) \cup {x}
<1>1. /\ Append(q, x) \in Seq(S) /\ Len(Append(q, x)) = Len(q) + 1 /\ Len(q) \in Nat
      /\ \A i \in 1 .. Len(q) : Append(q, x)[i] = q[i]
      /\ Append(q, x)[Len(q) + 1] = x
      /\ \A i \in 1 .. Len(q) + 1 : i \in 1 .. Len(q) \/ i = Len(q) + 1
      /\ DOMAIN q = 1 .. Len(q) /\ DOMAIN Append(q, x) = 1 .. Len(q) + 1
  OBVIOUS
<1>2. 1 .. Len(q) + 1 = (1 .. Len(q)) \cup {Len(q) + 1}
  BY <1>1
<1>3. ToSet(Append(q, x)) = ToSet(q) \cup {x}
  BY <1>1, <1>2 DEF ToSet
<1> QED
  BY <1>1, <1>3

\* A call of _visit for n, by the last of the calls fs.
LEMMA PushKept ==
    ASSUME PlanOK, NEW fs, NEW seen, NEW done, FramesOK(fs, seen, done), NEW n \in seen, n \notin done,
           n \in Known \cup Names, \A k \in 1 .. Len(fs) : fs[k].id # n,
           fs # << >> => n \in Deps(fs[Len(fs)].id)
    PROVE  FramesOK(Append(fs, [id |-> n, left |-> Deps(n)]), seen, done)
<1> DEFINE f  == [id |-> n, left |-> Deps(n)]
           gs == Append(fs, f)
<1>1. f \in Call /\ f.id = n /\ f.left = Deps(n)
  BY DEF Call, Deps, PlanOK
<1>2. fs \in Seq(Call)
  BY DEF FramesOK
<1> HIDE DEF f
<1>3. /\ gs \in Seq(Call) /\ Len(gs) = Len(fs) + 1 /\ Len(fs) \in Nat
      /\ \A i \in 1 .. Len(fs) : gs[i] = fs[i]
      /\ gs[Len(fs) + 1] = f
      /\ \A i \in 1 .. Len(fs) + 1 : i \in 1 .. Len(fs) \/ i = Len(fs) + 1
  BY <1>1, <1>2, AppendFacts
<1> HIDE DEF gs
<1>4. \A k \in 1 .. Len(gs) :
         /\ gs[k].id \in seen /\ gs[k].id \notin done
         /\ gs[k].left \subseteq Deps(gs[k].id) /\ Deps(gs[k].id) \ gs[k].left \subseteq seen
  BY <1>1, <1>3 DEF FramesOK
<1>5. ASSUME NEW j \in 1 .. Len(fs)
      PROVE  fs[j].id # n /\ fs[j].id \in Known /\ (n \in Known => n \in Reaches(fs[j].id))
  <2> DEFINE last == Len(fs)
  <2>1. last \in 1 .. last /\ fs # << >> /\ (j = last \/ j < last)
    BY <1>2, <1>3
  <2>2. n \in Deps(fs[last].id)
    BY <2>1
  <2>3. fs[last].id \in Known /\ n \in depends[fs[last].id]
    BY <2>2 DEF Deps
  <2>4. CASE j = last
    BY <2>3, <2>4, ReachesDirectly
  <2>5. CASE j < last
    <3>1. fs[j].id \in Known /\ fs[last].id \in Reaches(fs[j].id)
      BY <2>1, <2>3, <2>5 DEF FramesOK
    <3> QED
      BY <2>3, <3>1, ReachesFurther
  <2> QED
    BY <2>1, <2>4, <2>5
<1>6. ASSUME NEW j \in 1 .. Len(gs), NEW k \in 1 .. Len(gs), j < k
      PROVE  /\ gs[j].id # gs[k].id /\ gs[j].id \in Known
             /\ gs[k].id \in Known => gs[k].id \in Reaches(gs[j].id)
  <2>1. j \in 1 .. Len(fs) /\ gs[j] = fs[j]
    BY <1>3, <1>6
  <2>2. CASE k \in 1 .. Len(fs)
    BY <1>3, <1>6, <2>1, <2>2 DEF FramesOK
  <2>3. CASE k = Len(fs) + 1
    BY <1>1, <1>3, <1>5, <2>1, <2>3
  <2> QED
    BY <1>3, <2>2, <2>3
<1>7. FramesOK(gs, seen, done)
  BY <1>3, <1>4, <1>6 DEF FramesOK
<1> QED
  BY <1>7 DEF gs, f

\* What the calls under way satisfy, when only they and visited change.
LEMMA FramesPrimed ==
    ASSUME FramesOK(frames', visited', ToSet(order')), UNCHANGED graphVars
    PROVE  FramesOK(frames, visited, ToSet(order))'
  BY DEF FramesOK, Call, Deps, Known, Reaches, ToSet, graphVars

LEMMA PlanPrimed ==
    ASSUME PlanOK, UNCHANGED graphVars
    PROVE  PlanOK'
  BY DEF PlanOK, Known, ToSet, graphVars

LEMMA OrderPrimed ==
    ASSUME OrderOK, UNCHANGED <<graphVars, order>>, visited \subseteq visited'
    PROVE  OrderOK'
  BY DEF OrderOK, Before, Known, Reaches, ToSet, graphVars


LEMMA NextTaskKept ==
    ASSUME SortInv, NextTask
    PROVE  SortInv'
<1> DEFINE n == plan[next]
<1>1. /\ frames = << >> /\ next \in 1 .. Len(plan) /\ next' = next + 1
      /\ UNCHANGED <<graphVars, order>> /\ next \in Nat /\ Len(plan) \in Nat
  BY DEF NextTask, SortInv, VisitedOK, PlanOK, graphVars
<1>2. n \in Known
  BY <1>1, PlanFacts DEF SortInv
<1>3. \/ n \in visited /\ frames' = << >> /\ visited' = visited
      \/ /\ n \notin visited /\ visited' = visited \cup {n}
         /\ frames' = Append(<< >>, [id |-> n, left |-> Deps(n)])
  BY <1>1 DEF NextTask, Visit
<1>4. visited' = visited \cup {n}
  BY <1>3
<1>5. FramesOK(frames', visited', ToSet(order))
  <2>1. CASE n \in visited
    BY <1>1, <1>3, <2>1 DEF SortInv
  <2>2. CASE n \notin visited
    <3>1. FramesOK(<< >>, visited', ToSet(order)) /\ Len(<< >>) = 0
      BY DEF FramesOK
    <3>2. n \notin ToSet(order)
      BY <2>2 DEF SortInv, OrderOK
    <3> QED
      <4>1. n \in visited' /\ n \in Known \cup Names /\ PlanOK
        BY <1>2, <1>4 DEF SortInv
      <4>2. \A k \in 1 .. Len(<< >>) : << >>[k].id # n
        BY <3>1
      <4>3. FramesOK(Append(<< >>, [id |-> n, left |-> Deps(n)]), visited', ToSet(order))
        BY ONLY <3>1, <3>2, <4>1, <4>2, PushKept
      <4> QED
        BY <1>3, <2>2, <4>3
  <2> QED
    BY <2>1, <2>2
<1>6. \A m \in visited \cap Known : m \in ToSet(order)
  BY <1>1 DEF SortInv, VisitedOK
<1>7. n \in visited \/ (Len(frames') = 1 /\ frames'[1].id = n)
  BY <1>3
<1>8. VisitedOK'
  <2>1. next' \in Nat /\ 1 <= next' /\ next' <= Len(plan) + 1
    BY <1>1
  <2>2. \A i \in 1 .. Len(plan) : i < next' => plan[i] \in visited'
    <3>1. \A i \in 1 .. Len(plan) : i < next => plan[i] \in visited
      BY DEF SortInv, VisitedOK
    <3>2. \A i \in 1 .. Len(plan) : i < next' => i < next \/ i = next
      BY <1>1
    <3> QED
      BY <1>4, <3>1, <3>2
  <2>3. \A m \in visited' \cap Known : m \in ToSet(order) \/ \E k \in 1 .. Len(frames') : frames'[k].id = m
    BY <1>4, <1>6, <1>7
  <2> QED
    BY <1>1, <2>1, <2>2, <2>3 DEF VisitedOK, graphVars, Known, ToSet
<1> QED
  BY <1>1, <1>4, <1>5, <1>8, FramesPrimed, PlanPrimed, OrderPrimed DEF SortInv

LEMMA NextDependencyKept ==
    ASSUME SortInv, NextDependency
    PROVE  SortInv'
<1>1. /\ frames \in Seq(Call) /\ frames # << >> /\ Len(frames) \in Nat /\ Len(frames) \in 1 .. Len(frames)
      /\ UNCHANGED <<graphVars, next, order>> /\ Last(frames) = frames[Len(frames)]
  BY DEF NextDependency, SortInv, FramesOK, Last
<1> DEFINE last == Len(frames)
<1>2. PICK d \in frames[last].left : Visit(d, [frames EXCEPT ![last].left = @ \ {d}])
  BY <1>1 DEF NextDependency
<1> DEFINE fs == [frames EXCEPT ![last].left = @ \ {d}]
<1>3. /\ DOMAIN fs = 1 .. last /\ Len(fs) = last /\ fs \in Seq(Call)
      /\ \A k \in 1 .. last : fs[k].id = frames[k].id
      /\ \A k \in 1 .. last : k # last => fs[k] = frames[k]
      /\ fs[last].left = frames[last].left \ {d}
  <2>1. DOMAIN frames = 1 .. last /\ \A k \in 1 .. last : frames[k] \in Call
    BY <1>1
  <2>2. DOMAIN fs = 1 .. last /\ \A k \in 1 .. last : k # last => fs[k] = frames[k]
    BY <2>1
  <2>3. fs[last] = [frames[last] EXCEPT !.left = @ \ {d}]
    BY <1>1, <2>1
  <2>4. fs[last] \in Call /\ fs[last].id = frames[last].id /\ fs[last].left = frames[last].left \ {d}
    BY <1>1, <2>1, <2>3 DEF Call
  <2>5. fs \in [1 .. last -> Call]
    BY <2>1, <2>2, <2>4
  <2>6. fs \in Seq(Call) /\ Len(fs) = last
    BY <1>1, <2>5
  <2> QED
    BY <2>2, <2>4, <2>6
<1>4. /\ d \in Deps(frames[last].id) /\ d \in Names
      /\ frames[last].id \in Known /\ d \in depends[frames[last].id]
  <2>1. d \in Deps(frames[last].id) /\ d \in Names
    <3>1. frames[last] \in Call /\ frames[last].left \subseteq Deps(frames[last].id)
      BY <1>1 DEF SortInv, FramesOK
    <3> QED
      BY <1>2, <3>1 DEF Call
  <2> QED
    BY <2>1 DEF Deps
<1> HIDE DEF fs
<1>5. \/ d \in visited /\ frames' = fs /\ visited' = visited
      \/ /\ d \notin visited /\ visited' = visited \cup {d}
         /\ frames' = Append(fs, [id |-> d, left |-> Deps(d)])
  BY <1>2 DEF Visit, fs
<1>6. visited' = visited \cup {d}
  BY <1>5
<1>7. FramesOK(fs, visited', ToSet(order))
  <2>1. ASSUME NEW k \in 1 .. last
        PROVE  /\ fs[k].id \in visited' /\ fs[k].id \notin ToSet(order)
               /\ fs[k].left \subseteq Deps(fs[k].id) /\ Deps(fs[k].id) \ fs[k].left \subseteq visited'
    <3>1. /\ frames[k].id \in visited /\ frames[k].id \notin ToSet(order)
          /\ frames[k].left \subseteq Deps(frames[k].id) /\ Deps(frames[k].id) \ frames[k].left \subseteq visited
      BY <2>1 DEF SortInv, FramesOK
    <3> QED
      BY <1>3, <1>6, <3>1
  <2>2. \A j, k \in 1 .. last : j < k =>
           /\ frames[j].id # frames[k].id /\ frames[j].id \in Known
           /\ frames[k].id \in Known => frames[k].id \in Reaches(frames[j].id)
    BY DEF SortInv, FramesOK
  <2>3. \A j, k \in 1 .. last : j < k =>
           /\ fs[j].id # fs[k].id /\ fs[j].id \in Known
           /\ fs[k].id \in Known => fs[k].id \in Reaches(fs[j].id)
    BY <1>3, <2>2
  <2> QED
    BY <1>3, <2>1, <2>3 DEF FramesOK
<1>8. FramesOK(frames', visited', ToSet(order))
  <2>1. CASE d \in visited
    BY <1>5, <1>7, <2>1
  <2>2. CASE d \notin visited
    <3>1. d \notin ToSet(order)
      BY <2>2 DEF SortInv, OrderOK
    <3>2. \A k \in 1 .. Len(fs) : fs[k].id # d
      <4>1. \A k \in 1 .. last : frames[k].id \in visited
        BY DEF SortInv, FramesOK
      <4> QED
        BY <1>3, <2>2, <4>1
    <3>3. fs # << >> => d \in Deps(fs[Len(fs)].id)
      BY <1>1, <1>3, <1>4
    <3>4. d \in visited' /\ d \in Known \cup Names /\ PlanOK
      BY <1>4, <1>6 DEF SortInv
    <3>5. FramesOK(Append(fs, [id |-> d, left |-> Deps(d)]), visited', ToSet(order))
      BY ONLY <1>7, <3>1, <3>2, <3>3, <3>4, PushKept
    <3> QED
      BY <1>5, <2>2, <3>5
  <2> QED
    BY <2>1, <2>2
<1>9. VisitedOK'
  <2>1. \A i \in 1 .. Len(plan) : i < next => plan[i] \in visited'
    BY <1>6 DEF SortInv, VisitedOK
  <2>2. /\ \A k \in 1 .. last : k \in 1 .. Len(frames') /\ frames'[k].id = frames[k].id
        /\ d \notin visited => \E k \in 1 .. Len(frames') : frames'[k].id = d
    <3>1. CASE d \in visited
      BY <1>3, <1>5, <3>1
    <3>2. CASE d \notin visited
      <4> DEFINE f == [id |-> d, left |-> Deps(d)]
      <4>1. f \in Call /\ f.id = d
        BY <1>4 DEF Call, Deps, SortInv, PlanOK
      <4>2. frames' = Append(fs, f)
        BY <1>5, <3>2
      <4> HIDE DEF f
      <4>3. /\ Len(frames') = last + 1 /\ frames'[last + 1] = f
            /\ \A k \in 1 .. last : frames'[k] = fs[k]
        <5>1. fs \in Seq(Call) /\ f \in Call /\ Len(fs) = last
          BY <1>3, <4>1
        <5> QED
          BY ONLY <4>2, <5>1, AppendFacts
      <4>4. last + 1 \in 1 .. Len(frames') /\ \A k \in 1 .. last : k \in 1 .. Len(frames')
        BY <1>1, <4>3
      <4> QED
        BY <1>3, <4>1, <4>3, <4>4
    <3> QED
      BY <3>1, <3>2
  <2>3. \A m \in visited \cap Known : m \in ToSet(order) \/ \E k \in 1 .. last : frames[k].id = m
    BY DEF SortInv, VisitedOK
  <2>4. \A m \in visited' \cap Known : m \in ToSet(order) \/ \E k \in 1 .. Len(frames') : frames'[k].id = m
    BY <1>6, <2>2, <2>3
  <2>5. next \in Nat /\ 1 <= next /\ next <= Len(plan) + 1
    BY DEF SortInv, VisitedOK
  <2> QED
    BY <1>1, <2>1, <2>4, <2>5 DEF VisitedOK, graphVars, Known, ToSet
<1> QED
  BY <1>1, <1>6, <1>8, <1>9, FramesPrimed, PlanPrimed, OrderPrimed DEF SortInv


LEMMA FrontFacts ==
    ASSUME NEW S, NEW q \in Seq(S), q # << >>
    PROVE  /\ Front(q) \in Seq(S) /\ Len(q) \in Nat /\ Len(q) \in 1 .. Len(q) /\ Len(Front(q)) = Len(q) - 1
           /\ \A i \in 1 .. Len(q) - 1 : Front(q)[i] = q[i]
           /\ 1 .. Len(q) = (1 .. Len(q) - 1) \cup {Len(q)}
<1>1. /\ Len(q) \in Nat /\ Len(q) \in 1 .. Len(q) /\ q \in [1 .. Len(q) -> S] /\ Len(q) - 1 \in Nat
      /\ 1 .. Len(q) = (1 .. Len(q) - 1) \cup {Len(q)} /\ 1 .. Len(q) - 1 \subseteq 1 .. Len(q)
  OBVIOUS
<1>2. Front(q) = SubSeq(q, 1, Len(q) - 1)
  BY DEF Front
<1>3. Front(q) = [i \in 1 .. Len(q) - 1 |-> q[i]]
  BY <1>1, <1>2
<1>4. Front(q) \in [1 .. Len(q) - 1 -> S]
  BY <1>1, <1>3
<1> QED
  BY <1>1, <1>3, <1>4

LEMMA VisitReturnsKept ==
    ASSUME SortInv, VisitReturns
    PROVE  SortInv'
<1> DEFINE last == Len(frames)
           s    == frames[last].id
           rest == Front(frames)
<1>1. /\ frames \in Seq(Call) /\ frames # << >> /\ Last(frames) = frames[last] /\ frames[last].left = {}
      /\ frames' = rest /\ UNCHANGED <<graphVars, next, visited>>
      /\ order' = IF s \in Known THEN Append(order, s) ELSE order
  BY DEF VisitReturns, SortInv, FramesOK, Last
<1>2. /\ rest \in Seq(Call) /\ last \in Nat /\ last \in 1 .. last /\ Len(rest) = last - 1
      /\ \A k \in 1 .. last - 1 : rest[k] = frames[k]
      /\ 1 .. last = (1 .. last - 1) \cup {last}
      /\ \A k \in 1 .. last - 1 : k \in 1 .. last /\ k < last
  <2>1. \A n \in Nat : \A k \in 1 .. n - 1 : k \in 1 .. n /\ k < n
    OBVIOUS
  <2>2. /\ rest \in Seq(Call) /\ last \in Nat /\ last \in 1 .. last /\ Len(rest) = last - 1
        /\ \A k \in 1 .. last - 1 : rest[k] = frames[k]
        /\ 1 .. last = (1 .. last - 1) \cup {last}
    BY <1>1, FrontFacts
  <2> QED
    BY <2>1, <2>2
<1>3. \A k \in 1 .. last :
         /\ frames[k].id \in visited /\ frames[k].id \notin ToSet(order)
         /\ frames[k].left \subseteq Deps(frames[k].id) /\ Deps(frames[k].id) \ frames[k].left \subseteq visited
  BY DEF SortInv, FramesOK
<1>4. \A j, k \in 1 .. last : j < k =>
         /\ frames[j].id # frames[k].id /\ frames[j].id \in Known
         /\ frames[k].id \in Known => frames[k].id \in Reaches(frames[j].id)
  BY DEF SortInv, FramesOK
<1>5. s \in visited /\ s \notin ToSet(order) /\ Deps(s) \subseteq visited
  BY <1>1, <1>2, <1>3
<1>6. \A k \in 1 .. last - 1 : frames[k].id # s /\ frames[k].id \in Known /\ (s \in Known => s \in Reaches(frames[k].id))
  BY <1>2, <1>4
<1>7. order \in Seq(Known) /\ ToSet(order) \subseteq visited
  BY DEF SortInv, OrderOK
<1> HIDE DEF rest, s
<1>8. ToSet(order') = ToSet(order) \cup ({s} \cap Known)
  <2>1. CASE s \in Known
    BY <1>1, <1>7, <2>1, AppendFacts
  <2>2. CASE s \notin Known
    BY <1>1, <2>2
  <2> QED
    BY <2>1, <2>2
<1>9. FramesOK(frames', visited', ToSet(order'))
  <2>1. ASSUME NEW k \in 1 .. last - 1
        PROVE  /\ rest[k].id \in visited /\ rest[k].id \notin ToSet(order')
               /\ rest[k].left \subseteq Deps(rest[k].id) /\ Deps(rest[k].id) \ rest[k].left \subseteq visited
    BY <1>2, <1>3, <1>6, <1>8
  <2>2. ASSUME NEW j \in 1 .. last - 1, NEW k \in 1 .. last - 1, j < k
        PROVE  /\ rest[j].id # rest[k].id /\ rest[j].id \in Known
               /\ rest[k].id \in Known => rest[k].id \in Reaches(rest[j].id)
    BY <1>2, <1>4, <2>2
  <2> QED
    BY <1>1, <1>2, <2>1, <2>2 DEF FramesOK
<1>10. VisitedOK'
  <2>1. \A m \in visited \cap Known : m \in ToSet(order) \/ \E k \in 1 .. last : frames[k].id = m
    BY DEF SortInv, VisitedOK
  <2>2. frames[last].id = s
    BY DEF s
  <2>3. \A m \in visited \cap Known : m \in ToSet(order') \/ \E k \in 1 .. Len(rest) : rest[k].id = m
    BY <1>2, <1>8, <2>1, <2>2
  <2>4. /\ next \in Nat /\ 1 <= next /\ next <= Len(plan) + 1
        /\ \A i \in 1 .. Len(plan) : i < next => plan[i] \in visited
    BY DEF SortInv, VisitedOK
  <2> QED
    BY <1>1, <2>3, <2>4 DEF VisitedOK, graphVars, Known, ToSet
<1>11. CASE s \notin Known
  <2>1. order' = order /\ OrderOK
    BY <1>1, <1>11 DEF SortInv
  <2>2. OrderOK'
    BY <1>1, <2>1, OrderPrimed
  <2> QED
    BY <1>1, <1>9, <1>10, <2>2, FramesPrimed, PlanPrimed DEF SortInv
<1>12. CASE s \in Known
  <2> DEFINE top == Len(order) + 1
  <2>1. /\ order' \in Seq(Known) /\ Len(order') = top /\ Len(order) \in Nat /\ order'[top] = s
        /\ \A i \in 1 .. Len(order) : order'[i] = order[i]
        /\ \A i \in 1 .. top : i \in 1 .. Len(order) \/ i = top
    <3>1. order' = Append(order, s)
      BY <1>1, <1>12
    <3> QED
      BY ONLY <1>7, <1>12, <3>1, AppendFacts
  <2>2. /\ DOMAIN order = 1 .. Len(order) /\ DOMAIN order' = 1 .. top /\ top \in 1 .. top
        /\ \A i \in 1 .. Len(order) : i \in 1 .. top /\ i < top
    BY <1>7, <2>1
  <2>3. \A i \in 1 .. Len(order) : order[i] # s
    BY <1>5, <2>2 DEF ToSet
  <2>4. \A i, j \in 1 .. top : order'[i] = order'[j] => i = j
    <3>1. \A i, j \in 1 .. Len(order) : order[i] = order[j] => i = j
      BY DEF SortInv, OrderOK
    <3> QED
      BY <2>1, <2>3, <3>1
  <2>5. ASSUME NEW d \in depends[s] \cap Known
        PROVE  (\E i \in 1 .. Len(order) : order[i] = d) \/ s \in Reaches(d)
    <3>1. d \in visited
      BY <1>5, <1>12, <2>5 DEF Deps
    <3>2. d \in ToSet(order) \/ \E k \in 1 .. last : frames[k].id = d
      BY <2>5, <3>1 DEF SortInv, VisitedOK
    <3>3. CASE d \in ToSet(order)
      BY <2>2, <3>3 DEF ToSet
    <3>4. ASSUME NEW k \in 1 .. last, frames[k].id = d PROVE s \in Reaches(d)
      <4>1. CASE k = last
        <5>1. d = s
          BY <3>4, <4>1 DEF s
        <5> QED
          BY <1>12, <2>5, <5>1, ReachesDirectly
      <4>2. CASE k \in 1 .. last - 1
        BY <1>6, <1>12, <3>4, <4>2
      <4> QED
        BY <1>2, <4>1, <4>2
    <3> QED
      BY <3>2, <3>3, <3>4
  <2>6. ASSUME NEW t \in ToSet(order'), NEW d \in depends[t] \cap Known
        PROVE  (\E i, j \in 1 .. top : i < j /\ order'[i] = d /\ order'[j] = t) \/ t \in Reaches(d)
    <3>1. CASE t \in ToSet(order)
      <4>1. (\E i, j \in 1 .. Len(order) : i < j /\ order[i] = d /\ order[j] = t) \/ t \in Reaches(d)
        BY <2>2, <2>6, <3>1 DEF SortInv, OrderOK, Before
      <4> QED
        BY <2>1, <2>2, <4>1
    <3>2. CASE t = s
      BY <2>1, <2>2, <2>5, <3>2
    <3> QED
      BY <1>8, <3>1, <3>2
  <2>7. ToSet(order') \subseteq visited
    BY <1>5, <1>7, <1>8
  <2>8. OrderOK'
    <3>1. \A t \in ToSet(order') : \A d \in depends[t] \cap Known :
             (\E i, j \in DOMAIN order' : i < j /\ order'[i] = d /\ order'[j] = t) \/ t \in Reaches(d)
      BY <2>2, <2>6
    <3>2. Known' = Known /\ depends' = depends /\ visited' = visited
      BY <1>1 DEF Known, ToSet, graphVars
    <3>3. order' \in Seq(Known') /\ ToSet(order)' \subseteq visited'
      BY <2>1, <2>7, <3>2 DEF ToSet
    <3>4. \A i, j \in 1 .. Len(order') : order'[i] = order'[j] => i = j
      BY <2>1, <2>4
    <3>5. \A t \in ToSet(order)' : \A d \in depends'[t] \cap Known' : (Before(d, t) \/ t \in Reaches(d))'
      BY <1>1, <3>1, <3>2 DEF Before, Reaches, graphVars, Known, ToSet
    <3> QED
      BY ONLY <3>3, <3>4, <3>5 DEF OrderOK, Before, Reaches
  <2> QED
    BY <1>1, <1>9, <1>10, <2>8, FramesPrimed, PlanPrimed DEF SortInv
<1> QED
  BY <1>11, <1>12


\* A new plan, whose sort has not begun.
LEMMA PlansOK ==
    ASSUME NEW n \in Nat, NEW items \in [1 .. n -> SUBSET Names], Plans(items),
           frames = << >>, visited = {}, order = << >>, next = 1
    PROVE  SortInv'
<1>1. /\ DOMAIN items = 1 .. n /\ UNCHANGED sortVars
      /\ plan' = [i \in 1 .. n |-> Id(i)]
      /\ depends' = [s \in {Id(i) : i \in 1 .. n} |-> items[s.n]]
  BY DEF Plans
<1>2. Len(plan') = n /\ DOMAIN plan' = 1 .. n
  BY <1>1
<1>3. ToSet(plan') = {Id(i) : i \in 1 .. n}
  BY <1>1, <1>2 DEF ToSet
<1>4. depends' \in [ToSet(plan') -> SUBSET Names]
  <2> DEFINE D == {Id(i) : i \in 1 .. n}
  <2>1. ASSUME NEW s \in D PROVE items[s.n] \in SUBSET Names
    <3>1. PICK i \in 1 .. n : s = Id(i)
      OBVIOUS
    <3>2. s.n = i
      BY <3>1 DEF Id
    <3> QED
      BY <3>2
  <2> HIDE DEF D
  <2>2. [s \in D |-> items[s.n]] \in [D -> SUBSET Names]
    BY <2>1
  <2>3. depends' = [s \in D |-> items[s.n]] /\ ToSet(plan') = D
    BY <1>1, <1>3 DEF D
  <2> QED
    BY ONLY <2>2, <2>3
<1>5. PlanOK'
  BY <1>1, <1>2, <1>4 DEF PlanOK, Known
<1>6. frames' = << >> /\ visited' = {} /\ order' = << >> /\ next' = 1
  BY <1>1 DEF sortVars
<1>7. FramesOK(frames, visited, ToSet(order))'
  BY <1>6 DEF FramesOK
<1>8. VisitedOK'
  BY <1>2, <1>6 DEF VisitedOK
<1>9. OrderOK'
  BY <1>6 DEF OrderOK, ToSet
<1> QED
  BY <1>5, <1>7, <1>8, <1>9 DEF SortInv

LEMMA PlannerInvInit == PlannerInit => PlannerInv
<1> SUFFICES ASSUME PlannerInit PROVE PlannerInv
  OBVIOUS
<1>1. /\ frames = << >> /\ visited = {} /\ order = << >> /\ next = 1
      /\ plan = << >> /\ depends = << >> /\ stage = "asked"
  BY DEF PlannerInit, SortInit
<1>2. Known = {}
  BY <1>1 DEF Known, ToSet
<1>3. PlanOK
  BY <1>1, <1>2 DEF PlanOK
<1>4. FramesOK(frames, visited, ToSet(order))
  BY <1>1 DEF FramesOK
<1>5. VisitedOK
  BY <1>1 DEF VisitedOK
<1>6. OrderOK
  BY <1>1 DEF OrderOK, ToSet
<1> QED
  BY <1>1, <1>3, <1>4, <1>5, <1>6 DEF PlannerInv, SortInv

\* Nothing of the sort changes.
LEMMA SortInvKept ==
    ASSUME SortInv, UNCHANGED <<graphVars, sortVars>>
    PROVE  SortInv'
<1>1. /\ UNCHANGED graphVars /\ UNCHANGED <<next, frames, visited, order>> /\ OrderOK
      /\ PlanOK /\ FramesOK(frames', visited', ToSet(order')) /\ VisitedOK
  BY DEF SortInv, sortVars
<1>2. VisitedOK'
  BY <1>1 DEF VisitedOK, Known, ToSet, graphVars
<1> QED
  BY <1>1, <1>2, FramesPrimed, PlanPrimed, OrderPrimed DEF SortInv

LEMMA PlannerInvNext == PlannerInv /\ [PlannerNext]_plannerVars => PlannerInv'
<1> SUFFICES ASSUME PlannerInv, [PlannerNext]_plannerVars PROVE PlannerInv'
  OBVIOUS
<1> USE ItemsAssumption
<1>1. ASSUME FallbackPlan PROVE PlannerInv'
  <2>1. <<{}>> \in [1 .. 1 -> SUBSET Names] /\ Plans(<<{}>>) /\ stage = "asked" /\ stage' = "planned"
    BY <1>1 DEF FallbackPlan, Plans
  <2>2. SortInv'
    BY <2>1, PlansOK DEF PlannerInv
  <2> QED
    BY <2>1, <2>2 DEF PlannerInv
<1>2. ASSUME ParsePlan PROVE PlannerInv'
  <2>1. Plans(answer') /\ stage = "asked" /\ stage' = "planned"
    BY <1>2 DEF ParsePlan, Plans
  <2>2. PICK n \in Nat : answer' \in [1 .. n -> SUBSET Mentions]
    BY <1>2 DEF ParsePlan, Answers, ListsOf
  <2>3. answer' \in [1 .. n -> SUBSET Names]
    BY <2>2 DEF Names
  <2>4. SortInv'
    BY <2>1, <2>3, PlansOK DEF PlannerInv
  <2> QED
    BY <2>1, <2>4 DEF PlannerInv
<1>6. ASSUME PlanInCode PROVE PlannerInv'
  <2>1. stage = "asked" /\ stage' = "planned"
    BY <1>6 DEF PlanInCode, Plans
  <2>2. PICK items \in ListsOf({Id(i) : i \in 1 .. MaxItems}) : Plans(items)
    BY <1>6 DEF PlanInCode
  <2>3. PICK n \in Nat : items \in [1 .. n -> SUBSET {Id(i) : i \in 1 .. MaxItems}]
    BY <2>2 DEF ListsOf
  <2>4. items \in [1 .. n -> SUBSET Names]
    BY <2>3 DEF Names
  <2>5. SortInv'
    BY <2>1, <2>2, <2>4, PlansOK DEF PlannerInv
  <2> QED
    BY <2>1, <2>5 DEF PlannerInv
<1>3. ASSUME PlanningFails PROVE PlannerInv'
  <2>1. SortInv'
    BY <1>3, SortInvKept DEF PlanningFails, PlannerInv
  <2> QED
    BY <1>3, <2>1 DEF PlannerInv, PlanningFails, sortVars
<1>4. ASSUME Sort PROVE PlannerInv'
  <2>1. CASE SortStep /\ UNCHANGED stage
    <3>1. SortInv'
      BY <2>1, NextTaskKept, NextDependencyKept, VisitReturnsKept DEF SortStep, PlannerInv
    <3> QED
      BY <1>4, <2>1, <3>1 DEF PlannerInv, Sort
  <2>2. CASE SortEnds /\ stage' = "sorted" /\ UNCHANGED <<graphVars, sortVars>>
    <3>1. SortInv'
      BY <2>2, SortInvKept DEF PlannerInv
    <3> QED
      BY <2>2, <3>1 DEF PlannerInv, SortEnds, graphVars, sortVars
  <2> QED
    BY <1>4, <2>1, <2>2 DEF Sort
<1>5. ASSUME UNCHANGED plannerVars PROVE PlannerInv'
  <2>1. SortInv'
    BY <1>5, SortInvKept DEF PlannerInv, plannerVars
  <2> QED
    BY <1>5, <2>1 DEF PlannerInv, SortEnds, plannerVars, graphVars, sortVars
<1> QED
  BY <1>1, <1>2, <1>3, <1>4, <1>5, <1>6 DEF PlannerNext

\* Whatever the LLM answers, the plan and the sort keep PlannerInv.
THEOREM PlannerInvariance == PlannerSpec => []PlannerInv
  BY PlannerInvInit, PlannerInvNext, PTL DEF PlannerSpec

\* A sequence without repetitions is as long as it has entries.
LEMMA DifferentEntriesCount ==
    ASSUME NEW S, NEW q \in Seq(S), ToSet(q) = S, \A i, j \in 1 .. Len(q) : q[i] = q[j] => i = j
    PROVE  Cardinality(S) = Len(q)
<1>1. Len(q) \in Nat /\ q \in [1 .. Len(q) -> S]
  OBVIOUS
<1>2. \A s \in S : \E i \in 1 .. Len(q) : q[i] = s
  BY <1>1 DEF ToSet
<1>3. q \in Bijection(1 .. Len(q), S)
  BY <1>1, <1>2 DEF Bijection, Injection, Surjection, IsInjective
<1> QED
  BY <1>1, <1>3, FS_CountingElements DEF ExistsBijection

\* When all is visited and no call is under way, all is in the order.
LEMMA AllSorted ==
    ASSUME PlannerInv, stage = "sorted"
    PROVE  ToSet(order) = Known
<1>1. frames = << >> /\ next > Len(plan)
  BY DEF PlannerInv, SortEnds
<1>2. Len(plan) \in Nat /\ next \in Nat /\ \A i \in 1 .. Len(plan) : i < next => plan[i] \in visited
  BY DEF PlannerInv, SortInv, PlanOK, VisitedOK
<1>3. \A i \in 1 .. Len(plan) : plan[i] \in visited
  BY <1>1, <1>2
<1>4. Known \subseteq visited
  BY <1>3, PlanFacts DEF PlannerInv, SortInv
<1>5. Known \subseteq ToSet(order)
  BY <1>1, <1>4 DEF PlannerInv, SortInv, VisitedOK
<1>6. ToSet(order) \subseteq Known
  BY DEF PlannerInv, SortInv, OrderOK, ToSet
<1> QED
  BY <1>5, <1>6

\* For any number of items and whatever they mention, _topological_sort returns
\* every sub-task once.
THEOREM EachSubTaskIsSorted == PlannerSpec => []EachSubTaskOnce
<1>1. ASSUME PlannerInv, stage = "sorted" PROVE Len(order) = Len(plan) /\ ToSet(order) = ToSet(plan)
  <2>1. ToSet(order) = Known /\ ToSet(plan) = Known
    BY <1>1, AllSorted DEF Known
  <2>2. Cardinality(Known) = Len(plan)
    BY <1>1, <2>1, PlanFacts, DifferentEntriesCount DEF PlannerInv, SortInv
  <2>3. Cardinality(Known) = Len(order)
    BY <1>1, <2>1, DifferentEntriesCount DEF PlannerInv, SortInv, OrderOK
  <2> QED
    BY <2>1, <2>2, <2>3
<1>2. PlannerInv => EachSubTaskOnce
  BY <1>1 DEF EachSubTaskOnce
<1> QED
  BY <1>2, PlannerInvariance, PTL

\* In a list made in code a sub-task comes after what it depends on, unless they
\* depend on each other: when _visit meets a call under way, it is on a cycle.
\* (A plan of the LLM names no id: LlmPlansStayAsListed.)
THEOREM SortKeepsOrder == PlannerSpec => []OutsideCyclesInOrder
<1>1. PlannerInv => OutsideCyclesInOrder
  BY AllSorted DEF OutsideCyclesInOrder, PlannerInv, SortInv, OrderOK
<1> QED
  BY <1>1, PlannerInvariance, PTL

\* Of an acyclic plan the sort makes a list as InOrder wants it of Sorted: every
\* sub-task is listed after all those it depends on.
THEOREM AcyclicPlansAreInOrder ==
    PlannerSpec => [](stage = "sorted" /\ (\A s \in Known : s \notin Reaches(s)) =>
        \A i \in 1 .. Len(order) :
           depends[order[i]] \cap Known \subseteq {order[j] : j \in 1 .. i - 1})
<1> DEFINE InOrderNow ==
        stage = "sorted" /\ (\A s \in Known : s \notin Reaches(s)) =>
        \A i \in 1 .. Len(order) :
           depends[order[i]] \cap Known \subseteq {order[j] : j \in 1 .. i - 1}
<1>1. ASSUME PlannerInv, stage = "sorted", \A s \in Known : s \notin Reaches(s),
             NEW i \in 1 .. Len(order), NEW d \in depends[order[i]] \cap Known
      PROVE  \E j \in 1 .. i - 1 : order[j] = d
  <2>1. /\ order \in Seq(Known) /\ DOMAIN order = 1 .. Len(order) /\ Len(order) \in Nat
        /\ order[i] \in Known /\ order[i] \in ToSet(order)
        /\ \A j, k \in 1 .. Len(order) : order[j] = order[k] => j = k
    BY <1>1 DEF PlannerInv, SortInv, OrderOK, ToSet
  <2>2. order[i] \notin Reaches(d)
    <3>1. d \in Reaches(order[i])
      BY <1>1, <2>1, ReachesDirectly
    <3>2. order[i] \in Reaches(d) => order[i] \in Reaches(order[i])
      BY <2>1, <3>1, ReachesAlong
    <3> QED
      BY <1>1, <2>1, <3>2
  <2>3. PICK j, k \in 1 .. Len(order) : j < k /\ order[j] = d /\ order[k] = order[i]
    BY <1>1, <2>1, <2>2 DEF PlannerInv, SortInv, OrderOK, Before
  <2>4. k = i /\ j \in 1 .. i - 1
    BY <2>1, <2>3
  <2> QED
    BY <2>3, <2>4
<1>2. PlannerInv => InOrderNow
  BY <1>1
<1> QED
  BY <1>2, PlannerInvariance, PTL
-----------------------------------------------------------------------------
(* A plan of the LLM, which names no id of its own, stays as it is listed.  *)

\* How many sub-tasks are through.
Through == IF frames = << >> THEN next - 1 ELSE next - 2

\* Nothing of the plan is found under depends_on.
NoneKnown == \A s \in Known : depends[s] \cap Known = {}

\* At most two calls are under way, one for the sub-task that the loop has
\* reached and one for a thing that it mentions.
ListedInv ==
    /\ stage = "asked" => answer = << >>
    /\ answer # << >> /\ stage # "failed" =>
          /\ NoneKnown
          /\ Len(frames) <= 2
          /\ Len(frames) > 0 => next > 1 /\ frames[1].id = plan[next - 1]
          /\ Len(frames) = 2 => frames[2].id \notin Known
          /\ Len(order) = Through
          /\ \A i \in 1 .. Through : order[i] = plan[i]

LEMMA OneOrTwo ==
    ASSUME NEW n \in Nat, n > 0, n <= 2
    PROVE  n = 1 \/ n = 2
  OBVIOUS

LEMMA MentionsAreNoIds ==
    ASSUME NEW m \in Mentions, NEW i
    PROVE  m # Id(i)
<1>1. Id(i).kind = "id" /\ m.kind # "id"
  BY ItemsAssumption DEF Id
<1> QED
  BY <1>1

LEMMA ParsePlanListed ==
    ASSUME PlannerInv, ParsePlan
    PROVE  ListedInv'
<1>1. /\ frames' = << >> /\ order' = << >> /\ next' = 1 /\ stage' = "planned"
  BY DEF ParsePlan, Plans, PlannerInv, sortVars
<1>2. PICK n \in Nat : answer' \in [1 .. n -> SUBSET Mentions]
  BY DEF ParsePlan, Answers, ListsOf
<1>3. /\ plan' = [i \in 1 .. n |-> Id(i)]
      /\ depends' = [s \in {Id(i) : i \in 1 .. n} |-> answer'[s.n]]
  BY <1>2 DEF ParsePlan, Plans
<1>4. Known' = {Id(i) : i \in 1 .. n}
  BY <1>3 DEF Known, ToSet
<1>5. ASSUME NEW s \in Known' PROVE depends'[s] \cap Known' = {}
  <2>1. PICK i \in 1 .. n : s = Id(i)
    BY <1>4, <1>5
  <2>2. s.n = i /\ depends'[s] = answer'[s.n]
    BY <1>3, <2>1 DEF Id
  <2>3. depends'[s] \subseteq Mentions
    BY <1>2, <2>2
  <2> QED
    BY <1>4, <2>3, MentionsAreNoIds
<1>6. NoneKnown'
  BY <1>5 DEF NoneKnown
<1>7. Through' = 0 /\ Len(frames') = 0 /\ Len(order') = 0
  BY <1>1 DEF Through
<1> QED
  BY <1>1, <1>6, <1>7 DEF ListedInv

\* The loop reaches a sub-task that has not been visited.
LEMMA NextTaskListed ==
    ASSUME PlannerInv, ListedInv, NextTask, answer # << >>, stage = "planned", UNCHANGED <<stage, answer>>
    PROVE  ListedInv'
<1>1. /\ frames = << >> /\ next <= Len(plan) /\ next' = next + 1 /\ next \in Nat /\ Len(plan) \in Nat
      /\ 1 <= next /\ order' = order /\ plan' = plan /\ depends' = depends /\ Known' = Known
  BY DEF NextTask, graphVars, PlannerInv, SortInv, VisitedOK, PlanOK, Known, ToSet
<1>2. /\ Len(order) = next - 1 /\ NoneKnown
      /\ \A i \in 1 .. next - 1 : order[i] = plan[i]
  BY <1>1 DEF ListedInv, Through
<1>3. plan[next] \in Known /\ plan \in Seq(Known) /\ \A i, j \in 1 .. Len(plan) : plan[i] = plan[j] => i = j
  BY <1>1, PlanFacts DEF PlannerInv, SortInv
<1>4. plan[next] \notin visited
  <2>1. SUFFICES ASSUME plan[next] \in visited PROVE FALSE
    OBVIOUS
  <2>2. plan[next] \in ToSet(order)
    BY <1>1, <1>3, <2>1 DEF PlannerInv, SortInv, VisitedOK
  <2>3. PICK i \in 1 .. next - 1 : order[i] = plan[next]
    BY <1>2, <2>2 DEF ToSet
  <2> QED
    BY <1>1, <1>2, <1>3, <2>3
<1>5. frames' = <<[id |-> plan[next], left |-> Deps(plan[next])]>>
  BY <1>4 DEF NextTask, Visit
<1>6. Len(frames') = 1 /\ frames'[1].id = plan[next] /\ frames' # << >>
  BY <1>5
<1>7. Through' = next - 1 /\ next' - 1 = next /\ next' > 1
  BY <1>1, <1>6 DEF Through
<1>8. NoneKnown'
  BY <1>1, <1>2 DEF NoneKnown
<1>9. Len(order') = Through' /\ \A i \in 1 .. Through' : order'[i] = plan'[i]
  BY <1>1, <1>2, <1>7
<1> QED
  BY <1>1, <1>6, <1>7, <1>8, <1>9 DEF ListedInv

\* Something is visited that is no sub-task of the plan.
LEMMA NextDependencyListed ==
    ASSUME PlannerInv, ListedInv, NextDependency, answer # << >>, stage = "planned", UNCHANGED <<stage, answer>>
    PROVE  ListedInv'
<1>1. /\ frames # << >> /\ next' = next /\ order' = order
      /\ plan' = plan /\ depends' = depends /\ Known' = Known
      /\ frames \in Seq(Call) /\ Len(frames) \in Nat /\ Len(frames) > 0 /\ Len(frames) <= 2
      /\ frames[1].id = plan[next - 1] /\ next > 1 /\ NoneKnown
      /\ Len(order) = Through /\ \A i \in 1 .. Through : order[i] = plan[i]
  BY DEF NextDependency, graphVars, PlannerInv, SortInv, FramesOK, Known, ToSet, ListedInv
<1>2. PICK d \in Last(frames).left : Visit(d, [frames EXCEPT ![Len(frames)].left = @ \ {d}])
  BY DEF NextDependency
<1>3. d \in Deps(frames[Len(frames)].id)
  BY <1>1, <1>2 DEF PlannerInv, SortInv, FramesOK, Last
<1>4. Len(frames) = 1
  <2>1. Deps(frames[Len(frames)].id) # {}
    BY <1>3
  <2>2. frames[Len(frames)].id \in Known
    BY <2>1 DEF Deps
  <2>3. Len(frames) = 2 => frames[2].id \notin Known
    BY DEF ListedInv
  <2>4. Len(frames) # 2
    BY <2>2, <2>3
  <2>5. Len(frames) = 1 \/ Len(frames) = 2
    BY <1>1, OneOrTwo
  <2> QED
    BY ONLY <2>4, <2>5
<1>5. d \notin Known
  BY <1>1, <1>3 DEF Deps, NoneKnown
<1>6. PICK f : f = [frames[1] EXCEPT !.left = @ \ {d}]
  OBVIOUS
<1>7. [frames EXCEPT ![1].left = @ \ {d}] = <<f>>
  <2>1. DOMAIN frames = {1} /\ frames = [i \in {1} |-> frames[1]]
    <3>1. frames \in [1 .. Len(frames) -> Call]
      BY <1>1
    <3>2. 1 .. Len(frames) = {1}
      BY <1>4
    <3> QED
      BY ONLY <3>1, <3>2
  <2>2. [frames EXCEPT ![1].left = @ \ {d}] = [i \in {1} |-> f]
    BY ONLY <1>6, <2>1
  <2>3. <<f>> = [i \in {1} |-> f]
    <3>1. <<f>> = [i \in 1 .. 1 |-> f]
      OBVIOUS
    <3>2. 1 .. 1 = {1}
      OBVIOUS
    <3> QED
      BY <3>1, <3>2
  <2> QED
    BY <2>2, <2>3
<1>8. f.id = frames[1].id
  BY <1>1, <1>4, <1>6 DEF Call
<1>12. Visit(d, <<f>>)
  BY <1>2, <1>4, <1>7
<1>13. frames' = <<f>> \/ frames' = Append(<<f>>, [id |-> d, left |-> Deps(d)])
  BY <1>12 DEF Visit
<1>14. ASSUME frames' = <<f>>
       PROVE  Len(frames') = 1 /\ frames'[1] = f
  BY <1>14
<1>15. ASSUME frames' = Append(<<f>>, [id |-> d, left |-> Deps(d)])
       PROVE  Len(frames') = 2 /\ frames'[1] = f /\ frames'[2] = [id |-> d, left |-> Deps(d)]
  BY ONLY <1>15
<1>16. Len(frames') \in {1, 2} /\ frames'[1] = f /\ (Len(frames') = 2 => frames'[2].id = d)
  BY <1>13, <1>14, <1>15
<1>9. /\ Len(frames') \in {1, 2} /\ frames'[1].id = plan[next - 1]
      /\ Len(frames') = 2 => frames'[2].id = d
      /\ frames' # << >>
  BY <1>1, <1>8, <1>16
<1>10. Through' = Through
  BY <1>1, <1>9 DEF Through
<1>11. NoneKnown'
  BY <1>1 DEF NoneKnown
<1>17. next' > 1 /\ frames'[1].id = plan'[next' - 1]
  BY <1>1, <1>9
<1>18. Len(frames') <= 2
  <2>1. \A k \in {1, 2} : k <= 2
    OBVIOUS
  <2> QED
    BY <1>9, <2>1, Zenon
<1>19. Len(frames') = 2 => frames'[2].id \notin Known'
  BY <1>1, <1>5, <1>9
<1>20. Len(order') = Through' /\ \A i \in 1 .. Through' : order'[i] = plan'[i]
  BY <1>1, <1>10
<1> QED
  BY <1>11, <1>17, <1>18, <1>19, <1>20 DEF ListedInv

\* The sub-task that the loop has reached is the next of the order.
LEMMA VisitReturnsListed ==
    ASSUME PlannerInv, ListedInv, VisitReturns, answer # << >>, stage = "planned", UNCHANGED <<stage, answer>>
    PROVE  ListedInv'
<1>1. /\ frames # << >> /\ next' = next /\ frames' = Front(frames)
      /\ plan' = plan /\ depends' = depends /\ Known' = Known
      /\ frames \in Seq(Call) /\ Len(frames) \in Nat /\ Len(frames) > 0 /\ Len(frames) <= 2
      /\ frames[1].id = plan[next - 1] /\ next > 1 /\ NoneKnown /\ next \in Nat
      /\ next <= Len(plan) + 1 /\ Len(plan) \in Nat
      /\ order \in Seq(Known)
      /\ Len(order) = next - 2 /\ \A i \in 1 .. next - 2 : order[i] = plan[i]
  BY DEF VisitReturns, graphVars, PlannerInv, SortInv, FramesOK, VisitedOK, OrderOK, PlanOK, Known, ToSet,
         ListedInv, Through
<1>2. NoneKnown'
  BY <1>1 DEF NoneKnown
<1>3. CASE Len(frames) = 2
  <2>1. frames[2].id \notin Known /\ Last(frames) = frames[2]
    BY <1>1, <1>3 DEF ListedInv, Last
  <2>2. order' = order
    BY <2>1 DEF VisitReturns
  <2>3. Len(frames') = 1 /\ frames'[1] = frames[1] /\ frames' # << >>
    BY <1>1, <1>3 DEF Front
  <2>4. Through' = next - 2
    BY <1>1, <2>3 DEF Through
  <2> QED
    BY <1>1, <1>2, <2>2, <2>3, <2>4 DEF ListedInv
<1>4. CASE Len(frames) = 1
  <2>1. Last(frames) = frames[1] /\ plan[next - 1] \in Known
    BY <1>1, <1>4, PlanFacts DEF Last, PlannerInv, SortInv
  <2>2. order' = Append(order, plan[next - 1])
    BY <1>1, <2>1 DEF VisitReturns
  <2>3. Len(frames') = 0 /\ frames' = << >>
    BY <1>1, <1>4 DEF Front
  <2>4. Through' = next - 1
    BY <1>1, <2>3 DEF Through
  <2>5. Len(order') = next - 1 /\ \A i \in 1 .. next - 1 : order'[i] = plan[i]
    BY <1>1, <2>1, <2>2
  <2> QED
    BY <1>1, <1>2, <2>3, <2>4, <2>5 DEF ListedInv
<1>5. Len(frames) = 1 \/ Len(frames) = 2
  BY <1>1, OneOrTwo
<1> QED
  BY <1>3, <1>4, <1>5

LEMMA ListedInvKept ==
    ASSUME ListedInv, UNCHANGED <<graphVars, sortVars, answer>>, stage' = stage \/ (stage = "planned" /\ stage' = "sorted")
    PROVE  ListedInv'
<1>1. /\ UNCHANGED <<plan, depends, next, frames, order, answer>> /\ Known' = Known
  BY DEF graphVars, sortVars, Known, ToSet
<1>2. Through' = Through /\ (NoneKnown => NoneKnown')
  BY <1>1 DEF Through, NoneKnown
<1> QED
  BY <1>1, <1>2 DEF ListedInv

LEMMA ListedInvNext == PlannerInv /\ ListedInv /\ [PlannerNext]_plannerVars => ListedInv'
<1> SUFFICES ASSUME PlannerInv, ListedInv, [PlannerNext]_plannerVars PROVE ListedInv'
  OBVIOUS
<1>1. ASSUME FallbackPlan \/ PlanInCode PROVE ListedInv'
  BY <1>1 DEF FallbackPlan, PlanInCode, Plans, ListedInv
<1>2. ASSUME ParsePlan PROVE ListedInv'
  BY <1>2, ParsePlanListed
<1>3. ASSUME PlanningFails PROVE ListedInv'
  BY <1>3 DEF PlanningFails, ListedInv
<1>4. ASSUME Sort PROVE ListedInv'
  <2>1. stage = "planned" /\ UNCHANGED answer
    BY <1>4 DEF Sort
  <2>2. ASSUME SortStep, UNCHANGED stage PROVE ListedInv'
    <3>1. CASE answer = << >>
      BY <2>1, <2>2, <3>1 DEF ListedInv
    <3>2. CASE answer # << >>
      BY <2>1, <2>2, <3>2, NextTaskListed, NextDependencyListed, VisitReturnsListed DEF SortStep
    <3> QED
      BY <3>1, <3>2
  <2>3. ASSUME SortEnds, stage' = "sorted", UNCHANGED <<graphVars, sortVars>> PROVE ListedInv'
    BY <2>1, <2>3, ListedInvKept
  <2> QED
    BY <1>4, <2>2, <2>3 DEF Sort
<1>5. ASSUME UNCHANGED plannerVars PROVE ListedInv'
  BY <1>5, ListedInvKept DEF plannerVars
<1> QED
  BY <1>1, <1>2, <1>3, <1>4, <1>5 DEF PlannerNext

\* However many items the LLM lists and whatever it writes under depends_on, its
\* sub-tasks are executed in the order in which they are listed: no index is ever
\* taken for a dependency.
THEOREM LlmPlansStayAsListed == PlannerSpec => []ListedOrderIsKept
<1>1. PlannerInit => ListedInv
  BY DEF PlannerInit, ListedInv
<1>2. ASSUME PlannerInv, ListedInv, stage = "sorted", answer # << >> PROVE order = plan
  <2>1. /\ frames = << >> /\ next = Len(plan) + 1 /\ Len(plan) \in Nat
        /\ order \in Seq(Known) /\ plan \in Seq(Known)
    BY <1>2, PlanFacts DEF PlannerInv, SortEnds, SortInv, VisitedOK, OrderOK
  <2>2. Len(order) = Len(plan) /\ \A i \in 1 .. Len(plan) : order[i] = plan[i]
    BY <1>2, <2>1 DEF ListedInv, Through
  <2> QED
    BY <2>1, <2>2
<1>3. PlannerInv /\ ListedInv => ListedOrderIsKept
  BY <1>2 DEF ListedOrderIsKept
<1> QED
  BY <1>1, <1>3, ListedInvNext, PlannerInvariance, PTL DEF PlannerSpec
=============================================================================

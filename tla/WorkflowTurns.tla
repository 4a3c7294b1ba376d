--------------------------- MODULE WorkflowTurns ---------------------------
(***************************************************************************)
(* How the runs of WorkflowStore share an account, with who overtook whom  *)
(* kept in a history variable.                                             *)
(***************************************************************************)
EXTENDS WorkflowStore

VARIABLE overtaken  \* the runs claimed while a run kept waiting for its claim

turnVars == <<vars, overtaken>>

Wanting(r) == runStatus[r] \in Schedulable /\ WithinLimits(r) /\ NextTasks(r) # {}

Claimed(r) == \E t \in Task : attempts'[r][t] > attempts[r][t]

TurnInit == Init /\ overtaken = [r \in Runs |-> {}]

TurnNext ==
  /\ Next
  /\ overtaken' = [q \in Runs |-> IF Claimed(q) \/ ~Wanting(q) THEN {}
                                  ELSE overtaken[q] \cup {r \in Runs : Claimed(r)}]

TurnSpec == TurnInit /\ [][TurnNext]_turnVars

\* Runs of one account take turns: nobody is claimed twice while another run
\* had a task to claim all along (scheduler.rs:37, ORDER BY last attempt).
TurnsAlternate ==
  [][\A q, r \in Runs : AccountOf[q] = AccountOf[r] /\ Wanting(q) /\ r \in overtaken[q]
                          => ~Claimed(r)]_turnVars
===========================================================================

-------------------------- MODULE MCWorkflowClock --------------------------
(***************************************************************************)
(* Bounded instances of WorkflowClock.                                     *)
(***************************************************************************)
EXTENDS WorkflowClock, Functions

CONSTANTS
  MaxTotalAttempts,  \* bound on the attempts of all runs together
  ExploredReadiness  \* bound on the account states that are explored further

OneAccount == [r \in Runs |-> "a"]

Bounded ==
  /\ FoldFunction(+, 0, [r \in Runs |-> FoldFunction(+, 0, attempts[r])]) <= MaxTotalAttempts
  /\ \A a \in Accounts : account[a].readiness \in ExploredReadiness
===========================================================================

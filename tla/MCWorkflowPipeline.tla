------------------------ MODULE MCWorkflowPipeline ------------------------
(***************************************************************************)
(* Bounded instances of one run's pipeline and of its pauses.              *)
(***************************************************************************)
EXTENDS WorkflowPause, Functions

CONSTANTS
  ExtraAttempts,     \* bound on attempts beyond one per task
  ExploredReadiness  \* bound on the account states that are explored further

OneAccount == [r \in Runs |-> "a"]

Bounded ==
  /\ \A r \in Runs : FoldFunction(+, 0, attempts[r]) <= Candidates + Reductions + ExtraAttempts
  /\ \A a \in Accounts : account[a].readiness \in ExploredReadiness
===========================================================================

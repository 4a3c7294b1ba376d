-------------------------- MODULE MCConceptEngine --------------------------
(* Bounded instances of ConceptEngine. *)
EXTENDS ConceptEngine, Functions

CONSTANTS
  MaxTotal,          \* bound on the attempts of a run
  ExploredStatus,    \* bound on the run states that are explored further
  ExploredLate,      \* the same once there was a restart and the deadline has passed
  ExploredReadiness, \* the same for an account with a worker
  ExploredLimits     \* and for the limits such an account has met

OneAccount == [r \in Runs |-> "a"]

Attempted(r) == FoldFunction(+, 0, attempts[r])

\* No attempt can have a worker again, and no prompt be sent or page be closed.
AllEnded ==
  /\ \A r \in Runs : Attempted(r) = MaxTotal
  /\ Active = {}
  /\ \A l \in Lease : /\ StateOf(l) \notin Live \ {"uncertain"}
                      /\ handler[l]["close"] = "idle"
                      /\ ~Pages!Submitting(l)

Bounded ==
  /\ ~AllEnded
  /\ \A r \in Runs :
       /\ Attempted(r) <= MaxTotal
       /\ runStatus[r] \in ExploredStatus
       /\ restarts > 0 /\ now >= deadline[r] => runStatus[r] \in ExploredLate
  /\ \A l \in Active : /\ account[Account(l)].readiness \in ExploredReadiness
                       /\ account[Account(l)].limits <= ExploredLimits
===========================================================================

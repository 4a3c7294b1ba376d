--------------------------- MODULE WorkflowPause ---------------------------
(***************************************************************************)
(* What an operator's pause means for the runs of WorkflowStore, kept in a *)
(* history variable.                                                       *)
(***************************************************************************)
EXTENDS WorkflowStore

VARIABLE held   \* paused, and not resumed since, reconciliation in between included

pauseVars == <<vars, held>>

PauseInit ==
  /\ Init
  /\ held = [r \in Runs |-> FALSE]

ResumedByOperator(r) == \E allowIncomplete \in BOOLEAN : Resume(r, allowIncomplete)

PauseNext ==
  /\ Next
  /\ held' = [r \in Runs |-> \/ runStatus'[r] = "paused"
                             \/ held[r] /\ runStatus'[r] = "reconciliation-required"]

PauseSpec == PauseInit /\ [][PauseNext]_pauseVars

\* Pausing prevents new submissions (docs/concept-workflows.md:79): only the
\* operator's resume makes a paused run schedulable again, a capture, failure,
\* verification or restart in between included.
PauseHolds ==
  [][\A r \in Runs : held[r] /\ runStatus'[r] \in Schedulable \cup {"waiting-for-auth"}
                       => ResumedByOperator(r)]_pauseVars
===========================================================================

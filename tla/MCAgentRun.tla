----------------------------- MODULE MCAgentRun -----------------------------
(***************************************************************************)
(* What others do to the registry and the leases is explored until the     *)
(* bridge is ready, in every combination; the archive run itself only with *)
(* every account ready and nothing claimed, leased elsewhere or left by a  *)
(* dead process: the run reads none of it.  Of a fault of the bridge, a    *)
(* session that expires and an agent that no longer waits for its run, one *)
(* befalls a run, and at most two messages of the bridge are unread.       *)
(***************************************************************************)
EXTENDS AgentRun, TLC

CONSTANTS a1, a2, r0, r1

TwoAccounts == {a1, a2}
SmallLimits == a1 :> 2 @@ a2 :> 1
TwoRuns == {r0, r1}

Quiet ==
  /\ \A a \in Accounts : status[a] = "ready"
  /\ claimed = {} /\ dead = {}
  /\ \A l \in leases : l.holder = Run
  /\ requested = {} /\ agent # "finished"

Abandoned == IF phase = "running" /\ agent # "collecting" THEN {Run} ELSE {}

OneMishap ==
  /\ Cardinality(faults) + Cardinality({t \in Tabs : reports[t] > 0}) + Cardinality(Abandoned) <= 1
  /\ \A t \in Tabs : reports[t] <= 1
  /\ Len(pipe) <= 2

Focus == phase \in {"idle", "starting"} \/ (Quiet /\ OneMishap)
=============================================================================

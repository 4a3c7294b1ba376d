--------------------------- MODULE MCRemoteDeploy ---------------------------
(* Two deploys to one checkout, of one job: the tab's archive again.       *)
EXTENDS RemoteDeploy, TLC

\* The deploys of a job differ only in their archives.
Symmetry == Permutations(Deploys)

OneJob == [d \in Deploys |-> "job"]
Setting(policy, ahead) == [policy |-> policy, ahead |-> ahead, dryRun |-> FALSE, ci |-> TRUE]
EverySetting ==
  {Setting("block", TRUE), Setting("preserve-reset", TRUE),
   [Setting("adopt", TRUE) EXCEPT !.ci = FALSE], [Setting("block", FALSE) EXCEPT !.dryRun = TRUE]}
=============================================================================

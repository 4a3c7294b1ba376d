-------------------------- MODULE MCWorkerExecutor --------------------------
(***************************************************************************)
(* Bounded instances of WorkerCancellation.  How submissions, closes and   *)
(* cancellations compete for a tab does not depend on what the browser     *)
(* does: the browser is explored where one request is repeated and opens   *)
(* its own tab, and only up to the start of the executor otherwise.        *)
(***************************************************************************)
EXTENDS WorkerCancellation

\* A tab the submission opens itself, and a named tab, under one key; another key
\* for the named tab.
Repeated == [key |-> "k1", tab |-> Implicit]
Named == [key |-> "k1", tab |-> "t"]
Competing == [key |-> "k2", tab |-> "t"]
SharedTab == {Repeated, Named, Competing}

\* Of two submissions, the one that repeats, contradicts or competes with the other
\* is the same one in every instance.
Instances ==
  {<<Repeated, Repeated>>, <<Named, Repeated>>, <<Named, Named>>, <<Named, Competing>>}

Alone == \A c \in Calls : call[c].request = Repeated

MCInit ==
  /\ CancellationInit
  /\ <<call["c1"].request, call["c2"].request>> \in Instances

MCSpec == MCInit /\ [][CancellationNext]_<<workerVars, inTime>> /\ WorkerFairness

Focus ==
  IF Alone
  THEN \A t \in TabNames : tabs[t].status = "absent"
  ELSE \A j \in Calls : executor[j] \in {"none", "starting"} /\ outcome[j] = "failed"
=============================================================================

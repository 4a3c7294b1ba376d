------------------------------ MODULE AgentRun ------------------------------
(***************************************************************************)
(* An agent run as the server starts it (crates/jailgun-orchestrator/src/  *)
(* agent, crates/jailgun-server/src/runs): it leases browser tabs, starts  *)
(* the archive run, follows its events until the run has a summary or the  *)
(* runtime is over, and returns the lease; the snapshot the server shows   *)
(* follows the events.  Runs of other processes lease tabs of the same     *)
(* accounts, operators register and verify accounts, and the concept       *)
(* daemon claims profiles.                                                 *)
(***************************************************************************)
EXTENDS ArchiveRun, BrowserLeases

CONSTANTS
  Run,             \* this run, as a holder of leases
  OthersDuring     \* bound: phases of the archive run during which others act

ASSUME AgentAssumption == Run \in Holders

VARIABLES
  agent,        \* "idle", "acquiring", "starting", "collecting", "returning",
                \* "finished" or "dead"
  requested,    \* browser.account_ids; none are any that are ready
  outcome,      \* the status of the summary, or "error" where there is none
  shown         \* status of the run's snapshot

agentVars == <<agent, requested, outcome, shown>>
vars == <<archiveVars, leaseVars, agentVars>>

Init ==
  /\ ArchiveInit /\ LeasesInit
  /\ agent = "idle" /\ requested = {} /\ outcome = "none" /\ shown = "none"

(***************************************************************************)
(* The run of this process.                                                *)
(***************************************************************************)
\* prepare_agent_run, with the accounts as the registry has them now, and the run
\* is queued.
Submit(ids) ==
  /\ agent = "idle"
  /\ LET accounts == Candidates(ids) IN
     /\ accounts # {} /\ accounts \subseteq Ready
     /\ TotalTabs <= Capacity(accounts)
  /\ agent' = "acquiring" /\ requested' = ids /\ shown' = "queued"
  /\ UNCHANGED <<archiveVars, leaseVars, outcome>>

\* The run ends without a summary: mark_agent_run_failed.
EndsInError == agent' = "finished" /\ outcome' = "error" /\ shown' = "failed"

\* acquire_browser_lease: tried again every two seconds while the accounts are busy,
\* if the run may queue and its queue timeout has not passed.
Acquire ==
  /\ agent = "acquiring"
  /\ \/ /\ TryAcquire(Run, requested, TotalTabs, "leased")
        /\ agent' = "starting" /\ shown' = "starting"
        /\ UNCHANGED outcome
     \/ /\ \E answer \in {"busy", "refused"} : TryAcquire(Run, requested, TotalTabs, answer)
        /\ EndsInError
  /\ UNCHANGED <<archiveVars, requested>>

BackendStarts ==
  /\ agent = "starting"
  /\ StartRun
  /\ agent' = "collecting"
  /\ UNCHANGED <<leaseVars, requested, outcome, shown>>

\* An event cannot be written, or the bridge cannot be started.
BackendFails ==
  /\ agent = "starting"
  /\ ReleaseLease(Run)
  /\ EndsInError
  /\ UNCHANGED <<archiveVars, requested>>

\* Events arrive in order: the start of the run before what goes wrong in it.
CollectEvent ==
  /\ agent = "collecting"
  /\ \E event \in published :
       /\ event = "error" => "started" \notin published
       /\ published' = published \ {event}
       /\ shown' = IF event = "started" THEN "running" ELSE "failed"
  /\ UNCHANGED <<loopVars, deploys, launcher, tracker, failures, deployVars, bridgeVars,
                 leaseVars, agent, requested, outcome>>

\* The collector lags and its oldest events are lost.
EventsLag ==
  /\ agent = "collecting" /\ published # {}
  /\ Fault("lagged")
  /\ published' = published \ {IF "started" \in published THEN "started" ELSE "error"}
  /\ UNCHANGED <<loopVars, deploys, launcher, tracker, failures, deployVars, tabState, bridge,
                 leaseVars, agentVars>>

\* An event cannot be written: the handle and the lease are dropped.
CollectionFails ==
  /\ agent = "collecting"
  /\ shutdown' = TRUE
  /\ ReleaseLease(Run)
  /\ EndsInError
  /\ UNCHANGED <<phase, deploys, launcher, tracker, failures, deployVars, published, bridgeVars,
                 requested>>

\* max_runtime_seconds: the run is told to stop and is not waited for.
AgentDeadline ==
  /\ agent = "collecting"
  /\ shutdown' = TRUE
  /\ agent' = "returning" /\ outcome' = "timed-out"
  /\ UNCHANGED <<phase, deploys, launcher, tracker, failures, deployVars, published, bridgeVars,
                 leaseVars, requested, shown>>

\* The run's summary, which may be taken before the last events.  Its artifacts are
\* validated again.
TakeSummary ==
  /\ agent = "collecting" /\ phase = "ended"
  /\ agent' = "returning"
  /\ outcome' \in IF failures = {} THEN {"succeeded", "failed"} ELSE {"failed"}
  /\ shutdown' = TRUE
  /\ UNCHANGED <<phase, deploys, launcher, tracker, failures, deployVars, published, bridgeVars,
                 leaseVars, requested, shown>>

\* The lease is returned and the summary written and shown.
ReturnSummary ==
  /\ agent = "returning"
  /\ ReleaseLease(Run)
  /\ \/ agent' = "finished" /\ shown' = outcome /\ UNCHANGED outcome
     \/ EndsInError
  /\ UNCHANGED <<archiveVars, requested>>

\* The process dies with the orchestrator and the deploy tasks in it; the input of
\* its bridge ends.
ProcessDies ==
  /\ agent \notin {"idle", "dead"}
  /\ HolderDies(Run)
  /\ agent' = "dead" /\ phase' = IF phase = "idle" THEN phase ELSE "ended"
  /\ job' = [t \in Tabs |-> IF job[t] \in {"queued", "running"} THEN "lost" ELSE job[t]]
  /\ UNCHANGED <<deploys, shutdown, launcher, tracker, failures, results, published, bridgeVars,
                 requested, outcome, shown>>

AgentStep ==
  \/ \E ids \in SUBSET Accounts : Submit(ids)
  \/ Acquire \/ BackendStarts \/ BackendFails
  \/ CollectEvent \/ EventsLag \/ CollectionFails \/ AgentDeadline \/ TakeSummary \/ ReturnSummary
  \/ ProcessDies

(***************************************************************************)
(* Everyone else.                                                          *)
(***************************************************************************)
Rivals == Holders \ {Run}

RivalAcquires(h) ==
  /\ h \notin dead /\ ~Holds(h)
  /\ \E ids \in SUBSET Accounts, tabs \in 1 .. Capacity(Accounts) :
       TryAcquire(h, ids, tabs, "leased")

RivalReleases(h) == h \notin dead /\ Holds(h) /\ ReleaseLease(h)

OthersStep ==
  /\ phase \in OthersDuring
  /\ \/ \E h \in Rivals : RivalAcquires(h) \/ RivalReleases(h) \/ HolderDies(h)
     \/ \E a \in Accounts : RegisterAccount(a) \/ \E confirmed \in BOOLEAN : VerifyAccount(a, confirmed)
     \/ ClaimProfiles
  /\ UNCHANGED <<archiveVars, agentVars>>

Next ==
  \/ AgentStep
  \/ OthersStep
  \/ ArchiveStep /\ UNCHANGED <<leaseVars, agentVars>>

\* The tasks of the process are scheduled, every command of the bridge and every
\* deploy has a time limit, and the collector takes what is ready.  The deadlines of
\* the run and of the agent are not assumed to come.
Fairness ==
  /\ WF_vars(LoopStep /\ UNCHANGED <<leaseVars, agentVars>>)
  /\ \A t \in Tabs :
       /\ WF_vars(TabStep(t) /\ UNCHANGED <<leaseVars, agentVars>>)
       /\ WF_vars(DeployStep(t) /\ UNCHANGED <<leaseVars, agentVars>>)
  /\ WF_vars(TakeSummary) /\ WF_vars(ReturnSummary)

Spec == Init /\ [][Next]_vars /\ Fairness

(***************************************************************************)
(* Properties                                                              *)
(***************************************************************************)
\* A run reported as succeeded is whole: each of its tabs delivered, none ended
\* without its artifact, and where the run deploys every deploy succeeded.
SucceededIsWhole ==
  outcome = "succeeded" =>
    /\ downloaded = Tabs /\ terminal = {}
    /\ deploys => \A t \in Tabs : job[t] = "succeeded"

\* A run shown as failed is never shown as succeeded later: what makes the server
\* show a failure while the run goes on is also in the summary that ends it.
FailureIsNotRetracted == [][shown = "failed" => shown' # "succeeded"]_vars

\* Without its deadlines, an archive run whose session stays valid and whose messages
\* arrive whole comes to its end: every tab is launched and every tab ends.
EveryRunEnds ==
  agent = "collecting" ~>
    (agent \in {"finished", "dead"} \/ expired # {} \/ "garbled" \in faults)
=============================================================================

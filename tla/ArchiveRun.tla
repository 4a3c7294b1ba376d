----------------------------- MODULE ArchiveRun -----------------------------
(***************************************************************************)
(* One archive run: the orchestrator's loop (crates/jailgun-orchestrator/  *)
(* src/run) and the browser bridge it starts, of which it sees the tabs'   *)
(* messages: TabProtocol.  A deploy is one task here; RemoteDeploy is what *)
(* it does.                                                                *)
(***************************************************************************)
EXTENDS Naturals, Sequences, FiniteSets

CONSTANTS
  TotalTabs,
  DeployConcurrency,
  RecoveryLimit,     \* conversations the bridge may look through for an artifact
  Faults             \* bound: what may go wrong, once in a run

ASSUME ArchiveAssumption ==
  /\ TotalTabs \in Nat \ {0}
  /\ DeployConcurrency \in Nat \ {0}
  /\ RecoveryLimit \in Nat
  /\ Faults \subseteq {"garbled", "died", "lagged"}

Tabs == 1 .. TotalTabs
NoTab == 0

VARIABLES
  phase,        \* drive_run: "idle", "starting", "running", "draining" or "ended"
  deploys,      \* deploying is enabled
  shutdown,     \* the caller asked the run to stop, or dropped its handle
  nextTab, waiting, scheduled,      \* LaunchScheduler
  timers,       \* tabs whose launch delay has begun
  downloaded, deployed, terminal, expired,    \* RunTracker
  failures,     \* tabs with a failure in the summary; NoTab is the run itself
  job,          \* the deploy of each tab
  results,      \* tabs whose deploy has ended and is not counted yet
  published,    \* events that change the run's status and are not received yet
  tab,          \* the command each tab of the bridge is at
  pipe,         \* messages the orchestrator has not received yet
  reports,      \* how often each tab has reported its session as expired
  bridge,       \* "up", "gone"
  faults        \* what went wrong

loopVars == <<phase, shutdown>>
launcher == <<nextTab, waiting, scheduled, timers>>
tracker  == <<downloaded, deployed, terminal, expired>>
deployVars == <<job, results>>
tabState == <<tab, pipe, reports>>
bridgeVars == <<tabState, bridge, faults>>
archiveVars == <<loopVars, deploys, launcher, tracker, failures, deployVars, published, bridgeVars>>

INSTANCE TabProtocol

ArchiveInit ==
  /\ phase = "idle" /\ shutdown = FALSE /\ deploys \in BOOLEAN
  /\ nextTab = 1 /\ waiting = NoTab /\ scheduled = NoTab /\ timers = {}
  /\ downloaded = {} /\ deployed = {} /\ terminal = {} /\ expired = {}
  /\ failures = {} /\ published = {}
  /\ job = [t \in Tabs |-> "none"] /\ results = {}
  /\ TabsInit /\ bridge = "gone" /\ faults = {}

Fault(kind) == kind \in Faults /\ faults = {} /\ faults' = {kind}

Publish(event) == published' = published \cup {event}

(***************************************************************************)
(* RunTracker.                                                             *)
(***************************************************************************)
IsComplete ==
  \A t \in Tabs : t \in terminal \/ (t \in downloaded /\ (deploys => t \in deployed))

Looping == phase = "running" /\ ~IsComplete

(***************************************************************************)
(* LaunchScheduler.                                                        *)
(***************************************************************************)
\* schedule_next, once the tab before it is no longer waited for.
ScheduleNext ==
  /\ waiting' = NoTab
  /\ IF nextTab > TotalTabs \/ scheduled # NoTab
     THEN UNCHANGED <<scheduled, timers>>
     ELSE scheduled' = nextTab /\ timers' = timers \cup {nextTab}
  /\ UNCHANGED nextTab

\* Variant: a tab that ends before its prompt was accepted launches nothing.
SettledAccepted(t) ==
  IF waiting = t /\ Head(pipe).kind = "prompt-submitted" THEN ScheduleNext ELSE UNCHANGED launcher

\* prompt_accepted, tab_terminal
Settled(t) == IF waiting = t THEN ScheduleNext ELSE UNCHANGED launcher

\* tab_failed: nothing more is launched.
TabFailed(t) ==
  /\ waiting' = IF waiting = t THEN NoTab ELSE waiting
  /\ scheduled' = NoTab
  /\ UNCHANGED <<nextTab, timers>>

\* launch_next: the four commands of the tab go to the bridge in one queue.
LaunchNext ==
  /\ nextTab' = nextTab + 1
  /\ waiting' = nextTab
  /\ Launch(nextTab)

(***************************************************************************)
(* The bridge.                                                             *)
(***************************************************************************)
TabStep(t) ==
  /\ bridge = "up"
  /\ TabWork(t)
  /\ UNCHANGED <<loopVars, deploys, launcher, tracker, failures, deployVars, published, bridge, faults>>

\* A message arrives damaged, so that its envelope or its payload does not decode.
MessageGarbled ==
  /\ pipe # <<>>
  /\ Fault("garbled")
  /\ \E t \in {NoTab, Head(pipe).tab} : pipe' = <<Message(t, "garbled")>> \o Tail(pipe)
  /\ UNCHANGED <<loopVars, deploys, launcher, tracker, failures, deployVars, published, tab, reports, bridge>>

\* The bridge dies; what it wrote is still read.
BridgeDies ==
  /\ bridge = "up" /\ Fault("died")
  /\ bridge' = "gone"
  /\ UNCHANGED <<loopVars, deploys, launcher, tracker, failures, deployVars, published, tabState>>

\* shutdown, or the end of its input: every page is closed and the browsers with it.
BridgeShutsDown ==
  /\ bridge = "up" /\ phase \in {"draining", "ended"}
  /\ bridge' = "gone"
  /\ UNCHANGED <<loopVars, deploys, launcher, tracker, failures, deployVars, published, tabState, faults>>

(***************************************************************************)
(* drive_run.                                                              *)
(***************************************************************************)
StartRun ==
  /\ phase = "idle"
  /\ phase' = "starting" /\ bridge' = "up"
  /\ Publish("started")
  /\ UNCHANGED <<deploys, shutdown, launcher, tracker, failures, deployVars, tabState, faults>>

\* The bridge reports ready within 90 seconds and the first tab is launched.
BridgeReady ==
  /\ phase = "starting" /\ bridge = "up"
  /\ phase' = "running"
  /\ LaunchNext
  /\ UNCHANGED <<deploys, shutdown, scheduled, timers, tracker, failures, deployVars, published,
                 bridge, faults>>

\* It does not, fails to start, or cannot be written to: the bridge is dropped.
StartFails ==
  /\ phase = "starting"
  /\ phase' = "ended" /\ bridge' = "gone"
  /\ failures' = failures \cup {NoTab}
  /\ Publish("error")
  /\ UNCHANGED <<deploys, shutdown, launcher, tracker, deployVars, tabState, faults>>

\* What ends the loop with a failure of the run.
LoopFails ==
  /\ phase' = "draining"
  /\ failures' = failures \cup {NoTab}
  /\ Publish("error")
  /\ UNCHANGED <<deploys, shutdown, launcher, tracker, deployVars, bridgeVars>>

RunDeadline == Looping /\ LoopFails
BridgeExited == Looping /\ bridge = "gone" /\ pipe = <<>> /\ LoopFails

RunCompletes ==
  /\ phase = "running" /\ IsComplete
  /\ phase' = "draining"
  /\ UNCHANGED <<deploys, shutdown, launcher, tracker, failures, deployVars, published, bridgeVars>>

RunCancelled ==
  /\ Looping /\ shutdown
  /\ phase' = "draining"
  /\ Publish("error")
  /\ UNCHANGED <<deploys, shutdown, launcher, tracker, failures, deployVars, bridgeVars>>

\* A launch delay ends.  The launch fails when the bridge no longer takes commands.
LaunchDue(t) ==
  /\ Looping /\ t \in timers
  /\ timers' = timers \ {t}
  /\ IF scheduled # t
     THEN UNCHANGED <<phase, nextTab, waiting, scheduled, failures, published, tabState>>
     ELSE /\ scheduled' = NoTab
          /\ LaunchNext
          /\ \/ UNCHANGED <<phase, failures, published>>
             \/ /\ bridge = "gone"
                /\ phase' = "draining"
                /\ failures' = failures \cup {NoTab}
                /\ Publish("error")
  /\ UNCHANGED <<deploys, shutdown, tracker, deployVars, bridge, faults>>

\* A tab ends without its artifact.
TabEnds(t, effect) ==
  /\ failures' = failures \cup {t}
  /\ terminal' = terminal \cup {t}
  /\ effect
  /\ UNCHANGED <<downloaded, deployed, job>>

\* What a run that deploys, or one that does not, takes for a download.
Acceptable(m) == m.kind = "archive" \/ (m.kind = "file" /\ ~deploys)

\* handle_bridge_envelope: DownloadComplete.  A tab that already ended is not asked
\* about: its artifact is counted and deployed.
DownloadComplete(m) ==
  IF Acceptable(m)
  THEN /\ downloaded' = downloaded \cup {m.tab}
       /\ IF deploys
          THEN job' = [job EXCEPT ![m.tab] = "queued"] /\ UNCHANGED deployed
          ELSE deployed' = deployed \cup {m.tab} /\ UNCHANGED job
       /\ UNCHANGED <<launcher, terminal, failures, published>>
  ELSE TabEnds(m.tab, Settled(m.tab)) /\ Publish("error")

\* handle_bridge_envelope: Error.  The bridge reports none of a tab as recoverable.
TabError(m) ==
  /\ TabEnds(m.tab, IF m.tab \in expired THEN TabFailed(m.tab) ELSE Settled(m.tab))
  /\ Publish("error")

\* Variant: where no tab is to blame, the failure is shown and not kept.
GarbledShown(m) ==
  /\ Publish("error")
  /\ IF m.tab = NoTab
     THEN UNCHANGED <<launcher, downloaded, deployed, terminal, failures, job>>
     ELSE TabEnds(m.tab, Settled(m.tab))

\* A message that does not decode: a failure of its tab, or of the run if it has none.
Garbled(m) ==
  /\ Publish("error")
  /\ IF m.tab = NoTab
     THEN failures' = failures \cup {NoTab} /\ UNCHANGED <<launcher, downloaded, deployed, terminal, job>>
     ELSE TabEnds(m.tab, Settled(m.tab))

\* handle_bridge_envelope and what the loop does with its effects.
HandleMessage ==
  /\ Looping /\ pipe # <<>>
  /\ LET m == Head(pipe) IN
     /\ CASE m.kind = "prompt-submitted" ->
               Settled(m.tab) /\ UNCHANGED <<downloaded, deployed, terminal, failures, job, published>>
          [] m.kind \in {"archive", "file"} -> DownloadComplete(m)
          [] m.kind = "error" -> TabError(m)
          [] m.kind = "session-expired" ->
               TabEnds(m.tab, TabFailed(m.tab)) /\ UNCHANGED published
          [] m.kind = "garbled" -> Garbled(m)
     /\ expired' = IF m.kind = "session-expired" THEN expired \cup {m.tab} ELSE expired
  /\ pipe' = Tail(pipe)
  /\ UNCHANGED <<loopVars, deploys, results, tab, reports, bridge, faults>>

\* The semaphore of deploy_concurrency; a deploy goes on when its run has ended.
DeployStarts(t) ==
  /\ job[t] = "queued"
  /\ Cardinality({u \in Tabs : job[u] = "running"}) < DeployConcurrency
  /\ job' = [job EXCEPT ![t] = "running"]
  /\ UNCHANGED results

DeployEnds(t) ==
  /\ job[t] = "running"
  /\ \E result \in {"succeeded", "failed"} : job' = [job EXCEPT ![t] = result]
  /\ results' = results \cup {t}

DeployStep(t) ==
  /\ DeployStarts(t) \/ DeployEnds(t)
  /\ UNCHANGED <<loopVars, deploys, launcher, tracker, failures, published, bridgeVars>>

\* Variant: a failed deploy counts as the tab's deploy.
DeployResultCounted(t) ==
  /\ Looping /\ t \in results
  /\ results' = results \ {t}
  /\ deployed' = deployed \cup {t}
  /\ UNCHANGED <<loopVars, deploys, launcher, downloaded, terminal, expired, failures, job,
                 published, bridgeVars>>

\* A failed deploy ends its tab and leaves the launcher alone.
DeployResult(t) ==
  /\ Looping /\ t \in results
  /\ results' = results \ {t}
  /\ IF job[t] = "succeeded"
     THEN deployed' = deployed \cup {t} /\ UNCHANGED <<terminal, failures, published>>
     ELSE /\ terminal' = terminal \cup {t} /\ failures' = failures \cup {t}
          /\ Publish("error")
          /\ UNCHANGED deployed
  /\ UNCHANGED <<loopVars, deploys, launcher, downloaded, expired, job, bridgeVars>>

\* The bridge has ended or five seconds are over: it is killed, with its pages
\* open if it was still draining.
RunEnds ==
  /\ phase = "draining"
  /\ phase' = "ended"
  /\ bridge' = "gone"
  /\ UNCHANGED <<deploys, shutdown, launcher, tracker, failures, deployVars, published, tabState, faults>>

LoopStep ==
  \/ BridgeReady \/ StartFails \/ RunCompletes \/ RunCancelled \/ BridgeExited \/ HandleMessage
  \/ \E t \in Tabs : LaunchDue(t) \/ DeployResult(t)
  \/ RunEnds

ArchiveStep ==
  \/ LoopStep \/ RunDeadline
  \/ \E t \in Tabs : TabStep(t) \/ DeployStep(t)
  \/ MessageGarbled \/ BridgeDies \/ BridgeShutsDown

(***************************************************************************)
(* Properties                                                              *)
(***************************************************************************)
\* The next tab is only launched once the provider accepted the prompt before it,
\* or that tab has ended: two tabs never upload or submit at once.
LaunchedOneAtATime == Cardinality({t \in Tabs : tab[t] \in {"opening", "submitting"}}) <= 1
=============================================================================

----------------------------- MODULE ManagedChrome -----------------------------
(***************************************************************************)
(* The Chrome of one profile, and the bridges that share it (apps/         *)
(* chrome-bridge/bin/chrome-bridge.mjs): each is a process of its own that *)
(* joins the Chrome it finds or starts one, restarts it when it cannot     *)
(* connect, and on its way out stops the one it started.                   *)
(*                                                                         *)
(* Processes are numbered in the order they are started.  The displays     *)
(* they run on and the ports of other profiles are left out.               *)
(*                                                                         *)
(* An operator whose comment starts with "Variant" is a plausible mistake  *)
(* in the definition below it.                                             *)
(***************************************************************************)
EXTENDS Naturals

CONSTANTS
  Bridges,
  MaxLaunches      \* bound: Chrome processes started

ASSUME LaunchAssumption == MaxLaunches \in Nat

VARIABLES
  chrome,     \* the process that has the profile: "starting", "serving" or "closing"
  locks,      \* the profile has lock files
  launches,   \* processes started
  recorded,   \* the process managed-browser.json names
  bridge      \* of each bridge: where it is, its attempt to connect, the process it
              \* started, the one it is connected to and the one it is stopping

chromeVars == <<chrome, locks, launches, recorded, bridge>>

Nobody == 0
NoChrome == [pid |-> Nobody, mode |-> "off"]

ChromeInit ==
  /\ chrome = NoChrome /\ locks = FALSE /\ launches = 0 /\ recorded = Nobody
  /\ bridge = [b \in Bridges |->
                 [at |-> "off", attempt |-> 1, pid |-> Nobody, conn |-> Nobody, victim |-> Nobody]]

At(b, places) == bridge[b].at \in places
Goes(b, place) == bridge' = [bridge EXCEPT ![b].at = place]

Serving == chrome.mode = "serving"
IsProcessAlive(p) == p # Nobody /\ chrome.pid = p
Connected(b) == Serving /\ bridge[b].conn = chrome.pid

(***************************************************************************)
(* Chrome.                                                                 *)
(***************************************************************************)
ChromeServes ==
  /\ chrome.mode = "starting"
  /\ chrome' = [chrome EXCEPT !.mode = "serving"]
  /\ UNCHANGED locks

\* It leaves no locks when it was asked to go.
ChromeExits ==
  /\ chrome.mode = "closing"
  /\ chrome' = NoChrome /\ locks' = FALSE

ChromeCrashes ==
  /\ chrome # NoChrome
  /\ chrome' = NoChrome
  /\ UNCHANGED locks

UserQuits ==
  /\ Serving
  /\ chrome' = [chrome EXCEPT !.mode = "closing"]
  /\ UNCHANGED locks

ChromeStep ==
  /\ ChromeServes \/ ChromeExits \/ ChromeCrashes \/ UserQuits
  /\ UNCHANGED <<launches, recorded, bridge>>

(***************************************************************************)
(* Start: ensureBrowser.                                                   *)
(***************************************************************************)
\* hello
Hello(b) ==
  /\ At(b, {"off"}) /\ Goes(b, "probing")
  /\ UNCHANGED <<chrome, locks, launches, recorded>>

\* ensureManagedChromeRunning, up to the start of a process.
Probe(b) ==
  /\ At(b, {"probing"})
  /\ bridge' = [bridge EXCEPT ![b].pid = Nobody,
                              ![b].at = IF Serving THEN "connecting"
                                        ELSE IF locks THEN "failed" ELSE "launching"]
  /\ UNCHANGED <<chrome, locks, launches, recorded>>

\* A second process for a profile hands over to the first and exits.
Spawn(b) ==
  /\ At(b, {"launching"}) /\ launches < MaxLaunches
  /\ launches' = launches + 1
  /\ recorded' = launches'
  /\ bridge' = [bridge EXCEPT ![b].at = "waiting", ![b].pid = launches']
  /\ IF chrome = NoChrome
     THEN chrome' = [pid |-> launches', mode |-> "starting"] /\ locks' = TRUE
     ELSE UNCHANGED <<chrome, locks>>

\* waitForCdpVersion: any Chrome on the port will do.
Answered(b) ==
  /\ At(b, {"waiting"}) /\ Serving
  /\ Goes(b, "connecting")
  /\ UNCHANGED <<chrome, locks, launches, recorded>>

\* What fails ends the bridge, and leaves the process it started.
StartupFails(b) ==
  /\ At(b, {"probing", "launching", "waiting", "connecting"})
  /\ Goes(b, "failed")
  /\ UNCHANGED <<chrome, locks, launches, recorded>>

Connects(b) ==
  /\ At(b, {"connecting"}) /\ Serving
  /\ bridge' = [bridge EXCEPT ![b].at = "ready", ![b].conn = chrome.pid]
  /\ UNCHANGED <<chrome, locks, launches, recorded>>

\* restartManagedBrowserForConnectFailure: the process it started, else the one that
\* is recorded, else the one that listens.
Victim(b) ==
  CASE bridge[b].pid # Nobody -> bridge[b].pid
    [] recorded # Nobody -> recorded
    [] OTHER -> IF Serving THEN chrome.pid ELSE Nobody

ConnectFails(b) ==
  /\ At(b, {"connecting"}) /\ bridge[b].attempt = 1
  /\ bridge' = [bridge EXCEPT ![b].at = "restarting", ![b].victim = Victim(b), ![b].attempt = 2]
  /\ UNCHANGED <<chrome, locks, launches, recorded>>

(***************************************************************************)
(* Stop: terminateManagedBrowserProcess, of a restart and of a shutdown.   *)
(***************************************************************************)
Waits == [restarting |-> "restart-wait", stopping |-> "stop-wait"]
After(place) == IF place \in {"restarting", "restart-wait"} THEN "probing" ELSE "stopped"

\* The process is gone, and managed-browser.json says so, unless it cannot be
\* written or the termination counts as failed.
Stopped(b) ==
  /\ bridge' = [bridge EXCEPT ![b].at = After(@), ![b].victim = Nobody]
  /\ recorded' \in {Nobody, recorded}

SignalTerm(b) ==
  /\ At(b, {"restarting", "stopping"})
  /\ IF IsProcessAlive(bridge[b].victim)
     THEN /\ chrome' = [chrome EXCEPT !.mode = "closing"]
          /\ Goes(b, Waits[bridge[b].at])
          /\ UNCHANGED recorded
     ELSE Stopped(b) /\ UNCHANGED chrome
  /\ UNCHANGED <<locks, launches>>

\* Variant: a port that is closed is taken for a process that is gone.
AwaitPort(b) ==
  /\ At(b, {"restart-wait", "stop-wait"})
  /\ Stopped(b)
  /\ UNCHANGED <<chrome, locks, launches>>

\* It is killed when its port is closed or three seconds are over, with its locks left.
AwaitExit(b) ==
  /\ At(b, {"restart-wait", "stop-wait"})
  /\ Stopped(b)
  /\ chrome' = IF IsProcessAlive(bridge[b].victim) THEN NoChrome ELSE chrome
  /\ UNCHANGED <<locks, launches>>

\* shutdown
Shutdown(b) ==
  /\ At(b, {"ready"}) /\ Goes(b, "draining")
  /\ UNCHANGED <<chrome, locks, launches, recorded>>

\* The tabs are done, or the time for it is over, and the pages are closed.  A Chrome the
\* bridge did not start is left alone; of one it started, Browser.close goes to
\* whichever Chrome it is connected to.
CloseBrowser(b) ==
  /\ At(b, {"draining"})
  /\ IF bridge[b].pid = Nobody
     THEN /\ bridge' = [bridge EXCEPT ![b].at = "stopped", ![b].conn = Nobody]
          /\ UNCHANGED chrome
     ELSE /\ bridge' = [bridge EXCEPT ![b].at = "stopping", ![b].conn = Nobody,
                                      ![b].victim = bridge[b].pid]
          /\ chrome' = IF Connected(b) THEN [chrome EXCEPT !.mode = "closing"] ELSE chrome
  /\ UNCHANGED <<locks, launches, recorded>>

BridgeDies(b) ==
  /\ ~At(b, {"off", "failed", "dead"})
  /\ Goes(b, "dead")
  /\ UNCHANGED <<chrome, locks, launches, recorded>>

BridgeStep(b) ==
  \/ Hello(b) \/ Probe(b) \/ Spawn(b) \/ Answered(b) \/ StartupFails(b) \/ Connects(b)
  \/ ConnectFails(b) \/ SignalTerm(b) \/ AwaitExit(b) \/ Shutdown(b) \/ BridgeDies(b)

(***************************************************************************)
(* Properties                                                              *)
(***************************************************************************)
\* A bridge that has shut down has not left the Chrome it started: whatever other
\* bridges restarted or closed meanwhile, that process is gone.
StartedChromeIsStopped ==
  \A b \in Bridges : At(b, {"stopped"}) => ~IsProcessAlive(bridge[b].pid)
=============================================================================

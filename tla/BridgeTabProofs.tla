--------------------------- MODULE BridgeTabProofs ---------------------------
(***************************************************************************)
(* Proofs about ManagedChrome and BridgeTab, for any number of bridges,    *)
(* Chrome processes and linked conversations.                              *)
(*                                                                         *)
(* First the Chrome of a profile and what its bridges know of it, which    *)
(* needs nothing of the tab; then the tab, which needs nothing of the      *)
(* Chrome but that it may answer or not; then the refinement.              *)
(***************************************************************************)
EXTENDS BridgeTab, FiniteSetTheorems, TLAPS

(***************************************************************************)
(* The Chrome of the profile.                                              *)
(***************************************************************************)
Modes == {"off", "starting", "serving", "closing"}

Places == {"off", "probing", "launching", "waiting", "connecting", "ready", "failed", "restarting",
           "restart-wait", "draining", "stopping", "stop-wait", "stopped", "dead"}

BridgeRow == [at : Places, attempt : {1, 2}, pid : Nat, conn : Nat, victim : Nat]

ChromeType ==
  /\ chrome \in [pid : Nat, mode : Modes]
  /\ locks \in BOOLEAN /\ launches \in Nat /\ recorded \in Nat
  /\ bridge \in [Bridges -> BridgeRow]

\* Every process anybody knows of has been started, so that the next one is new to all
\* of them.
KnownWereLaunched ==
  /\ chrome.pid <= launches
  /\ \A b \in Bridges : bridge[b].pid <= launches

\* The process a bridge is stopping on its way out is the one it started.
StopsItsOwn ==
  \A b \in Bridges : At(b, {"stopping", "stop-wait"}) => bridge[b].victim = bridge[b].pid

ChromeInv == ChromeType /\ KnownWereLaunched /\ StopsItsOwn /\ StartedChromeIsStopped

\* What a step of the specification may do to the Chrome and the bridges.
ChromeNext ==
  \/ ChromeStep
  \/ \E b \in Bridges : BridgeStep(b) \/ CloseBrowser(b)
  \/ UNCHANGED chromeVars

LEMMA NextIsChromeNext == [Next]_vars => ChromeNext
BY TabAssumption DEF Next, vars, TabWork, AroundTab, DrainEnds, ChromeNext

LEMMA ChromeInitially == Init => ChromeInv
<1> DEFINE row == [at |-> "off", attempt |-> 1, pid |-> 0, conn |-> 0, victim |-> 0]
<1> SUFFICES ASSUME Init PROVE ChromeInv
  OBVIOUS
<1>1. /\ chrome = [pid |-> 0, mode |-> "off"] /\ locks = FALSE /\ launches = 0 /\ recorded = 0
      /\ bridge = [b \in Bridges |-> row]
  BY DEF Init, ChromeInit, NoChrome, Nobody
<1>2. row \in BridgeRow
  BY DEF BridgeRow, Places
<1>3. ChromeType
  BY <1>1, <1>2 DEF ChromeType, Modes
<1> QED
  BY <1>1, <1>3 DEF ChromeInv, KnownWereLaunched, StopsItsOwn, StartedChromeIsStopped, At,
     IsProcessAlive, Nobody

LEMMA ChromeStepKeeps == ChromeInv /\ ChromeStep => ChromeInv'
<1> SUFFICES ASSUME ChromeInv, ChromeStep PROVE ChromeInv'
  OBVIOUS
<1> USE DEF ChromeInv, ChromeType
<1> DEFINE ChromeRow == [pid : Nat, mode : Modes]
<1>1. chrome' \in ChromeRow /\ chrome'.pid \in {chrome.pid, 0}
  <2>1. NoChrome \in ChromeRow /\ NoChrome.pid = 0
    BY DEF NoChrome, Nobody, Modes
  <2>2. chrome' \in {NoChrome, [chrome EXCEPT !.mode = "serving"], [chrome EXCEPT !.mode = "closing"]}
    BY DEF ChromeStep, ChromeServes, ChromeExits, ChromeCrashes, UserQuits
  <2> QED
    BY <2>1, <2>2 DEF Modes
<1>2. locks' \in BOOLEAN /\ UNCHANGED <<launches, recorded, bridge>>
  BY DEF ChromeStep, ChromeServes, ChromeExits, ChromeCrashes, UserQuits
<1>3. ChromeType'
  BY <1>1, <1>2
<1>4. KnownWereLaunched'
  BY <1>1, <1>2 DEF KnownWereLaunched
<1>5. StopsItsOwn'
  BY <1>2 DEF StopsItsOwn, At
<1>6. StartedChromeIsStopped'
  BY <1>1, <1>2 DEF StartedChromeIsStopped, At, IsProcessAlive, Nobody
<1> QED
  BY <1>3, <1>4, <1>5, <1>6

\* One bridge changes its row, and the Chrome is what it was, gone, told to close, or new.
LEMMA RowChanges ==
  ASSUME ChromeInv, NEW b \in Bridges, NEW row \in BridgeRow,
         bridge' = [bridge EXCEPT ![b] = row],
         chrome' \in [pid : Nat, mode : Modes],
         \/ launches' = launches /\ chrome'.pid \in {chrome.pid, 0}
         \/ launches' = launches + 1 /\ chrome'.pid \in {chrome.pid, launches'},
         locks' \in BOOLEAN, recorded' \in Nat,
         row.pid <= launches',
         row.at \in {"stopping", "stop-wait"} => row.victim = row.pid,
         row.at = "stopped" => row.pid = 0 \/ chrome'.pid # row.pid
  PROVE  ChromeInv'
<1> USE DEF ChromeInv, ChromeType
<1>1. ChromeType'
  OBVIOUS
<1>2. KnownWereLaunched'
  BY DEF KnownWereLaunched, BridgeRow
<1>3. StopsItsOwn'
  BY DEF StopsItsOwn, At
<1>4. StartedChromeIsStopped'
  <2>1. SUFFICES ASSUME NEW c \in Bridges, At(c, {"stopped"})', bridge'[c].pid # 0
                 PROVE  chrome'.pid # bridge'[c].pid
    BY DEF StartedChromeIsStopped, IsProcessAlive, Nobody
  <2>2. CASE c = b
    BY <2>1, <2>2 DEF At
  <2>3. CASE c # b
    <3>1. bridge'[c] = bridge[c] /\ bridge[c].at = "stopped" /\ bridge[c] \in BridgeRow
      BY <2>1, <2>3 DEF At
    <3>2. chrome.pid # bridge[c].pid /\ bridge[c].pid <= launches /\ bridge[c].pid \in Nat
      BY <2>1, <3>1 DEF StartedChromeIsStopped, IsProcessAlive, Nobody, At, KnownWereLaunched,
         BridgeRow
    <3> QED
      BY <2>1, <3>1, <3>2
  <2> QED
    BY <2>2, <2>3
<1> QED
  BY <1>1, <1>2, <1>3, <1>4

\* A bridge that only goes to another place keeps the rest of its row.
LEMMA PlaceChanges ==
  ASSUME ChromeInv, NEW b \in Bridges, NEW place \in Places,
         bridge' = [bridge EXCEPT ![b].at = place],
         place \notin {"stopping", "stop-wait", "stopped"},
         UNCHANGED <<chrome, locks, launches, recorded>>
  PROVE  ChromeInv'
<1> DEFINE row == [bridge[b] EXCEPT !.at = place]
<1>1. bridge[b] \in BridgeRow /\ bridge \in [Bridges -> BridgeRow]
  BY DEF ChromeInv, ChromeType
<1>2. row \in BridgeRow /\ bridge' = [bridge EXCEPT ![b] = row]
  BY <1>1 DEF BridgeRow
<1>3. row.pid <= launches'
  BY <1>1 DEF BridgeRow, ChromeInv, KnownWereLaunched
<1>4. row.at = place
  BY <1>1 DEF BridgeRow
<1>5. chrome' \in [pid : Nat, mode : Modes] /\ recorded' \in Nat /\ locks' \in BOOLEAN
  BY DEF ChromeInv, ChromeType
<1> HIDE DEF row
<1> QED
  BY <1>2, <1>3, <1>4, <1>5, RowChanges

\* What terminating a process leads to.
LEMMA StoppedKeeps ==
  ASSUME ChromeInv, NEW b \in Bridges, Stopped(b),
         At(b, {"restarting", "restart-wait", "stopping", "stop-wait"}),
         chrome' \in [pid : Nat, mode : Modes], chrome'.pid \in {chrome.pid, 0},
         chrome'.pid = 0 \/ chrome'.pid # bridge[b].victim,
         UNCHANGED <<locks, launches>>
  PROVE  ChromeInv'
<1> DEFINE place == After(bridge[b].at)
           row == [bridge[b] EXCEPT !.at = place, !.victim = 0]
<1>1. bridge[b] \in BridgeRow /\ bridge \in [Bridges -> BridgeRow]
  BY DEF ChromeInv, ChromeType
<1>2. place \in {"probing", "stopped"}
  BY DEF After
<1>3. row \in BridgeRow /\ bridge' = [bridge EXCEPT ![b] = row]
  BY <1>1, <1>2 DEF BridgeRow, Stopped, Nobody, Places
<1>4. row.at = place /\ row.pid = bridge[b].pid /\ row.pid <= launches
  BY <1>1 DEF BridgeRow, ChromeInv, KnownWereLaunched
<1>5. place = "stopped" => row.pid = 0 \/ chrome'.pid # row.pid
  <2> SUFFICES ASSUME place = "stopped" PROVE row.pid = 0 \/ chrome'.pid # row.pid
    OBVIOUS
  <2>1. At(b, {"stopping", "stop-wait"})
    BY DEF At, After
  <2>2. bridge[b].victim = bridge[b].pid
    BY <2>1 DEF ChromeInv, StopsItsOwn
  <2> QED
    BY <1>4, <2>2
<1>6. recorded' \in Nat
  BY DEF Stopped, Nobody, ChromeInv, ChromeType
<1>7. row.at \notin {"stopping", "stop-wait"}
  BY <1>2, <1>4
<1>8. locks' \in BOOLEAN
  BY DEF ChromeInv, ChromeType
<1> HIDE DEF row, place
<1> QED
  BY <1>3, <1>4, <1>5, <1>6, <1>7, <1>8, RowChanges

LEMMA BridgeStepKeeps ==
  ASSUME ChromeInv, NEW b \in Bridges, BridgeStep(b) \/ CloseBrowser(b)
  PROVE  ChromeInv'
<1>a. bridge[b] \in BridgeRow /\ bridge \in [Bridges -> BridgeRow]
  BY DEF ChromeInv, ChromeType
<1>b. bridge[b].pid <= launches /\ chrome.pid <= launches
  BY DEF ChromeInv, KnownWereLaunched
<1>c. chrome \in [pid : Nat, mode : Modes] /\ locks \in BOOLEAN /\ recorded \in Nat
  BY DEF ChromeInv, ChromeType
<1>d. launches \in Nat /\ 0 <= launches /\ launches + 1 \in Nat
  BY DEF ChromeInv, ChromeType
<1>1. CASE Hello(b) \/ Answered(b) \/ StartupFails(b) \/ Shutdown(b) \/ BridgeDies(b)
  <2>1. PICK place \in {"probing", "connecting", "failed", "draining", "dead"} :
          bridge' = [bridge EXCEPT ![b].at = place]
    BY <1>1 DEF Hello, Answered, StartupFails, Shutdown, BridgeDies, Goes
  <2>2. UNCHANGED <<chrome, locks, launches, recorded>>
    BY <1>1 DEF Hello, Answered, StartupFails, Shutdown, BridgeDies
  <2> QED
    BY <2>1, <2>2, PlaceChanges DEF Places
<1>2. CASE Probe(b)
  <2> DEFINE place == IF Serving THEN "connecting" ELSE IF locks THEN "failed" ELSE "launching"
             row == [bridge[b] EXCEPT !.pid = 0, !.at = place]
  <2>1. place \in {"connecting", "failed", "launching"}
    OBVIOUS
  <2>2. bridge' = [bridge EXCEPT ![b] = row] /\ UNCHANGED <<chrome, locks, launches, recorded>>
    BY <1>2, <1>a DEF Probe, Nobody
  <2> HIDE DEF place
  <2>3. row \in BridgeRow /\ row.pid = 0 /\ row.at = place
    BY <1>a, <2>1 DEF BridgeRow, Places
  <2> HIDE DEF row
  <2> QED
    BY <1>c, <1>d, <2>1, <2>2, <2>3, RowChanges
<1>3. CASE Spawn(b)
  <2> DEFINE process == launches + 1
             row == [bridge[b] EXCEPT !.at = "waiting", !.pid = process]
  <2>1. /\ launches' = process /\ recorded' = process /\ process \in Nat
        /\ bridge' = [bridge EXCEPT ![b] = row]
    BY <1>3, <1>a, <1>d DEF Spawn
  <2> HIDE DEF process
  <2>2. row \in BridgeRow /\ row.pid = process /\ row.at = "waiting"
    BY <1>a, <2>1 DEF BridgeRow, Places
  <2>3. /\ chrome' \in [pid : Nat, mode : Modes] /\ locks' \in BOOLEAN
        /\ chrome'.pid \in {chrome.pid, launches'}
    <3>1. CASE chrome = NoChrome
      BY <1>3, <1>c, <2>1, <3>1 DEF Spawn, Modes
    <3>2. CASE chrome # NoChrome
      BY <1>3, <1>c, <3>2 DEF Spawn
    <3> QED
      BY <3>1, <3>2
  <2>4. row.pid <= launches' /\ launches' = launches + 1 /\ recorded' \in Nat
    BY <1>d, <2>1, <2>2 DEF process
  <2> HIDE DEF row
  <2> QED
    BY <2>1, <2>2, <2>3, <2>4, RowChanges
<1>4. CASE Connects(b)
  <2> DEFINE row == [bridge[b] EXCEPT !.at = "ready", !.conn = chrome.pid]
  <2>1. bridge' = [bridge EXCEPT ![b] = row] /\ UNCHANGED <<chrome, locks, launches, recorded>>
    BY <1>4, <1>a DEF Connects
  <2>2. row \in BridgeRow /\ row.pid = bridge[b].pid /\ row.at = "ready"
    BY <1>a, <1>c DEF BridgeRow, Places
  <2> HIDE DEF row
  <2> QED
    BY <1>b, <1>c, <2>1, <2>2, RowChanges
<1>5. CASE ConnectFails(b)
  <2> DEFINE row == [bridge[b] EXCEPT !.at = "restarting", !.victim = Victim(b), !.attempt = 2]
  <2>1. bridge' = [bridge EXCEPT ![b] = row] /\ UNCHANGED <<chrome, locks, launches, recorded>>
    BY <1>5, <1>a DEF ConnectFails
  <2>2. Victim(b) \in Nat
    BY <1>a, <1>c DEF Victim, Nobody, BridgeRow
  <2>3. row \in BridgeRow /\ row.pid = bridge[b].pid /\ row.at = "restarting"
    BY <1>a, <2>2 DEF BridgeRow, Places
  <2> HIDE DEF row
  <2> QED
    BY <1>b, <1>c, <2>1, <2>3, RowChanges
<1>6. CASE SignalTerm(b)
  <2>1. CASE IsProcessAlive(bridge[b].victim)
    <3> DEFINE place == Waits[bridge[b].at]
               row == [bridge[b] EXCEPT !.at = place]
    <3>1. /\ place \in {"restart-wait", "stop-wait"}
          /\ place = "stop-wait" => At(b, {"stopping", "stop-wait"})
      BY <1>6 DEF SignalTerm, At, Waits
    <3>2. bridge' = [bridge EXCEPT ![b] = row]
      BY <1>6, <1>a, <2>1 DEF SignalTerm, Goes
    <3> HIDE DEF place
    <3>3. /\ row \in BridgeRow /\ row.pid = bridge[b].pid /\ row.at = place
          /\ row.victim = bridge[b].victim
      BY <1>a, <3>1 DEF BridgeRow, Places
    <3>4. row.at \in {"stopping", "stop-wait"} => row.victim = row.pid
      BY <3>1, <3>3 DEF ChromeInv, StopsItsOwn
    <3>5. chrome' \in [pid : Nat, mode : Modes] /\ chrome'.pid = chrome.pid
      BY <1>6, <1>c, <2>1 DEF SignalTerm, Modes
    <3>6. UNCHANGED <<locks, launches, recorded>>
      BY <1>6, <2>1 DEF SignalTerm
    <3>7. row.at # "stopped"
      BY <3>1, <3>3
    <3> HIDE DEF row
    <3> QED
      BY <1>b, <1>c, <3>2, <3>3, <3>4, <3>5, <3>6, <3>7, RowChanges
  <2>2. CASE ~IsProcessAlive(bridge[b].victim)
    <3>1. Stopped(b) /\ UNCHANGED <<chrome, locks, launches>>
      BY <1>6, <2>2 DEF SignalTerm
    <3>2. At(b, {"restarting", "restart-wait", "stopping", "stop-wait"})
      BY <1>6 DEF SignalTerm, At
    <3>3. chrome'.pid = 0 \/ chrome'.pid # bridge[b].victim
      BY <2>2, <3>1 DEF IsProcessAlive, Nobody
    <3> QED
      BY <1>c, <3>1, <3>2, <3>3, StoppedKeeps
  <2> QED
    BY <2>1, <2>2
<1>7. CASE AwaitExit(b)
  <2>1. Stopped(b) /\ UNCHANGED <<locks, launches>>
    BY <1>7 DEF AwaitExit
  <2>2. At(b, {"restarting", "restart-wait", "stopping", "stop-wait"})
    BY <1>7 DEF AwaitExit, At
  <2>3. /\ chrome' \in [pid : Nat, mode : Modes] /\ chrome'.pid \in {chrome.pid, 0}
        /\ chrome'.pid = 0 \/ chrome'.pid # bridge[b].victim
    <3>1. CASE IsProcessAlive(bridge[b].victim)
      <4>1. chrome' = [pid |-> 0, mode |-> "off"]
        BY <1>7, <3>1 DEF AwaitExit, NoChrome, Nobody
      <4> QED
        BY <4>1 DEF Modes
    <3>2. CASE ~IsProcessAlive(bridge[b].victim)
      <4>1. chrome' = chrome
        BY <1>7, <3>2 DEF AwaitExit
      <4> QED
        BY <1>c, <3>2, <4>1 DEF IsProcessAlive, Nobody
    <3> QED
      BY <3>1, <3>2
  <2> QED
    BY <2>1, <2>2, <2>3, StoppedKeeps
<1>8. CASE CloseBrowser(b)
  <2>1. UNCHANGED <<locks, launches, recorded>>
    BY <1>8 DEF CloseBrowser
  <2>2. CASE bridge[b].pid = Nobody
    <3> DEFINE row == [bridge[b] EXCEPT !.at = "stopped", !.conn = 0]
    <3>1. bridge' = [bridge EXCEPT ![b] = row] /\ UNCHANGED chrome
      BY <1>8, <1>a, <2>2 DEF CloseBrowser, Nobody
    <3>2. row \in BridgeRow /\ row.pid = 0 /\ row.at = "stopped"
      BY <1>a, <2>2 DEF BridgeRow, Places, Nobody
    <3> HIDE DEF row
    <3> QED
      BY <1>c, <1>d, <2>1, <3>1, <3>2, RowChanges
  <2>3. CASE bridge[b].pid # Nobody
    <3> DEFINE row == [bridge[b] EXCEPT !.at = "stopping", !.conn = 0, !.victim = bridge[b].pid]
    <3>1. bridge' = [bridge EXCEPT ![b] = row]
      BY <1>8, <1>a, <2>3 DEF CloseBrowser, Nobody
    <3>2. /\ row \in BridgeRow /\ row.pid = bridge[b].pid /\ row.at = "stopping"
          /\ row.victim = bridge[b].pid
      BY <1>a DEF BridgeRow, Places
    <3>3. chrome' \in [pid : Nat, mode : Modes] /\ chrome'.pid = chrome.pid
      <4>1. chrome' = chrome \/ chrome' = [chrome EXCEPT !.mode = "closing"]
        BY <1>8, <2>3 DEF CloseBrowser
      <4> QED
        BY <1>c, <4>1 DEF Modes
    <3> HIDE DEF row
    <3> QED
      BY <1>b, <1>c, <2>1, <3>1, <3>2, <3>3, RowChanges
  <2> QED
    BY <2>2, <2>3
<1> QED
  BY <1>1, <1>2, <1>3, <1>4, <1>5, <1>6, <1>7, <1>8 DEF BridgeStep

LEMMA ChromeInductive == Spec => []ChromeInv
<1>1. ChromeInv /\ [Next]_vars => ChromeInv'
  <2> SUFFICES ASSUME ChromeInv, ChromeNext PROVE ChromeInv'
    BY NextIsChromeNext
  <2>1. CASE UNCHANGED chromeVars
    BY <2>1 DEF ChromeInv, ChromeType, KnownWereLaunched, StopsItsOwn, StartedChromeIsStopped,
       chromeVars, At, IsProcessAlive
  <2> QED
    BY <2>1, ChromeStepKeeps, BridgeStepKeeps DEF ChromeNext
<1> QED
  BY <1>1, ChromeInitially, PTL DEF Spec

\* A bridge that has shut down has not left the Chrome it started, whatever the other
\* bridges of the profile restarted or closed meanwhile.
THEOREM ChromeStopped == Spec => []StartedChromeIsStopped
BY ChromeInductive, PTL DEF ChromeInv

(***************************************************************************)
(* The files of the tab, and what it looked at.                            *)
(***************************************************************************)
Kinds == {"prompt-submitted", "session-expired", "error", "archive", "file"}
Message == [kind : Kinds, tab : {1}]

TabType ==
  /\ sort \in {"archive", "file"} /\ full \in BOOLEAN
  /\ offer \in BOOLEAN /\ tried \in BOOLEAN
  /\ links \in 0 .. RecoveryLimit
  /\ from \in {"page", "rescan", "link", "text"}

\* Before the page is closed there is a record, and the receipt if it was delivered.
RecordedFirst ==
  /\ cmd \in {"finalizing", "reporting", "closing"} => evidence # {} \/ full
  /\ cmd \in {"finalizing", "reporting"} => "receipt" \in evidence

\* What is about to be recorded, or was, passed the inspection of an archive.
InspectedFirst ==
  cmd \in {"recording", "finalizing", "reporting"} /\ sort = "archive"
    => target \in {"whole", "foreign"}

\* Once the answer was found finished it does not change: an offer that is there while
\* the conversations are looked through was there before.
LookedAgain ==
  /\ why = "done" => answer = "finished"
  /\ cmd = "downloading" => from # "text"
  /\ cmd = "recording" /\ from = "rescan" => tried
  /\ /\ why = "done" /\ offer
     /\ cmd \in {"linking", "bundling"} \/ (cmd \in {"downloading", "recording"} /\ from = "link")
     => tried \/ unread

PageInv ==
  /\ TabType /\ RecordedFirst /\ EvidenceBeforeClose /\ InspectedFirst
  /\ LookedAgain /\ NoArtifactLeftBehind

\* The steps of the tab, and what the others may do to it.
TabNext ==
  \/ TabWork \/ AroundTab
  \/ /\ page' \in {page, IF page = "open" THEN "lost" ELSE page}
     /\ UNCHANGED <<cmd, answer, offer, findings, files, given, late, clean, pipe>>

LEMMA NextIsTabNext == [Next]_vars => TabNext
BY DEF Next, vars, DrainEnds, TabNext, tabVars, pageVars

LEMMA PageInitially == Init => PageInv
<1> SUFFICES ASSUME Init PROVE PageInv
  OBVIOUS
<1>1. TabType
  <2>1. 0 \in 0 .. RecoveryLimit
    BY TabAssumption
  <2> QED
    BY <2>1 DEF Init, TabType
<1> QED
  BY <1>1 DEF Init, PageInv, RecordedFirst, EvidenceBeforeClose, InspectedFirst, LookedAgain,
     NoArtifactLeftBehind

LEMMA PageStep == PageInv /\ [Next]_vars => PageInv'
<1> SUFFICES ASSUME PageInv, TabNext PROVE PageInv'
  BY NextIsTabNext
<1> USE TabAssumption DEF PageInv, TabType, RecordedFirst, EvidenceBeforeClose, InspectedFirst,
        LookedAgain, NoArtifactLeftBehind, Proceed, GiveUp, Write, ClosePage, pageVars, findings,
        files, given
<1>1. CASE AroundTab
  <2>1. CASE LaunchTab
    BY <2>1 DEF LaunchTab
  <2>2. CASE AnswerGoesOn
    <3>1. /\ UNCHANGED <<cmd, page, findings, files, given>>
          /\ answer' \in {"generating", "finished", "broken"} /\ offer' \in BOOLEAN
          /\ answer \in {"none", "generating"}
      BY <2>2 DEF AnswerGoesOn
    <3> QED
      BY <3>1
  <2>3. CASE PageLost \/ DeadlinePasses
    BY <2>3 DEF PageLost, DeadlinePasses
  <2> QED
    BY <1>1, <2>1, <2>2, <2>3 DEF AroundTab
<1>2. CASE OpenTab \/ UploadArchive \/ SubmitPrompt \/ PromptAccepted \/ CommandFails \/ SessionExpired
  BY <1>2 DEF OpenTab, UploadArchive, SubmitPrompt, PromptAccepted, CommandFails, SessionExpired
<1>3. CASE Poll \/ ReadStatus \/ Unreadable \/ NoMoreLinks
  BY <1>3 DEF Poll, ReadStatus, Unreadable, NoMoreLinks
<1>4. CASE Materialize
  BY <1>4 DEF Materialize
<1>5. CASE Download
  <2>1. /\ cmd = "downloading" /\ tried' = (tried \/ from = "rescan")
        /\ UNCHANGED <<page, answer, offer, from, links, why, unread, sort, full>>
    BY <1>5 DEF Download
  <2>2. CASE Inspect(target') /\ Proceed("recording") /\ UNCHANGED evidence
    <3>1. sort = "archive" => target' \in {"whole", "foreign"}
      BY <2>2 DEF Inspect
    <3> QED
      BY <2>1, <2>2, <3>1
  <2>3. CASE DownloadFailed
    <3>1. evidence' # {} \/ full
      BY <2>3 DEF DownloadFailed
    <3>2. cmd' = IF from = "page" THEN "closing" ELSE "linking"
      BY <2>3 DEF DownloadFailed
    <3> QED
      BY <2>1, <3>1, <3>2
  <2> QED
    BY <1>5, <2>2, <2>3 DEF Download
<1>6. CASE ExpiredBeforeDownload \/ Bundle \/ CloseAndReport
  BY <1>6 DEF ExpiredBeforeDownload, Bundle, CloseAndReport
<1>7. CASE WriteReceipt
  <2>1. /\ cmd = "recording"
        /\ UNCHANGED <<page, answer, offer, from, links, why, tried, unread, target, sort, full>>
    BY <1>7 DEF WriteReceipt
  <2>2. CASE ~full
    <3>1. cmd' = "finalizing" /\ evidence' = evidence \cup {"receipt"}
      BY <1>7, <2>2 DEF WriteReceipt
    <3> QED
      BY <2>1, <2>2, <3>1
  <2>3. CASE full
    <3>1. /\ evidence' = evidence
          /\ CASE from = "page" -> cmd' = "closing"
               [] from = "text" -> cmd' = "done"
               [] OTHER -> cmd' = "linking"
      <4>1. CASE from = "text"
        BY <1>7, <2>3, <4>1 DEF WriteReceipt
      <4>2. CASE from # "text"
        BY <1>7, <2>3, <4>2, Zenon DEF WriteReceipt
      <4> QED
        BY <4>1, <4>2
    <3> QED
      BY <2>1, <2>3, <3>1
  <2> QED
    BY <2>2, <2>3
<1>8. CASE Finalize \/ Report
  BY <1>8 DEF Finalize, Report
<1>9. CASE Rescan
  BY <1>9 DEF Rescan
<1>10. CASE FollowLink
  BY <1>10 DEF FollowLink
<1>11. CASE UNCHANGED <<cmd, answer, offer, findings, files, given>> /\ page' \in {page, "lost"}
  BY <1>11
<1> QED
  BY <1>1, <1>2, <1>3, <1>4, <1>5, <1>6, <1>7, <1>8, <1>9, <1>10, <1>11 DEF TabNext, TabWork

LEMMA PageInductive == Spec => []PageInv
BY PageInitially, PageStep, PTL DEF Spec

\* A tab never closes its page before there is a record on disk of what became of it,
\* wherever the page, the browser or the bridge fails.
THEOREM EvidenceFirst == Spec => []EvidenceBeforeClose
BY PageInductive, PTL DEF PageInv

\* An artifact offered when the answer was found finished is not missed for good: a
\* download of it was tried, or the page could not be read.
THEOREM ArtifactsTried == Spec => []NoArtifactLeftBehind
BY PageInductive, PTL DEF PageInv

(***************************************************************************)
(* The messages of the tab.                                                *)
(***************************************************************************)
Expirations == Cardinality(Sent("session-expired"))

LEMMA SentFinite ==
  ASSUME pipe \in Seq(Message), NEW kind
  PROVE  IsFiniteSet(Sent(kind)) /\ Len(pipe) + 1 \notin Sent(kind)
<1>1. Sent(kind) \in SUBSET (1 .. Len(pipe)) /\ Len(pipe) \in Nat
  BY DEF Sent
<1>2. IsFiniteSet(1 .. Len(pipe))
  BY <1>1, FS_Interval
<1>3. IsFiniteSet(Sent(kind))
  BY <1>1, <1>2, FS_Subset
<1> QED
  BY <1>1, <1>3

LEMMA SentAfter ==
  ASSUME pipe \in Seq(Message), NEW k \in Kinds, Emit(k)
  PROVE  /\ pipe' \in Seq(Message)
         /\ \A kind \in Kinds :
              Sent(kind)' = IF kind = k THEN Sent(kind) \cup {Len(pipe) + 1} ELSE Sent(kind)
<1> DEFINE m == [kind |-> k, tab |-> 1]
<1>1. m \in Message /\ pipe' = Append(pipe, m)
  BY DEF Emit, Message
<1>2. /\ DOMAIN pipe' = DOMAIN pipe \cup {Len(pipe) + 1}
      /\ pipe'[Len(pipe) + 1] = m
      /\ \A i \in DOMAIN pipe : pipe'[i] = pipe[i] /\ i # Len(pipe) + 1
  BY <1>1
<1>3. m.kind = k
  OBVIOUS
<1> HIDE DEF m
<1> QED
  BY <1>1, <1>2, <1>3 DEF Sent

LEMMA ExpirationsAfter ==
  ASSUME pipe \in Seq(Message)
  PROVE  /\ Expirations \in Nat
         /\ UNCHANGED pipe => Expirations' = Expirations
         /\ \A k \in Kinds : Emit(k) =>
              Expirations' = IF k = "session-expired" THEN Expirations + 1 ELSE Expirations
<1>1. IsFiniteSet(Sent("session-expired")) /\ Len(pipe) + 1 \notin Sent("session-expired")
  BY SentFinite
<1>2. Expirations \in Nat
  BY <1>1, FS_CardinalityType DEF Expirations
<1>3. UNCHANGED pipe => Expirations' = Expirations
  BY DEF Expirations, Sent
<1>4. ASSUME NEW k \in Kinds, Emit(k)
      PROVE  Expirations' = IF k = "session-expired" THEN Expirations + 1 ELSE Expirations
  <2>1. Sent("session-expired")' = IF k = "session-expired"
                                   THEN Sent("session-expired") \cup {Len(pipe) + 1}
                                   ELSE Sent("session-expired")
    BY <1>4, SentAfter DEF Kinds
  <2>2. CASE k = "session-expired"
    BY <1>1, <2>1, <2>2, FS_AddElement DEF Expirations
  <2>3. CASE k # "session-expired"
    BY <2>1, <2>3 DEF Expirations
  <2> QED
    BY <2>2, <2>3
<1> QED
  BY <1>2, <1>3, <1>4

\* An archive is the last the tab sends, but for the error of a page that would not close.
DeliveredLast ==
  Sent("archive") # {} =>
    /\ sort = "archive" /\ cmd \in {"done", "failing"}
    /\ target \in {"whole", "foreign"} /\ "receipt" \in evidence

\* The session is only reported as expired again while conversations are looked through,
\* once for each of them.
ExpirationsBounded ==
  /\ cmd \in {"none", "opening", "uploading", "submitting", "clicked", "polling", "reading",
               "rescanning"} => Expirations = 0
  /\ cmd \in {"downloading", "recording", "linking"} => Expirations + links <= RecoveryLimit

\* The session that expired before a download ends the tab.
ExpiredEnds == why = "expired" => cmd \in {"closing", "done"}

MessageInv ==
  /\ pipe \in Seq(Message)
  /\ DeliveredLast /\ ExpirationsBounded /\ ExpiredEnds

LEMMA MessagesInitially == Init => MessageInv
<1> SUFFICES ASSUME Init PROVE MessageInv
  OBVIOUS
<1>1. pipe \in Seq(Message) /\ \A kind : Sent(kind) = {}
  BY DEF Init, Sent
<1>2. Expirations = 0
  BY <1>1, FS_EmptySet DEF Expirations
<1> QED
  BY <1>1, <1>2 DEF Init, MessageInv, DeliveredLast, ExpirationsBounded, ExpiredEnds

\* A step of the tab sends nothing or one message, and an artifact only where it reports it.
LEMMA OneMessage ==
  ASSUME TabNext, sort \in {"archive", "file"}
  PROVE  \/ UNCHANGED pipe
         \/ \E kind \in {"prompt-submitted", "session-expired", "error"} : Emit(kind)
         \/ Report /\ Emit(sort)
<1>1. CASE AroundTab
  BY <1>1 DEF AroundTab, LaunchTab, AnswerGoesOn, PageLost, DeadlinePasses
<1>2. CASE OpenTab \/ UploadArchive \/ SubmitPrompt \/ PromptAccepted \/ CommandFails \/ SessionExpired
  BY <1>2 DEF OpenTab, UploadArchive, SubmitPrompt, PromptAccepted, CommandFails, SessionExpired
<1>3. CASE Poll \/ ReadStatus \/ Unreadable \/ NoMoreLinks \/ Rescan \/ FollowLink
  BY <1>3 DEF Poll, ReadStatus, Unreadable, NoMoreLinks, Rescan, FollowLink
<1>4. CASE Materialize \/ Download \/ ExpiredBeforeDownload
  BY <1>4 DEF Materialize, Download, ExpiredBeforeDownload
<1>5. CASE WriteReceipt
  <2>1. CASE full /\ from = "text"
    BY <1>5, <2>1 DEF WriteReceipt
  <2>2. CASE ~(full /\ from = "text")
    BY <1>5, <2>2, Zenon DEF WriteReceipt
  <2> QED
    BY <2>1, <2>2
<1>6. CASE Finalize \/ Report \/ Bundle \/ CloseAndReport
  BY <1>6 DEF Finalize, Report, Bundle, CloseAndReport
<1> QED
  BY <1>1, <1>2, <1>3, <1>4, <1>5, <1>6 DEF TabNext, TabWork

LEMMA DeliveredLastStep == ASSUME PageInv, MessageInv, TabNext PROVE DeliveredLast'
<1> USE DEF MessageInv, Proceed, pageVars, findings, files, given
<1>1. CASE Sent("archive") # {}
  <2>1. /\ sort = "archive" /\ cmd \in {"done", "failing"}
        /\ target \in {"whole", "foreign"} /\ "receipt" \in evidence
    BY <1>1 DEF DeliveredLast
  <2>2. CASE TabWork
    <3>1. CommandFails
      BY <2>1, <2>2 DEF TabWork, OpenTab, UploadArchive, SubmitPrompt, PromptAccepted, SessionExpired,
         Poll, ReadStatus, Materialize, Download, ExpiredBeforeDownload, WriteReceipt, Finalize,
         Report, Unreadable, Rescan, FollowLink, NoMoreLinks, Bundle, CloseAndReport
    <3> QED
      BY <2>1, <3>1 DEF CommandFails, DeliveredLast
  <2>3. CASE ~TabWork
    BY <2>1, <2>3 DEF TabNext, AroundTab, LaunchTab, AnswerGoesOn, PageLost, DeadlinePasses, DeliveredLast
  <2> QED
    BY <2>2, <2>3
<1>2. CASE Sent("archive") = {}
  <2> SUFFICES ASSUME Sent("archive")' # {} PROVE DeliveredLast'
    BY DEF DeliveredLast
  <2>1. \A k \in Kinds \ {"archive"} : ~Emit(k)
    BY <1>2, SentAfter DEF Kinds
  <2>2. Report /\ sort = "archive"
    BY <1>2, <2>1, OneMessage DEF PageInv, TabType, Kinds, Sent
  <2> QED
    BY <2>2 DEF Report, DeliveredLast, PageInv, InspectedFirst, RecordedFirst
<1> QED
  BY <1>1, <1>2

LEMMA ExpiredEndsStep == ASSUME PageInv, MessageInv, TabNext PROVE ExpiredEnds'
<1> USE DEF MessageInv, ExpiredEnds, Proceed, GiveUp, pageVars, findings, files, given
<1>1. CASE why = "expired"
  <2>1. CASE TabWork
    BY <1>1, <2>1 DEF TabWork, OpenTab, UploadArchive, SubmitPrompt, PromptAccepted, CommandFails,
       SessionExpired, Poll, ReadStatus, Materialize, Download, ExpiredBeforeDownload, WriteReceipt,
       Finalize, Report, Unreadable, Rescan, FollowLink, NoMoreLinks, Bundle, CloseAndReport
  <2>2. CASE ~TabWork
    BY <1>1, <2>2 DEF TabNext, AroundTab, LaunchTab, AnswerGoesOn, PageLost, DeadlinePasses
  <2> QED
    BY <2>1, <2>2
<1>2. CASE why # "expired"
  <2>1. ExpiredBeforeDownload \/ why' # "expired"
    <3>1. CASE TabWork
      BY <1>2, <3>1 DEF TabWork, OpenTab, UploadArchive, SubmitPrompt, PromptAccepted, CommandFails,
         SessionExpired, Poll, ReadStatus, Materialize, Download, WriteReceipt, Finalize, Report,
         Unreadable, Rescan, FollowLink, NoMoreLinks, Bundle, CloseAndReport
    <3>2. CASE ~TabWork
      BY <1>2, <3>2 DEF TabNext, AroundTab, LaunchTab, AnswerGoesOn, PageLost, DeadlinePasses
    <3> QED
      BY <3>1, <3>2
  <2> QED
    BY <2>1 DEF ExpiredBeforeDownload
<1> QED
  BY <1>1, <1>2

LEMMA ExpirationsStep == ASSUME PageInv, MessageInv, TabNext PROVE ExpirationsBounded'
<1>1. links \in 0 .. RecoveryLimit /\ RecoveryLimit \in Nat /\ Expirations \in Nat
  BY TabAssumption, ExpirationsAfter DEF PageInv, TabType, MessageInv
<1>a. UNCHANGED pipe => Expirations' = Expirations
  BY ExpirationsAfter DEF MessageInv
<1>2. /\ Emit("session-expired") => Expirations' = Expirations + 1
      /\ \A kind \in {"prompt-submitted", "error", "archive", "file"} :
           Emit(kind) => Expirations' = Expirations
  BY ExpirationsAfter DEF MessageInv, Kinds
<1>b. \A n \in 0 .. RecoveryLimit : 0 + n <= RecoveryLimit
  BY <1>1
<1> USE DEF MessageInv, ExpirationsBounded, Proceed, GiveUp, pageVars, findings, files, given
<1>3. CASE AroundTab
  BY <1>a, <1>1, <1>2, <1>3 DEF AroundTab, LaunchTab, AnswerGoesOn, PageLost, DeadlinePasses
<1>4. CASE OpenTab \/ UploadArchive \/ SubmitPrompt \/ PromptAccepted \/ CommandFails \/ SessionExpired
  BY <1>a, <1>1, <1>2, <1>4 DEF OpenTab, UploadArchive, SubmitPrompt, PromptAccepted, CommandFails,
     SessionExpired
<1>5. CASE Poll \/ ReadStatus \/ Unreadable \/ NoMoreLinks
  BY <1>a, <1>1, <1>2, <1>5 DEF Poll, ReadStatus, Unreadable, NoMoreLinks
<1>6. CASE Materialize
  BY <1>a, <1>1, <1>2, <1>6 DEF Materialize
<1>7. CASE Download
  BY <1>a, <1>1, <1>2, <1>7 DEF Download, DownloadFailed
<1>8. CASE ExpiredBeforeDownload \/ Finalize \/ Report \/ Bundle \/ CloseAndReport
  BY <1>8 DEF ExpiredBeforeDownload, Finalize, Report, Bundle, CloseAndReport
<1>9. CASE WriteReceipt
  <2>1. cmd' \in {"finalizing", "closing", "done"} \/ (cmd' = "linking" /\ UNCHANGED <<pipe, links>>)
    <3>1. CASE full /\ from \notin {"page", "text"}
      BY <1>9, <3>1, Zenon DEF WriteReceipt
    <3>2. CASE ~(full /\ from \notin {"page", "text"})
      BY <1>9, <3>2 DEF WriteReceipt
    <3> QED
      BY <3>1, <3>2
  <2>2. cmd = "recording"
    BY <1>9 DEF WriteReceipt
  <2> QED
    BY <1>a, <1>2, <2>1, <2>2
<1>10. CASE Rescan
  <2>1. cmd = "rescanning" /\ links' \in 0 .. RecoveryLimit /\ UNCHANGED pipe
    BY <1>10 DEF Rescan
  <2>2. cmd' \in {"downloading", "linking"}
    BY <1>10 DEF Rescan
  <2>3. Expirations' = 0
    <3>1. Expirations = 0
      BY <2>1
    <3> QED
      BY <1>a, <2>1, <3>1
  <2>4. 0 + links' <= RecoveryLimit
    BY <1>b, <2>1
  <2> QED
    BY <2>2, <2>3, <2>4
<1>11. CASE FollowLink
  <2>1. cmd = "linking" /\ links > 0 /\ links' = links - 1 /\ cmd' \in {"linking", "downloading"}
    BY <1>11 DEF FollowLink
  <2>2. UNCHANGED pipe \/ Emit("session-expired")
    BY <1>11 DEF FollowLink
  <2> QED
    BY <1>a, <1>1, <1>2, <2>1, <2>2
<1>12. CASE UNCHANGED <<cmd, links, pipe>>
  BY <1>a, <1>2, <1>12
<1> QED
  BY <1>3, <1>4, <1>5, <1>6, <1>7, <1>8, <1>9, <1>10, <1>11, <1>12 DEF TabNext, TabWork

LEMMA MessagesInductive == Spec => [](PageInv /\ MessageInv)
<1>1. PageInv /\ MessageInv /\ [Next]_vars => MessageInv'
  <2> SUFFICES ASSUME PageInv, MessageInv, TabNext PROVE MessageInv'
    BY NextIsTabNext
  <2>1. pipe' \in Seq(Message)
    <3>1. UNCHANGED pipe => pipe' \in Seq(Message)
      BY DEF MessageInv
    <3>2. \A k \in Kinds : Emit(k) => pipe' \in Seq(Message)
      BY SentAfter DEF MessageInv
    <3> QED
      BY <3>1, <3>2, OneMessage DEF PageInv, TabType, Kinds
  <2> QED
    BY <2>1, DeliveredLastStep, ExpiredEndsStep, ExpirationsStep DEF MessageInv
<1> QED
  BY <1>1, MessagesInitially, PageInductive, PTL DEF Spec

\* An archive that is reported is on disk to its end, with its receipt.
THEOREM ArchivesKept == Spec => []DeliveredIsKept
<1>1. MessageInv => DeliveredIsKept
  BY DEF MessageInv, DeliveredLast, DeliveredIsKept
<1> QED
  BY <1>1, MessagesInductive, PTL

(***************************************************************************)
(* The refinement: the tab implements TabProtocol, of which the archive    *)
(* runs are composed.                                                      *)
(***************************************************************************)
\* Each step of the protocol, of this one tab.
LEMMA ProtocolSteps ==
  /\ Stage = "none" /\ Stage' = "opening" /\ UNCHANGED <<pipe, Expirations>> => Protocol!Launch(1)
  /\ Stage = "opening" /\ Stage' = "submitting" /\ UNCHANGED <<pipe, Expirations>>
       => Protocol!TabOpens(1)
  /\ Stage = "submitting" /\ Stage' = "monitoring" /\ Emit("prompt-submitted")
     /\ UNCHANGED Expirations
       => Protocol!PromptAccepted(1)
  /\ Stage \in {"submitting", "monitoring"} /\ Stage' = "failing" /\ Emit("session-expired")
     /\ Expirations' = Expirations + 1
       => Protocol!SessionExpires(1)
  /\ Stage = "monitoring" /\ UNCHANGED Stage /\ Expirations < RecoveryLimit
     /\ Emit("session-expired") /\ Expirations' = Expirations + 1
       => Protocol!SessionExpires(1)
  /\ Stage \in {"opening", "submitting", "monitoring", "failing"} /\ Stage' = "done"
     /\ Emit("error") /\ UNCHANGED Expirations
       => Protocol!TabFails(1)
  /\ \A kind \in {"archive", "file"} :
       Stage = "monitoring" /\ Stage' \in {"done", "failing"} /\ Emit(kind) /\ UNCHANGED Expirations
         => Protocol!Delivers(1, kind)
<1> USE DEF Expirations, Emit, Protocol!Is, Protocol!Becomes, Protocol!Emit, Protocol!Message
<1>1. Stage = "none" /\ Stage' = "opening" /\ UNCHANGED <<pipe, Expirations>> => Protocol!Launch(1)
  BY DEF Protocol!Launch
<1>2. Stage = "opening" /\ Stage' = "submitting" /\ UNCHANGED <<pipe, Expirations>>
        => Protocol!TabOpens(1)
  BY DEF Protocol!TabOpens
<1>3. Stage = "submitting" /\ Stage' = "monitoring" /\ Emit("prompt-submitted")
      /\ UNCHANGED Expirations
        => Protocol!PromptAccepted(1)
  BY DEF Protocol!PromptAccepted
<1>4. Stage \in {"submitting", "monitoring"} /\ Stage' = "failing" /\ Emit("session-expired")
      /\ Expirations' = Expirations + 1
        => Protocol!SessionExpires(1)
  BY DEF Protocol!SessionExpires
<1>5. Stage = "monitoring" /\ UNCHANGED Stage /\ Expirations < RecoveryLimit
      /\ Emit("session-expired") /\ Expirations' = Expirations + 1
        => Protocol!SessionExpires(1)
  BY DEF Protocol!SessionExpires
<1>6. Stage \in {"opening", "submitting", "monitoring", "failing"} /\ Stage' = "done"
      /\ Emit("error") /\ UNCHANGED Expirations
        => Protocol!TabFails(1)
  BY DEF Protocol!TabFails
<1>7. ASSUME NEW kind \in {"archive", "file"}
      PROVE  Stage = "monitoring" /\ Stage' \in {"done", "failing"} /\ Emit(kind)
             /\ UNCHANGED Expirations
               => Protocol!Delivers(1, kind)
  BY DEF Protocol!Delivers
<1> QED
  BY <1>1, <1>2, <1>3, <1>4, <1>5, <1>6, <1>7

ProtocolNext == \E t \in {1} : Protocol!Launch(t) \/ Protocol!TabWork(t)

LEMMA StepFollows == PageInv /\ MessageInv /\ [Next]_vars => [ProtocolNext]_(Protocol!tabVars)
<1> SUFFICES ASSUME PageInv, MessageInv, TabNext
             PROVE  ProtocolNext \/ UNCHANGED <<Stage, pipe, Expirations>>
  BY NextIsTabNext DEF Protocol!tabVars, Expirations
<1> USE DEF Proceed, GiveUp, pageVars, findings, files, given
<1>a. UNCHANGED pipe => Expirations' = Expirations
  BY ExpirationsAfter DEF MessageInv
<1>b. /\ Emit("session-expired") => Expirations' = Expirations + 1
      /\ \A kind \in {"prompt-submitted", "error", "archive", "file"} :
           Emit(kind) => Expirations' = Expirations
  BY ExpirationsAfter DEF MessageInv, Kinds
<1>c. \/ Protocol!Launch(1) \/ Protocol!TabOpens(1) \/ Protocol!PromptAccepted(1)
      \/ Protocol!SessionExpires(1) \/ Protocol!TabFails(1)
      \/ \E kind \in {"archive", "file"} : Protocol!Delivers(1, kind)
      => ProtocolNext
  BY DEF ProtocolNext, Protocol!TabWork
<1>1. CASE LaunchTab
  BY <1>1, <1>a, <1>c, ProtocolSteps DEF LaunchTab, Stage
<1>2. CASE AnswerGoesOn \/ PageLost \/ DeadlinePasses
  BY <1>2, <1>a DEF AnswerGoesOn, PageLost, DeadlinePasses, Stage
<1>3. CASE OpenTab \/ SubmitPrompt
  BY <1>3, <1>a DEF OpenTab, SubmitPrompt, Stage
<1>4. CASE UploadArchive
  BY <1>4, <1>a, <1>c, ProtocolSteps DEF UploadArchive, Stage
<1>5. CASE PromptAccepted
  BY <1>5, <1>b, <1>c, ProtocolSteps DEF PromptAccepted, Stage
<1>6. CASE CommandFails
  BY <1>6, <1>b, <1>c, ProtocolSteps DEF CommandFails, Stage
<1>7. CASE SessionExpired
  BY <1>7, <1>b, <1>c, ProtocolSteps DEF SessionExpired, Stage
<1>8. CASE Poll \/ ReadStatus \/ Unreadable \/ NoMoreLinks \/ Rescan
  BY <1>8, <1>a DEF Poll, ReadStatus, Unreadable, NoMoreLinks, Rescan, Stage
<1>9. CASE Materialize
  BY <1>9, <1>a, <1>b, <1>c, ProtocolSteps DEF Materialize, Stage
<1>10. CASE Download
  BY <1>10, <1>a DEF Download, DownloadFailed, Stage, MessageInv, ExpiredEnds
<1>11. CASE ExpiredBeforeDownload
  BY <1>11, <1>b, <1>c, ProtocolSteps DEF ExpiredBeforeDownload, Stage
<1>12. CASE WriteReceipt
  BY <1>12, <1>a, <1>b, <1>c, ProtocolSteps DEF WriteReceipt, Stage, MessageInv, ExpiredEnds
<1>13. CASE Finalize \/ Bundle
  BY <1>13, <1>a DEF Finalize, Bundle, Stage, MessageInv, ExpiredEnds
<1>14. CASE Report
  BY <1>14, <1>b, <1>c, ProtocolSteps DEF Report, Stage, PageInv, TabType
<1>15. CASE FollowLink
  <2>1. CASE UNCHANGED pipe
    BY <1>15, <1>a, <2>1 DEF FollowLink, Stage
  <2>2. CASE ~UNCHANGED pipe
    <3>1. cmd = "linking" /\ cmd' = "linking" /\ links > 0 /\ Emit("session-expired")
      BY <1>15, <2>2 DEF FollowLink
    <3>2. Expirations + links <= RecoveryLimit
      BY <3>1 DEF MessageInv, ExpirationsBounded
    <3>3. Expirations < RecoveryLimit
      <4>1. links \in 0 .. RecoveryLimit /\ RecoveryLimit \in Nat /\ Expirations \in Nat
        BY TabAssumption, ExpirationsAfter DEF PageInv, TabType, MessageInv
      <4> QED
        BY <3>1, <3>2, <4>1
    <3>4. Stage = "monitoring" /\ UNCHANGED Stage
      BY <3>1 DEF Stage
    <3> QED
      BY <1>b, <1>c, <3>1, <3>3, <3>4, ProtocolSteps
  <2> QED
    BY <2>1, <2>2
<1>16. CASE CloseAndReport
  BY <1>16, <1>b, <1>c, ProtocolSteps DEF CloseAndReport, Stage
<1>17. CASE UNCHANGED <<cmd, why, pipe>>
  BY <1>17, <1>a DEF Stage
<1> QED
  BY <1>1, <1>2, <1>3, <1>4, <1>5, <1>6, <1>7, <1>8, <1>9, <1>10, <1>11, <1>12, <1>13, <1>14, <1>15,
     <1>16, <1>17 DEF TabNext, TabWork, AroundTab

\* The messages of a tab come in the order the orchestrator relies on, whatever part of
\* the page, the browser, the disk or the bridge fails, and when.
THEOREM TabImplementsProtocol == Spec => FollowsProtocol
<1>1. Init => Protocol!TabsInit
  <2> SUFFICES ASSUME Init PROVE Protocol!TabsInit
    OBVIOUS
  <2>1. Stage = "none" /\ pipe = <<>> /\ Expirations = 0
    <3>1. Sent("session-expired") = {}
      BY DEF Init, Sent
    <3> QED
      BY <3>1, FS_EmptySet DEF Init, Stage, Expirations
  <2> QED
    BY <2>1 DEF Protocol!TabsInit, Expirations
<1>2. PageInv /\ MessageInv /\ [Next]_vars
        => [\E t \in {1} : Protocol!Launch(t) \/ Protocol!TabWork(t)]_(Protocol!tabVars)
  BY StepFollows DEF ProtocolNext
<1> QED
  BY <1>1, <1>2, MessagesInductive, PTL DEF Spec, FollowsProtocol, Protocol!TabSpec
=============================================================================

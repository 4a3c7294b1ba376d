------------------------------- MODULE BridgeTab -------------------------------
(***************************************************************************)
(* One tab of a bridge of ManagedChrome (apps/chrome-bridge/bin/chrome-    *)
(* bridge.mjs), from its command to open a page to the last message about  *)
(* it: TabProtocol, step by step.  The tabs of a bridge only share its     *)
(* Chrome.  What a page shows, and what reading it finds, is the           *)
(* environment's choice; calls of the browser fail where its page or its   *)
(* Chrome is gone, and may fail anywhere.                                  *)
(***************************************************************************)
EXTENDS ManagedChrome, Sequences, FiniteSets

CONSTANTS
  Here,           \* the bridge of the tab
  RecoveryLimit   \* artifact_conversation_recovery_limit

ASSUME TabAssumption == Here \in Bridges /\ RecoveryLimit \in Nat

VARIABLES
  cmd,        \* the command, or the part of monitor-tab, the tab is at
  page,       \* "none", "open", "closed" by the tab, or "lost"
  answer,     \* "none", "generating", "finished" or "broken"
  offer,      \* the page has a link to the artifact
  seen,       \* the last look at the page found one
  late,       \* tarWaitMinutes are over
  sort,       \* what is asked for: an "archive" or another "file"
  from,       \* where the artifact is taken from: "page", "rescan", "link" or "text"
  links,      \* conversations left to look for it in
  why,        \* why the tab gives up
  target,     \* the file it is downloaded to: "none", "partial", "whole" or "foreign"
  evidence,   \* on disk: the "receipt" of a download, a "bundle" about its failure
  full,       \* the disk takes no more files
  tried,      \* a download from the page was tried
  unread,     \* the page could not be looked at once more
  clean,      \* the page was closed without an error
  pipe        \* messages that decide about the run

pageVars == <<page, answer, offer>>
findings == <<seen, from, links, why, tried, unread>>
files == <<target, evidence>>
given == <<sort, full>>
tabVars == <<cmd, pageVars, findings, files, given, late, clean, pipe>>
vars == <<chromeVars, tabVars>>

Init ==
  /\ ChromeInit
  /\ cmd = "none" /\ page = "none" /\ answer = "none" /\ offer = FALSE
  /\ seen = FALSE /\ late = FALSE /\ from = "page" /\ links = 0 /\ why = "none"
  /\ sort \in {"archive", "file"} /\ full \in BOOLEAN
  /\ target = "none" /\ evidence = {} /\ tried = FALSE /\ unread = FALSE /\ clean = TRUE
  /\ pipe = <<>>

\* A call of the page is answered.
Answers == page = "open" /\ Connected(Here)

\* shutdownRequested
Stopping == At(Here, {"draining", "stopping", "stop-wait", "stopped"})

Emit(kind) == pipe' = Append(pipe, [kind |-> kind, tab |-> 1])
Proceed(place) == cmd' = place

Write(paper) == evidence' = IF full THEN evidence ELSE evidence \cup {paper}

(***************************************************************************)
(* The page and the provider behind it.                                    *)
(***************************************************************************)
\* The artifact is offered before the answer is finished.
AnswerGoesOn ==
  /\ page = "open" /\ cmd \notin {"opening", "uploading", "submitting"}
  /\ \/ answer = "none" /\ answer' = "generating"
     \/ answer = "generating" /\ answer' \in {"generating", "finished", "broken"}
  /\ offer' \in {offer, offer \/ answer = "generating"}
  /\ UNCHANGED <<cmd, page, findings, files, given, late, clean, pipe>>

\* The user closes the page, or the start of another bridge that knows its address.
PageLost ==
  /\ page = "open" /\ page' = "lost"
  /\ UNCHANGED <<cmd, answer, offer, findings, files, given, late, clean, pipe>>

DeadlinePasses ==
  /\ cmd \in {"polling", "reading"} /\ ~late /\ late' = TRUE
  /\ UNCHANGED <<cmd, pageVars, findings, files, given, clean, pipe>>

(***************************************************************************)
(* open-tab, upload-archive, submit-prompt.                                *)
(***************************************************************************)
\* The four commands of the tab are queued.
LaunchTab ==
  /\ cmd = "none" /\ At(Here, {"ready"})
  /\ Proceed("opening")
  /\ UNCHANGED <<pageVars, findings, files, given, late, clean, pipe>>

OpenTab ==
  /\ cmd = "opening" /\ Connected(Here)
  /\ page' = "open" /\ Proceed("uploading")
  /\ UNCHANGED <<answer, offer, findings, files, given, late, clean, pipe>>

\* Whether the page shows the upload is not asked for.
UploadArchive ==
  /\ cmd = "uploading" /\ Answers
  /\ Proceed("submitting")
  /\ UNCHANGED <<pageVars, findings, files, given, late, clean, pipe>>

SubmitPrompt ==
  /\ cmd = "submitting" /\ Answers
  /\ Proceed("clicked")
  /\ UNCHANGED <<pageVars, findings, files, given, late, clean, pipe>>

\* A composer that is empty, or cannot be read any more, is taken for acceptance.
PromptAccepted ==
  /\ cmd = "clicked"
  /\ Proceed("polling") /\ Emit("prompt-submitted")
  /\ UNCHANGED <<pageVars, findings, files, given, late, clean>>

\* A command throws: the rest of the tab's commands are skipped.
CommandFails ==
  /\ \/ cmd \in {"opening", "uploading", "submitting", "clicked", "failing"}
     \/ cmd \in {"polling", "reading"} /\ ~Answers
  /\ Proceed("done") /\ Emit("error")
  /\ UNCHANGED <<pageVars, findings, files, given, late, clean>>

\* runDismissals finds a prompt to log in again.
SessionExpired ==
  /\ cmd \in {"submitting", "polling"} /\ Answers
  /\ Proceed("failing") /\ Emit("session-expired")
  /\ UNCHANGED <<pageVars, findings, files, given, late, clean>>

(***************************************************************************)
(* monitor-tab.                                                            *)
(***************************************************************************)
\* failNoTar
GiveUp(reason) == Proceed("rescanning") /\ why' = reason

\* Variant: only the answer and a shutdown end the loop.
PollForever ==
  /\ cmd = "polling"
  /\ IF Stopping
     THEN GiveUp("late") /\ UNCHANGED seen
     ELSE Answers /\ seen' = offer /\ Proceed("reading") /\ UNCHANGED why
  /\ UNCHANGED <<pageVars, from, links, tried, unread, files, given, late, clean, pipe>>

\* The loop's condition, and discoverTarCandidates.
Poll ==
  /\ cmd = "polling"
  /\ IF Stopping \/ late
     THEN GiveUp("late") /\ UNCHANGED seen
     ELSE Answers /\ seen' = offer /\ Proceed("reading") /\ UNCHANGED why
  /\ UNCHANGED <<pageVars, from, links, tried, unread, files, given, late, clean, pipe>>

\* readGenerationStatus, and what it and the candidates lead to.  A page that navigates
\* meanwhile, or shows two answers to choose from, is looked at again.
ReadStatus ==
  /\ cmd = "reading" /\ Answers
  /\ \/ Proceed("polling") /\ UNCHANGED <<from, why>>
     \/ seen /\ Proceed("downloading") /\ from' = "page" /\ UNCHANGED why
     \/ /\ ~seen
        /\ \/ answer = "generating" /\ GiveUp("stalled")
           \/ answer = "broken" /\ GiveUp("broken")
           \/ answer = "finished" /\ GiveUp("done")
        /\ UNCHANGED from
  /\ UNCHANGED <<pageVars, seen, links, tried, unread, files, given, late, clean, pipe>>

\* materializeVisibleTextArtifact: the text of the answer is the artifact.  A file that
\* cannot be written fails the command.
Materialize ==
  /\ cmd = "reading" /\ Answers /\ ~seen /\ answer = "finished" /\ sort = "file"
  /\ IF full
     THEN Proceed("done") /\ Emit("error") /\ UNCHANGED <<from, target>>
     ELSE Proceed("recording") /\ from' = "text" /\ target' = "whole" /\ UNCHANGED pipe
  /\ UNCHANGED <<pageVars, seen, links, why, tried, unread, evidence, given, late, clean>>

(***************************************************************************)
(* downloadCandidate: what is in the target file after each attempt to     *)
(* fill it, each of which is made where the one before left nothing.       *)
(***************************************************************************)
Usable == {"partial", "whole", "foreign"}

Then(found, next) == (found \cap Usable) \cup (IF "none" \in found THEN next ELSE {})

\* download.saveAs, over what an earlier attempt left.
SavedAs(before) == IF full THEN {before, "none"} ELSE {before, "none", "partial", "whole"}

CopiedFromTemp == IF full THEN {"none"} ELSE {"none", "whole"}

\* A file of the same kind is taken for the download, whoever it belongs to, and one
\* that is still written for all of it.
CopiedFromDownloads == IF full THEN {"none"} ELSE {"none", "partial", "whole", "foreign"}

Persisted(before) == Then(SavedAs(before), Then(CopiedFromTemp, CopiedFromDownloads))

\* Variant: an archive is not unpacked to see that it is one.
InspectName(file) == file \in Usable

\* inspectDownloadedArtifact: an archive is listed to its end.
Inspect(file) == file \in IF sort = "archive" THEN {"whole", "foreign"} ELSE Usable

\* Where a failed download leads, with a bundle about it.
DownloadFailed ==
  /\ Write("bundle")
  /\ Proceed(IF from = "page" THEN "closing" ELSE "linking")

Download ==
  /\ cmd = "downloading"
  /\ tried' = (tried \/ from = "rescan")
  /\ target' \in {target} \cup IF Connected(Here) THEN Persisted(target) ELSE {}
  /\ \/ Connected(Here) /\ Inspect(target') /\ Proceed("recording") /\ UNCHANGED evidence
     \/ DownloadFailed
  /\ UNCHANGED <<pageVars, seen, from, links, why, unread, given, late, clean, pipe>>

\* The dismissals before a download from the page.
ExpiredBeforeDownload ==
  /\ cmd = "downloading" /\ from = "page" /\ Answers
  /\ Emit("session-expired")
  /\ Write("bundle") /\ Proceed("closing") /\ why' = "expired"
  /\ UNCHANGED <<pageVars, seen, from, links, tried, unread, target, given, late, clean>>

\* The receipt cannot be written: a text fails its command, with its page left open.
WriteReceipt ==
  /\ cmd = "recording"
  /\ Write("receipt")
  /\ IF ~full THEN Proceed("finalizing") /\ UNCHANGED pipe
     ELSE CASE from = "page" -> Proceed("closing") /\ UNCHANGED pipe
            [] from = "text" -> Proceed("done") /\ Emit("error")
            [] OTHER -> Proceed("linking") /\ UNCHANGED pipe
  /\ UNCHANGED <<pageVars, findings, target, given, late, clean>>

\* finalizeTabAfterDownload: generation is stopped and the page closed.
ClosePage ==
  /\ page' = IF Answers THEN "closed" ELSE page
  /\ UNCHANGED <<answer, offer>>

Finalize ==
  /\ cmd = "finalizing"
  /\ ClosePage
  /\ clean' \in {FALSE, Answers}
  /\ Proceed("reporting")
  /\ UNCHANGED <<findings, files, given, late, pipe>>

\* download-complete; a page that would not close fails the tab unless its artifact was
\* found by recovery.
Report ==
  /\ cmd = "reporting"
  /\ Emit(sort)
  /\ Proceed(IF clean \/ from \in {"rescan", "link"} THEN "done" ELSE "failing")
  /\ UNCHANGED <<pageVars, findings, files, given, late, clean>>

(***************************************************************************)
(* recoverArtifactConversationDownload, and the end of a tab without its   *)
(* artifact.                                                               *)
(***************************************************************************)
Unreadable ==
  /\ cmd = "rescanning"
  /\ unread' = TRUE /\ Proceed("bundling")
  /\ UNCHANGED <<pageVars, seen, from, links, why, tried, files, given, late, clean, pipe>>

\* Variant: the page itself is not looked at again.
FollowLinks ==
  /\ cmd = "rescanning" /\ Answers
  /\ links' \in 0 .. RecoveryLimit
  /\ Proceed("linking")
  /\ UNCHANGED <<pageVars, seen, from, why, tried, unread, files, given, late, clean, pipe>>

\* The links are collected first, and the page is looked at once more.
Rescan ==
  /\ cmd = "rescanning" /\ Answers
  /\ links' \in 0 .. RecoveryLimit
  /\ \/ offer /\ Proceed("downloading") /\ from' = "rescan" /\ UNCHANGED unread
     \/ ~offer /\ Proceed("linking") /\ UNCHANGED <<from, unread>>
     \/ unread' = TRUE /\ Proceed("linking") /\ UNCHANGED from
  /\ UNCHANGED <<pageVars, seen, why, tried, files, given, late, clean, pipe>>

\* A conversation is opened and looked at.  Whatever fails leads to the next one.
FollowLink ==
  /\ cmd = "linking" /\ links > 0
  /\ links' = links - 1
  /\ \/ UNCHANGED <<cmd, from, pipe>>
     \/ Connected(Here) /\ Emit("session-expired") /\ UNCHANGED <<cmd, from>>
     \/ Connected(Here) /\ Proceed("downloading") /\ from' = "link" /\ UNCHANGED pipe
  /\ UNCHANGED <<pageVars, seen, why, tried, unread, files, given, late, clean>>

NoMoreLinks ==
  /\ cmd = "linking" /\ links = 0
  /\ Proceed("bundling")
  /\ UNCHANGED <<pageVars, findings, files, given, late, clean, pipe>>

\* Variant: the page is closed before it is described.
BundleClosed ==
  /\ cmd = "bundling"
  /\ ClosePage
  /\ Proceed("closing")
  /\ UNCHANGED <<findings, files, given, late, clean, pipe>>

\* writeNoLinkBundle
Bundle ==
  /\ cmd = "bundling"
  /\ Write("bundle")
  /\ Proceed("closing")
  /\ UNCHANGED <<pageVars, findings, target, given, late, clean, pipe>>

\* Variant: the failure is reported, and thrown as well.
CloseAndThrow ==
  /\ cmd = "closing"
  /\ ClosePage
  /\ Proceed("failing") /\ Emit("error")
  /\ UNCHANGED <<findings, files, given, late, clean>>

\* emitNoTarErrorAndCleanup, emitDownloadErrorAndCleanup
CloseAndReport ==
  /\ cmd = "closing"
  /\ ClosePage
  /\ Proceed("done") /\ Emit("error")
  /\ UNCHANGED <<findings, files, given, late, clean>>

(***************************************************************************)
(* The bridge of the tab.                                                  *)
(***************************************************************************)
\* What a tab does goes on during a shutdown, and as long as the process lives.
TabWork ==
  /\ ~At(Here, {"dead"})
  /\ \/ OpenTab \/ UploadArchive \/ SubmitPrompt \/ PromptAccepted \/ CommandFails
     \/ SessionExpired \/ Poll \/ ReadStatus \/ Materialize \/ Download \/ ExpiredBeforeDownload
     \/ WriteReceipt \/ Finalize \/ Report \/ Unreadable \/ Rescan \/ FollowLink \/ NoMoreLinks
     \/ Bundle \/ CloseAndReport
  /\ UNCHANGED chromeVars

\* shutdown, once the tab is done or the time for it is over: its page is closed.
DrainEnds ==
  /\ CloseBrowser(Here)
  /\ page' = IF page = "open" THEN "lost" ELSE page
  /\ UNCHANGED <<cmd, answer, offer, findings, files, given, late, clean, pipe>>

AroundTab ==
  /\ LaunchTab \/ AnswerGoesOn \/ PageLost \/ DeadlinePasses
  /\ UNCHANGED chromeVars

Next ==
  \/ TabWork \/ AroundTab \/ DrainEnds
  \/ \E b \in Bridges \ {Here} : CloseBrowser(b) /\ UNCHANGED tabVars
  \/ ChromeStep /\ UNCHANGED tabVars
  \/ \E b \in Bridges : BridgeStep(b) /\ UNCHANGED tabVars

\* Calls of the browser return or time out, and a deadline comes.
Fairness == WF_vars(TabWork) /\ WF_vars(DeadlinePasses /\ UNCHANGED chromeVars)

Spec == Init /\ [][Next]_vars /\ Fairness

(***************************************************************************)
(* Properties                                                              *)
(***************************************************************************)
Sent(kind) == {i \in DOMAIN pipe : pipe[i].kind = kind}

Stage ==
  CASE cmd \in {"none", "opening", "submitting", "failing", "done"} -> cmd
    [] cmd = "uploading" -> "opening"
    [] cmd = "clicked" -> "submitting"
    [] cmd = "closing" /\ why = "expired" -> "failing"
    [] OTHER -> "monitoring"

\* The messages of a tab come in the order the orchestrator relies on: one acceptance,
\* one artifact or one error, and nothing after the error, whatever part of the page,
\* the browser, the disk or the bridge fails, and when.
Protocol == INSTANCE TabProtocol WITH
  Tabs <- {1}, tab <- [t \in {1} |-> Stage],
  reports <- [t \in {1} |-> Cardinality(Sent("session-expired"))]

FollowsProtocol == Protocol!TabSpec

\* An artifact that was there when the answer was found finished is not left behind
\* because it was missed then: a download of it was tried, or the page could not be read.
NoArtifactLeftBehind == cmd = "bundling" /\ why = "done" /\ offer => tried \/ unread

\* A tab never closes its page before there is a record of what became of it on disk.
EvidenceBeforeClose == page = "closed" => evidence # {} \/ full

\* An archive that is reported is on disk to its end, with its receipt.
DeliveredIsKept == Sent("archive") # {} => target \in {"whole", "foreign"} /\ "receipt" \in evidence

\* Every tab that is launched comes to its end while its bridge lives.
EveryTabSettles == cmd = "opening" ~> cmd = "done" \/ At(Here, {"dead"})
=============================================================================

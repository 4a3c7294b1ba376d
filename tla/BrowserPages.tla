---------------------------- MODULE BrowserPages ----------------------------
(***************************************************************************)
(* The conversations one browser bridge owns (apps/chrome-bridge) and the  *)
(* calls made to it (concept/rpc.rs).                                      *)
(*                                                                         *)
(* The bridge handles commands concurrently: a handler runs up to its      *)
(* first await when the command arrives and goes on in later steps.        *)
(* Commands arrive in the order they are sent, and the sender only waits,  *)
(* so sending a command and the first part of its handler are one action.  *)
(* A caller that waited too long gives up; its handler goes on, and the    *)
(* answer it gives is dropped.                                             *)
(*                                                                         *)
(* The provider's side is in sent and conversation: a crash of the bridge  *)
(* or closing the page does not undo it.                                   *)
(*                                                                         *)
(* An operator whose comment starts with "Variant" is a plausible mistake  *)
(* in the definition below it.                                             *)
(***************************************************************************)
EXTENDS Naturals, FiniteSets

CONSTANTS
  Attempts,  \* attempt identities
  MaxPages,  \* owned conversations a bridge allows (10 in the code)
  Failures   \* how a failing operation may fail, see Failure

VARIABLES
  page,         \* owned: the entry of each attempt
  handler,      \* how far a handler has come: idle, opening a page, or running
  answer,       \* what the caller of an operation waits for or was told
  sent,         \* times the attempt's prompt was sent to the provider
  conversation  \* the provider's side of it: none, generating or over

pageVars == <<page, handler, answer, sent, conversation>>

Phase == {"none", "preparing", "prepared", "submitting", "accepted", "capturing", "captured"}
Stopping == {"none", "running", "done"}
Submission == {"none", "pending", "clicked", "rejected", "resolved", "reattached"}

\* The engine's tick calls stop on its own, next to the attempt's worker.
Handled == {"prepare", "reattach", "close"}
Stops == {"stop", "halt"}
Op == Handled \cup Stops \cup {"submit", "capture"}

\* expired and limited report the account, model the requested model,
\* not-accepted a send control that could not be used; failed is the rest.
Failure == {"failed", "expired", "limited", "model", "not-accepted"}
Outcome == {"ok", "complete", "incomplete"} \cup Failure

\* aborted: a capture of the page finds its signal raised when it looks.
NoPage == [phase |-> "none", aborted |-> FALSE, stopping |-> "none", submission |-> "none"]

Owned(a) == page[a].phase # "none"

\* activeTurn: the page knows the conversation it belongs to.
Known(a) == page[a].submission \in {"resolved", "reattached"}

Submitting(a) == page[a].submission \in {"pending", "clicked"}

TypeOK ==
  /\ page \in [Attempts -> [phase : Phase, aborted : BOOLEAN, stopping : Stopping,
                            submission : Submission]]
  /\ handler \in [Attempts -> [Handled -> {"idle", "opening", "running"}]]
  /\ answer \in [Attempts -> [Op -> {"none", "waiting"} \cup Outcome]]
  /\ sent \in [Attempts -> Nat]
  /\ conversation \in [Attempts -> {"none", "generating", "over"}]

Init ==
  /\ page = [a \in Attempts |-> NoPage]
  /\ handler = [a \in Attempts |-> [op \in Handled |-> "idle"]]
  /\ answer = [a \in Attempts |-> [op \in Op |-> "none"]]
  /\ sent = [a \in Attempts |-> 0]
  /\ conversation = [a \in Attempts |-> "none"]

---------------------------------------------------------------------------
(* Calls *)

Idle(a, op) == answer[a][op] = "none"
Answered(a, op) == answer[a][op] \in Outcome

Tell(a, op, outcome) == answer' = [answer EXCEPT ![a][op] = outcome]

\* A handler's answer, dropped when its caller no longer waits.
Reply(a, op, outcome) ==
  answer' = IF answer[a][op] = "waiting" THEN [answer EXCEPT ![a][op] = outcome] ELSE answer

\* The promise of a stop answers every caller of it.
ReplyStops(a, outcome) ==
  answer' = [answer EXCEPT ![a] =
    [op \in Op |-> IF op \in Stops /\ answer[a][op] = "waiting" THEN outcome ELSE answer[a][op]]]

SetHandler(a, op, state) == handler' = [handler EXCEPT ![a][op] = state]

\* The caller's timeout: it is told that the browser is unavailable.
TimeOut(a, op) ==
  /\ answer[a][op] = "waiting"
  /\ Tell(a, op, "failed")
  /\ UNCHANGED <<page, handler, sent, conversation>>

---------------------------------------------------------------------------
(* prepare and reattach *)

HasRoom == Cardinality({b \in Attempts : Owned(b)}) < MaxPages

\* The page is opened after the checks and owned once it is open.  Two openings
\* for the same attempt and operation count as one.
OpenPage(a, op) ==
  /\ Idle(a, op)
  /\ IF Owned(a) \/ ~HasRoom
     THEN Tell(a, op, "failed") /\ UNCHANGED handler
     ELSE Tell(a, op, "waiting") /\ SetHandler(a, op, "opening")
  /\ UNCHANGED <<page, sent, conversation>>

PageOpens(a, op) ==
  /\ handler[a][op] = "opening"
  /\ page' = [page EXCEPT ![a] = [NoPage EXCEPT !.phase = "preparing"]]
  /\ SetHandler(a, op, "running")
  /\ UNCHANGED <<answer, sent, conversation>>

\* A page that was opened stays owned when what follows fails.
OpeningFails(a, op) ==
  /\ op \in {"prepare", "reattach"}
  /\ handler[a][op] \in {"opening", "running"}
  /\ SetHandler(a, op, "idle")
  /\ \E f \in Failures \ {"not-accepted"} : Reply(a, op, f)
  /\ UNCHANGED <<page, sent, conversation>>

Prepared(a) ==
  /\ handler[a]["prepare"] = "running"
  /\ Owned(a)
  /\ page' = [page EXCEPT ![a].phase = "prepared"]
  /\ SetHandler(a, "prepare", "idle")
  /\ Reply(a, "prepare", "ok")
  /\ UNCHANGED <<sent, conversation>>

\* The page went back to its accepted conversation; nothing is sent.
Reattached(a) ==
  /\ handler[a]["reattach"] = "running"
  /\ Owned(a)
  /\ page' = [page EXCEPT ![a].phase = "accepted", ![a].submission = "reattached"]
  /\ SetHandler(a, "reattach", "idle")
  /\ Reply(a, "reattach", "ok")
  /\ UNCHANGED <<sent, conversation>>

---------------------------------------------------------------------------
(* submit *)

Submit(a) ==
  /\ Idle(a, "submit")
  /\ IF page[a].phase # "prepared"
     THEN Tell(a, "submit", "failed") /\ UNCHANGED page
     ELSE /\ Tell(a, "submit", "waiting")
          /\ page' = [page EXCEPT ![a].phase = "submitting", ![a].submission = "pending"]
  /\ UNCHANGED <<handler, sent, conversation>>

SendClicked(a) ==
  /\ page[a].submission = "pending"
  /\ page' = [page EXCEPT ![a].submission = "clicked"]
  /\ sent' = [sent EXCEPT ![a] = sent[a] + 1]
  /\ conversation' = [conversation EXCEPT ![a] = "generating"]
  /\ UNCHANGED <<handler, answer>>

SubmissionAccepted(a) ==
  /\ page[a].submission = "clicked"
  /\ page' = [page EXCEPT ![a].phase = "accepted", ![a].submission = "resolved"]
  /\ Reply(a, "submit", "ok")
  /\ UNCHANGED <<handler, sent, conversation>>

\* Only a send control that was never clicked proves that nothing was sent;
\* the page stays in its phase.
SubmissionFails(a) ==
  /\ Submitting(a)
  /\ page' = [page EXCEPT ![a].submission = "rejected"]
  /\ \E f \in Failures \ {"model"} :
       /\ f = "not-accepted" => page[a].submission = "pending"
       /\ Reply(a, "submit", f)
  /\ UNCHANGED <<handler, sent, conversation>>

GenerationEnds(a) ==
  /\ conversation[a] = "generating"
  /\ conversation' = [conversation EXCEPT ![a] = "over"]
  /\ UNCHANGED <<page, handler, answer, sent>>

---------------------------------------------------------------------------
(* capture *)

Capture(a) ==
  /\ Idle(a, "capture")
  /\ IF page[a].phase # "accepted"
     THEN Tell(a, "capture", "failed") /\ UNCHANGED page
     ELSE /\ Tell(a, "capture", "waiting")
          /\ page' = [page EXCEPT ![a].phase = "capturing"]
  /\ UNCHANGED <<handler, sent, conversation>>

\* Errors are results: a capture returns what it has, complete or not.
CaptureEnds(a) ==
  /\ page[a].phase = "capturing"
  /\ page' = [page EXCEPT ![a].phase = "captured", ![a].aborted = FALSE]
  /\ \E v \in {"complete", "incomplete"} \cup (Failures \cap {"expired", "limited"}) :
       /\ v = "complete" => conversation[a] = "over" /\ ~page[a].aborted
       /\ Reply(a, "capture", v)
  /\ UNCHANGED <<handler, sent, conversation>>

---------------------------------------------------------------------------
(* stop *)

\* A capture that has seen the answer complete returns it without another look
\* at its signal, and after the capture nothing looks at it.
LooksAgain(a) ==
  page[a].phase # "captured" /\ (page[a].phase = "capturing" => conversation[a] # "over")

\* Before its conversation is known there is nothing to stop, and that is
\* remembered as a stop that succeeded.
Stop(a, op) ==
  /\ Idle(a, op)
  /\ IF ~Owned(a)
     THEN Tell(a, op, "failed") /\ UNCHANGED page
     ELSE IF page[a].stopping # "none"
     THEN Tell(a, op, IF page[a].stopping = "done" THEN "ok" ELSE "waiting") /\ UNCHANGED page
     ELSE /\ Tell(a, op, IF page[a].submission = "none" THEN "ok" ELSE "waiting")
          /\ page' = [page EXCEPT
               ![a].aborted = page[a].aborted \/ LooksAgain(a),
               ![a].stopping = IF page[a].submission = "none" THEN "done" ELSE "running"]
  /\ UNCHANGED <<handler, sent, conversation>>

\* Generation has ended, by itself or by the stop control.
StopConfirmed(a) ==
  /\ page[a].stopping = "running"
  /\ Known(a)
  /\ conversation' = [conversation EXCEPT ![a] = "over"]
  /\ page' = [page EXCEPT ![a].stopping = "done"]
  /\ ReplyStops(a, "ok")
  /\ UNCHANGED <<handler, sent>>

\* A stop waits for a pending submission and fails with it.
StopFails(a) ==
  /\ page[a].stopping = "running"
  /\ ~Submitting(a)
  /\ page' = [page EXCEPT ![a].stopping = "none"]
  /\ ReplyStops(a, "failed")
  /\ UNCHANGED <<handler, sent, conversation>>

---------------------------------------------------------------------------
(* close *)

Closable(a) == Owned(a) /\ page[a].phase \notin {"capturing", "submitting"}

Close(a) ==
  /\ Idle(a, "close")
  /\ handler[a]["close"] = "idle"
  /\ IF ~Closable(a)
     THEN Tell(a, "close", "failed") /\ UNCHANGED handler
     ELSE Tell(a, "close", "waiting") /\ SetHandler(a, "close", "running")
  /\ UNCHANGED <<page, sent, conversation>>

\* A stop still in progress fails with its page.
PageCloses(a) ==
  /\ handler[a]["close"] = "running"
  /\ page' = [page EXCEPT ![a] = NoPage]
  /\ SetHandler(a, "close", "idle")
  /\ answer' = [answer EXCEPT ![a] =
       [op \in Op |-> IF answer[a][op] # "waiting" THEN answer[a][op]
                      ELSE IF op = "close" THEN "ok"
                      ELSE IF op \in Stops THEN "failed" ELSE "waiting"]]
  /\ UNCHANGED <<sent, conversation>>

ClosingFails(a) ==
  /\ handler[a]["close"] = "running"
  /\ SetHandler(a, "close", "idle")
  /\ Reply(a, "close", "failed")
  /\ UNCHANGED <<page, sent, conversation>>

---------------------------------------------------------------------------
\* The command queue is full or closed: the command never arrives.
Unreachable(a, op) ==
  /\ Idle(a, op)
  /\ Tell(a, op, "failed")
  /\ UNCHANGED <<page, handler, sent, conversation>>

Call(a, op) ==
  \/ Unreachable(a, op)
  \/ op \in {"prepare", "reattach"} /\ OpenPage(a, op)
  \/ op = "submit" /\ Submit(a)
  \/ op = "capture" /\ Capture(a)
  \/ op \in Stops /\ Stop(a, op)
  \/ op = "close" /\ Close(a)

\* The browser and every handler are gone, with the process that called them.
Lost ==
  /\ page' = [a \in Attempts |-> NoPage]
  /\ handler' = [a \in Attempts |-> [op \in Handled |-> "idle"]]
  /\ answer' = [a \in Attempts |-> [op \in Op |-> "none"]]
  /\ UNCHANGED <<sent, conversation>>

\* What the bridge and the provider do on their own.
HandlerStep(a) ==
  \/ \E op \in {"prepare", "reattach"} : PageOpens(a, op) \/ OpeningFails(a, op)
  \/ Prepared(a)
  \/ Reattached(a)
  \/ SendClicked(a)
  \/ SubmissionAccepted(a)
  \/ SubmissionFails(a)
  \/ CaptureEnds(a)
  \/ StopConfirmed(a)
  \/ StopFails(a)
  \/ PageCloses(a)
  \/ ClosingFails(a)

ProviderStep(a) == GenerationEnds(a)
===========================================================================

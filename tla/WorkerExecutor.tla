--------------------------- MODULE WorkerExecutor ---------------------------
(***************************************************************************)
(* The browser executor of worker jobs (server/src/worker/executor.rs),    *)
(* composed with the worker's jobs and tabs (WorkerJobs) and the browser   *)
(* bridge (BrowserPages).                                                  *)
(*                                                                         *)
(* Every call to the bridge is awaited.  run_job limits the whole          *)
(* execution: when the limit passes, the executor is dropped wherever it   *)
(* waits, and the answers it waited for go nowhere.                        *)
(*                                                                         *)
(* An operator whose comment starts with "Variant" is a plausible mistake  *)
(* in the definition below it.                                             *)
(***************************************************************************)
EXTENDS WorkerJobs, Naturals

CONSTANTS
  MaxPages,  \* owned conversations a bridge allows
  Failures   \* the failures of browser operations that are explored

VARIABLES
  page, handler, answer, sent, conversation,  \* the bridge, see BrowserPages
  executor,  \* where the executor of each job is
  verdict    \* what it has decided to return, if it has

pageVars == <<page, handler, answer, sent, conversation>>
workerVars == <<vars, pageVars, executor, verdict>>

Pages == INSTANCE BrowserPages WITH Attempts <- Calls

ASSUME FailuresAssumption == Failures \subseteq Pages!Failure /\ "failed" \in Failures

\* Where an executor waits for the bridge, and for which operation.
Waiting ==
  [preparing |-> "prepare", discarding |-> "close", submitting |-> "submit",
   capturing |-> "capture", stopping |-> "stop", settling |-> "capture", closing |-> "close"]

WorkerInit ==
  /\ Init
  /\ Pages!Init
  /\ executor = [j \in Calls |-> "none"]
  /\ verdict = [j \in Calls |-> "none"]

To(j, pc) == executor' = [executor EXCEPT ![j] = pc]
Decide(j, v) == verdict' = [verdict EXCEPT ![j] = v]

\* The executor acts on the answers it was given.
Take(j) ==
  /\ answer' = [answer EXCEPT ![j] = [op \in Pages!Op |-> "none"]]
  /\ UNCHANGED <<page, handler, sent, conversation>>

Told(j, pc, outcomes) == executor[j] = pc /\ answer[j][Waiting[pc]] \in outcomes

Asks(j, from, pc) ==
  /\ executor[j] = from
  /\ Pages!Call(j, Waiting[pc])
  /\ To(j, pc)
  /\ UNCHANGED <<vars, verdict>>

\* The executor returns; whatever it still waited for is dropped.
Ends(j, result) ==
  /\ Executed(j, result)
  /\ To(j, "none")
  /\ Take(j)
  /\ UNCHANGED verdict

---------------------------------------------------------------------------
StartExecutor(j) ==
  /\ Start(j)
  /\ To(j, "starting")
  /\ UNCHANGED <<pageVars, verdict>>

\* The log directory cannot be made, or the account is not ready.
NoBridge(j) == executor[j] = "starting" /\ Ends(j, "failed")

Prepare(j) == Asks(j, "starting", "preparing")

PrepareFailed(j) ==
  /\ Told(j, "preparing", Pages!Failure)
  /\ Take(j)
  /\ To(j, "discard")
  /\ Decide(j, "failed")
  /\ UNCHANGED vars

\* Variant: a cancellation is only noticed while the answer is captured.
SubmitsRegardless(j) ==
  /\ Told(j, "preparing", {"ok"})
  /\ Take(j)
  /\ To(j, "unsent")
  /\ UNCHANGED <<vars, verdict>>

\* A cancellation that arrived so far keeps the prompt from being sent.
Prepared(j) ==
  /\ Told(j, "preparing", {"ok"})
  /\ Take(j)
  /\ IF signal[j] = "sent"
     THEN To(j, "discard") /\ Decide(j, "cancelled")
     ELSE To(j, "unsent") /\ UNCHANGED verdict
  /\ UNCHANGED vars

Discard(j) == Asks(j, "discard", "discarding")

\* Whether the page was closed or not.
Discarded(j) == Told(j, "discarding", Pages!Outcome) /\ Ends(j, verdict[j])

SubmitPrompt(j) == Asks(j, "unsent", "submitting")

\* The page is left as it is.
SubmissionFailed(j) == Told(j, "submitting", Pages!Failure) /\ Ends(j, "failed")

PromptAccepted(j) ==
  /\ Told(j, "submitting", {"ok"})
  /\ Take(j)
  /\ To(j, "accepted")
  /\ UNCHANGED <<vars, verdict>>

CaptureAnswer(j) == Asks(j, "accepted", "capturing")

\* A cancellation, or the job's timeout, stops the conversation and still
\* waits for what is captured of it.
StopFor(j, reason) ==
  /\ Pages!Call(j, "stop")
  /\ To(j, "stopping")
  /\ Decide(j, reason)
  /\ UNCHANGED vars

\* select! may see a cancellation that is already there before the capture is
\* called at all.
Cancelled(j) ==
  executor[j] \in {"accepted", "capturing"} /\ signal[j] = "sent" /\ StopFor(j, "cancelled")

DeadlinePasses(j) == executor[j] = "capturing" /\ StopFor(j, "timed-out")

Stopped(j) ==
  /\ Told(j, "stopping", Pages!Outcome)
  /\ To(j, "settling")
  /\ IF answer[j]["capture"] = "none" THEN Pages!Call(j, "capture") ELSE UNCHANGED pageVars
  /\ UNCHANGED <<vars, verdict>>

NotSettled(j) ==
  /\ executor[j] = "settling"
  /\ answer[j]["capture"] = "waiting"
  /\ Ends(j, verdict[j])

CaptureFailed(j) ==
  /\ Told(j, "capturing", {"failed"}) \/ Told(j, "settling", {"failed"})
  /\ Ends(j, "failed")

\* Variant: what was captured counts as the answer.
AnyCapture(captured) == "completed"

Judged(captured) == IF captured = "complete" THEN "completed" ELSE "failed"

Captured(j) ==
  /\ \E pc \in {"capturing", "settling"} : Told(j, pc, Pages!Outcome \ {"failed"})
  /\ Decide(j, IF verdict[j] = "none" THEN Judged(answer[j]["capture"]) ELSE verdict[j])
  /\ Take(j)
  /\ To(j, "captured")
  /\ UNCHANGED vars

\* The response is invalid or cannot be written.
WriteFails(j) == executor[j] = "captured" /\ Ends(j, "failed")

ClosePage(j) == Asks(j, "captured", "closing")

CloseFailed(j) == Told(j, "closing", Pages!Failure) /\ Ends(j, "failed")

Closed(j) == Told(j, "closing", {"ok"}) /\ Ends(j, verdict[j])

\* A capture may take longer than the job's timeout and the stop after it, so
\* it never reaches a limit of its own.
CallTimesOut(j) ==
  /\ executor[j] \in DOMAIN Waiting \ {"capturing", "settling"}
  /\ Pages!TimeOut(j, Waiting[executor[j]])
  /\ UNCHANGED <<vars, executor, verdict>>

\* run_job's limit on the execution.
RunTimesOut(j) == executor[j] # "none" /\ Ends(j, "timed-out")

ExecutorStep(j) ==
  \/ StartExecutor(j) \/ NoBridge(j) \/ Prepare(j) \/ PrepareFailed(j) \/ Prepared(j)
  \/ Discard(j) \/ Discarded(j)
  \/ SubmitPrompt(j) \/ SubmissionFailed(j) \/ PromptAccepted(j)
  \/ CaptureAnswer(j) \/ Cancelled(j) \/ DeadlinePasses(j) \/ Stopped(j) \/ NotSettled(j)
  \/ CaptureFailed(j) \/ Captured(j) \/ WriteFails(j)
  \/ ClosePage(j) \/ CloseFailed(j) \/ Closed(j)
  \/ CallTimesOut(j) \/ RunTimesOut(j)

BridgeStep(j) ==
  /\ Pages!HandlerStep(j) \/ Pages!ProviderStep(j)
  /\ UNCHANGED <<vars, executor, verdict>>

ServiceStep ==
  /\ \/ ClientStep
     \/ \E c \in Calls : SubmissionStep(c) \/ JobStep(c)
     \/ \E x \in Stoppers : StopperStep(x)
  /\ UNCHANGED <<pageVars, executor, verdict>>

WorkerNext ==
  \/ ServiceStep
  \/ \E j \in Calls : ExecutorStep(j) \/ BridgeStep(j)

WorkerSpec == WorkerInit /\ [][WorkerNext]_workerVars

\* Tasks that can go on do go on, and time passes; nothing is assumed of
\* clients, the browser or the provider.
WorkerFairness ==
  \A c \in Calls :
    /\ WF_workerVars(SubmissionStep(c) /\ UNCHANGED <<pageVars, executor, verdict>>)
    /\ WF_workerVars(JobStep(c) /\ UNCHANGED <<pageVars, executor, verdict>>)
    /\ WF_workerVars(ExecutorStep(c))

---------------------------------------------------------------------------
(* Properties *)

\* The prompt of one key is sent at most once, whatever is submitted,
\* repeated, cancelled and timed out (docs/worker-mcp.md: a repeated key "does
\* not submit another ChatGPT turn").
OneTurnPerKey ==
  \A i, j \in Calls :
    /\ sent[i] <= 1
    /\ sent[i] > 0 /\ sent[j] > 0 /\ call[i].request.key = call[j].request.key => i = j

\* A job that reports completed has the provider's whole answer: the
\* conversation is over and its page is closed, so that its slot of the
\* browser is free again (executor.rs after the capture).
CompletedIsWhole ==
  \A j \in Calls : task[j] # "none" /\ outcome[j] = "completed" =>
    conversation[j] = "over" /\ page[j] = Pages!NoPage

\* A submission that waits for the lock gets it and is answered, and the task
\* of the job it makes ends and gives back what it held, whatever the browser
\* does (the timeouts of executor.rs and run_job's limit on them).  This is
\* about the task: the status clients are shown may say cancelling for ever
\* (MarkCancelling, jobs.rs:142), against docs/worker-mcp.md:388.
EveryTaskEnds ==
  \A c \in Calls :
    call[c].at = "waiting" ~> call[c].at = "done" /\ (call[c].answer = c => task[c] = "done")
=============================================================================

--------------------------- MODULE ConceptEngine ----------------------------
(***************************************************************************)
(* The engine of concept workflows (concept/engine.rs, engine/worker.rs),  *)
(* composed with the durable store (WorkflowStore) and the browser bridge  *)
(* (BrowserPages).                                                         *)
(*                                                                         *)
(* One task, the worker, drives each attempt: it calls the store and the   *)
(* bridge in turn, and between two calls everything else may happen.  The  *)
(* scheduler's tick and recovery hold the engine's lock, but they too      *)
(* await the store and the bridge, so they are sequences of steps.  HTTP   *)
(* handlers call the store at any moment.  A restart ends all of this and  *)
(* keeps the store and what the provider received.                         *)
(*                                                                         *)
(* Every step performs at most one operation of the store.                 *)
(***************************************************************************)
EXTENDS WorkflowStore

CONSTANTS
  MaxPages,     \* owned conversations a bridge allows
  Failures,     \* the failures of browser operations that are explored
  MaxRestarts   \* bound on restarts of the daemon

ASSUME RestartsAssumption == MaxRestarts \in Nat

VARIABLES
  page, handler, answer, sent, conversation,  \* the bridge, see BrowserPages
  worker,         \* where the worker of each attempt in active is, else "none"
  stopRequested,  \* attempts whose conversation the tick has stopped
  engine,         \* what the holder of the engine's lock is doing
  visit,          \* attempts its loop has yet to look at
  reattached,     \* attempts it has reattached, their runs not resumed yet
  attached,       \* accounts whose bridge the engine knows
  toRestore,      \* accounts not restored yet since the daemon started
  restarts        \* number of restarts

pageVars == <<page, handler, answer, sent, conversation>>
lockVars == <<stopRequested, engine, visit, reattached>>
lifeVars == <<attached, toRestore, restarts>>
engineVars == <<vars, pageVars, worker, lockVars, lifeVars>>

Pages == INSTANCE BrowserPages WITH Attempts <- Lease

ASSUME FailuresAssumption == Failures \subseteq Pages!Failure /\ "failed" \in Failures

\* Where a worker waits for the bridge, and for which operation.
Waiting ==
  [preparing |-> "prepare", discarding |-> "close", cancelling |-> "close",
   expiring |-> "close", submitting |-> "submit", capturing |-> "capture",
   stopping |-> "stop", closing |-> "close"]

Worker == {"none", "claimed", "suspending", "discard", "polling", "expired", "begun",
           "accepted", "captured", "done", "error"} \cup DOMAIN Waiting

Active == {l \in Lease : worker[l] # "none"}
Ended(l) == worker[l] \in {"done", "error"}
Account(l) == AccountOf[l.run]

\* The scheduler and the HTTP server start once the accounts are restored.
Serving == toRestore = {}
LockFree == engine = "idle" /\ Serving

EngineInit ==
  /\ Init
  /\ Pages!Init
  /\ worker = [l \in Lease |-> "none"]
  /\ stopRequested = {}
  /\ engine = "idle"
  /\ visit = {}
  /\ reattached = {}
  /\ attached = {}
  /\ toRestore = Accounts
  /\ restarts = 0

To(l, pc) == worker' = [worker EXCEPT ![l] = pc]

\* The worker acts on the answers it was given; halt and reattach are calls of
\* the engine.
Take(l) ==
  /\ answer' = [answer EXCEPT ![l] =
       [op \in Pages!Op |-> IF op \in {"halt", "reattach"} THEN answer[l][op] ELSE "none"]]
  /\ UNCHANGED <<page, handler, sent, conversation>>

\* The worker was waiting at pc and was told one of outcomes.
Told(l, pc, outcomes) == worker[l] = pc /\ answer[l][Waiting[pc]] \in outcomes

\* The worker calls the bridge, or goes on with what it was told; the store
\* does not change.
Asks(l, from, pc) ==
  /\ worker[l] = from
  /\ Pages!Call(l, Waiting[pc])
  /\ To(l, pc)
  /\ UNCHANGED vars

GoesOn(l, from, outcomes, pc) ==
  /\ Told(l, from, outcomes)
  /\ Take(l)
  /\ To(l, pc)
  /\ UNCHANGED vars

---------------------------------------------------------------------------
(* engine/worker.rs, execute *)

\* The stored inputs of the prompt cannot be read.
PromptFails(l) ==
  /\ worker[l] = "claimed"
  /\ FailAttempt(l, "Terminal")
  /\ To(l, "done")
  /\ UNCHANGED pageVars

Prepare(l) == Asks(l, "claimed", "preparing")

Prepared(l) == GoesOn(l, "preparing", {"ok"}, "polling")

PrepareFailed(l) ==
  /\ Told(l, "preparing", {"failed", "model"})
  /\ FailAttempt(l, "DefinitelyNotAccepted")
  /\ Take(l)
  /\ To(l, IF answer[l]["prepare"] = "model" THEN "suspending" ELSE "discard")

\* A requested model that is not available pauses the run; an error of that
\* leaves the page.
SuspendRun(l) ==
  /\ worker[l] = "suspending"
  /\ \/ Suspend(l.run) /\ To(l, "discard")
     \/ runStatus[l.run] = "paused" /\ To(l, "discard") /\ UNCHANGED vars
     \/ /\ runStatus[l.run] \in Terminal \cup {"reconciliation-required"}
        /\ To(l, "error")
        /\ UNCHANGED vars
  /\ UNCHANGED pageVars

Discard(l) == Asks(l, "discard", "discarding")

Discarded(l) == GoesOn(l, "discarding", Pages!Outcome, "done")

\* The loop that waits for the account's submission time.  Reading the run and
\* begin_submission are two transactions, but the second checks everything
\* again, and when it refuses the loop starts over.
CloseCancelled(l) == runStatus[l.run] = "cancelled" /\ Asks(l, "polling", "cancelling")

CancelClosed(l) ==
  /\ Told(l, "cancelling", {"ok"})
  /\ AcknowledgeCancel(l)
  /\ Take(l)
  /\ To(l, "done")

PollExpired(l) ==
  /\ worker[l] = "polling"
  /\ runStatus[l.run] # "cancelled"
  /\ ~WithinLimits(l.run)
  /\ FailAttempt(l, "Terminal")
  /\ To(l, "expired")
  /\ UNCHANGED pageVars

CloseExpired(l) == Asks(l, "expired", "expiring")

ExpiredClosed(l) == GoesOn(l, "expiring", {"ok"}, "done")

\* The worker ends with an error when its page cannot be closed.
CloseRefused(l) ==
  \E pc \in {"cancelling", "expiring", "closing"} : GoesOn(l, pc, Pages!Failure, "error")

Begin(l) ==
  /\ worker[l] = "polling"
  /\ BeginSubmission(l)
  /\ To(l, "begun")
  /\ UNCHANGED pageVars

SubmitPrompt(l) == Asks(l, "begun", "submitting")

PromptAccepted(l) ==
  /\ Told(l, "submitting", {"ok"})
  /\ Accepted(l)
  /\ Take(l)
  /\ To(l, "accepted")

\* Variant: a failed submission is treated like a failed preparation.
NeverAccepted(outcome) == "DefinitelyNotAccepted"

SubmissionDisposition(outcome) ==
  IF outcome = "not-accepted" THEN "DefinitelyNotAccepted" ELSE "Uncertain"

SubmissionFailed(l) ==
  /\ Told(l, "submitting", {"failed", "not-accepted"})
  /\ FailAttempt(l, SubmissionDisposition(answer[l]["submit"]))
  /\ Take(l)
  /\ To(l, "done")

---------------------------------------------------------------------------
(* engine/worker.rs, capture and record_browser_failure *)

CaptureAnswer(l) == Asks(l, "accepted", "capturing")

CaptureFailed(l) ==
  /\ Told(l, "capturing", {"failed"})
  /\ FailAttempt(l, "Uncertain")
  /\ Take(l)
  /\ To(l, "done")

CaptureComplete(l) ==
  /\ Told(l, "capturing", {"complete"})
  /\ \E verdict \in Verdict, text \in BOOLEAN :
       /\ verdict = "interrupted" => TimedOut(l)
       /\ StoreCapture(l, verdict, text)
  /\ Take(l)
  /\ To(l, "captured")

StopIncomplete(l) ==
  /\ Told(l, "capturing", {"incomplete"})
  /\ Pages!Call(l, "stop")
  /\ To(l, "stopping")
  /\ UNCHANGED vars

\* What is left of an answer that is not complete.
Remains == {"interrupted", "model-mismatch"}

Stopped(l) ==
  /\ Told(l, "stopping", {"ok"})
  /\ \E verdict \in Remains, text \in BOOLEAN : StoreCapture(l, verdict, text)
  /\ Take(l)
  /\ To(l, "captured")

\* Variant: text is stored as final although stopping was not confirmed.
StoreUnconfirmed(l, verdict, text) == StoreCapture(l, verdict, text)

KeepUnconfirmed(l, verdict, text) == PreservePartial(l, verdict, text)

StopUnconfirmed(l) ==
  /\ Told(l, "stopping", Pages!Failure)
  /\ \E verdict \in Remains, text \in BOOLEAN : KeepUnconfirmed(l, verdict, text)
  /\ Take(l)
  /\ To(l, "done")

\* Variant: a complete answer is only stored once its page is closed.
CloseBeforeStore(l) ==
  /\ Told(l, "capturing", {"complete"})
  /\ Pages!Call(l, "close")
  /\ To(l, "closing")
  /\ UNCHANGED vars

ClosePage(l) == Asks(l, "captured", "closing")

PageClosed(l) == GoesOn(l, "closing", {"ok"}, "done")

\* A failure that concerns the account is recorded on the account first.
RecordAccount(l) ==
  \E pc \in {"preparing", "submitting", "capturing"} :
    LET op == Waiting[pc]
    IN  /\ \/ Told(l, pc, {"expired"}) /\ AccountExpired(Account(l))
           \/ Told(l, pc, {"limited"}) /\ \E delay \in RetryDelays : RateLimited(Account(l), delay)
        /\ Pages!Tell(l, op, IF pc = "capturing" THEN "incomplete" ELSE "failed")
        /\ UNCHANGED <<page, handler, sent, conversation, worker>>

\* Variant: a prepared page is waited for without a limit.
TimesOutOnceBegun(l) ==
  /\ worker[l] \in DOMAIN Waiting \ {"preparing"}
  /\ Pages!TimeOut(l, Waiting[worker[l]])
  /\ UNCHANGED <<vars, worker>>

WorkerTimesOut(l) ==
  /\ worker[l] \in DOMAIN Waiting
  /\ Pages!TimeOut(l, Waiting[worker[l]])
  /\ UNCHANGED <<vars, worker>>

WorkerActs(l) ==
  \/ PromptFails(l) \/ Prepare(l) \/ Prepared(l) \/ PrepareFailed(l)
  \/ SuspendRun(l) \/ Discard(l) \/ Discarded(l)
  \/ CloseCancelled(l) \/ CancelClosed(l) \/ CloseRefused(l)
  \/ PollExpired(l) \/ CloseExpired(l) \/ ExpiredClosed(l)
  \/ Begin(l) \/ SubmitPrompt(l) \/ PromptAccepted(l) \/ SubmissionFailed(l)
  \/ CaptureAnswer(l) \/ CaptureFailed(l) \/ CaptureComplete(l)
  \/ StopIncomplete(l) \/ Stopped(l) \/ StopUnconfirmed(l)
  \/ ClosePage(l) \/ PageClosed(l) \/ RecordAccount(l) \/ WorkerTimesOut(l)

WorkerStep(l) == WorkerActs(l) /\ UNCHANGED <<lockVars, lifeVars>>

---------------------------------------------------------------------------
(* engine.rs, tick *)

Goto(state) == engine' = state

\* The loop of one phase is over.
Turns(from, to) ==
  /\ engine = from
  /\ visit = {}
  /\ Goto(to)
  /\ UNCHANGED <<vars, pageVars, worker, stopRequested, visit, reattached, lifeVars>>

TickBegins ==
  /\ LockFree
  /\ Goto("reaping")
  /\ visit' = {l \in Active : Ended(l)}
  /\ UNCHANGED <<vars, pageVars, worker, stopRequested, reattached, lifeVars>>

\* A worker that ended with an error leaves its attempt uncertain.  If the
\* attempt cannot become uncertain the tick fails, and the daemon with it.
Reap(l) ==
  /\ engine = "reaping"
  /\ l \in visit
  /\ visit' = visit \ {l}
  /\ To(l, "none")
  /\ stopRequested' = stopRequested \ {l}
  /\ IF worker[l] = "error" /\ Owns(l)
     THEN \/ FailAttempt(l, "Uncertain") /\ UNCHANGED engine
          \/ /\ ~MayFail(StateOf(l), "Uncertain") \/ Aborted(StateOf(l), "Uncertain")
             /\ Goto("failed")
             /\ UNCHANGED vars
     ELSE UNCHANGED <<vars, engine>>
  /\ UNCHANGED <<pageVars, reattached, lifeVars>>

ReapingEnds ==
  /\ engine = "reaping"
  /\ visit = {}
  /\ Goto("stopping")
  /\ visit' = Active \ stopRequested
  /\ UNCHANGED <<vars, pageVars, worker, stopRequested, reattached, lifeVars>>

\* Cancelled, or past the run's deadline, or past the response timeout.
MustStop(l) ==
  \/ runStatus[l.run] = "cancelled"
  \/ now >= deadline[l.run]
  \/ acceptedAt[l.run][l.task][l.number] # NotAccepted /\ TimedOut(l)

NoHalt == \A l \in Lease : Pages!Idle(l, "halt")

Look(l) ==
  /\ engine = "stopping"
  /\ NoHalt
  /\ l \in visit
  /\ IF MustStop(l)
     THEN Pages!Call(l, "halt") /\ UNCHANGED visit
     ELSE visit' = visit \ {l} /\ UNCHANGED pageVars
  /\ UNCHANGED <<vars, worker, stopRequested, engine, reattached, lifeVars>>

\* A stop that failed is asked for again by the next tick.
Halted(l) ==
  /\ engine = "stopping"
  /\ Pages!Answered(l, "halt")
  /\ visit' = visit \ {l}
  /\ stopRequested' = IF answer[l]["halt"] = "ok" THEN stopRequested \cup {l} ELSE stopRequested
  /\ Pages!Tell(l, "halt", "none")
  /\ UNCHANGED <<page, handler, sent, conversation>>
  /\ UNCHANGED <<vars, worker, engine, reattached, lifeVars>>

StoppingEnds == Turns("stopping", "claiming")

EngineClaims(r, t, jitter) ==
  /\ engine = "claiming"
  /\ ClaimTask(r, t, jitter)
  /\ To([run |-> r, task |-> t, number |-> attempts[r][t] + 1], "claimed")
  /\ UNCHANGED <<pageVars, lockVars, lifeVars>>

TickEnds ==
  /\ engine = "claiming"
  /\ ClaimNone
  /\ Goto("idle")
  /\ UNCHANGED <<pageVars, worker, stopRequested, visit, reattached, lifeVars>>

---------------------------------------------------------------------------
(* engine.rs, recover, and its callers in concept/supervisor *)

ToReattach(known) ==
  {l \in Lease : /\ Owns(l)
                 /\ worker[l] = "none"
                 /\ Account(l) \in known
                 /\ StateOf(l) = "accepted"}

\* A probe or the operator verified the account; its bridge is attached and
\* accepted attempts without a worker are recovered, under one lock.
Verified(a) ==
  /\ engine = "idle"
  /\ a \notin toRestore
  /\ VerifyAccount(a, FALSE) \/ ConfirmAccount(a)
  /\ attached' = attached \cup {a}
  /\ Goto("recovering")
  /\ visit' = ToReattach(attached')
  /\ UNCHANGED <<pageVars, worker, stopRequested, reattached, toRestore, restarts>>

Reattach(l) ==
  /\ engine = "recovering"
  /\ \A m \in Lease : Pages!Idle(m, "reattach")
  /\ l \in visit
  /\ Pages!Call(l, "reattach")
  /\ UNCHANGED <<vars, worker, lockVars, lifeVars>>

\* The worker of a reattached attempt starts with its capture.
Reattached(l) ==
  /\ engine = "recovering"
  /\ l \in visit
  /\ Pages!Answered(l, "reattach")
  /\ visit' = visit \ {l}
  /\ IF answer[l]["reattach"] = "ok"
     THEN To(l, "accepted") /\ reattached' = reattached \cup {l}
     ELSE UNCHANGED <<worker, reattached>>
  /\ Pages!Tell(l, "reattach", "none")
  /\ UNCHANGED <<page, handler, sent, conversation>>
  /\ UNCHANGED <<vars, stopRequested, engine, lifeVars>>

RecoveringEnds == Turns("recovering", "resuming")

\* Every reservation of the run is an accepted attempt that was reattached.
Reconciled(r, leases) ==
  /\ runStatus[r] = "reconciliation-required"
  /\ \A v \in ReservationsOf(r) : StateOf(v.lease) = "accepted" /\ v.lease \in leases

\* resume_reattached leaves a run alone that still has something to reconcile.
ResumeRecovered(r) ==
  /\ engine = "resuming"
  /\ \E l \in reattached : l.run = r
  /\ \/ ResumeReattached(r, reattached)
     \/ ~Reconciled(r, reattached) /\ UNCHANGED vars
  /\ reattached' = {l \in reattached : l.run # r}
  /\ UNCHANGED <<pageVars, worker, stopRequested, engine, visit, lifeVars>>

ResumingEnds == reattached = {} /\ Turns("resuming", "idle")

EngineTimesOut(l) ==
  /\ Pages!TimeOut(l, "halt") \/ Pages!TimeOut(l, "reattach")
  /\ UNCHANGED <<vars, worker, lockVars, lifeVars>>

---------------------------------------------------------------------------
(* The daemon (concept_daemon.rs) and the account supervisor around it *)

\* The process ends, at any point, and the next one recovers the store before
\* anything else; a scheduler that failed ends its process.
Restart ==
  /\ restarts < MaxRestarts
  /\ Recover
  /\ Pages!Lost
  /\ worker' = [l \in Lease |-> "none"]
  /\ stopRequested' = {}
  /\ engine' = "idle"
  /\ visit' = {}
  /\ reattached' = {}
  /\ attached' = {}
  /\ toRestore' = Accounts
  /\ restarts' = restarts + 1

\* Authentication is checked again before recovered work is scheduled.
RestoreReadiness(a) == AccountExpired(a)

RestoreAccount(a) ==
  /\ a \in toRestore
  /\ RestoreReadiness(a)
  /\ toRestore' = toRestore \ {a}
  /\ UNCHANGED <<pageVars, worker, lockVars, attached, restarts>>

\* Requests of the operator, and what the account's probe observes.
Environment ==
  /\ \/ /\ Serving
        /\ \E r \in Runs : \/ Submit(r) \/ Suspend(r) \/ Cancel(r)
                           \/ \E allowIncomplete \in BOOLEAN : Resume(r, allowIncomplete)
     \/ \E a \in Accounts \ toRestore :
          \/ AccountExpired(a)
          \/ \E delay \in RetryDelays : RateLimited(a, delay)
          \/ engine = "idle" /\ VerifyMismatch(a, FALSE)
     \/ Tick
  /\ UNCHANGED <<pageVars, worker, lockVars, lifeVars>>

BridgeStep ==
  /\ \E l \in Lease : Pages!HandlerStep(l) \/ Pages!ProviderStep(l)
  /\ UNCHANGED <<vars, worker, lockVars, lifeVars>>

---------------------------------------------------------------------------
TickStep ==
  \/ \E l \in Lease : Reap(l) \/ Look(l) \/ Halted(l)
  \/ ReapingEnds \/ StoppingEnds \/ TickEnds
  \/ \E r \in Runs, t \in Task, jitter \in 0..MaxJitter : EngineClaims(r, t, jitter)

RecoveryStep ==
  \/ \E l \in Lease : Reattach(l) \/ Reattached(l)
  \/ RecoveringEnds \/ ResumingEnds
  \/ \E r \in Runs : ResumeRecovered(r)

LockStep == TickStep \/ RecoveryStep \/ \E l \in Lease : EngineTimesOut(l)

EngineNext ==
  \/ \E l \in Lease : WorkerStep(l)
  \/ TickBegins
  \/ LockStep
  \/ \E a \in Accounts : Verified(a) \/ RestoreAccount(a)
  \/ Environment
  \/ BridgeStep
  \/ Restart

EngineSpec == EngineInit /\ [][EngineNext]_engineVars

\* Every call is answered or times out, so each task of the daemon goes on;
\* the engine's lock is a FIFO queue, so the tick gets its turn.  Nothing is
\* assumed of the bridge, the provider, the accounts or the operator.
EngineFairness ==
  /\ \A l \in Lease : WF_engineVars(WorkerStep(l))
  /\ WF_engineVars(LockStep)
  /\ SF_engineVars(TickBegins)
  /\ \A a \in Accounts : WF_engineVars(RestoreAccount(a))

FairEngineSpec == EngineSpec /\ EngineFairness

---------------------------------------------------------------------------
(* Properties *)

\* docs/concept-workflows.md:93-94: a prompt is never automatically repeated.
\* A task's prompt is sent again only when every earlier send of it was
\* accepted, captured and given up, whatever failed, timed out or restarted.
SentAgainOnlyAfterSettled ==
  \A l, m \in Lease :
    /\ sent[l] <= 1
    /\ l.run = m.run /\ l.task = m.task /\ l.number < m.number /\ sent[l] > 0 /\ sent[m] > 0
         => StateOf(l) \in {"failed", "partial"}
            /\ acceptedAt[l.run][l.task][l.number] # NotAccepted

\* Where a worker has nothing left to store.
Stored == {"none", "suspending", "discard", "discarding", "expired", "expiring", "captured",
           "closing", "done", "error"}

\* A worker that still has a result to store holds the reservation it needs,
\* in a state that takes the result: no answer is lost to a refused operation.
WorkerOwns ==
  \A l \in Lease : worker[l] \notin Stored =>
    /\ Owns(l)
    /\ worker[l] \in {"claimed", "preparing", "polling", "cancelling"} => StateOf(l) = "prepared"
    /\ worker[l] \in {"begun", "submitting"} => StateOf(l) = "submitting"
    /\ worker[l] \in {"accepted", "capturing", "stopping"} => StateOf(l) = "accepted"

\* An attempt that was claimed and not yet accepted always has a worker, so no
\* reservation is forgotten before the provider has it (recovery only looks at
\* accepted attempts).
UnacceptedHasWorker ==
  \A l \in Lease : StateOf(l) \in {"prepared", "submitting"} /\ engine # "failed" =>
                     worker[l] # "none"

\* Scheduling only considers accounts whose bridge is attached: the branch of
\* claim for an account without one is never taken, also after a restart.
ReadyIsAttached ==
  \A a \in Accounts \ toRestore : account[a].readiness = "ready" => a \in attached

\* Doc (db/constraints/README.md:12-14): resume after restart requires every
\* retained reservation to be reconciled.  When recovery puts a run back into the
\* schedule, every conversation the run still holds has a worker that captures
\* it, although each call of recover only knows the attempts it reattached
\* itself, and workers, cancellations and expiries go on meanwhile.
ResumedIsAttended ==
  [][\A r \in Runs :
       /\ \E l \in reattached \ reattached' : l.run = r
       /\ runStatus[r] = "reconciliation-required"
       /\ runStatus'[r] \in Recoverable
       => \A l \in Lease : l.run = r /\ Owns(l) =>
                            worker[l] \in {"accepted", "capturing", "stopping"}]_engineVars

\* A page is only closed when nothing on it can be lost: the attempt was not
\* submitted, or its capture is stored (concept-bridge.mjs:165).
ClosedOnlyWhenStored ==
  [][\A l \in Lease :
       Pages!Owned(l) /\ page'[l].phase = "none" /\ restarts' = restarts =>
         StateOf(l) \notin {"submitting", "accepted", "uncertain"}]_engineVars

\* However restarts, failures and retries interleave, a provider account never
\* generates more answers at once than its capacity, the same runs excepted.
ProviderLoadBounded ==
  \A a \in Accounts :
    Cardinality({l \in Lease : /\ Account(l) = a
                               /\ conversation[l] = "generating"
                               /\ runStatus[l.run] # "cancelled"
                               /\ now < deadline[l.run]}) <= Capacity

\* Doc (db/constraints/README.md): cancellation does not free active capacity
\* until the supervisor acknowledges that the owned conversation has stopped.
CancelledKeepsCapacity == \A l \in Lease : conversation[l] = "generating" => Owns(l)

\* Doc (rpc.rs:141): an individual run never restarts the shared browser; a
\* failed tick ends the daemon and every browser with it.
SchedulingGoesOn == engine # "failed"

\* Every conversation ends: once its prompt may have been sent a worker goes on
\* to its end and is reaped, and so does every worker of a cancelled run.
EveryConversationEnds ==
  \A l \in Lease :
    /\ worker[l] # "none"
    /\ worker[l] \in {"claimed", "preparing", "polling"} => runStatus[l.run] = "cancelled"
    ~> worker[l] = "none" \/ engine = "failed"
=============================================================================

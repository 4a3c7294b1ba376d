------------------------ MODULE ConceptEngineProofs ------------------------
(***************************************************************************)
(* The engine implements the store's specification, so what is proved of   *)
(* the store holds whatever workers, ticks, recoveries and restarts do;    *)
(* the scheduler never meets an account without a bridge; a worker always  *)
(* finds its attempt in the state it needs; and, from what a worker, its   *)
(* attempt, its page and its conversation know of each other: no prompt is *)
(* sent twice, no page is closed too early, and the provider generates no  *)
(* more than the reserved capacity.                                        *)
(***************************************************************************)
EXTENDS ConceptEngine, WorkflowPipelineProofs

\* A step of the store, or none, that does not make an account ready.
Unverified ==
  \/ Tick \/ Claim \/ ClaimNone \/ RunStep \/ LeaseStep \/ Recover \/ UNCHANGED vars
  \/ \E a \in Accounts : \/ AccountExpired(a) \/ VerifyMismatch(a, FALSE)
                         \/ \E delay \in RetryDelays : RateLimited(a, delay)

\* Each step of a worker is a step of the store or leaves it alone.
LEMMA WorkerRefines ==
  ASSUME NEW l \in Lease, WorkerActs(l)
  PROVE  Unverified
<1>a. l.run \in Runs /\ Account(l) \in Accounts
  BY AccountsAssumption DEF Lease, Account
<1>b. \A d \in Disposition : FailAttempt(l, d) => Unverified
  BY DEF Unverified, LeaseStep
<1>c. \A verdict \in Verdict, text \in BOOLEAN :
        StoreCapture(l, verdict, text) \/ PreservePartial(l, verdict, text) => Unverified
  BY DEF Unverified, LeaseStep
<1>d. /\ {"Terminal", "DefinitelyNotAccepted", "Uncertain"} \subseteq Disposition
      /\ Remains \subseteq Verdict
  BY DEF Disposition, Remains, Verdict
<1>e. UNCHANGED vars => Unverified
  BY DEF Unverified
<1>1. CASE PromptFails(l) BY <1>1, <1>b, <1>d DEF PromptFails
<1>2. CASE Prepare(l) \/ Discard(l) \/ CloseCancelled(l) \/ CloseExpired(l) \/ SubmitPrompt(l)
           \/ CaptureAnswer(l) \/ ClosePage(l)
  BY <1>2, <1>e DEF Prepare, Discard, CloseCancelled, CloseExpired, SubmitPrompt, CaptureAnswer,
              ClosePage, Asks
<1>3. CASE Prepared(l) \/ Discarded(l) \/ ExpiredClosed(l) \/ CloseRefused(l) \/ PageClosed(l)
  BY <1>3, <1>e DEF Prepared, Discarded, ExpiredClosed, CloseRefused, PageClosed, GoesOn
<1>4. CASE PrepareFailed(l) BY <1>4, <1>b, <1>d DEF PrepareFailed
<1>5. CASE SuspendRun(l) BY <1>5, <1>a, <1>e DEF SuspendRun, Unverified, RunStep
<1>6. CASE CancelClosed(l) BY <1>6 DEF CancelClosed, Unverified, LeaseStep
<1>7. CASE PollExpired(l) BY <1>7, <1>b, <1>d DEF PollExpired
<1>8. CASE Begin(l) BY <1>8 DEF Begin, Unverified, LeaseStep
<1>9. CASE PromptAccepted(l) BY <1>9 DEF PromptAccepted, Unverified, LeaseStep
<1>10. CASE SubmissionFailed(l)
  <2>1. SubmissionDisposition(answer[l]["submit"]) \in Disposition
    BY <1>d DEF SubmissionDisposition
  <2> QED BY <1>10, <2>1, <1>b DEF SubmissionFailed
<1>11. CASE CaptureFailed(l) BY <1>11, <1>b, <1>d DEF CaptureFailed
<1>12. CASE CaptureComplete(l) BY <1>12, <1>c DEF CaptureComplete
<1>13. CASE StopIncomplete(l) BY <1>13, <1>e DEF StopIncomplete
<1>14. CASE Stopped(l) BY <1>14, <1>c, <1>d DEF Stopped
<1>15. CASE StopUnconfirmed(l) BY <1>15, <1>c, <1>d DEF StopUnconfirmed, KeepUnconfirmed
<1>16. CASE RecordAccount(l) BY <1>16, <1>a DEF RecordAccount, Unverified
<1>17. CASE WorkerTimesOut(l) BY <1>17, <1>e DEF WorkerTimesOut
<1> QED
  BY <1>1, <1>2, <1>3, <1>4, <1>5, <1>6, <1>7, <1>8, <1>9, <1>10, <1>11, <1>12, <1>13, <1>14,
     <1>15, <1>16, <1>17 DEF WorkerActs

\* The same of the tick and of recovery, which hold the engine's lock.
LEMMA LockRefines ==
  ASSUME TypeOK, LockStep
  PROVE  Unverified
<1>e. UNCHANGED vars => Unverified
  BY DEF Unverified
<1>1. ASSUME NEW l \in Lease, Reap(l) \/ Look(l) \/ Halted(l)
      PROVE  Unverified
  <2>1. FailAttempt(l, "Uncertain") => Unverified
    BY DEF Unverified, LeaseStep, Disposition
  <2> QED BY <1>1, <2>1, <1>e DEF Reap, Look, Halted
<1>2. CASE ReapingEnds \/ StoppingEnds \/ TickEnds
  BY <1>2 DEF ReapingEnds, StoppingEnds, Turns, TickEnds, Unverified
<1>3. ASSUME NEW r \in Runs, NEW t \in Task, NEW jitter \in 0..MaxJitter,
             EngineClaims(r, t, jitter)
      PROVE  Unverified
  BY <1>3 DEF EngineClaims, Unverified, Claim
<1>4. ASSUME NEW l \in Lease, Reattach(l) \/ Reattached(l) \/ EngineTimesOut(l)
      PROVE  Unverified
  BY <1>4, <1>e DEF Reattach, Reattached, EngineTimesOut
<1>5. CASE RecoveringEnds \/ ResumingEnds
  BY <1>5, <1>e DEF RecoveringEnds, ResumingEnds, Turns
<1>6. ASSUME NEW r \in Runs, ResumeRecovered(r)
      PROVE  Unverified
  <2>1. CASE ~Reconciled(r, reattached) /\ UNCHANGED vars BY <2>1, <1>e
  <2>2. CASE ResumeReattached(r, reattached)
    <3>1. ResumeReattached(r, Issued)
      <4>1. ASSUME NEW v \in ReservationsOf(r), StateOf(v.lease) = "accepted"
            PROVE  v.lease \in Issued
        BY <4>1 DEF TypeOK, Reservation, ReservationsOf, Issued
      <4> QED BY <2>2, <4>1 DEF ResumeReattached
    <3> QED BY <3>1 DEF Unverified, RunStep
  <2> QED BY <1>6, <2>1, <2>2 DEF ResumeRecovered
<1> QED
  BY <1>1, <1>2, <1>3, <1>4, <1>5, <1>6 DEF LockStep, TickStep, RecoveryStep

\* The engine verifies accounts only in Verified.
LEMMA EngineSteps ==
  ASSUME TypeOK, [EngineNext]_engineVars
  PROVE  \/ Unverified /\ UNCHANGED attached /\ UNCHANGED toRestore
         \/ \E a \in Accounts : Verified(a) \/ RestoreAccount(a)
         \/ Restart
<1> USE DEF lifeVars
<1>1. ASSUME NEW l \in Lease, WorkerStep(l) PROVE Unverified /\ UNCHANGED lifeVars
  BY <1>1, WorkerRefines DEF WorkerStep
<1>2. CASE TickBegins BY <1>2 DEF TickBegins, Unverified
<1>3. CASE LockStep
  <2>1. UNCHANGED lifeVars
    BY <1>3 DEF LockStep, TickStep, RecoveryStep, Reap, Look, Halted, ReapingEnds, StoppingEnds,
       TickEnds, EngineClaims, Reattach, Reattached, RecoveringEnds, ResumingEnds,
       ResumeRecovered, EngineTimesOut, Turns
  <2> QED BY <1>3, <2>1, LockRefines
<1>4. CASE Environment
  BY <1>4 DEF Environment, Unverified, RunStep
<1>5. CASE BridgeStep BY <1>5 DEF BridgeStep, Unverified
<1>6. CASE UNCHANGED engineVars BY <1>6 DEF engineVars, Unverified
<1> QED BY <1>1, <1>2, <1>3, <1>4, <1>5, <1>6 DEF EngineNext

LEMMA EngineRefines ==
  ASSUME TypeOK, [EngineNext]_engineVars
  PROVE  [Next]_vars
<1>1. CASE Unverified
  BY <1>1 DEF Unverified, Next, AccountStep
<1>2. ASSUME NEW a \in Accounts, Verified(a) \/ RestoreAccount(a) PROVE Next
  BY <1>2 DEF Verified, RestoreAccount, RestoreReadiness, Next, AccountStep
<1>3. CASE Restart BY <1>3 DEF Restart, Next
<1> QED BY <1>1, <1>2, <1>3, EngineSteps

\* Whatever the engine does around an await, a failure or a restart, the store
\* only takes steps of its own specification.
THEOREM EngineImplementsStore == EngineSpec => Spec
<1>1. EngineInit => Init /\ TypeInv
  BY TypeInit DEF EngineInit, TypeInv, OwnersSubmitted, Init
<1>2. TypeInv /\ [EngineNext]_engineVars => TypeInv'
  BY EngineRefines, TypeStep, OwnersStep DEF TypeInv
<1>3. TypeInv /\ [EngineNext]_engineVars => [Next]_vars
  BY EngineRefines DEF TypeInv
<1> QED BY <1>1, <1>2, <1>3, PTL DEF EngineSpec, Spec

---------------------------------------------------------------------------
\* Only a verification makes an account ready.
LEMMA ReadinessKept ==
  ASSUME TypeOK, Unverified, NEW a \in Accounts, account'[a].readiness = "ready"
  PROVE  account[a].readiness = "ready"
<1>a. account \in [Accounts -> AccountRow] /\ \A r \in Runs : AccountOf[r] \in Accounts
  BY AccountsAssumption DEF TypeOK
<1>1. CASE Tick \/ ClaimNone \/ Recover \/ RunStep \/ UNCHANGED vars
  BY <1>1 DEF Tick, ClaimNone, Recover, RunStep, Submit, Suspend, Resume, Cancel,
     ResumeReattached, vars
<1>2. CASE Claim
  BY <1>2, <1>a DEF Claim, ClaimTask, AccountRow
<1>3. CASE LeaseStep
  <2>1. PICK l \in Lease :
          \/ BeginSubmission(l)
          \/ Accepted(l) \/ AcknowledgeCancel(l) \/ \E d \in Disposition : FailAttempt(l, d)
          \/ \E verdict \in Verdict, text \in BOOLEAN :
               StoreCapture(l, verdict, text) \/ PreservePartial(l, verdict, text)
    BY <1>3 DEF LeaseStep
  <2>2. CASE BeginSubmission(l)
    BY <2>2, <1>a DEF BeginSubmission, AccountRow, Lease
  <2>3. CASE Accepted(l) \/ AcknowledgeCancel(l) \/ \E d \in Disposition : FailAttempt(l, d)
    BY <2>3 DEF Accepted, AcknowledgeCancel, FailAttempt, FailCall
  <2>4. ASSUME NEW verdict \in Verdict, NEW text \in BOOLEAN,
               StoreCapture(l, verdict, text) \/ PreservePartial(l, verdict, text)
        PROVE  account[a].readiness = "ready"
    BY <2>4, <1>a DEF StoreCapture, PreservePartial, AccountRow
  <2> QED BY <2>1, <2>2, <2>3, <2>4
<1>4. ASSUME NEW b \in Accounts,
             \/ AccountExpired(b) \/ VerifyMismatch(b, FALSE)
             \/ \E delay \in RetryDelays : RateLimited(b, delay)
      PROVE  account[a].readiness = "ready"
  <2>1. /\ \A c \in Accounts \ {b} : account'[c] = account[c]
        /\ account'[b].readiness # "ready"
    <3>1. CASE AccountExpired(b) \/ VerifyMismatch(b, FALSE)
      <4>1. PICK q \in {"expired", "mismatch"} : account' = [account EXCEPT ![b].readiness = q]
        BY <3>1 DEF AccountExpired, VerifyMismatch
      <4> QED BY <4>1, <1>a DEF AccountRow
    <3>2. ASSUME NEW delay \in RetryDelays, RateLimited(b, delay)
          PROVE  /\ \A c \in Accounts \ {b} : account'[c] = account[c]
                 /\ account'[b].readiness # "ready"
      <4>1. account'[b].readiness = IF account[b].limits >= 1 THEN "paused" ELSE "cooldown"
        BY <3>2, <1>a DEF RateLimited, AccountRow
      <4> QED BY <3>2, <4>1, <1>a DEF RateLimited
    <3> QED BY <1>4, <3>1, <3>2
  <2> QED BY <2>1
<1> QED BY <1>1, <1>2, <1>3, <1>4 DEF Unverified

\* No account is ready to the scheduler without a bridge attached, also after a
\* restart: what restoring leaves ready was verified again.
THEOREM ReadyAccountsAttached == EngineSpec => []ReadyIsAttached
<1>1. EngineInit => TypeInv /\ ReadyIsAttached
  BY TypeInit DEF EngineInit, TypeInv, OwnersSubmitted, Init, ReadyIsAttached
<1>2. TypeInv /\ ReadyIsAttached /\ [EngineNext]_engineVars => TypeInv' /\ ReadyIsAttached'
  <2> SUFFICES ASSUME TypeInv, ReadyIsAttached, [EngineNext]_engineVars
               PROVE  TypeInv' /\ ReadyIsAttached'
    OBVIOUS
  <2>1. TypeOK /\ TypeInv'
    BY EngineRefines, TypeStep, OwnersStep DEF TypeInv
  <2>2. CASE Unverified /\ UNCHANGED attached /\ UNCHANGED toRestore
    BY <2>1, <2>2, ReadinessKept DEF ReadyIsAttached
  <2>3. ASSUME NEW a \in Accounts, Verified(a) PROVE ReadyIsAttached'
    <3>1. \A b \in Accounts \ {a} : account'[b] = account[b]
      BY <2>1, <2>3 DEF Verified, VerifyAccount, ConfirmAccount, TypeOK
    <3>2. attached' = attached \cup {a} /\ UNCHANGED toRestore
      BY <2>3 DEF Verified
    <3> QED BY <3>1, <3>2 DEF ReadyIsAttached
  <2>4. ASSUME NEW a \in Accounts, RestoreAccount(a) PROVE ReadyIsAttached'
    <3>1. /\ account' = [account EXCEPT ![a].readiness = "expired"]
          /\ UNCHANGED attached /\ toRestore' = toRestore \ {a}
      BY <2>4 DEF RestoreAccount, RestoreReadiness, AccountExpired
    <3>2. account'[a].readiness # "ready" /\ \A b \in Accounts \ {a} : account'[b] = account[b]
      BY <2>1, <3>1 DEF TypeOK, AccountRow
    <3> QED BY <3>1, <3>2 DEF ReadyIsAttached
  <2>5. CASE Restart
    <3>1. toRestore' = Accounts
      BY <2>5 DEF Restart
    <3> QED BY <2>1, <3>1 DEF ReadyIsAttached
  <2> QED BY <2>1, <2>2, <2>3, <2>4, <2>5, EngineSteps
<1> QED BY <1>1, <1>2, PTL DEF EngineSpec

(***************************************************************************)
(* Workers and the attempts they drive: a worker always finds its attempt  *)
(* in the state its next store operation needs, and every attempt that is  *)
(* not yet accepted has a worker.                                          *)
(***************************************************************************)
\* What a worker's position says of its attempt.
ToSend == {"claimed", "preparing", "polling", "cancelling"}
Sending == {"begun", "submitting"}
Answering == {"accepted", "capturing", "stopping"}
Past == {"suspending", "discard", "discarding", "expired", "expiring", "captured", "closing",
         "done"}

Fits(pc, s) ==
  /\ pc \in ToSend => s = "prepared"
  /\ pc \in Sending => s = "submitting"
  /\ pc \in Answering => s = "accepted"
  /\ pc \in Past => s \notin {"none", "prepared", "submitting"}
  /\ pc = "error" => s \notin {"none", "submitting"}

\* Each half needs the other: recovery may start a worker because the attempts
\* it visits have none, and the tick may forget a worker because those it
\* visits have ended.
WorkersFit ==
  /\ worker \in [Lease -> Worker]
  /\ \A l \in Lease : Fits(worker[l], StateOf(l))
  /\ engine # "failed" =>
       \A l \in Lease : worker[l] = "none" => StateOf(l) \notin {"prepared", "submitting"}
  /\ engine = "recovering" => \A l \in visit : worker[l] = "none" /\ StateOf(l) = "accepted"
  /\ engine = "reaping" => \A l \in visit : Ended(l)
  /\ visit \subseteq Lease

EngineInv == Ledger /\ WorkersFit

LEMMA Positions ==
  /\ DOMAIN Waiting = {"preparing", "discarding", "cancelling", "expiring", "submitting",
                       "capturing", "stopping", "closing"}
  /\ Worker = {"none", "error"} \cup ToSend \cup Sending \cup Answering \cup Past
<1>1. DOMAIN Waiting = {"preparing", "discarding", "cancelling", "expiring", "submitting",
                        "capturing", "stopping", "closing"}
  BY DEF Waiting
<1> QED BY <1>1 DEF Worker, ToSend, Sending, Answering, Past

\* A step of l's worker: only l's position and attempt change, and they fit.
Local(l) ==
  /\ worker[l] \notin {"none", "done", "error"}
  /\ worker' \in [Lease -> Worker]
  /\ worker'[l] # "none"
  /\ Fits(worker'[l], attemptState'[l.run][l.task][l.number])
  /\ \A m \in Lease \ {l} : /\ worker'[m] = worker[m]
                            /\ attemptState'[m.run][m.task][m.number] = StateOf(m)

LEMMA LocalKeeps ==
  ASSUME WorkersFit, NEW l \in Lease, Local(l), UNCHANGED <<engine, visit>>
  PROVE  WorkersFit'
<1> DEFINE At(m) == attemptState'[m.run][m.task][m.number]
<1>1. \A m \in Lease : Fits(worker'[m], At(m))
  BY DEF WorkersFit, Local
<1>2. engine # "failed" => \A m \in Lease : worker'[m] = "none" => At(m) \notin {"prepared", "submitting"}
  BY DEF WorkersFit, Local
<1>3. engine = "recovering" => \A m \in visit : worker'[m] = "none" /\ At(m) = "accepted"
  BY DEF WorkersFit, Local
<1>4. engine = "reaping" => \A m \in visit : worker'[m] \in {"done", "error"}
  BY DEF WorkersFit, Local, Ended
<1> QED BY <1>1, <1>2, <1>3, <1>4 DEF WorkersFit, Local, StateOf, Ended

\* The step moves l's worker to pc and leaves l's attempt in state s.
LEMMA LocalTo ==
  ASSUME WorkersFit, NEW l \in Lease, NEW pc \in Worker \ {"none"}, NEW s,
         worker[l] \notin {"none", "done", "error"}, To(l, pc), Fits(pc, s),
         \A m \in Lease : attemptState'[m.run][m.task][m.number] = IF m = l THEN s ELSE StateOf(m)
  PROVE  Local(l)
BY DEF WorkersFit, To, Local

\* A step that leaves the store's attempts alone.
LEMMA LocalQuiet ==
  ASSUME WorkersFit, NEW l \in Lease, NEW pc \in Worker \ {"none"},
         worker[l] \notin {"none", "done", "error"}, To(l, pc), Fits(pc, StateOf(l)),
         UNCHANGED attemptState
  PROVE  Local(l)
BY DEF WorkersFit, To, Local, StateOf
\* A failure of an attempt that l's worker drives leaves it failed or uncertain.
LEMMA LocalFails ==
  ASSUME TypeOK, WorkersFit, NEW l \in Lease, NEW pc \in Worker \ {"none"}, NEW d,
         worker[l] \notin {"none", "done", "error"}, To(l, pc), FailAttempt(l, d),
         pc \in Past
  PROVE  Local(l)
<1>1. PICK s \in {"uncertain", "failed"} : SetAttempt(l, s)
  BY DEF FailAttempt, FailCall
<1>2. Fits(pc, s)
  BY DEF Fits, Past, ToSend, Sending, Answering
<1>3. \A m \in Lease : attemptState'[m.run][m.task][m.number] = IF m = l THEN s ELSE StateOf(m)
  BY <1>1, AttemptAt
<1> QED BY <1>2, <1>3, LocalTo

\* Every step of a worker finds its attempt in the state it needs.
LEMMA WorkerFits ==
  ASSUME TypeOK, WorkersFit, NEW l \in Lease, WorkerActs(l)
  PROVE  Local(l)
<1> USE Positions DEF ToSend, Sending, Answering, Past
<1>a. Fits(worker[l], StateOf(l)) /\ worker \in [Lease -> Worker]
  BY DEF WorkersFit
<1>b. \A s : SetAttempt(l, s) =>
        \A m \in Lease : attemptState'[m.run][m.task][m.number] = IF m = l THEN s ELSE StateOf(m)
  BY AttemptAt
<1>c. ASSUME NEW from, NEW pc, Asks(l, from, pc)
      PROVE  worker[l] = from /\ To(l, pc) /\ UNCHANGED attemptState
  BY <1>c DEF Asks, vars, taskVars
<1>d. ASSUME NEW from, NEW outcomes, NEW pc, GoesOn(l, from, outcomes, pc)
      PROVE  worker[l] = from /\ To(l, pc) /\ UNCHANGED attemptState
  BY <1>d DEF GoesOn, Told, vars, taskVars
<1>1. CASE Prepare(l) \/ Discard(l) \/ CloseCancelled(l) \/ CloseExpired(l) \/ SubmitPrompt(l)
           \/ CaptureAnswer(l) \/ ClosePage(l)
  <2>1. PICK from, pc \in Worker \ {"none"} :
          /\ worker[l] = from /\ To(l, pc) /\ UNCHANGED attemptState
          /\ <<from, pc>> \in {<<"claimed", "preparing">>, <<"discard", "discarding">>,
               <<"polling", "cancelling">>, <<"expired", "expiring">>, <<"begun", "submitting">>,
               <<"accepted", "capturing">>, <<"captured", "closing">>}
    BY <1>1, <1>c DEF Prepare, Discard, CloseCancelled, CloseExpired, SubmitPrompt,
       CaptureAnswer, ClosePage
  <2>2. Fits(pc, StateOf(l)) /\ worker[l] \notin {"none", "done", "error"}
    BY <2>1, <1>a DEF Fits
  <2> QED BY <2>1, <2>2, LocalQuiet
<1>2. CASE Prepared(l) \/ Discarded(l) \/ ExpiredClosed(l) \/ PageClosed(l) \/ CloseRefused(l)
  <2>1. PICK from, pc \in Worker \ {"none"} :
          /\ worker[l] = from /\ To(l, pc) /\ UNCHANGED attemptState
          /\ <<from, pc>> \in {<<"preparing", "polling">>, <<"discarding", "done">>,
               <<"expiring", "done">>, <<"closing", "done">>, <<"cancelling", "error">>,
               <<"expiring", "error">>, <<"closing", "error">>}
    BY <1>2, <1>d DEF Prepared, Discarded, ExpiredClosed, PageClosed, CloseRefused
  <2>2. Fits(pc, StateOf(l)) /\ worker[l] \notin {"none", "done", "error"}
    BY <2>1, <1>a DEF Fits
  <2> QED BY <2>1, <2>2, LocalQuiet
<1>3. CASE PromptFails(l) \/ PrepareFailed(l) \/ PollExpired(l) \/ SubmissionFailed(l)
           \/ CaptureFailed(l)
  <2>1. PICK pc \in Past : To(l, pc) /\ \E d : FailAttempt(l, d)
    BY <1>3 DEF PromptFails, PrepareFailed, PollExpired, SubmissionFailed, CaptureFailed
  <2>2. worker[l] \in {"claimed", "preparing", "polling", "submitting", "capturing"}
    BY <1>3 DEF PromptFails, PrepareFailed, PollExpired, SubmissionFailed, CaptureFailed, Told
  <2> QED BY <2>1, <2>2, LocalFails
<1>4. CASE SuspendRun(l)
  <2>1. UNCHANGED attemptState
    BY <1>4 DEF SuspendRun, Suspend, vars, taskVars
  <2>2. PICK pc \in {"discard", "error"} : To(l, pc) /\ worker[l] = "suspending"
    BY <1>4 DEF SuspendRun
  <2>3. Fits(pc, StateOf(l))
    BY <2>2, <1>a DEF Fits
  <2> QED BY <2>1, <2>2, <2>3, LocalQuiet
<1>5. CASE CancelClosed(l)
  <2>1. worker[l] = "cancelling" /\ To(l, "done") /\ StateOf(l) = "prepared"
    BY <1>5, <1>a DEF CancelClosed, Told, Fits
  <2>2. SetAttempt(l, "cancelled")
    BY <1>5, <2>1 DEF CancelClosed, AcknowledgeCancel, Live
  <2>3. Fits("done", "cancelled")
    BY DEF Fits
  <2> QED BY <2>1, <2>2, <2>3, <1>b, LocalTo
<1>6. CASE Begin(l)
  <2>1. worker[l] = "polling" /\ To(l, "begun") /\ SetAttempt(l, "submitting")
    BY <1>6 DEF Begin, BeginSubmission
  <2>2. Fits("begun", "submitting")
    BY DEF Fits
  <2> QED BY <2>1, <2>2, <1>b, LocalTo
<1>7. CASE PromptAccepted(l)
  <2>1. worker[l] = "submitting" /\ To(l, "accepted") /\ SetAttempt(l, "accepted")
    BY <1>7 DEF PromptAccepted, Told, Accepted
  <2>2. Fits("accepted", "accepted")
    BY DEF Fits
  <2> QED BY <2>1, <2>2, <1>b, LocalTo
<1>8. CASE CaptureComplete(l) \/ Stopped(l)
  <2>1. worker[l] \in {"capturing", "stopping"} /\ To(l, "captured")
    BY <1>8 DEF CaptureComplete, Stopped, Told
  <2>2. PICK s \in {"completed", "partial", "failed"} : SetAttempt(l, s)
    BY <1>8 DEF CaptureComplete, Stopped, StoreCapture, Outcome
  <2>3. Fits("captured", s)
    BY DEF Fits
  <2> QED BY <2>1, <2>2, <2>3, <1>b, LocalTo
<1>9. CASE StopIncomplete(l)
  <2>1. worker[l] = "capturing" /\ To(l, "stopping") /\ UNCHANGED attemptState
    BY <1>9 DEF StopIncomplete, Told, vars, taskVars
  <2>2. Fits("stopping", StateOf(l))
    BY <2>1, <1>a DEF Fits
  <2> QED BY <2>1, <2>2, LocalQuiet
<1>10. CASE StopUnconfirmed(l)
  <2>1. worker[l] = "stopping" /\ To(l, "done") /\ SetAttempt(l, "uncertain")
    BY <1>10 DEF StopUnconfirmed, Told, KeepUnconfirmed, PreservePartial
  <2>2. Fits("done", "uncertain")
    BY DEF Fits
  <2> QED BY <2>1, <2>2, <1>b, LocalTo
<1>11. CASE RecordAccount(l) \/ WorkerTimesOut(l)
  <2>1. UNCHANGED <<worker, attemptState>>
    BY <1>11 DEF RecordAccount, WorkerTimesOut, AccountExpired, RateLimited, vars, taskVars
  <2>2. worker[l] \notin {"none", "done", "error"}
    BY <1>11 DEF RecordAccount, WorkerTimesOut, Told
  <2> QED BY <2>1, <2>2, <1>a DEF Local, StateOf
<1> QED
  BY <1>1, <1>2, <1>3, <1>4, <1>5, <1>6, <1>7, <1>8, <1>9, <1>10, <1>11 DEF WorkerActs
\* A step that leaves workers and attempts alone; what the loop of the lock's
\* holder looks at next is all there is to show.
LEMMA QuietKeeps ==
  ASSUME WorkersFit, UNCHANGED <<worker, attemptState>>, visit' \subseteq Lease,
         engine = "failed" => engine' = "failed",
         engine' = "recovering" => \A l \in visit' : worker[l] = "none" /\ StateOf(l) = "accepted",
         engine' = "reaping" => \A l \in visit' : Ended(l)
  PROVE  WorkersFit'
BY DEF WorkersFit, StateOf, Ended

\* A worker is forgotten once its attempt needs none.
LEMMA ReapFits ==
  ASSUME Ledger, WorkersFit, NEW l \in Lease, Reap(l)
  PROVE  WorkersFit'
<1> DEFINE At(m) == attemptState'[m.run][m.task][m.number]
<1>1. /\ engine = "reaping" /\ l \in visit /\ visit' = visit \ {l}
      /\ worker' = [worker EXCEPT ![l] = "none"]
      /\ worker[l] \in {"done", "error"} /\ Fits(worker[l], StateOf(l))
      /\ worker \in [Lease -> Worker]
  BY DEF Reap, To, WorkersFit, Ended
<1>2. /\ \A m \in Lease \ {l} : At(m) = StateOf(m)
      /\ engine' = "failed" \/ (engine' = "reaping" /\ At(l) \notin {"prepared", "submitting"})
  <2>1. CASE worker[l] = "error" /\ Owns(l) /\ FailAttempt(l, "Uncertain") /\ UNCHANGED engine
    <3>1. SetAttempt(l, "uncertain")
      BY <2>1 DEF FailAttempt, FailCall
    <3>2. TypeOK
      BY DEF Ledger, TypeInv
    <3> QED BY <2>1, <3>1, <3>2, <1>1, AttemptAt
  <2>2. CASE Goto("failed") /\ UNCHANGED vars
    BY <2>2 DEF Goto, vars, taskVars, StateOf
  <2>3. CASE ~(worker[l] = "error" /\ Owns(l)) /\ UNCHANGED <<vars, engine>>
    <3>1. StateOf(l) \notin {"prepared", "submitting"}
      <4>1. CASE worker[l] = "done"
        BY <4>1, <1>1 DEF Fits, Past
      <4>2. CASE ~Owns(l)
        BY <4>2 DEF Ledger, ReservedExactlyWhileLive, Live
      <4> QED BY <4>1, <4>2, <2>3, <1>1
    <3> QED BY <3>1, <2>3, <1>1 DEF vars, taskVars, StateOf
  <2> QED BY <2>1, <2>2, <2>3 DEF Reap
<1>3. \A m \in Lease : Fits(worker'[m], At(m))
  <2>1. Fits("none", At(l))
    BY DEF Fits, Past, ToSend, Sending, Answering
  <2> QED BY <2>1, <1>1, <1>2 DEF WorkersFit
<1>4. engine' # "failed" => \A m \in Lease : worker'[m] = "none" => At(m) \notin {"prepared", "submitting"}
  BY <1>1, <1>2 DEF WorkersFit
<1>5. /\ engine' # "recovering" /\ visit' \subseteq Lease /\ worker' \in [Lease -> Worker]
      /\ \A m \in visit' : worker'[m] \in {"done", "error"}
  BY <1>1, <1>2 DEF WorkersFit, Ended, Worker
<1> QED BY <1>3, <1>4, <1>5 DEF WorkersFit, StateOf, Ended

\* The new attempt has no row yet, so it had no worker either.
LEMMA ClaimFits ==
  ASSUME Ledger, WorkersFit, NEW r \in Runs, NEW t \in Task, NEW jitter \in 0..MaxJitter,
         EngineClaims(r, t, jitter)
  PROVE  WorkersFit'
<1> DEFINE l == [run |-> r, task |-> t, number |-> attempts[r][t] + 1]
           At(m) == attemptState'[m.run][m.task][m.number]
<1>1. TypeOK
  BY DEF Ledger, TypeInv
<1>2. l \in Lease
  <2>1. attempts[r][t] \in 0..MaxAttempts /\ attempts[r][t] < MaxAttempts
    BY <1>1 DEF TypeOK, EngineClaims, ClaimTask, NextTasks
  <2> QED BY <2>1, PipelineAssumption DEF Lease, Number
<1>3. SetAttempt(l, "prepared") /\ worker' = [worker EXCEPT ![l] = "claimed"]
  BY DEF EngineClaims, ClaimTask, To
<1>4. UNCHANGED <<engine, visit>> /\ engine = "claiming"
  BY DEF EngineClaims, lockVars
<1> HIDE DEF l
<1>5. \A m \in Lease : At(m) = IF m = l THEN "prepared" ELSE StateOf(m)
  BY <1>1, <1>2, <1>3, AttemptAt
<1>6. worker' \in [Lease -> Worker] /\ \A m \in Lease : worker'[m] = IF m = l THEN "claimed" ELSE worker[m]
  BY <1>2, <1>3 DEF WorkersFit, Worker
<1>7. Fits("claimed", "prepared")
  BY DEF Fits, Past, ToSend, Sending, Answering
<1> QED BY <1>4, <1>5, <1>6, <1>7 DEF WorkersFit, StateOf

\* A reattached attempt is accepted and has no worker.
LEMMA ReattachedFits ==
  ASSUME WorkersFit, NEW l \in Lease, Reattached(l)
  PROVE  WorkersFit'
<1>1. engine = "recovering" /\ UNCHANGED engine /\ visit' = visit \ {l} /\ UNCHANGED attemptState
  BY DEF Reattached, vars, taskVars
<1>2. worker[l] = "none" /\ StateOf(l) = "accepted" /\ Fits("accepted", "accepted")
  BY DEF WorkersFit, Reattached, Fits, Past, ToSend, Sending, Answering
<1>3. worker' = worker \/ worker' = [worker EXCEPT ![l] = "accepted"]
  BY DEF Reattached, To
<1> QED BY <1>1, <1>2, <1>3 DEF WorkersFit, StateOf, Ended, Worker
\* A restart leaves nothing to a worker: recovery settles what was not accepted.
LEMMA RestartFits ==
  ASSUME Ledger, Restart
  PROVE  WorkersFit'
<1>1. \A m \in Lease : StateOf(m)' \notin {"prepared", "submitting"}
  BY RecoveredState DEF Restart, Ledger
<1>2. /\ worker' = [l \in Lease |-> "none"] /\ engine' = "idle" /\ visit' = {}
      /\ \A s : Fits("none", s)
  BY DEF Restart, Fits, Past, ToSend, Sending, Answering
<1> QED BY <1>1, <1>2 DEF WorkersFit, Worker

\* The steps that neither start nor forget a worker.
LEMMA OthersFit ==
  ASSUME WorkersFit,
         \/ TickBegins \/ ReapingEnds \/ StoppingEnds \/ TickEnds
         \/ RecoveringEnds \/ ResumingEnds \/ Environment \/ BridgeStep
         \/ \E l \in Lease : Look(l) \/ Halted(l) \/ Reattach(l) \/ EngineTimesOut(l)
         \/ \E r \in Runs : ResumeRecovered(r)
         \/ \E a \in Accounts : Verified(a) \/ RestoreAccount(a)
  PROVE  WorkersFit'
<1> USE DEF vars, taskVars, lockVars
<1>a. visit \subseteq Lease
  BY DEF WorkersFit
<1>1. CASE TickBegins
  BY <1>1, QuietKeeps DEF TickBegins, LockFree, Goto, Active
<1>2. CASE ReapingEnds
  BY <1>2, QuietKeeps DEF ReapingEnds, Goto, Active
<1>3. CASE StoppingEnds \/ RecoveringEnds \/ ResumingEnds
  BY <1>3, <1>a, QuietKeeps DEF StoppingEnds, RecoveringEnds, ResumingEnds, Turns, Goto
<1>4. CASE TickEnds
  BY <1>4, <1>a, QuietKeeps DEF TickEnds, ClaimNone, Goto
<1>5. ASSUME NEW l \in Lease, Look(l) \/ Halted(l) PROVE WorkersFit'
  <2>1. /\ engine = "stopping" /\ UNCHANGED <<worker, attemptState, engine>>
        /\ visit' \subseteq visit
    BY <1>5 DEF Look, Halted
  <2> QED BY <2>1, <1>a, QuietKeeps
<1>6. ASSUME NEW l \in Lease, Reattach(l) \/ EngineTimesOut(l) PROVE WorkersFit'
  <2>1. UNCHANGED <<worker, attemptState, engine, visit>>
    BY <1>6 DEF Reattach, EngineTimesOut
  <2> QED BY <2>1, QuietKeeps DEF WorkersFit
<1>7. ASSUME NEW r \in Runs, ResumeRecovered(r) PROVE WorkersFit'
  <2>1. UNCHANGED <<worker, attemptState, engine, visit>>
    BY <1>7 DEF ResumeRecovered, ResumeReattached
  <2> QED BY <2>1, QuietKeeps DEF WorkersFit
<1>8. ASSUME NEW a \in Accounts, Verified(a) PROVE WorkersFit'
  <2>1. UNCHANGED <<worker, attemptState>>
    BY <1>8 DEF Verified, VerifyAccount, ConfirmAccount
  <2>2. engine = "idle" /\ engine' = "recovering" /\ visit' = ToReattach(attached')
    BY <1>8 DEF Verified, Goto
  <2>3. \A l \in visit' : l \in Lease /\ worker[l] = "none" /\ StateOf(l) = "accepted"
    BY <2>2 DEF ToReattach
  <2> QED BY <2>1, <2>2, <2>3, QuietKeeps
<1>9. ASSUME NEW a \in Accounts, RestoreAccount(a) PROVE WorkersFit'
  <2>1. UNCHANGED <<worker, attemptState, engine, visit>>
    BY <1>9 DEF RestoreAccount, RestoreReadiness, AccountExpired
  <2> QED BY <2>1, QuietKeeps DEF WorkersFit
<1>10. CASE Environment
  <2>1. UNCHANGED attemptState
    BY <1>10 DEF Environment, Submit, Suspend, Cancel, Resume, AccountExpired, RateLimited,
       VerifyMismatch, Tick
  <2>2. UNCHANGED <<worker, engine, visit>>
    BY <1>10 DEF Environment
  <2> QED BY <2>1, <2>2, QuietKeeps DEF WorkersFit
<1>11. CASE BridgeStep
  <2>1. UNCHANGED <<worker, attemptState, engine, visit>>
    BY <1>11 DEF BridgeStep
  <2> QED BY <2>1, QuietKeeps DEF WorkersFit
<1> QED BY <1>1, <1>2, <1>3, <1>4, <1>5, <1>6, <1>7, <1>8, <1>9, <1>10, <1>11

LEMMA WorkersStep ==
  ASSUME EngineInv, [EngineNext]_engineVars
  PROVE  WorkersFit'
<1> Ledger /\ TypeOK /\ WorkersFit
  BY DEF EngineInv, Ledger, TypeInv
<1>1. ASSUME NEW l \in Lease, WorkerStep(l) PROVE WorkersFit'
  BY <1>1, WorkerFits, LocalKeeps DEF WorkerStep, lockVars
<1>2. CASE LockStep
  BY <1>2, ReapFits, ClaimFits, ReattachedFits, OthersFit DEF LockStep, TickStep, RecoveryStep
<1>3. CASE Restart
  BY <1>3, RestartFits
<1>4. CASE TickBegins \/ Environment \/ BridgeStep \/ \E a \in Accounts : Verified(a) \/ RestoreAccount(a)
  BY <1>4, OthersFit
<1>5. CASE UNCHANGED engineVars
  <2>1. UNCHANGED <<worker, attemptState, engine, visit>>
    BY <1>5 DEF engineVars, vars, taskVars, lockVars
  <2> QED BY <2>1, QuietKeeps DEF WorkersFit
<1> QED BY <1>1, <1>2, <1>3, <1>4, <1>5 DEF EngineNext

LEMMA EngineInductive == EngineSpec => []EngineInv
<1>1. EngineInit => EngineInv
  <2> SUFFICES ASSUME EngineInit PROVE EngineInv
    OBVIOUS
  <2>1. Ledger
    BY LedgerInit DEF EngineInit
  <2>2. /\ worker = [l \in Lease |-> "none"] /\ engine = "idle" /\ visit = {}
        /\ \A s : Fits("none", s)
    BY DEF EngineInit, Fits, Past, ToSend, Sending, Answering
  <2>3. \A l \in Lease : StateOf(l) = "none"
    BY DEF EngineInit, Init, StateOf, Lease
  <2> QED BY <2>1, <2>2, <2>3 DEF EngineInv, WorkersFit, Worker
<1>2. EngineInv /\ [EngineNext]_engineVars => EngineInv'
  <2> SUFFICES ASSUME EngineInv, [EngineNext]_engineVars PROVE EngineInv'
    OBVIOUS
  <2>1. Ledger /\ TypeInv /\ TypeOK
    BY DEF EngineInv, Ledger, TypeInv
  <2>2. [Next]_vars
    BY <2>1, EngineRefines
  <2>3. LatestLive' => OnlyLatestAttemptLive'
    BY LatestLiveMeans, PTL
  <2>4. Ledger'
    BY <2>1, <2>2, <2>3, LedgerStep, TypeStep, OwnersStep DEF Ledger, TypeInv
  <2> QED BY <2>4, WorkersStep DEF EngineInv
<1> QED BY <1>1, <1>2, PTL DEF EngineSpec

\* A worker that still has a result to store holds its reservation, in a state
\* that takes the result, however it interleaves with ticks and restarts.
THEOREM WorkersOwn == EngineSpec => []WorkerOwns
<1>1. EngineInv => WorkerOwns
  <2> SUFFICES ASSUME EngineInv, NEW l \in Lease, worker[l] \notin Stored
               PROVE  /\ Owns(l)
                      /\ worker[l] \in ToSend => StateOf(l) = "prepared"
                      /\ worker[l] \in Sending => StateOf(l) = "submitting"
                      /\ worker[l] \in Answering => StateOf(l) = "accepted"
    BY DEF WorkerOwns, ToSend, Sending, Answering
  <2>1. Fits(worker[l], StateOf(l)) /\ worker[l] \in ToSend \cup Sending \cup Answering
    BY Positions DEF EngineInv, WorkersFit, Stored, Past
  <2>2. StateOf(l) \in Live
    BY <2>1 DEF Fits, Live
  <2> QED BY <2>1, <2>2 DEF EngineInv, Ledger, ReservedExactlyWhileLive, Fits
<1> QED BY <1>1, EngineInductive, PTL

\* An attempt that is not accepted yet has a worker, also after a restart.
THEOREM UnacceptedHaveWorkers == EngineSpec => []UnacceptedHasWorker
<1>1. EngineInv => UnacceptedHasWorker
  BY DEF EngineInv, WorkersFit, UnacceptedHasWorker
<1> QED BY <1>1, EngineInductive, PTL

(***************************************************************************)
(* Pages and the conversations behind them.  First, what a call, a handler *)
(* and the provider do to the rows of the bridge.                          *)
(***************************************************************************)
PageRow == [phase : Pages!Phase, aborted : BOOLEAN, stopping : Pages!Stopping,
            submission : Pages!Submission]
HandlerRow == [Pages!Handled -> {"idle", "opening", "running"}]
AnswerRow == [Pages!Op -> {"none", "waiting"} \cup Pages!Outcome]

LEMMA Typed ==
  ASSUME Pages!TypeOK
  PROVE  /\ page \in [Lease -> PageRow] /\ handler \in [Lease -> HandlerRow]
         /\ answer \in [Lease -> AnswerRow] /\ sent \in [Lease -> Nat]
         /\ conversation \in [Lease -> {"none", "generating", "over"}]
BY DEF Pages!TypeOK, PageRow, HandlerRow, AnswerRow

LEMMA Ops ==
  /\ Pages!Handled = {"prepare", "reattach", "close"}
  /\ Pages!Stops = {"stop", "halt"}
  /\ Pages!Op = {"prepare", "reattach", "close", "stop", "halt", "submit", "capture"}
  /\ Pages!Failure = {"failed", "expired", "limited", "model", "not-accepted"}
  /\ Pages!Outcome = {"ok", "complete", "incomplete", "failed", "expired", "limited", "model",
                      "not-accepted"}
  /\ Failures \subseteq Pages!Failure
BY FailuresAssumption
   DEF Pages!Handled, Pages!Stops, Pages!Op, Pages!Failure, Pages!Outcome

LEMMA PageSet ==
  ASSUME Pages!TypeOK, NEW l \in Lease, NEW row \in PageRow, page' = [page EXCEPT ![l] = row]
  PROVE  page' \in [Lease -> PageRow] /\ \A m \in Lease : page'[m] = IF m = l THEN row ELSE page[m]
BY Typed

LEMMA HandlerSet ==
  ASSUME Pages!TypeOK, NEW l \in Lease, NEW op \in Pages!Handled,
         NEW s \in {"idle", "opening", "running"}, Pages!SetHandler(l, op, s)
  PROVE  /\ handler' \in [Lease -> HandlerRow]
         /\ \A m \in Lease : m # l => handler'[m] = handler[m]
         /\ \A p \in Pages!Handled : handler'[l][p] = IF p = op THEN s ELSE handler[l][p]
<1>1. handler \in [Lease -> HandlerRow]
  BY Typed
<1> DEFINE row == [handler[l] EXCEPT ![op] = s]
<1>2. handler' = [handler EXCEPT ![l] = row]
  BY <1>1 DEF Pages!SetHandler
<1>3. row \in HandlerRow /\ \A p \in Pages!Handled : row[p] = IF p = op THEN s ELSE handler[l][p]
  BY <1>1 DEF HandlerRow
<1> HIDE DEF row
<1> QED
  BY <1>1, <1>2, <1>3

LEMMA AnswerSet ==
  ASSUME Pages!TypeOK, NEW l \in Lease, NEW op \in Pages!Op,
         NEW o \in {"none", "waiting"} \cup Pages!Outcome, Pages!Tell(l, op, o)
  PROVE  /\ answer' \in [Lease -> AnswerRow]
         /\ \A m \in Lease : m # l => answer'[m] = answer[m]
         /\ \A p \in Pages!Op : answer'[l][p] = IF p = op THEN o ELSE answer[l][p]
<1>1. answer \in [Lease -> AnswerRow]
  BY Typed
<1> DEFINE row == [answer[l] EXCEPT ![op] = o]
<1>2. answer' = [answer EXCEPT ![l] = row]
  BY <1>1 DEF Pages!Tell
<1>3. row \in AnswerRow /\ \A p \in Pages!Op : row[p] = IF p = op THEN o ELSE answer[l][p]
  BY <1>1 DEF AnswerRow
<1> HIDE DEF row
<1> QED
  BY <1>1, <1>2, <1>3

\* A reply to a caller who still waits, or to nobody.
LEMMA ReplySet ==
  ASSUME Pages!TypeOK, NEW l \in Lease, NEW op \in Pages!Op, NEW o \in Pages!Outcome,
         Pages!Reply(l, op, o)
  PROVE  /\ answer' \in [Lease -> AnswerRow]
         /\ \A m \in Lease : m # l => answer'[m] = answer[m]
         /\ \A p \in Pages!Op : \/ answer'[l][p] = answer[l][p]
                                \/ p = op /\ answer[l][p] = "waiting" /\ answer'[l][p] = o
<1>1. CASE answer[l][op] = "waiting"
  <2>1. Pages!Tell(l, op, o)
    BY <1>1 DEF Pages!Reply, Pages!Tell
  <2> QED
    BY <1>1, <2>1, AnswerSet
<1>2. CASE answer[l][op] # "waiting"
  BY <1>2, Typed DEF Pages!Reply
<1> QED
  BY <1>1, <1>2

\* Nothing of m is touched.
SamePage(m) ==
  /\ page'[m] = page[m] /\ handler'[m] = handler[m] /\ answer'[m] = answer[m]
  /\ sent'[m] = sent[m] /\ conversation'[m] = conversation[m]

\* What the call of op does to l.
Calls(l, op) ==
  /\ sent' = sent /\ conversation' = conversation
  /\ answer[l][op] = "none" /\ answer'[l][op] \in {"waiting", "failed", "ok"}
  /\ \A p \in Pages!Op \ {op} : answer'[l][p] = answer[l][p]
  /\ answer'[l][op] = "ok" => op \in Pages!Stops /\ page'[l].stopping = "done"
  /\ \A p \in Pages!Handled : handler'[l][p] = handler[l][p] \/ p = op
  /\ \/ page'[l].submission = page[l].submission
     \/ op = "submit" /\ page'[l].submission = "pending"
  /\ \/ page'[l].stopping = page[l].stopping
     \/ op \in Pages!Stops /\ page'[l].stopping = "done" /\ page[l].submission = "none"
     \/ op \in Pages!Stops /\ page'[l].stopping = "running"
  /\ page'[l].phase = "none" => page[l].phase = "none"

LEMMA CallMakes ==
  ASSUME Pages!TypeOK, NEW l \in Lease, NEW op \in Pages!Op, Pages!Call(l, op)
  PROVE  Pages!TypeOK' /\ (\A m \in Lease : m # l => SamePage(m)) /\ Calls(l, op)
<1>t. /\ page \in [Lease -> PageRow] /\ handler \in [Lease -> HandlerRow]
      /\ answer \in [Lease -> AnswerRow]
  BY Typed
<1>1. sent' = sent /\ conversation' = conversation /\ answer[l][op] = "none"
  BY DEF Pages!Call, Pages!Unreachable, Pages!OpenPage, Pages!Submit, Pages!Capture, Pages!Stop,
     Pages!Close, Pages!Idle
<1>2. /\ page' \in [Lease -> PageRow]
      /\ \A m \in Lease : m # l => page'[m] = page[m]
      /\ \/ page' = page
         \/ op = "submit" /\ page'[l] = [page[l] EXCEPT !.phase = "submitting", !.submission = "pending"]
         \/ op = "capture" /\ page'[l] = [page[l] EXCEPT !.phase = "capturing"]
         \/ /\ op \in Pages!Stops /\ Pages!Owned(l)
            /\ page'[l] = [page[l] EXCEPT !.aborted = page[l].aborted \/ Pages!LooksAgain(l),
                             !.stopping = IF page[l].submission = "none" THEN "done" ELSE "running"]
  <2>1. CASE page' = page
    BY <2>1, <1>t
  <2>2. CASE op = "submit" /\ Pages!Submit(l) /\ page' # page
    <3> DEFINE row == [page[l] EXCEPT !.phase = "submitting", !.submission = "pending"]
    <3>1. row \in PageRow
      BY <1>t DEF PageRow, Pages!Phase, Pages!Submission
    <3>2. page' = [page EXCEPT ![l] = row]
      BY <2>2 DEF Pages!Submit
    <3> QED
      BY <2>2, <3>1, <3>2, PageSet
  <2>3. CASE op = "capture" /\ Pages!Capture(l) /\ page' # page
    <3> DEFINE row == [page[l] EXCEPT !.phase = "capturing"]
    <3>1. row \in PageRow
      BY <1>t DEF PageRow, Pages!Phase
    <3>2. page' = [page EXCEPT ![l] = row]
      BY <2>3 DEF Pages!Capture
    <3> QED
      BY <2>3, <3>1, <3>2, PageSet
  <2>4. CASE op \in Pages!Stops /\ Pages!Stop(l, op) /\ page' # page
    <3> DEFINE row == [page[l] EXCEPT !.aborted = page[l].aborted \/ Pages!LooksAgain(l),
                         !.stopping = IF page[l].submission = "none" THEN "done" ELSE "running"]
    <3>1. row \in PageRow
      BY <1>t DEF PageRow, Pages!Stopping
    <3>2. page' = [page EXCEPT ![l] = row] /\ Pages!Owned(l)
      BY <2>4 DEF Pages!Stop
    <3> QED
      BY <2>4, <3>1, <3>2, PageSet
  <2> QED
    BY <2>1, <2>2, <2>3, <2>4 DEF Pages!Call, Pages!Unreachable, Pages!OpenPage, Pages!Close
<1>3. PICK o \in {"waiting", "failed", "ok"} :
        /\ Pages!Tell(l, op, o)
        /\ o = "ok" => op \in Pages!Stops /\ page'[l].stopping = "done"
  <2>1. CASE op \in Pages!Stops /\ Pages!Stop(l, op)
    <3>1. CASE ~Pages!Owned(l)
      BY <2>1, <3>1 DEF Pages!Stop
    <3>2. CASE Pages!Owned(l) /\ page[l].stopping = "done"
      BY <2>1, <3>2 DEF Pages!Stop
    <3>3. CASE Pages!Owned(l) /\ page[l].stopping \notin {"none", "done"}
      BY <2>1, <3>3 DEF Pages!Stop
    <3>4. CASE Pages!Owned(l) /\ page[l].stopping = "none"
      <4>1. /\ Pages!Tell(l, op, IF page[l].submission = "none" THEN "ok" ELSE "waiting")
            /\ page' = [page EXCEPT ![l].aborted = page[l].aborted \/ Pages!LooksAgain(l),
                 ![l].stopping = IF page[l].submission = "none" THEN "done" ELSE "running"]
        BY <2>1, <3>4 DEF Pages!Stop
      <4>2. page'[l].stopping = IF page[l].submission = "none" THEN "done" ELSE "running"
        BY <4>1, <1>t DEF PageRow
      <4> QED
        BY <2>1, <4>1, <4>2
    <3> QED
      BY <3>1, <3>2, <3>3, <3>4
  <2> QED
    BY <2>1 DEF Pages!Call, Pages!Unreachable, Pages!OpenPage, Pages!Submit, Pages!Capture,
       Pages!Close
<1>4. /\ answer' \in [Lease -> AnswerRow]
      /\ \A m \in Lease : m # l => answer'[m] = answer[m]
      /\ \A p \in Pages!Op : answer'[l][p] = IF p = op THEN o ELSE answer[l][p]
  <2>1. o \in {"none", "waiting"} \cup Pages!Outcome
    BY Ops
  <2> QED
    BY <1>3, <2>1, AnswerSet
<1>5. /\ handler' \in [Lease -> HandlerRow]
      /\ \A m \in Lease : m # l => handler'[m] = handler[m]
      /\ \A p \in Pages!Handled : handler'[l][p] = handler[l][p] \/ p = op
  <2>1. \/ handler' = handler
        \/ op \in {"prepare", "reattach"} /\ Pages!SetHandler(l, op, "opening")
        \/ op = "close" /\ Pages!SetHandler(l, op, "running")
    BY DEF Pages!Call, Pages!Unreachable, Pages!OpenPage, Pages!Submit, Pages!Capture, Pages!Stop,
       Pages!Close
  <2>2. CASE handler' = handler
    BY <2>2, <1>t
  <2>3. ASSUME op \in {"prepare", "reattach", "close"}, NEW s \in {"opening", "running"},
               Pages!SetHandler(l, op, s)
        PROVE  <1>5!:
    <3>1. op \in Pages!Handled
      BY <2>3, Ops
    <3> QED
      BY <2>3, <3>1, HandlerSet
  <2> QED
    BY <2>1, <2>2, <2>3
<1>6. Pages!TypeOK'
  BY <1>1, <1>2, <1>4, <1>5, Typed DEF Pages!TypeOK, PageRow, HandlerRow, AnswerRow
<1>7. /\ \/ page'[l].submission = page[l].submission
         \/ op = "submit" /\ page'[l].submission = "pending"
      /\ \/ page'[l].stopping = page[l].stopping
         \/ op \in Pages!Stops /\ page'[l].stopping = "done" /\ page[l].submission = "none"
         \/ op \in Pages!Stops /\ page'[l].stopping = "running"
      /\ page'[l].phase = "none" => page[l].phase = "none"
  BY <1>2, <1>t DEF PageRow
<1> QED
  BY <1>1, <1>2, <1>3, <1>4, <1>5, <1>6, <1>7 DEF SamePage, Calls

---------------------------------------------------------------------------
Final == {"completed", "partial", "failed", "cancelled"}

\* Runs whose conversations need not keep their capacity: cancelled, or past
\* the deadline.
Exempt(l) ==
  \/ runStatus[l.run] = "cancelled"
  \/ runStatus[l.run] # "absent" /\ now >= deadline[l.run]

\* What a worker's position says once its attempt has ended, and what the store
\* says of acceptance.
PlaceTold(l) ==
  /\ worker[l] \in {"suspending", "discard", "discarding", "expired", "expiring"} =>
       StateOf(l) = "failed"
  /\ worker[l] \in {"captured", "closing"} => StateOf(l) \in Final
  /\ worker[l] = "done" => StateOf(l) \in Final \cup {"uncertain"}
  /\ worker[l] = "error" => StateOf(l) \in Final \cup {"prepared"}
  /\ StateOf(l) \in {"none", "prepared", "submitting"} => AcceptedOf(l) = NotAccepted
  /\ StateOf(l) = "accepted" => AcceptedOf(l) # NotAccepted

\* Only who asked is told, so no answer outlives the question.
AnswerTold(l) ==
  /\ answer[l]["prepare"] # "none" => worker[l] = "preparing"
  /\ answer[l]["submit"] # "none" => worker[l] = "submitting"
  /\ answer[l]["capture"] # "none" => worker[l] \in {"capturing", "stopping"}
  /\ answer[l]["stop"] # "none" => worker[l] = "stopping"
  /\ answer[l]["reattach"] # "none" => engine = "recovering" /\ l \in visit

\* A handler may outlive its caller's patience, but not harm what came after.
HandlerTold(l) ==
  /\ handler[l]["prepare"] # "idle" =>
       StateOf(l) = "failed" \/ (worker[l] = "preparing" /\ answer[l]["prepare"] # "ok")
  /\ handler[l]["reattach"] # "idle" =>
       worker[l] = "none" /\ StateOf(l) = "accepted" /\ answer[l]["reattach"] # "ok"
  /\ handler[l]["close"] # "idle" =>
       \/ StateOf(l) \in Final
       \/ StateOf(l) = "prepared" /\ worker[l] \in {"cancelling", "error", "none"}

\* The prompt of an attempt is sent at most once, and the store knows when it
\* was not.
SentTold(l) ==
  /\ sent[l] \in {0, 1}
  /\ conversation[l] # "none" => sent[l] = 1
  /\ page[l].submission = "pending" => sent[l] = 0
  /\ page[l].submission = "clicked" \/ Pages!Known(l) \/ StateOf(l) = "accepted" => sent[l] = 1
  /\ Pages!Submitting(l) =>
       StateOf(l) \in {"submitting", "uncertain"} /\ answer[l]["submit"] # "not-accepted"
  /\ StateOf(l) \in {"none", "prepared"} \/ worker[l] = "begun" =>
       sent[l] = 0 /\ page[l].submission = "none"
  /\ StateOf(l) \in Final /\ AcceptedOf(l) = NotAccepted => sent[l] = 0
  /\ answer[l]["submit"] = "not-accepted" => sent[l] = 0

\* A stop of l was confirmed, to l's worker or to nobody.
StopDone(l) == answer[l]["stop"] = "ok" \/ page[l].stopping = "done"

\* Whoever captures knows its conversation, a capture that is complete or
\* stopped leaves none behind, and what goes on holds capacity or is exempt.
EndTold(l) ==
  /\ worker[l] \in Answering \/ answer[l]["submit"] = "ok" \/ answer[l]["reattach"] = "ok" =>
       Pages!Known(l)
  /\ answer[l]["capture"] = "complete" => conversation[l] = "over"
  /\ StopDone(l) /\ StateOf(l) \in {"none", "prepared", "submitting", "accepted"} =>
       Exempt(l) \/ (Pages!Known(l) /\ conversation[l] # "generating")
  /\ conversation[l] = "generating" /\ StateOf(l) \notin Live => Exempt(l)

LeaseTold(l) == PlaceTold(l) /\ AnswerTold(l) /\ HandlerTold(l) /\ SentTold(l) /\ EndTold(l)

\* The tick only stops conversations whose attempt has a worker.
Looking == engine = "stopping" => \A l \in visit : worker[l] # "none"

PagesTold == Pages!TypeOK /\ Looking /\ \A l \in Lease : LeaseTold(l)

\* What is known of l besides.
Sited(l) ==
  /\ worker[l] \in Worker /\ Fits(worker[l], StateOf(l))
  /\ engine = "recovering" /\ l \in visit => worker[l] = "none" /\ StateOf(l) = "accepted"
  /\ answer[l] \in AnswerRow /\ handler[l] \in HandlerRow /\ page[l] \in PageRow
  /\ sent[l] \in Nat /\ conversation[l] \in {"none", "generating", "over"}

LEMMA SitedAll ==
  ASSUME WorkersFit, Pages!TypeOK, NEW l \in Lease
  PROVE  Sited(l)
BY Typed DEF WorkersFit, Sited

\* The store and the worker of m are left alone, and its place in the loop of
\* the lock's holder.
SamePlace(m) ==
  /\ worker'[m] = worker[m] /\ StateOf(m)' = StateOf(m) /\ AcceptedOf(m)' = AcceptedOf(m)
  /\ Exempt(m) => Exempt(m)'
  /\ engine = "recovering" /\ m \in visit => engine' = "recovering" /\ m \in visit'

LEMMA Untouched ==
  ASSUME NEW m \in Lease, LeaseTold(m), SamePage(m), SamePlace(m)
  PROVE  LeaseTold(m)'
<1>1. PlaceTold(m)'
  BY DEF LeaseTold, PlaceTold, SamePlace
<1>2. AnswerTold(m)'
  BY DEF LeaseTold, AnswerTold, SamePlace, SamePage
<1>3. HandlerTold(m)'
  BY DEF LeaseTold, HandlerTold, SamePlace, SamePage
<1>4. SentTold(m)'
  BY DEF LeaseTold, SentTold, SamePlace, SamePage, Pages!Known, Pages!Submitting
<1>5. EndTold(m)'
  BY DEF LeaseTold, EndTold, SamePlace, SamePage, Pages!Known, StopDone
<1> QED
  BY <1>1, <1>2, <1>3, <1>4, <1>5 DEF LeaseTold

\* A run stays exempt.
LEMMA ExemptKept ==
  ASSUME Pipeline, [Next]_vars, NEW l \in Lease, Exempt(l)
  PROVE  Exempt(l)'
<1>1. TypeOK /\ RunMove(l.run) /\ l.run \in Runs
  BY RunMoves DEF Pipeline, Ledger, TypeInv, Lease
<1>2. now' >= now /\ now \in Nat /\ now' \in Nat /\ deadline[l.run] \in Nat
  BY <1>1, TimeAdvances, TypeStep DEF TypeOK, Pipeline, Ledger
<1>3. runStatus[l.run] # "absent" =>
        deadline'[l.run] = deadline[l.run] /\ runStatus'[l.run] # "absent"
  <2> SUFFICES ASSUME runStatus[l.run] # "absent"
               PROVE  deadline'[l.run] = deadline[l.run] /\ runStatus'[l.run] # "absent"
    OBVIOUS
  <2> USE DEF runVars
  <2>t. /\ runStatus \in [Runs -> RunStatus] /\ deadline \in [Runs -> Nat]
        /\ recovery \in [Runs -> Recoverable \cup {"none"}] /\ \A r \in Runs : InitialStatus(r) # "absent"
        /\ \A r \in Runs : Restored(r) # "absent"
    BY <1>1 DEF TypeOK, InitialStatus, Restored
  <2>1. CASE Tick \/ UNCHANGED vars
    BY <2>1 DEF Tick, vars
  <2>2. CASE Claim \/ ClaimNone
    <3>1. deadline' = deadline
      BY <2>2 DEF Claim, ClaimTask, ClaimNone
    <3>2. runStatus'[l.run] \in {"running", "paused", runStatus[l.run]}
      BY <1>1, <2>2 DEF Claim, ClaimTask, ClaimNone
    <3> QED
      BY <3>1, <3>2
  <2>3. CASE RunStep
    <3>1. PICK r \in Runs :
            \/ Submit(r) \/ Suspend(r) \/ Cancel(r) \/ ResumeReattached(r, Issued)
            \/ \E allowIncomplete \in BOOLEAN : Resume(r, allowIncomplete)
      BY <2>3 DEF RunStep
    <3>2. CASE Submit(r)
      BY <1>1, <2>t, <3>2 DEF Submit
    <3>3. CASE ~Submit(r)
      <4>1. deadline' = deadline
        BY <3>1, <3>3 DEF Suspend, Cancel, ResumeReattached, Resume
      <4>2. PICK s : s # "absent" /\ runStatus' = [runStatus EXCEPT ![r] = s]
        BY <2>t, <3>1, <3>3 DEF Suspend, Cancel, ResumeReattached, Resume
      <4> QED
        BY <1>1, <2>t, <4>1, <4>2
    <3> QED
      BY <3>2, <3>3
  <2>4. CASE LeaseStep
    <3>1. deadline' = deadline
      BY <2>4 DEF LeaseStep, BeginSubmission, Accepted, FailAttempt, FailCall, AcknowledgeCancel,
         StoreCapture, PreservePartial
    <3>2. \/ runStatus' = runStatus
          \/ \E r \in Runs : \E s : s # "absent" /\ runStatus' = [runStatus EXCEPT ![r] = s]
      <4>1. PICK m \in Lease :
              \/ BeginSubmission(m) \/ Accepted(m) \/ AcknowledgeCancel(m)
              \/ \E d \in Disposition : FailAttempt(m, d)
              \/ \E verdict \in Verdict, text \in BOOLEAN :
                   StoreCapture(m, verdict, text) \/ PreservePartial(m, verdict, text)
        BY <2>4 DEF LeaseStep
      <4>2. m.run \in Runs
        BY DEF Lease
      <4>3. CASE BeginSubmission(m) \/ Accepted(m) \/ AcknowledgeCancel(m)
        BY <4>2, <4>3 DEF BeginSubmission, Accepted, AcknowledgeCancel
      <4>4. ASSUME NEW d \in Disposition, FailAttempt(m, d)
            PROVE  \/ runStatus' = runStatus
                   \/ \E s : s # "absent" /\ runStatus' = [runStatus EXCEPT ![m.run] = s]
        BY <2>t, <4>2, <4>4 DEF FailAttempt, FailCall, RequireReconciliation, SettleReconciliation
      <4>5. ASSUME NEW verdict \in Verdict, NEW text \in BOOLEAN, PreservePartial(m, verdict, text)
            PROVE  \/ runStatus' = runStatus
                   \/ \E s : s # "absent" /\ runStatus' = [runStatus EXCEPT ![m.run] = s]
        BY <2>t, <4>2, <4>5 DEF PreservePartial, RequireReconciliation
      <4>6. ASSUME NEW verdict \in Verdict, NEW text \in BOOLEAN, StoreCapture(m, verdict, text)
            PROVE  \E s : s # "absent" /\ runStatus' = [runStatus EXCEPT ![m.run] = s]
        <5>1. runStatus[m.run] # "absent"
          BY <4>2, <4>6 DEF StoreCapture, Captured, Pipeline, Ledger, TypeInv, OwnersSubmitted, Owns
        <5> QED
          BY <2>t, <4>2, <4>6, <5>1 DEF StoreCapture
      <4> QED
        BY <4>1, <4>2, <4>3, <4>4, <4>5, <4>6
    <3> QED
      BY <1>1, <2>t, <3>1, <3>2
  <2>5. CASE Recover
    BY <1>1, <2>5 DEF Recover
  <2>6. CASE AccountStep
    <3>1. deadline' = deadline
      BY <2>6 DEF AccountStep, AccountExpired, RateLimited, VerifyAccount, VerifyMismatch,
         ConfirmAccount
    <3>2. runStatus'[l.run] \in {"waiting-for-auth", "queued", runStatus[l.run]}
      BY <1>1, <2>6 DEF AccountStep, AccountExpired, RateLimited, VerifyAccount, VerifyMismatch,
         ConfirmAccount, PauseAccountRuns, ResumeVerifiedRuns
    <3> QED
      BY <3>1, <3>2
  <2> QED
    BY <2>1, <2>2, <2>3, <2>4, <2>5, <2>6 DEF Next
<1> QED
  BY <1>1, <1>2, <1>3 DEF Exempt, RunMove, Terminal

\* What the rest of the bridge's steps may assume of the lease they are about.
Standing(l) == Pages!TypeOK /\ LeaseTold(l) /\ Sited(l) /\ SamePlace(l)

Others(l) == \A m \in Lease : m # l => SamePage(m)

\* What each step of the bridge and of the provider keeps: first what it does to
\* the rows of l, then that nothing else changes, then what is told of l.
LEMMA PageOpensTold ==
  ASSUME NEW l \in Lease, Standing(l), NEW op \in {"prepare", "reattach"}, Pages!PageOpens(l, op)
  PROVE  Pages!TypeOK' /\ Others(l) /\ LeaseTold(l)'
<1>t. /\ page \in [Lease -> PageRow] /\ handler \in [Lease -> HandlerRow]
      /\ answer \in [Lease -> AnswerRow] /\ Pages!TypeOK
  BY Typed DEF Standing
<1>1. /\ answer' = answer /\ sent' = sent /\ conversation' = conversation
      /\ handler[l][op] = "opening"
  BY DEF Pages!PageOpens
<1> DEFINE row == [Pages!NoPage EXCEPT !.phase = "preparing"]
<1>2. row \in PageRow /\ row.submission = "none" /\ row.stopping = "none"
  BY DEF PageRow, Pages!NoPage, Pages!Phase, Pages!Stopping, Pages!Submission
<1>3. page' = [page EXCEPT ![l] = row]
  BY DEF Pages!PageOpens
<1> HIDE DEF row
<1>4. /\ page' \in [Lease -> PageRow] /\ page'[l].submission = "none" /\ page'[l].stopping = "none"
      /\ \A m \in Lease : m # l => page'[m] = page[m]
  BY <1>t, <1>2, <1>3, PageSet
<1>5. /\ handler' \in [Lease -> HandlerRow]
      /\ \A m \in Lease : m # l => handler'[m] = handler[m]
      /\ \A p \in Pages!Handled : handler'[l][p] = IF p = op THEN "running" ELSE handler[l][p]
  <2>1. op \in Pages!Handled /\ Pages!SetHandler(l, op, "running")
    BY Ops DEF Pages!PageOpens
  <2> QED
    BY <1>t, <2>1, HandlerSet
<1>6. Pages!TypeOK' /\ Others(l)
  BY <1>1, <1>4, <1>5, <1>t, Typed
     DEF Pages!TypeOK, PageRow, HandlerRow, AnswerRow, Others, SamePage
<1>7. LeaseTold(l)'
  BY <1>1, <1>4, <1>5, Ops
     DEF Standing, LeaseTold, PlaceTold, AnswerTold, HandlerTold, SentTold, EndTold, StopDone,
         Pages!Known, Pages!Submitting, Sited, SamePlace, Fits, ToSend, Sending, Answering, Past,
         Final, Live
<1> QED
  BY <1>6, <1>7

LEMMA OpeningFailsTold ==
  ASSUME NEW l \in Lease, Standing(l), NEW op \in {"prepare", "reattach"}, Pages!OpeningFails(l, op)
  PROVE  Pages!TypeOK' /\ Others(l) /\ LeaseTold(l)'
<1>t. /\ page \in [Lease -> PageRow] /\ handler \in [Lease -> HandlerRow]
      /\ answer \in [Lease -> AnswerRow] /\ sent \in [Lease -> Nat]
      /\ conversation \in [Lease -> {"none", "generating", "over"}] /\ Pages!TypeOK
  BY Typed DEF Standing
<1>1. page' = page /\ sent' = sent /\ conversation' = conversation
  BY DEF Pages!OpeningFails
<1>2. /\ handler' \in [Lease -> HandlerRow]
      /\ \A m \in Lease : m # l => handler'[m] = handler[m]
      /\ \A p \in Pages!Handled : handler'[l][p] = IF p = op THEN "idle" ELSE handler[l][p]
  <2>1. op \in Pages!Handled /\ Pages!SetHandler(l, op, "idle")
    BY Ops DEF Pages!OpeningFails
  <2> QED
    BY <1>t, <2>1, HandlerSet
<1>3. PICK f \in Failures : Pages!Reply(l, op, f)
  BY DEF Pages!OpeningFails
<1>4. /\ answer' \in [Lease -> AnswerRow]
      /\ \A m \in Lease : m # l => answer'[m] = answer[m]
      /\ \A p \in Pages!Op : \/ answer'[l][p] = answer[l][p]
                             \/ p = op /\ answer[l][p] = "waiting" /\ answer'[l][p] = f
  <2>1. op \in Pages!Op /\ f \in Pages!Outcome /\ Pages!Reply(l, op, f)
    BY Ops, <1>3 DEF Pages!OpeningFails
  <2> QED
    BY <1>t, <2>1, ReplySet
<1>5. f \in Pages!Failure
  BY Ops
<1>8. Pages!TypeOK' /\ Others(l)
  BY <1>1, <1>2, <1>4, <1>5, <1>t
     DEF Pages!TypeOK, PageRow, HandlerRow, AnswerRow, Others, SamePage
<1>9. LeaseTold(l)'
  BY <1>1, <1>2, <1>4, <1>5, Ops
     DEF Standing, LeaseTold, PlaceTold, AnswerTold, HandlerTold, SentTold, EndTold, StopDone,
         Pages!Known, Pages!Submitting, Sited, SamePlace, Fits, ToSend, Sending, Answering, Past,
         Final, Live
<1> QED
  BY <1>8, <1>9

LEMMA PreparedTold ==
  ASSUME NEW l \in Lease, Standing(l), Pages!Prepared(l)
  PROVE  Pages!TypeOK' /\ Others(l) /\ LeaseTold(l)'
<1>t. /\ page \in [Lease -> PageRow] /\ handler \in [Lease -> HandlerRow]
      /\ answer \in [Lease -> AnswerRow] /\ sent \in [Lease -> Nat]
      /\ conversation \in [Lease -> {"none", "generating", "over"}] /\ Pages!TypeOK
  BY Typed DEF Standing
<1>1. sent' = sent /\ conversation' = conversation
  BY DEF Pages!Prepared
<1> DEFINE row == [page[l] EXCEPT !.phase = "prepared"]
<1>2. row \in PageRow /\ row.submission = page[l].submission /\ row.stopping = page[l].stopping
  BY <1>t DEF PageRow, Pages!Phase
<1>2a. page' = [page EXCEPT ![l] = row]
  BY DEF Pages!Prepared, Pages!NoPage
<1> HIDE DEF row
<1>2b. /\ page' \in [Lease -> PageRow] /\ page'[l] = row
      /\ \A m \in Lease : m # l => page'[m] = page[m]
  BY <1>t, <1>2, <1>2a, PageSet
<1>3. /\ handler' \in [Lease -> HandlerRow]
      /\ \A m \in Lease : m # l => handler'[m] = handler[m]
      /\ \A p \in Pages!Handled : handler'[l][p] = IF p = "prepare" THEN "idle" ELSE handler[l][p]
  <2>1. "prepare" \in Pages!Handled /\ Pages!SetHandler(l, "prepare", "idle")
    BY Ops DEF Pages!Prepared
  <2> QED
    BY <1>t, <2>1, HandlerSet
<1>4. /\ answer' \in [Lease -> AnswerRow]
      /\ \A m \in Lease : m # l => answer'[m] = answer[m]
      /\ \A p \in Pages!Op : \/ answer'[l][p] = answer[l][p]
                             \/ p = "prepare" /\ answer[l][p] = "waiting" /\ answer'[l][p] = "ok"
  <2>1. "prepare" \in Pages!Op /\ "ok" \in Pages!Outcome /\ Pages!Reply(l, "prepare", "ok")
    BY Ops DEF Pages!Prepared
  <2> QED
    BY <1>t, <2>1, ReplySet
<1>8. Pages!TypeOK' /\ Others(l)
  BY <1>1, <1>2, <1>2b, <1>3, <1>4, <1>t
     DEF Pages!TypeOK, PageRow, HandlerRow, AnswerRow, Others, SamePage
<1>9. LeaseTold(l)'
  BY <1>1, <1>2, <1>2b, <1>3, <1>4, Ops
     DEF Standing, LeaseTold, PlaceTold, AnswerTold, HandlerTold, SentTold, EndTold, StopDone,
         Pages!Known, Pages!Submitting, Sited, SamePlace, Fits, ToSend, Sending, Answering, Past,
         Final, Live
<1> QED
  BY <1>8, <1>9

LEMMA ReattachedTold ==
  ASSUME NEW l \in Lease, Standing(l), Pages!Reattached(l)
  PROVE  Pages!TypeOK' /\ Others(l) /\ LeaseTold(l)'
<1>t. /\ page \in [Lease -> PageRow] /\ handler \in [Lease -> HandlerRow]
      /\ answer \in [Lease -> AnswerRow] /\ sent \in [Lease -> Nat]
      /\ conversation \in [Lease -> {"none", "generating", "over"}] /\ Pages!TypeOK
  BY Typed DEF Standing
<1>1. sent' = sent /\ conversation' = conversation /\ handler[l]["reattach"] = "running"
  BY DEF Pages!Reattached
<1> DEFINE row == [page[l] EXCEPT !.phase = "accepted", !.submission = "reattached"]
<1>2. row \in PageRow /\ row.submission = "reattached" /\ row.stopping = page[l].stopping
  BY <1>t DEF PageRow, Pages!Phase, Pages!Submission
<1>2a. page' = [page EXCEPT ![l] = row]
  BY DEF Pages!Reattached, Pages!NoPage
<1> HIDE DEF row
<1>2b. /\ page' \in [Lease -> PageRow] /\ page'[l] = row
      /\ \A m \in Lease : m # l => page'[m] = page[m]
  BY <1>t, <1>2, <1>2a, PageSet
<1>3. /\ handler' \in [Lease -> HandlerRow]
      /\ \A m \in Lease : m # l => handler'[m] = handler[m]
      /\ \A p \in Pages!Handled : handler'[l][p] = IF p = "reattach" THEN "idle" ELSE handler[l][p]
  <2>1. "reattach" \in Pages!Handled /\ Pages!SetHandler(l, "reattach", "idle")
    BY Ops DEF Pages!Reattached
  <2> QED
    BY <1>t, <2>1, HandlerSet
<1>4. /\ answer' \in [Lease -> AnswerRow]
      /\ \A m \in Lease : m # l => answer'[m] = answer[m]
      /\ \A p \in Pages!Op : \/ answer'[l][p] = answer[l][p]
                             \/ p = "reattach" /\ answer[l][p] = "waiting" /\ answer'[l][p] = "ok"
  <2>1. "reattach" \in Pages!Op /\ "ok" \in Pages!Outcome /\ Pages!Reply(l, "reattach", "ok")
    BY Ops DEF Pages!Reattached
  <2> QED
    BY <1>t, <2>1, ReplySet
<1>8. Pages!TypeOK' /\ Others(l)
  BY <1>1, <1>2, <1>2b, <1>3, <1>4, <1>t
     DEF Pages!TypeOK, PageRow, HandlerRow, AnswerRow, Others, SamePage
<1>9. LeaseTold(l)'
  BY <1>1, <1>2, <1>2b, <1>3, <1>4, Ops
     DEF Standing, LeaseTold, PlaceTold, AnswerTold, HandlerTold, SentTold, EndTold, StopDone,
         Pages!Known, Pages!Submitting, Sited, SamePlace, Fits, ToSend, Sending, Answering, Past,
         Final, Live
<1> QED
  BY <1>8, <1>9

LEMMA SendClickedTold ==
  ASSUME NEW l \in Lease, Standing(l), Pages!SendClicked(l)
  PROVE  Pages!TypeOK' /\ Others(l) /\ LeaseTold(l)'
<1>t. /\ page \in [Lease -> PageRow] /\ handler \in [Lease -> HandlerRow]
      /\ answer \in [Lease -> AnswerRow] /\ sent \in [Lease -> Nat]
      /\ conversation \in [Lease -> {"none", "generating", "over"}] /\ Pages!TypeOK
  BY Typed DEF Standing
<1>1. handler' = handler /\ answer' = answer /\ page[l].submission = "pending"
  BY DEF Pages!SendClicked
<1> DEFINE row == [page[l] EXCEPT !.submission = "clicked"]
<1>2. row \in PageRow /\ row.submission = "clicked" /\ row.stopping = page[l].stopping
  BY <1>t DEF PageRow, Pages!Submission
<1>2a. page' = [page EXCEPT ![l] = row]
  BY DEF Pages!SendClicked, Pages!NoPage
<1> HIDE DEF row
<1>2b. /\ page' \in [Lease -> PageRow] /\ page'[l] = row
      /\ \A m \in Lease : m # l => page'[m] = page[m]
  BY <1>t, <1>2, <1>2a, PageSet
<1>3. /\ sent' \in [Lease -> Nat] /\ sent'[l] = sent[l] + 1
      /\ conversation' \in [Lease -> {"none", "generating", "over"}]
      /\ conversation'[l] = "generating"
      /\ \A m \in Lease : m # l => sent'[m] = sent[m] /\ conversation'[m] = conversation[m]
  BY <1>t DEF Pages!SendClicked
<1>8. Pages!TypeOK' /\ Others(l)
  BY <1>1, <1>2, <1>2b, <1>3, <1>t
     DEF Pages!TypeOK, PageRow, HandlerRow, AnswerRow, Others, SamePage
<1>9. LeaseTold(l)'
  BY <1>1, <1>2, <1>2b, <1>3, Ops
     DEF Standing, LeaseTold, PlaceTold, AnswerTold, HandlerTold, SentTold, EndTold, StopDone,
         Pages!Known, Pages!Submitting, Sited, SamePlace, Fits, ToSend, Sending, Answering, Past,
         Final, Live
<1> QED
  BY <1>8, <1>9

LEMMA SubmissionAcceptedTold ==
  ASSUME NEW l \in Lease, Standing(l), Pages!SubmissionAccepted(l)
  PROVE  Pages!TypeOK' /\ Others(l) /\ LeaseTold(l)'
<1>t. /\ page \in [Lease -> PageRow] /\ handler \in [Lease -> HandlerRow]
      /\ answer \in [Lease -> AnswerRow] /\ sent \in [Lease -> Nat]
      /\ conversation \in [Lease -> {"none", "generating", "over"}] /\ Pages!TypeOK
  BY Typed DEF Standing
<1>1. /\ handler' = handler /\ sent' = sent /\ conversation' = conversation
      /\ page[l].submission = "clicked"
  BY DEF Pages!SubmissionAccepted
<1> DEFINE row == [page[l] EXCEPT !.phase = "accepted", !.submission = "resolved"]
<1>2. row \in PageRow /\ row.submission = "resolved" /\ row.stopping = page[l].stopping
  BY <1>t DEF PageRow, Pages!Phase, Pages!Submission
<1>2a. page' = [page EXCEPT ![l] = row]
  BY DEF Pages!SubmissionAccepted, Pages!NoPage
<1> HIDE DEF row
<1>2b. /\ page' \in [Lease -> PageRow] /\ page'[l] = row
      /\ \A m \in Lease : m # l => page'[m] = page[m]
  BY <1>t, <1>2, <1>2a, PageSet
<1>4. /\ answer' \in [Lease -> AnswerRow]
      /\ \A m \in Lease : m # l => answer'[m] = answer[m]
      /\ \A p \in Pages!Op : \/ answer'[l][p] = answer[l][p]
                             \/ p = "submit" /\ answer[l][p] = "waiting" /\ answer'[l][p] = "ok"
  <2>1. "submit" \in Pages!Op /\ "ok" \in Pages!Outcome /\ Pages!Reply(l, "submit", "ok")
    BY Ops DEF Pages!SubmissionAccepted
  <2> QED
    BY <1>t, <2>1, ReplySet
<1>8. Pages!TypeOK' /\ Others(l)
  BY <1>1, <1>2, <1>2b, <1>4, <1>t
     DEF Pages!TypeOK, PageRow, HandlerRow, AnswerRow, Others, SamePage
<1>9. LeaseTold(l)'
  BY <1>1, <1>2, <1>2b, <1>4, Ops
     DEF Standing, LeaseTold, PlaceTold, AnswerTold, HandlerTold, SentTold, EndTold, StopDone,
         Pages!Known, Pages!Submitting, Sited, SamePlace, Fits, ToSend, Sending, Answering, Past,
         Final, Live
<1> QED
  BY <1>8, <1>9

LEMMA SubmissionFailsTold ==
  ASSUME NEW l \in Lease, Standing(l), Pages!SubmissionFails(l)
  PROVE  Pages!TypeOK' /\ Others(l) /\ LeaseTold(l)'
<1>t. /\ page \in [Lease -> PageRow] /\ handler \in [Lease -> HandlerRow]
      /\ answer \in [Lease -> AnswerRow] /\ sent \in [Lease -> Nat]
      /\ conversation \in [Lease -> {"none", "generating", "over"}] /\ Pages!TypeOK
  BY Typed DEF Standing
<1>1. handler' = handler /\ sent' = sent /\ conversation' = conversation /\ Pages!Submitting(l)
  BY DEF Pages!SubmissionFails
<1> DEFINE row == [page[l] EXCEPT !.submission = "rejected"]
<1>2. row \in PageRow /\ row.submission = "rejected" /\ row.stopping = page[l].stopping
  BY <1>t DEF PageRow, Pages!Submission
<1>2a. page' = [page EXCEPT ![l] = row]
  BY DEF Pages!SubmissionFails, Pages!NoPage
<1> HIDE DEF row
<1>2b. /\ page' \in [Lease -> PageRow] /\ page'[l] = row
      /\ \A m \in Lease : m # l => page'[m] = page[m]
  BY <1>t, <1>2, <1>2a, PageSet
<1>3. PICK f \in Failures :
        Pages!Reply(l, "submit", f) /\ (f = "not-accepted" => page[l].submission = "pending")
  BY DEF Pages!SubmissionFails
<1>4. /\ answer' \in [Lease -> AnswerRow]
      /\ \A m \in Lease : m # l => answer'[m] = answer[m]
      /\ \A p \in Pages!Op : \/ answer'[l][p] = answer[l][p]
                             \/ p = "submit" /\ answer[l][p] = "waiting" /\ answer'[l][p] = f
  <2>1. "submit" \in Pages!Op /\ f \in Pages!Outcome /\ Pages!Reply(l, "submit", f)
    BY Ops, <1>3 DEF Pages!SubmissionFails
  <2> QED
    BY <1>t, <2>1, ReplySet
<1>5. f \in Pages!Failure
  BY Ops
<1>8. Pages!TypeOK' /\ Others(l)
  BY <1>1, <1>2, <1>2b, <1>3, <1>4, <1>5, <1>t
     DEF Pages!TypeOK, PageRow, HandlerRow, AnswerRow, Others, SamePage
<1>9. LeaseTold(l)'
  BY <1>1, <1>2, <1>2b, <1>3, <1>4, <1>5, Ops
     DEF Standing, LeaseTold, PlaceTold, AnswerTold, HandlerTold, SentTold, EndTold, StopDone,
         Pages!Known, Pages!Submitting, Sited, SamePlace, Fits, ToSend, Sending, Answering, Past,
         Final, Live
<1> QED
  BY <1>8, <1>9

LEMMA CaptureEndsTold ==
  ASSUME NEW l \in Lease, Standing(l), Pages!CaptureEnds(l)
  PROVE  Pages!TypeOK' /\ Others(l) /\ LeaseTold(l)'
<1>t. /\ page \in [Lease -> PageRow] /\ handler \in [Lease -> HandlerRow]
      /\ answer \in [Lease -> AnswerRow] /\ sent \in [Lease -> Nat]
      /\ conversation \in [Lease -> {"none", "generating", "over"}] /\ Pages!TypeOK
  BY Typed DEF Standing
<1>1. handler' = handler /\ sent' = sent /\ conversation' = conversation
  BY DEF Pages!CaptureEnds
<1> DEFINE row == [page[l] EXCEPT !.phase = "captured", !.aborted = FALSE]
<1>2. row \in PageRow /\ row.submission = page[l].submission /\ row.stopping = page[l].stopping
  BY <1>t DEF PageRow, Pages!Phase
<1>2a. page' = [page EXCEPT ![l] = row]
  BY DEF Pages!CaptureEnds, Pages!NoPage
<1> HIDE DEF row
<1>2b. /\ page' \in [Lease -> PageRow] /\ page'[l] = row
      /\ \A m \in Lease : m # l => page'[m] = page[m]
  BY <1>t, <1>2, <1>2a, PageSet
<1>3. PICK v \in Pages!Outcome :
        Pages!Reply(l, "capture", v) /\ (v = "complete" => conversation[l] = "over")
  BY Ops DEF Pages!CaptureEnds
<1>4. /\ answer' \in [Lease -> AnswerRow]
      /\ \A m \in Lease : m # l => answer'[m] = answer[m]
      /\ \A p \in Pages!Op : \/ answer'[l][p] = answer[l][p]
                             \/ p = "capture" /\ answer[l][p] = "waiting" /\ answer'[l][p] = v
  <2>1. "capture" \in Pages!Op /\ v \in Pages!Outcome /\ Pages!Reply(l, "capture", v)
    BY Ops, <1>3 DEF Pages!CaptureEnds
  <2> QED
    BY <1>t, <2>1, ReplySet
<1>8. Pages!TypeOK' /\ Others(l)
  BY <1>1, <1>2, <1>2b, <1>3, <1>4, <1>t
     DEF Pages!TypeOK, PageRow, HandlerRow, AnswerRow, Others, SamePage
<1>9. LeaseTold(l)'
  BY <1>1, <1>2, <1>2b, <1>3, <1>4, Ops
     DEF Standing, LeaseTold, PlaceTold, AnswerTold, HandlerTold, SentTold, EndTold, StopDone,
         Pages!Known, Pages!Submitting, Sited, SamePlace, Fits, ToSend, Sending, Answering, Past,
         Final, Live
<1> QED
  BY <1>8, <1>9

\* The answer of a stop reaches every caller of it.
LEMMA StopsSet ==
  ASSUME Pages!TypeOK, NEW l \in Lease, NEW o \in Pages!Outcome, Pages!ReplyStops(l, o)
  PROVE  /\ answer' \in [Lease -> AnswerRow]
         /\ \A m \in Lease : m # l => answer'[m] = answer[m]
         /\ \A p \in Pages!Op : \/ answer'[l][p] = answer[l][p]
                                \/ p \in Pages!Stops /\ answer[l][p] = "waiting" /\ answer'[l][p] = o
<1>1. answer \in [Lease -> AnswerRow]
  BY Typed
<1> DEFINE row == [p \in Pages!Op |->
                     IF p \in Pages!Stops /\ answer[l][p] = "waiting" THEN o ELSE answer[l][p]]
<1>2. answer' = [answer EXCEPT ![l] = row]
  BY DEF Pages!ReplyStops
<1>3. /\ row \in AnswerRow
      /\ \A p \in Pages!Op :
           row[p] = IF p \in Pages!Stops /\ answer[l][p] = "waiting" THEN o ELSE answer[l][p]
  BY <1>1 DEF AnswerRow
<1> HIDE DEF row
<1> QED
  BY <1>1, <1>2, <1>3

LEMMA StopConfirmedTold ==
  ASSUME NEW l \in Lease, Standing(l), Pages!StopConfirmed(l)
  PROVE  Pages!TypeOK' /\ Others(l) /\ LeaseTold(l)'
<1>t. /\ page \in [Lease -> PageRow] /\ handler \in [Lease -> HandlerRow]
      /\ answer \in [Lease -> AnswerRow] /\ sent \in [Lease -> Nat]
      /\ conversation \in [Lease -> {"none", "generating", "over"}] /\ Pages!TypeOK
  BY Typed DEF Standing
<1>1. handler' = handler /\ sent' = sent /\ Pages!Known(l)
  BY DEF Pages!StopConfirmed
<1> DEFINE row == [page[l] EXCEPT !.stopping = "done"]
<1>2. row \in PageRow /\ row.submission = page[l].submission /\ row.stopping = "done"
  BY <1>t DEF PageRow, Pages!Stopping
<1>2a. page' = [page EXCEPT ![l] = row]
  BY DEF Pages!StopConfirmed, Pages!NoPage
<1> HIDE DEF row
<1>2b. /\ page' \in [Lease -> PageRow] /\ page'[l] = row
      /\ \A m \in Lease : m # l => page'[m] = page[m]
  BY <1>t, <1>2, <1>2a, PageSet
<1>3. /\ conversation' \in [Lease -> {"none", "generating", "over"}] /\ conversation'[l] = "over"
      /\ \A m \in Lease : m # l => conversation'[m] = conversation[m]
  BY <1>t DEF Pages!StopConfirmed
<1>4. /\ answer' \in [Lease -> AnswerRow]
      /\ \A m \in Lease : m # l => answer'[m] = answer[m]
      /\ \A p \in Pages!Op : \/ answer'[l][p] = answer[l][p]
                             \/ p \in Pages!Stops /\ answer[l][p] = "waiting" /\ answer'[l][p] = "ok"
  BY <1>t, Ops, StopsSet DEF Pages!StopConfirmed
<1>8. Pages!TypeOK' /\ Others(l)
  BY <1>1, <1>2, <1>2b, <1>3, <1>4, <1>t
     DEF Pages!TypeOK, PageRow, HandlerRow, AnswerRow, Others, SamePage
<1>9. LeaseTold(l)'
  BY <1>1, <1>2, <1>2b, <1>3, <1>4, Ops
     DEF Standing, LeaseTold, PlaceTold, AnswerTold, HandlerTold, SentTold, EndTold, StopDone,
         Pages!Known, Pages!Submitting, Sited, SamePlace, Fits, ToSend, Sending, Answering, Past,
         Final, Live
<1> QED
  BY <1>8, <1>9

LEMMA StopFailsTold ==
  ASSUME NEW l \in Lease, Standing(l), Pages!StopFails(l)
  PROVE  Pages!TypeOK' /\ Others(l) /\ LeaseTold(l)'
<1>t. /\ page \in [Lease -> PageRow] /\ handler \in [Lease -> HandlerRow]
      /\ answer \in [Lease -> AnswerRow] /\ sent \in [Lease -> Nat]
      /\ conversation \in [Lease -> {"none", "generating", "over"}] /\ Pages!TypeOK
  BY Typed DEF Standing
<1>1. handler' = handler /\ sent' = sent /\ conversation' = conversation
  BY DEF Pages!StopFails
<1> DEFINE row == [page[l] EXCEPT !.stopping = "none"]
<1>2. row \in PageRow /\ row.submission = page[l].submission /\ row.stopping = "none"
  BY <1>t DEF PageRow, Pages!Stopping
<1>2a. page' = [page EXCEPT ![l] = row]
  BY DEF Pages!StopFails, Pages!NoPage
<1> HIDE DEF row
<1>2b. /\ page' \in [Lease -> PageRow] /\ page'[l] = row
      /\ \A m \in Lease : m # l => page'[m] = page[m]
  BY <1>t, <1>2, <1>2a, PageSet
<1>4. /\ answer' \in [Lease -> AnswerRow]
      /\ \A m \in Lease : m # l => answer'[m] = answer[m]
      /\ \A p \in Pages!Op : \/ answer'[l][p] = answer[l][p]
                             \/ p \in Pages!Stops /\ answer[l][p] = "waiting" /\ answer'[l][p] = "failed"
  BY <1>t, Ops, StopsSet DEF Pages!StopFails
<1>8. Pages!TypeOK' /\ Others(l)
  BY <1>1, <1>2, <1>2b, <1>4, <1>t
     DEF Pages!TypeOK, PageRow, HandlerRow, AnswerRow, Others, SamePage
<1>9. LeaseTold(l)'
  BY <1>1, <1>2, <1>2b, <1>4, Ops
     DEF Standing, LeaseTold, PlaceTold, AnswerTold, HandlerTold, SentTold, EndTold, StopDone,
         Pages!Known, Pages!Submitting, Sited, SamePlace, Fits, ToSend, Sending, Answering, Past,
         Final, Live
<1> QED
  BY <1>8, <1>9

LEMMA PageClosesTold ==
  ASSUME NEW l \in Lease, Standing(l), Pages!PageCloses(l)
  PROVE  Pages!TypeOK' /\ Others(l) /\ LeaseTold(l)'
<1>t. /\ page \in [Lease -> PageRow] /\ handler \in [Lease -> HandlerRow]
      /\ answer \in [Lease -> AnswerRow] /\ sent \in [Lease -> Nat]
      /\ conversation \in [Lease -> {"none", "generating", "over"}] /\ Pages!TypeOK
  BY Typed DEF Standing
<1>1. sent' = sent /\ conversation' = conversation /\ handler[l]["close"] = "running"
  BY DEF Pages!PageCloses
<1> DEFINE row == [phase |-> "none", aborted |-> FALSE, stopping |-> "none", submission |-> "none"]
<1>2. row \in PageRow /\ row.submission = "none" /\ row.stopping = "none"
  BY <1>t DEF PageRow, Pages!Phase, Pages!Stopping, Pages!Submission
<1>2a. page' = [page EXCEPT ![l] = row]
  BY DEF Pages!PageCloses, Pages!NoPage
<1> HIDE DEF row
<1>2b. /\ page' \in [Lease -> PageRow] /\ page'[l] = row
      /\ \A m \in Lease : m # l => page'[m] = page[m]
  BY <1>t, <1>2, <1>2a, PageSet
<1>3. /\ handler' \in [Lease -> HandlerRow]
      /\ \A m \in Lease : m # l => handler'[m] = handler[m]
      /\ \A p \in Pages!Handled : handler'[l][p] = IF p = "close" THEN "idle" ELSE handler[l][p]
  <2>1. "close" \in Pages!Handled /\ Pages!SetHandler(l, "close", "idle")
    BY Ops DEF Pages!PageCloses
  <2> QED
    BY <1>t, <2>1, HandlerSet
<1>4. /\ answer' \in [Lease -> AnswerRow]
      /\ \A m \in Lease : m # l => answer'[m] = answer[m]
      /\ \A p \in Pages!Op : \/ answer'[l][p] = answer[l][p]
                             \/ p = "close" /\ answer[l][p] = "waiting" /\ answer'[l][p] = "ok"
                             \/ p \in Pages!Stops /\ answer[l][p] = "waiting" /\ answer'[l][p] = "failed"
  <2> DEFINE told == [p \in Pages!Op |-> IF answer[l][p] # "waiting" THEN answer[l][p]
                      ELSE IF p = "close" THEN "ok"
                      ELSE IF p \in Pages!Stops THEN "failed" ELSE "waiting"]
  <2>1. answer' = [answer EXCEPT ![l] = told]
    BY DEF Pages!PageCloses
  <2>2. /\ told \in AnswerRow
        /\ \A p \in Pages!Op : told[p] = IF answer[l][p] # "waiting" THEN answer[l][p]
                      ELSE IF p = "close" THEN "ok"
                      ELSE IF p \in Pages!Stops THEN "failed" ELSE "waiting"
    BY <1>t, Ops DEF AnswerRow
  <2> HIDE DEF told
  <2> QED
    BY <1>t, <2>1, <2>2
<1>8. Pages!TypeOK' /\ Others(l)
  BY <1>1, <1>2, <1>2b, <1>3, <1>4, <1>t
     DEF Pages!TypeOK, PageRow, HandlerRow, AnswerRow, Others, SamePage
<1>9. LeaseTold(l)'
  BY <1>1, <1>2, <1>2b, <1>3, <1>4, Ops
     DEF Standing, LeaseTold, PlaceTold, AnswerTold, HandlerTold, SentTold, EndTold, StopDone,
         Pages!Known, Pages!Submitting, Sited, SamePlace, Fits, ToSend, Sending, Answering, Past,
         Final, Live
<1> QED
  BY <1>8, <1>9

LEMMA ClosingFailsTold ==
  ASSUME NEW l \in Lease, Standing(l), Pages!ClosingFails(l)
  PROVE  Pages!TypeOK' /\ Others(l) /\ LeaseTold(l)'
<1>t. /\ page \in [Lease -> PageRow] /\ handler \in [Lease -> HandlerRow]
      /\ answer \in [Lease -> AnswerRow] /\ sent \in [Lease -> Nat]
      /\ conversation \in [Lease -> {"none", "generating", "over"}] /\ Pages!TypeOK
  BY Typed DEF Standing
<1>1. page' = page /\ sent' = sent /\ conversation' = conversation
  BY DEF Pages!ClosingFails
<1>3. /\ handler' \in [Lease -> HandlerRow]
      /\ \A m \in Lease : m # l => handler'[m] = handler[m]
      /\ \A p \in Pages!Handled : handler'[l][p] = IF p = "close" THEN "idle" ELSE handler[l][p]
  <2>1. "close" \in Pages!Handled /\ Pages!SetHandler(l, "close", "idle")
    BY Ops DEF Pages!ClosingFails
  <2> QED
    BY <1>t, <2>1, HandlerSet
<1>4. /\ answer' \in [Lease -> AnswerRow]
      /\ \A m \in Lease : m # l => answer'[m] = answer[m]
      /\ \A p \in Pages!Op : \/ answer'[l][p] = answer[l][p]
                             \/ p = "close" /\ answer[l][p] = "waiting" /\ answer'[l][p] = "failed"
  <2>1. "close" \in Pages!Op /\ "failed" \in Pages!Outcome /\ Pages!Reply(l, "close", "failed")
    BY Ops DEF Pages!ClosingFails
  <2> QED
    BY <1>t, <2>1, ReplySet
<1>8. Pages!TypeOK' /\ Others(l)
  BY <1>1, <1>3, <1>4, <1>t
     DEF Pages!TypeOK, PageRow, HandlerRow, AnswerRow, Others, SamePage
<1>9. LeaseTold(l)'
  BY <1>1, <1>3, <1>4, Ops
     DEF Standing, LeaseTold, PlaceTold, AnswerTold, HandlerTold, SentTold, EndTold, StopDone,
         Pages!Known, Pages!Submitting, Sited, SamePlace, Fits, ToSend, Sending, Answering, Past,
         Final, Live
<1> QED
  BY <1>8, <1>9

LEMMA GenerationEndsTold ==
  ASSUME NEW l \in Lease, Standing(l), Pages!GenerationEnds(l)
  PROVE  Pages!TypeOK' /\ Others(l) /\ LeaseTold(l)'
<1>t. /\ page \in [Lease -> PageRow] /\ handler \in [Lease -> HandlerRow]
      /\ answer \in [Lease -> AnswerRow] /\ sent \in [Lease -> Nat]
      /\ conversation \in [Lease -> {"none", "generating", "over"}] /\ Pages!TypeOK
  BY Typed DEF Standing
<1>1. /\ page' = page /\ handler' = handler /\ answer' = answer /\ sent' = sent
      /\ conversation[l] = "generating"
  BY DEF Pages!GenerationEnds
<1>3. /\ conversation' \in [Lease -> {"none", "generating", "over"}] /\ conversation'[l] = "over"
      /\ \A m \in Lease : m # l => conversation'[m] = conversation[m]
  BY <1>t DEF Pages!GenerationEnds
<1>8. Pages!TypeOK' /\ Others(l)
  BY <1>1, <1>3, <1>t
     DEF Pages!TypeOK, PageRow, HandlerRow, AnswerRow, Others, SamePage
<1>9. LeaseTold(l)'
  BY <1>1, <1>3, Ops
     DEF Standing, LeaseTold, PlaceTold, AnswerTold, HandlerTold, SentTold, EndTold, StopDone,
         Pages!Known, Pages!Submitting, Sited, SamePlace, Fits, ToSend, Sending, Answering, Past,
         Final, Live
<1> QED
  BY <1>8, <1>9

\* Every step of the bridge and of the provider.
LEMMA BridgeTold ==
  ASSUME NEW l \in Lease, Standing(l), Pages!HandlerStep(l) \/ Pages!ProviderStep(l)
  PROVE  Pages!TypeOK' /\ Others(l) /\ LeaseTold(l)'
BY PageOpensTold, OpeningFailsTold, PreparedTold, ReattachedTold, SendClickedTold,
   SubmissionAcceptedTold, SubmissionFailsTold, CaptureEndsTold, StopConfirmedTold, StopFailsTold,
   PageClosesTold, ClosingFailsTold, GenerationEndsTold
   DEF Pages!HandlerStep, Pages!ProviderStep

---------------------------------------------------------------------------
\* What the steps of the worker of l may assume, and what they do to its place:
\* the worker goes to pc and the attempt to state s.
Ready(l) ==
  /\ Pages!TypeOK /\ LeaseTold(l) /\ Sited(l)
  /\ Exempt(l) => Exempt(l)'
  /\ engine' = engine /\ visit' = visit

Goes(l, pc, s) == worker'[l] = pc /\ StateOf(l)' = s

\* What is asked, from where.
Asked == {<<"claimed", "preparing", "prepare">>, <<"discard", "discarding", "close">>,
          <<"polling", "cancelling", "close">>, <<"expired", "expiring", "close">>,
          <<"begun", "submitting", "submit">>, <<"accepted", "capturing", "capture">>,
          <<"capturing", "stopping", "stop">>, <<"captured", "closing", "close">>}

LEMMA AskTold ==
  ASSUME NEW l \in Lease, Ready(l), NEW pc, NEW op, <<worker[l], pc, op>> \in Asked,
         Goes(l, pc, StateOf(l)), AcceptedOf(l)' = AcceptedOf(l), Pages!Call(l, op)
  PROVE  Pages!TypeOK' /\ Others(l) /\ LeaseTold(l)'
<1>1. op \in {"prepare", "close", "submit", "capture", "stop"} /\ op \in Pages!Op
  BY Ops DEF Asked
<1>2. Pages!TypeOK' /\ Others(l) /\ Calls(l, op)
  BY <1>1, CallMakes DEF Ready, Others
<1>3. page'[l] \in PageRow /\ answer'[l] \in AnswerRow /\ handler'[l] \in HandlerRow
  BY <1>2 DEF Pages!TypeOK, PageRow, AnswerRow, HandlerRow
<1>4. PlaceTold(l)'
  BY <1>1 DEF Asked, Ready, Goes, LeaseTold, PlaceTold, Sited, Fits, ToSend, Sending, Answering, Past
<1>5. AnswerTold(l)'
  BY <1>1, <1>2, Ops DEF Asked, Ready, Goes, LeaseTold, AnswerTold, Calls
<1>6. HandlerTold(l)'
  BY <1>1, <1>2, Ops DEF Asked, Ready, Goes, LeaseTold, AnswerTold, HandlerTold, PlaceTold, Calls,
     Sited, Fits, ToSend, Sending, Answering, Past, Final
<1>7. SentTold(l)'
  BY <1>1, <1>2, Ops DEF Asked, Ready, Goes, LeaseTold, SentTold, Calls,
     Sited, Fits, ToSend, Sending, Answering, Past, Final, Pages!Known, Pages!Submitting
<1>8. EndTold(l)'
  BY <1>1, <1>2, Ops DEF Asked, Ready, Goes, LeaseTold, SentTold, EndTold, StopDone, Calls,
     Sited, Fits, ToSend, Sending, Answering, Past, Final, Live, Pages!Known
<1> QED
  BY <1>2, <1>4, <1>5, <1>6, <1>7, <1>8 DEF LeaseTold

\* A worker that takes its answers knows what to do next.
LEMMA TakeMakes ==
  ASSUME Pages!TypeOK, NEW l \in Lease, Take(l)
  PROVE  /\ Pages!TypeOK' /\ Others(l)
         /\ page' = page /\ handler' = handler /\ sent' = sent /\ conversation' = conversation
         /\ \A p \in Pages!Op :
              answer'[l][p] = IF p \in {"halt", "reattach"} THEN answer[l][p] ELSE "none"
<1>t. answer \in [Lease -> AnswerRow]
  BY Typed
<1> DEFINE row == [op \in Pages!Op |-> IF op \in {"halt", "reattach"} THEN answer[l][op] ELSE "none"]
<1>1. answer' = [answer EXCEPT ![l] = row]
  BY DEF Take
<1>2. /\ row \in AnswerRow
      /\ \A p \in Pages!Op : row[p] = IF p \in {"halt", "reattach"} THEN answer[l][p] ELSE "none"
  BY <1>t, Ops DEF AnswerRow
<1> HIDE DEF row
<1>3. /\ answer' \in [Lease -> AnswerRow] /\ answer'[l] = row
      /\ \A m \in Lease : m # l => answer'[m] = answer[m]
  BY <1>t, <1>1, <1>2
<1>4. page' = page /\ handler' = handler /\ sent' = sent /\ conversation' = conversation
  BY DEF Take
<1> QED
  BY <1>2, <1>3, <1>4 DEF Pages!TypeOK, AnswerRow, Others, SamePage

\* Where a worker goes with what it was told, and what becomes of its attempt.
Onward(l) ==
  \/ worker[l] = "claimed" /\ Goes(l, "done", "failed")
  \/ worker[l] = "preparing" /\ answer[l]["prepare"] = "ok" /\ Goes(l, "polling", StateOf(l))
  \/ worker[l] = "preparing" /\ \E pc \in {"suspending", "discard"} : Goes(l, pc, "failed")
  \/ worker[l] = "suspending" /\ \E pc \in {"discard", "error"} : Goes(l, pc, StateOf(l))
  \/ worker[l] \in {"discarding", "expiring", "closing"} /\ Goes(l, "done", StateOf(l))
  \/ worker[l] \in {"cancelling", "expiring", "closing"} /\ Goes(l, "error", StateOf(l))
  \/ worker[l] = "cancelling" /\ Goes(l, "done", "cancelled")
  \/ worker[l] = "polling" /\ Goes(l, "expired", "failed")
  \/ worker[l] = "polling" /\ Goes(l, "begun", "submitting")
  \/ worker[l] = "submitting" /\ answer[l]["submit"] = "ok" /\ Goes(l, "accepted", "accepted")
  \/ worker[l] = "submitting" /\ answer[l]["submit"] = "not-accepted" /\ Goes(l, "done", "failed")
  \/ worker[l] \in {"submitting", "capturing", "stopping"} /\ Goes(l, "done", "uncertain")
  \/ /\ \/ worker[l] = "capturing" /\ answer[l]["capture"] = "complete"
        \/ worker[l] = "stopping" /\ answer[l]["stop"] = "ok"
     /\ \E s \in {"completed", "partial", "failed"} : Goes(l, "captured", s)

\* The page of l is left alone and the worker's answers are taken.
Silent(l) ==
  /\ page'[l] = page[l] /\ handler'[l] = handler[l] /\ sent'[l] = sent[l]
  /\ conversation'[l] = conversation[l]
  /\ \A p \in {"prepare", "submit", "capture", "stop"} : answer'[l][p] = "none"
  /\ answer'[l]["reattach"] = answer[l]["reattach"]

LEMMA OnwardTold ==
  ASSUME NEW l \in Lease, Ready(l), Silent(l), Onward(l),
         IF worker'[l] = "accepted" THEN AcceptedOf(l)' # NotAccepted
                                    ELSE AcceptedOf(l)' = AcceptedOf(l)
  PROVE  LeaseTold(l)'
<1>1. PlaceTold(l)'
  BY DEF Ready, Onward, Goes, LeaseTold, PlaceTold, Sited, Fits, ToSend, Sending, Answering, Past, Final
<1>2. AnswerTold(l)'
  BY DEF Ready, Silent, LeaseTold, AnswerTold
<1>3. HandlerTold(l)'
  BY DEF Ready, Silent, Onward, Goes, LeaseTold, AnswerTold, HandlerTold, PlaceTold, Sited, Fits,
     ToSend, Sending, Answering, Past, Final
<1>4. SentTold(l)'
  BY DEF Ready, Silent, Onward, Goes, LeaseTold, SentTold, EndTold, PlaceTold, Sited, Fits,
     ToSend, Sending, Answering, Past, Final, Pages!Known, Pages!Submitting
<1>5. EndTold(l)'
  BY DEF Ready, Silent, Onward, Goes, LeaseTold, SentTold, EndTold, AnswerTold, StopDone, Sited, Fits,
     ToSend, Sending, Answering, Past, Final, Live, Pages!Known
<1> QED
  BY <1>1, <1>2, <1>3, <1>4, <1>5 DEF LeaseTold

LEMMA StateSet ==
  ASSUME TypeOK, NEW l \in Lease, NEW s, SetAttempt(l, s)
  PROVE  StateOf(l)' = s
BY AttemptAt DEF StateOf

LEMMA PlaceSet ==
  ASSUME WorkersFit, NEW l \in Lease, NEW pc, To(l, pc)
  PROVE  worker'[l] = pc
BY DEF WorkersFit, To

\* The worker asks the bridge.
LEMMA WorkerAsks ==
  ASSUME WorkersFit, NEW l \in Lease, Ready(l),
         \/ Prepare(l) \/ Discard(l) \/ CloseCancelled(l) \/ CloseExpired(l) \/ SubmitPrompt(l)
         \/ CaptureAnswer(l) \/ StopIncomplete(l) \/ ClosePage(l)
  PROVE  Pages!TypeOK' /\ Others(l) /\ LeaseTold(l)'
<1>1. PICK pc, op : /\ <<worker[l], pc, op>> \in Asked
                    /\ Pages!Call(l, op) /\ To(l, pc) /\ UNCHANGED vars
  BY DEF Prepare, Discard, CloseCancelled, CloseExpired, SubmitPrompt, CaptureAnswer,
     StopIncomplete, ClosePage, Asks, Waiting, Asked, Told
<1>2. StateOf(l)' = StateOf(l) /\ AcceptedOf(l)' = AcceptedOf(l)
  BY <1>1 DEF vars, taskVars, StateOf, AcceptedOf
<1>3. Goes(l, pc, StateOf(l))
  BY <1>1, <1>2, PlaceSet DEF Goes
<1> QED
  BY <1>1, <1>2, <1>3, AskTold

\* The worker goes on with what it was told.
LEMMA WorkerGoesOn ==
  ASSUME TypeOK, WorkersFit, NEW l \in Lease,
         \/ Prepared(l) \/ PrepareFailed(l) \/ Discarded(l) \/ CancelClosed(l) \/ CloseRefused(l)
         \/ ExpiredClosed(l) \/ PromptAccepted(l) \/ SubmissionFailed(l) \/ CaptureFailed(l)
         \/ CaptureComplete(l) \/ Stopped(l) \/ StopUnconfirmed(l) \/ PageClosed(l),
         Sited(l)
  PROVE  Take(l) /\ Onward(l)
<1>a. \A pc : To(l, pc) => worker'[l] = pc
  BY PlaceSet
<1>b. \A s : SetAttempt(l, s) => StateOf(l)' = s
  BY StateSet
<1>c. UNCHANGED vars => StateOf(l)' = StateOf(l)
  BY DEF vars, taskVars, StateOf
<1>d. \A d : FailAttempt(l, d) => StateOf(l)' = IF d = "Uncertain" THEN "uncertain" ELSE "failed"
  BY <1>b DEF FailAttempt, FailCall
<1>1. CASE Prepared(l)
  BY <1>1, <1>a, <1>c DEF Prepared, GoesOn, Told, Waiting, Onward, Goes
<1>2. CASE PrepareFailed(l)
  BY <1>2, <1>a, <1>d DEF PrepareFailed, Told, Waiting, Onward, Goes
<1>3. CASE Discarded(l) \/ ExpiredClosed(l) \/ PageClosed(l)
  BY <1>3, <1>a, <1>c DEF Discarded, ExpiredClosed, PageClosed, GoesOn, Told, Onward, Goes
<1>4. CASE CloseRefused(l)
  BY <1>4, <1>a, <1>c DEF CloseRefused, GoesOn, Told, Onward, Goes
<1>5. CASE CancelClosed(l)
  <2>1. worker[l] = "cancelling" /\ StateOf(l) = "prepared" /\ worker'[l] = "done" /\ Take(l)
    BY <1>5, <1>a DEF CancelClosed, Told, Sited, Fits, ToSend
  <2>2. StateOf(l)' = "cancelled"
    BY <1>5, <1>b, <2>1 DEF CancelClosed, AcknowledgeCancel, Live
  <2> QED
    BY <2>1, <2>2 DEF Onward, Goes
<1>6. CASE PromptAccepted(l)
  BY <1>6, <1>a, <1>b DEF PromptAccepted, Told, Waiting, Accepted, Onward, Goes
<1>7. CASE SubmissionFailed(l)
  BY <1>7, <1>a, <1>d DEF SubmissionFailed, SubmissionDisposition, Told, Waiting, Onward, Goes
<1>8. CASE CaptureFailed(l)
  BY <1>8, <1>a, <1>d DEF CaptureFailed, Told, Onward, Goes
<1>9. CASE CaptureComplete(l)
  <2>1. PICK s \in {"completed", "partial", "failed"} : SetAttempt(l, s)
    BY <1>9 DEF CaptureComplete, StoreCapture, Outcome
  <2> QED
    BY <1>9, <1>a, <1>b, <2>1 DEF CaptureComplete, Told, Waiting, Onward, Goes
<1>10. CASE Stopped(l)
  <2>1. PICK s \in {"completed", "partial", "failed"} : SetAttempt(l, s)
    BY <1>10 DEF Stopped, StoreCapture, Outcome
  <2> QED
    BY <1>10, <1>a, <1>b, <2>1 DEF Stopped, Told, Waiting, Onward, Goes
<1>11. CASE StopUnconfirmed(l)
  <2>1. SetAttempt(l, "uncertain")
    BY <1>11 DEF StopUnconfirmed, KeepUnconfirmed, PreservePartial
  <2> QED
    BY <1>11, <1>a, <1>b, <2>1 DEF StopUnconfirmed, Told, Onward, Goes
<1> QED
  BY <1>1, <1>2, <1>3, <1>4, <1>5, <1>6, <1>7, <1>8, <1>9, <1>10, <1>11

\* The worker goes on without the bridge.
LEMMA WorkerMoves ==
  ASSUME TypeOK, WorkersFit, NEW l \in Lease,
         PromptFails(l) \/ SuspendRun(l) \/ PollExpired(l) \/ Begin(l)
  PROVE  UNCHANGED pageVars /\ Onward(l)
<1>a. \A pc : To(l, pc) => worker'[l] = pc
  BY PlaceSet
<1>b. \A s : SetAttempt(l, s) => StateOf(l)' = s
  BY StateSet
<1>d. \A d : FailAttempt(l, d) => StateOf(l)' = IF d = "Uncertain" THEN "uncertain" ELSE "failed"
  BY <1>b DEF FailAttempt, FailCall
<1>1. CASE PromptFails(l)
  BY <1>1, <1>a, <1>d DEF PromptFails, Onward, Goes
<1>2. CASE SuspendRun(l)
  <2>1. StateOf(l)' = StateOf(l)
    BY <1>2 DEF SuspendRun, Suspend, vars, taskVars, StateOf
  <2> QED
    BY <1>2, <1>a, <2>1 DEF SuspendRun, Onward, Goes
<1>3. CASE PollExpired(l)
  BY <1>3, <1>a, <1>d DEF PollExpired, Onward, Goes
<1>4. CASE Begin(l)
  <2>1. SetAttempt(l, "submitting")
    BY <1>4 DEF Begin, BeginSubmission
  <2> QED
    BY <1>4, <1>a, <1>b, <2>1 DEF Begin, Onward, Goes
<1> QED
  BY <1>1, <1>2, <1>3, <1>4

\* An answer changes without the worker going on: a failure is recorded on the
\* account, or the caller waited too long.
LEMMA ToldAgain ==
  ASSUME NEW l \in Lease, Standing(l), NEW op \in Pages!Op, NEW o \in {"failed", "incomplete"},
         answer[l][op] # "none", Pages!Tell(l, op, o),
         UNCHANGED <<page, handler, sent, conversation>>
  PROVE  Pages!TypeOK' /\ Others(l) /\ LeaseTold(l)'
<1>1. /\ answer' \in [Lease -> AnswerRow]
      /\ \A m \in Lease : m # l => answer'[m] = answer[m]
      /\ \A p \in Pages!Op : answer'[l][p] = IF p = op THEN o ELSE answer[l][p]
  BY Ops, AnswerSet DEF Standing
<1>2. Pages!TypeOK' /\ Others(l)
  BY <1>1, Typed DEF Standing, Pages!TypeOK, AnswerRow, Others, SamePage
<1>3. LeaseTold(l)'
  BY <1>1, Ops
     DEF Standing, LeaseTold, PlaceTold, AnswerTold, HandlerTold, SentTold, EndTold, StopDone,
         Pages!Known, Pages!Submitting, SamePlace
<1> QED
  BY <1>2, <1>3

LEMMA TimesOutTold ==
  ASSUME NEW l \in Lease, Standing(l), NEW op \in Pages!Op, Pages!TimeOut(l, op)
  PROVE  Pages!TypeOK' /\ Others(l) /\ LeaseTold(l)'
BY ToldAgain DEF Pages!TimeOut

LEMMA WorkerRecords ==
  ASSUME WorkersFit, NEW l \in Lease, Ready(l), RecordAccount(l) \/ WorkerTimesOut(l)
  PROVE  Pages!TypeOK' /\ Others(l) /\ LeaseTold(l)'
<1>1. UNCHANGED worker /\ UNCHANGED <<attemptState, acceptedAt>>
  BY DEF RecordAccount, WorkerTimesOut, AccountExpired, RateLimited, vars, taskVars
<1>2. Standing(l)
  BY <1>1 DEF Ready, Standing, SamePlace, StateOf, AcceptedOf
<1>3. CASE RecordAccount(l)
  <2>1. PICK pc \in {"preparing", "submitting", "capturing"} :
          /\ answer[l][Waiting[pc]] \in {"expired", "limited"}
          /\ Pages!Tell(l, Waiting[pc], IF pc = "capturing" THEN "incomplete" ELSE "failed")
          /\ UNCHANGED <<page, handler, sent, conversation>>
    BY <1>3 DEF RecordAccount, Told
  <2>2. Waiting[pc] \in Pages!Op
    BY Ops DEF Waiting
  <2> QED
    BY <1>2, <2>1, <2>2, ToldAgain
<1>4. CASE WorkerTimesOut(l)
  <2>1. Waiting[worker[l]] \in Pages!Op
    BY <1>4, Ops DEF WorkerTimesOut, Waiting
  <2> QED
    BY <1>2, <1>4, <2>1, TimesOutTold DEF WorkerTimesOut
<1> QED
  BY <1>3, <1>4

\* Only the step that makes an attempt accepted records an acceptance.
LEMMA AcceptanceKept ==
  ASSUME NEW l \in Lease, WorkerActs(l)
  PROVE  UNCHANGED acceptedAt \/ PromptAccepted(l)
<1> USE DEF vars, taskVars
<1>1. CASE PromptFails(l) \/ PrepareFailed(l) \/ PollExpired(l) \/ SubmissionFailed(l) \/ CaptureFailed(l)
  BY <1>1 DEF PromptFails, PrepareFailed, PollExpired, SubmissionFailed, CaptureFailed,
         FailAttempt, FailCall
<1>2. CASE Prepare(l) \/ Discard(l) \/ CloseCancelled(l) \/ CloseExpired(l) \/ SubmitPrompt(l)
           \/ CaptureAnswer(l) \/ ClosePage(l)
  BY <1>2 DEF Prepare, Discard, CloseCancelled, CloseExpired, SubmitPrompt, CaptureAnswer,
              ClosePage, Asks
<1>3. CASE Prepared(l) \/ Discarded(l) \/ ExpiredClosed(l) \/ CloseRefused(l) \/ PageClosed(l)
  BY <1>3 DEF Prepared, Discarded, ExpiredClosed, CloseRefused, PageClosed, GoesOn
<1>4. CASE SuspendRun(l) \/ CancelClosed(l) \/ Begin(l)
  BY <1>4 DEF SuspendRun, Suspend, CancelClosed, AcknowledgeCancel, Begin, BeginSubmission
<1>5. CASE CaptureComplete(l) \/ Stopped(l) \/ StopUnconfirmed(l) \/ StopIncomplete(l)
  BY <1>5 DEF CaptureComplete, Stopped, StoreCapture, StopUnconfirmed, KeepUnconfirmed,
     PreservePartial, StopIncomplete
<1>6. CASE RecordAccount(l) \/ WorkerTimesOut(l)
  BY <1>6 DEF RecordAccount, WorkerTimesOut, AccountExpired, RateLimited
<1> QED
  BY <1>1, <1>2, <1>3, <1>4, <1>5, <1>6 DEF WorkerActs

LEMMA AcceptanceSet ==
  ASSUME TypeOK, NEW l \in Lease, PromptAccepted(l)
  PROVE  /\ AcceptedOf(l)' # NotAccepted /\ worker[l] = "submitting" /\ To(l, "accepted")
         /\ \A m \in Lease : m # l => AcceptedOf(m)' = AcceptedOf(m)
<1>1. acceptedAt \in [Runs -> [Task -> [Number -> Nat \cup {NotAccepted}]]] /\ now \in Nat
  BY DEF TypeOK
<1>2. /\ acceptedAt' = [acceptedAt EXCEPT ![l.run][l.task][l.number] = now]
      /\ worker[l] = "submitting" /\ To(l, "accepted")
  BY DEF PromptAccepted, Accepted, Told
<1>3. /\ l.run \in Runs /\ l.task \in Task /\ l.number \in Number
      /\ \A m \in Lease : /\ m.run \in Runs /\ m.task \in Task /\ m.number \in Number
                          /\ l.run = m.run /\ l.task = m.task /\ l.number = m.number => l = m
  BY DEF Lease
<1>4. AcceptedOf(l)' = now
  BY <1>1, <1>2, <1>3 DEF AcceptedOf
<1>5. ASSUME NEW m \in Lease, m # l PROVE AcceptedOf(m)' = AcceptedOf(m)
  BY <1>1, <1>2, <1>3, <1>5 DEF AcceptedOf
<1> QED
  BY <1>1, <1>2, <1>4, <1>5 DEF NotAccepted

\* The clock of every run.
Clocked == \A m \in Lease : Exempt(m) => Exempt(m)'

LEMMA WorkerTold ==
  ASSUME TypeOK, WorkersFit, PagesTold, Clocked, NEW l \in Lease, WorkerStep(l)
  PROVE  PagesTold'
<1>1. Local(l) /\ WorkerActs(l)
  BY WorkerFits DEF WorkerStep
<1>2. Ready(l) /\ Sited(l) /\ Pages!TypeOK
  BY SitedAll DEF PagesTold, Clocked, WorkerStep, lockVars, Ready
<1>3. Pages!TypeOK' /\ Others(l) /\ LeaseTold(l)'
  <2>1. CASE \/ Prepare(l) \/ Discard(l) \/ CloseCancelled(l) \/ CloseExpired(l) \/ SubmitPrompt(l)
             \/ CaptureAnswer(l) \/ StopIncomplete(l) \/ ClosePage(l)
    BY <1>2, <2>1, WorkerAsks
  <2>2. CASE RecordAccount(l) \/ WorkerTimesOut(l)
    BY <1>2, <2>2, WorkerRecords
  <2>3. CASE \/ Prepared(l) \/ PrepareFailed(l) \/ Discarded(l) \/ CancelClosed(l) \/ CloseRefused(l)
             \/ ExpiredClosed(l) \/ PromptAccepted(l) \/ SubmissionFailed(l) \/ CaptureFailed(l)
             \/ CaptureComplete(l) \/ Stopped(l) \/ StopUnconfirmed(l) \/ PageClosed(l)
    <3>1. Take(l) /\ Onward(l)
      BY <1>2, <2>3, WorkerGoesOn
    <3>2. /\ Pages!TypeOK' /\ Others(l) /\ Silent(l)
      BY <1>2, <3>1, TakeMakes, Ops DEF Silent
    <3>3. IF worker'[l] = "accepted" THEN AcceptedOf(l)' # NotAccepted
                                     ELSE AcceptedOf(l)' = AcceptedOf(l)
      <4>1. CASE PromptAccepted(l)
        BY <4>1, PlaceSet, AcceptanceSet
      <4>2. CASE ~PromptAccepted(l)
        <5>1. AcceptedOf(l)' = AcceptedOf(l)
          BY <1>1, <4>2, AcceptanceKept DEF AcceptedOf
        <5>2. PICK pc : To(l, pc) /\ pc # "accepted"
          BY <2>3, <4>2 DEF Prepared, PrepareFailed, Discarded, CancelClosed, CloseRefused,
             ExpiredClosed, SubmissionFailed, CaptureFailed, CaptureComplete, Stopped,
             StopUnconfirmed, PageClosed, GoesOn
        <5> QED
          BY <5>1, <5>2, PlaceSet
      <4> QED
        BY <4>1, <4>2
    <3> QED
      BY <1>2, <3>1, <3>2, <3>3, OnwardTold
  <2>4. CASE PromptFails(l) \/ SuspendRun(l) \/ PollExpired(l) \/ Begin(l)
    <3>1. UNCHANGED pageVars /\ Onward(l)
      BY <2>4, WorkerMoves
    <3>2. Pages!TypeOK' /\ Others(l)
      BY <1>2, <3>1, Typed DEF pageVars, Pages!TypeOK, Others, SamePage
    <3>3. worker[l] \in {"claimed", "suspending", "polling"}
      BY <2>4 DEF PromptFails, SuspendRun, PollExpired, Begin
    <3>4. Silent(l)
      BY <1>2, <3>1, <3>3 DEF pageVars, Silent, Ready, LeaseTold, AnswerTold
    <3>5. PICK pc : To(l, pc) /\ pc # "accepted"
      BY <2>4 DEF PromptFails, SuspendRun, PollExpired, Begin
    <3>6. UNCHANGED acceptedAt
      BY <1>1, <3>3, AcceptanceKept, AcceptanceSet
    <3> QED
      BY <1>2, <3>1, <3>2, <3>4, <3>5, <3>6, PlaceSet, OnwardTold DEF AcceptedOf
  <2> QED
    BY <1>1, <2>1, <2>2, <2>3, <2>4 DEF WorkerActs
<1>4. ASSUME NEW m \in Lease, m # l PROVE LeaseTold(m)'
  <2>1. AcceptedOf(m)' = AcceptedOf(m)
    BY <1>1, <1>4, AcceptanceKept, AcceptanceSet DEF AcceptedOf
  <2>2. SamePlace(m)
    BY <1>1, <1>4, <2>1 DEF Local, Clocked, WorkerStep, lockVars, SamePlace, StateOf
  <2> QED
    BY <1>3, <1>4, <2>2, Untouched DEF PagesTold, Others
<1>5. Looking'
  BY <1>1 DEF PagesTold, Looking, WorkerStep, lockVars, Local, WorkersFit
<1> QED
  BY <1>3, <1>4, <1>5 DEF PagesTold

---------------------------------------------------------------------------
\* Steps that leave pages, workers and attempts alone.
LEMMA QuietTold ==
  ASSUME PagesTold, Clocked, UNCHANGED <<pageVars, worker, attemptState, acceptedAt>>,
         \A m \in Lease : engine = "recovering" /\ m \in visit => engine' = "recovering" /\ m \in visit',
         engine' = "stopping" => \A m \in visit' : worker[m] # "none"
  PROVE  PagesTold'
<1>1. Pages!TypeOK' /\ Looking'
  BY DEF PagesTold, Pages!TypeOK, pageVars, Looking
<1>2. ASSUME NEW m \in Lease PROVE LeaseTold(m)'
  <2>1. SamePage(m) /\ SamePlace(m)
    BY DEF Clocked, pageVars, SamePage, SamePlace, StateOf, AcceptedOf
  <2> QED
    BY <2>1, Untouched DEF PagesTold
<1> QED
  BY <1>1, <1>2 DEF PagesTold

LEMMA OthersTold ==
  ASSUME PagesTold, Clocked,
         \/ TickBegins \/ ReapingEnds \/ StoppingEnds \/ TickEnds
         \/ RecoveringEnds \/ ResumingEnds \/ Environment
         \/ \E r \in Runs : ResumeRecovered(r)
         \/ \E a \in Accounts : Verified(a) \/ RestoreAccount(a)
  PROVE  PagesTold'
<1> USE DEF vars, taskVars, lockVars
<1>a. engine = "stopping" => \A m \in visit : worker[m] # "none"
  BY DEF PagesTold, Looking
<1>1. CASE TickBegins
  BY <1>1, QuietTold DEF TickBegins, LockFree, Goto
<1>2. CASE ReapingEnds
  BY <1>2, QuietTold DEF ReapingEnds, Goto, Active
<1>3. CASE StoppingEnds \/ RecoveringEnds \/ ResumingEnds
  BY <1>3, QuietTold DEF StoppingEnds, RecoveringEnds, ResumingEnds, Turns, Goto
<1>4. CASE TickEnds
  BY <1>4, QuietTold DEF TickEnds, ClaimNone, Goto
<1>5. CASE Environment
  <2>1. UNCHANGED <<attemptState, acceptedAt>>
    BY <1>5 DEF Environment, Submit, Suspend, Cancel, Resume, AccountExpired, RateLimited,
       VerifyMismatch, Tick
  <2> QED
    BY <1>5, <1>a, <2>1, QuietTold DEF Environment
<1>6. ASSUME NEW r \in Runs, ResumeRecovered(r) PROVE PagesTold'
  <2>1. UNCHANGED <<attemptState, acceptedAt>>
    BY <1>6 DEF ResumeRecovered, ResumeReattached
  <2> QED
    BY <1>6, <1>a, <2>1, QuietTold DEF ResumeRecovered
<1>7. ASSUME NEW a \in Accounts, Verified(a) PROVE PagesTold'
  BY <1>7, QuietTold DEF Verified, VerifyAccount, ConfirmAccount, Goto
<1>8. ASSUME NEW a \in Accounts, RestoreAccount(a) PROVE PagesTold'
  BY <1>8, <1>a, QuietTold DEF RestoreAccount, RestoreReadiness, AccountExpired
<1> QED
  BY <1>1, <1>2, <1>3, <1>4, <1>5, <1>6, <1>7, <1>8

\* Steps that are about the bridge's side of one lease.
LEMMA PageStepTold ==
  ASSUME PagesTold, WorkersFit, Clocked, NEW l \in Lease,
         UNCHANGED <<worker, attemptState, acceptedAt, engine>>, visit' \subseteq visit,
         engine = "recovering" => visit' = visit,
         Standing(l) => Pages!TypeOK' /\ Others(l) /\ LeaseTold(l)'
  PROVE  PagesTold'
<1>1. \A m \in Lease : SamePlace(m)
  BY DEF Clocked, SamePlace, StateOf, AcceptedOf
<1>2. Standing(l)
  BY <1>1, SitedAll DEF PagesTold, Standing
<1>3. ASSUME NEW m \in Lease, m # l PROVE LeaseTold(m)'
  BY <1>1, <1>2, <1>3, Untouched DEF PagesTold, Others
<1>4. Looking'
  BY DEF PagesTold, Looking
<1> QED
  BY <1>2, <1>3, <1>4 DEF PagesTold

LEMMA BridgeStepTold ==
  ASSUME PagesTold, WorkersFit, Clocked, BridgeStep
  PROVE  PagesTold'
<1>1. PICK l \in Lease : Pages!HandlerStep(l) \/ Pages!ProviderStep(l)
  BY DEF BridgeStep
<1>2. UNCHANGED <<worker, attemptState, acceptedAt, engine, visit>>
  BY DEF BridgeStep, vars, taskVars, lockVars
<1> QED
  BY <1>1, <1>2, BridgeTold, PageStepTold

LEMMA EngineTimesOutTold ==
  ASSUME PagesTold, WorkersFit, Clocked, NEW l \in Lease, EngineTimesOut(l)
  PROVE  PagesTold'
<1>1. PICK op \in Pages!Op : Pages!TimeOut(l, op)
  BY Ops DEF EngineTimesOut
<1>2. UNCHANGED <<worker, attemptState, acceptedAt, engine, visit>>
  BY DEF EngineTimesOut, vars, taskVars, lockVars
<1> QED
  BY <1>1, <1>2, TimesOutTold, PageStepTold

\* The tick looks at an attempt whose conversation must stop.  One that was
\* never sent is stopped at once, which is only asked of an exempt run or of an
\* attempt whose worker knows its conversation.
LEMMA LookTold ==
  ASSUME Ledger, PagesTold, WorkersFit, Clocked, NEW l \in Lease, Look(l)
  PROVE  PagesTold'
<1>1. UNCHANGED <<worker, attemptState, acceptedAt, engine>> /\ engine = "stopping" /\ l \in visit
  BY DEF Look, vars, taskVars
<1>2. visit' \subseteq visit
  BY DEF Look, Pages!Call, lockVars
<1>3. ASSUME Standing(l), MustStop(l), Pages!Call(l, "halt")
      PROVE  Pages!TypeOK' /\ Others(l) /\ LeaseTold(l)'
  <2>1. Pages!TypeOK' /\ Others(l) /\ Calls(l, "halt")
    BY <1>3, Ops, CallMakes DEF Standing, Others
  <2>2. worker[l] # "none"
    BY <1>1 DEF PagesTold, Looking
  <2>3. page[l].submission = "none" /\ StateOf(l) \in {"none", "prepared", "submitting", "accepted"} => Exempt(l)
    <3> SUFFICES ASSUME page[l].submission = "none",
                        StateOf(l) \in {"none", "prepared", "submitting", "accepted"}
                 PROVE  Exempt(l)
      OBVIOUS
    <3>1. StateOf(l) \in {"prepared", "submitting"}
      <4>1. StateOf(l) # "none"
        BY <1>3, <2>2, Positions DEF Standing, Sited, Fits, ToSend, Sending, Answering, Past
      <4>2. ASSUME StateOf(l) = "accepted" PROVE worker[l] \in Answering
        BY <1>3, <2>2, <4>2, Positions DEF Standing, Sited, Fits, ToSend, Sending, Answering, Past,
           LeaseTold, PlaceTold, Final
      <4>3. worker[l] \notin Answering
        BY <1>3 DEF Standing, LeaseTold, EndTold, Pages!Known
      <4> QED
        BY <4>1, <4>2, <4>3
    <3>2. AcceptedOf(l) = NotAccepted
      BY <1>3, <3>1 DEF Standing, LeaseTold, PlaceTold
    <3>3. runStatus[l.run] # "absent"
      BY <3>1 DEF Ledger, TypeInv, OwnersSubmitted, ReservedExactlyWhileLive, Owns, Live
    <3> QED
      BY <1>3, <3>2, <3>3 DEF MustStop, AcceptedOf, Exempt
  <2>4. LeaseTold(l)'
    <3>1. PlaceTold(l)'
      BY <1>3 DEF Standing, SamePlace, LeaseTold, PlaceTold
    <3>2. AnswerTold(l)'
      BY <1>3, <2>1, Ops DEF Standing, SamePlace, LeaseTold, AnswerTold, Calls
    <3>3. HandlerTold(l)'
      BY <1>3, <2>1, Ops DEF Standing, SamePlace, LeaseTold, HandlerTold, Calls
    <3>4. SentTold(l)'
      BY <1>3, <2>1, Ops DEF Standing, SamePlace, LeaseTold, SentTold, Calls, Pages!Known, Pages!Submitting
    <3>5. EndTold(l)'
      BY <1>3, <2>1, <2>3, Ops DEF Standing, SamePlace, LeaseTold, EndTold, StopDone, Calls, Pages!Known
    <3> QED
      BY <3>1, <3>2, <3>3, <3>4, <3>5 DEF LeaseTold
  <2> QED
    BY <2>1, <2>4
<1>4. CASE MustStop(l)
  BY <1>1, <1>2, <1>3, <1>4, PageStepTold DEF Look
<1>5. CASE ~MustStop(l)
  BY <1>1, <1>2, <1>5, QuietTold DEF Look, PagesTold, Looking
<1> QED
  BY <1>4, <1>5

LEMMA HaltedTold ==
  ASSUME PagesTold, WorkersFit, Clocked, NEW l \in Lease, Halted(l)
  PROVE  PagesTold'
<1>1. /\ UNCHANGED <<worker, attemptState, acceptedAt, engine>> /\ engine = "stopping"
      /\ visit' \subseteq visit /\ UNCHANGED <<page, handler, sent, conversation>>
      /\ Pages!Tell(l, "halt", "none")
  BY DEF Halted, vars, taskVars
<1>2. ASSUME Standing(l) PROVE Pages!TypeOK' /\ Others(l) /\ LeaseTold(l)'
  <2>1. /\ answer' \in [Lease -> AnswerRow]
        /\ \A m \in Lease : m # l => answer'[m] = answer[m]
        /\ \A p \in Pages!Op : answer'[l][p] = IF p = "halt" THEN "none" ELSE answer[l][p]
    BY <1>1, <1>2, Ops, AnswerSet DEF Standing
  <2>2. Pages!TypeOK' /\ Others(l)
    BY <1>1, <1>2, <2>1, Typed DEF Standing, Pages!TypeOK, AnswerRow, Others, SamePage
  <2>3. LeaseTold(l)'
    BY <1>1, <1>2, <2>1, Ops
       DEF Standing, LeaseTold, PlaceTold, AnswerTold, HandlerTold, SentTold, EndTold, StopDone,
           Pages!Known, Pages!Submitting, SamePlace
  <2> QED
    BY <2>2, <2>3
<1> QED
  BY <1>1, <1>2, PageStepTold

\* A worker is forgotten: its attempt is over, uncertain, or still prepared
\* with a page that could not be closed; the last ends the daemon.
LEMMA ReapTold ==
  ASSUME TypeOK, PagesTold, WorkersFit, Clocked, NEW l \in Lease, Reap(l)
  PROVE  PagesTold'
<1>1. /\ engine = "reaping" /\ l \in visit /\ To(l, "none") /\ UNCHANGED pageVars
      /\ worker[l] \in {"done", "error"} /\ engine' \in {"reaping", "failed"}
  BY DEF Reap, WorkersFit, Ended, Goto
<1>2. UNCHANGED <<attemptState, acceptedAt>>
  <2>1. CASE worker[l] = "error" /\ FailAttempt(l, "Uncertain")
    <3>1. StateOf(l) \in Live /\ StateOf(l) # "prepared"
      BY <2>1 DEF FailAttempt, FailCall, MayFail, Aborted
    <3>2. StateOf(l) \in Final \cup {"prepared"}
      BY <2>1 DEF PagesTold, LeaseTold, PlaceTold
    <3> QED
      BY <3>1, <3>2 DEF Live, Final
  <2>2. CASE UNCHANGED vars
    BY <2>2 DEF vars, taskVars
  <2> QED
    BY <2>1, <2>2 DEF Reap
<1>3. worker'[l] = "none" /\ \A m \in Lease : m # l => worker'[m] = worker[m]
  BY <1>1 DEF WorkersFit, To
<1>4. ASSUME NEW m \in Lease PROVE LeaseTold(m)'
  <2>1. StateOf(m)' = StateOf(m) /\ AcceptedOf(m)' = AcceptedOf(m) /\ SamePage(m)
    BY <1>1, <1>2 DEF StateOf, AcceptedOf, pageVars, SamePage
  <2>2. CASE m # l
    BY <1>1, <1>3, <2>1, <2>2, Untouched DEF PagesTold, Clocked, SamePlace
  <2>3. CASE m = l
    <3>1. LeaseTold(l) /\ Sited(l) /\ (Exempt(l) => Exempt(l)')
      BY SitedAll DEF PagesTold, Clocked
    <3>2. PlaceTold(l)' /\ AnswerTold(l)' /\ HandlerTold(l)'
      BY <1>1, <1>3, <2>1, <2>3, <3>1
         DEF LeaseTold, PlaceTold, AnswerTold, HandlerTold, SamePage
    <3>3. SentTold(l)'
      BY <1>1, <1>3, <2>1, <2>3, <3>1 DEF LeaseTold, SentTold, SamePage, Pages!Known, Pages!Submitting
    <3>4. EndTold(l)'
      BY <1>1, <1>3, <2>1, <2>3, <3>1
         DEF LeaseTold, EndTold, SamePage, Pages!Known, StopDone, Answering
    <3> QED
      BY <2>3, <3>2, <3>3, <3>4 DEF LeaseTold
  <2> QED
    BY <2>2, <2>3
<1>5. Pages!TypeOK' /\ Looking'
  BY <1>1 DEF PagesTold, Pages!TypeOK, pageVars, Looking
<1> QED
  BY <1>4, <1>5 DEF PagesTold

\* A new attempt starts with nothing sent and no page.
LEMMA ClaimTold ==
  ASSUME TypeOK, PagesTold, WorkersFit, Clocked, Ledger, NEW r \in Runs, NEW t \in Task,
         NEW jitter \in 0..MaxJitter, EngineClaims(r, t, jitter)
  PROVE  PagesTold'
<1>1. PICK l \in Lease : l = [run |-> r, task |-> t, number |-> attempts[r][t] + 1]
  <2>1. attempts[r][t] \in 0..MaxAttempts /\ attempts[r][t] < MaxAttempts
    BY DEF TypeOK, EngineClaims, ClaimTask, NextTasks
  <2>2. [run |-> r, task |-> t, number |-> attempts[r][t] + 1] \in Lease
    BY <2>1, PipelineAssumption DEF Lease, Number
  <2> QED
    BY <2>2
<1>2. /\ SetAttempt(l, "prepared") /\ To(l, "claimed") /\ UNCHANGED acceptedAt
      /\ UNCHANGED pageVars /\ engine = "claiming" /\ UNCHANGED <<engine, visit>>
  BY <1>1 DEF EngineClaims, ClaimTask, lockVars
<1>3. StateOf(l) = "none"
  <2>1. LatestLive
    BY LatestLiveMeans DEF Ledger
  <2>2. /\ l.run = r /\ l.task = t /\ l.number = attempts[r][t] + 1 /\ attempts[r][t] \in Nat
    BY <1>1 DEF TypeOK
  <2> QED
    BY <2>1, <2>2 DEF LatestLive
<1>4. /\ worker'[l] = "claimed" /\ StateOf(l)' = "prepared"
      /\ \A m \in Lease : m # l => worker'[m] = worker[m] /\ StateOf(m)' = StateOf(m)
  BY <1>1, <1>2, AttemptAt DEF WorkersFit, To, StateOf
<1>5. ASSUME NEW m \in Lease PROVE LeaseTold(m)'
  <2>1. AcceptedOf(m)' = AcceptedOf(m) /\ SamePage(m)
    BY <1>2 DEF AcceptedOf, pageVars, SamePage
  <2>2. CASE m # l
    BY <1>2, <1>4, <2>1, <2>2, Untouched DEF PagesTold, Clocked, SamePlace
  <2>3. CASE m = l
    <3>1. LeaseTold(l) /\ Sited(l) /\ (Exempt(l) => Exempt(l)')
      BY <1>1, SitedAll DEF PagesTold, Clocked
    <3>2. worker[l] = "none"
      BY <1>3, <3>1, Positions DEF Sited, Fits, ToSend, Sending, Answering, Past
    <3>3. PlaceTold(l)' /\ AnswerTold(l)' /\ HandlerTold(l)'
      BY <1>2, <1>3, <1>4, <2>1, <2>3, <3>1, <3>2
         DEF LeaseTold, PlaceTold, AnswerTold, HandlerTold, SamePage, Final
    <3>4. SentTold(l)'
      BY <1>2, <1>3, <1>4, <2>1, <2>3, <3>1, <3>2
         DEF LeaseTold, SentTold, SamePage, Pages!Known, Pages!Submitting, Final
    <3>5. EndTold(l)'
      BY <1>2, <1>3, <1>4, <2>1, <2>3, <3>1, <3>2
         DEF LeaseTold, EndTold, SamePage, Pages!Known, StopDone, Answering, Live
    <3> QED
      BY <2>3, <3>3, <3>4, <3>5 DEF LeaseTold
  <2> QED
    BY <2>2, <2>3
<1>6. Pages!TypeOK' /\ Looking'
  BY <1>2 DEF PagesTold, Pages!TypeOK, pageVars, Looking
<1> QED
  BY <1>5, <1>6 DEF PagesTold

\* Recovery asks the bridge for the conversation of an accepted attempt.
LEMMA ReattachTold ==
  ASSUME PagesTold, WorkersFit, Clocked, NEW l \in Lease, Reattach(l)
  PROVE  PagesTold'
<1>1. /\ UNCHANGED <<worker, attemptState, acceptedAt, engine, visit>> /\ engine = "recovering"
      /\ l \in visit /\ Pages!Call(l, "reattach")
  BY DEF Reattach, vars, taskVars, lockVars
<1>2. ASSUME Standing(l) PROVE Pages!TypeOK' /\ Others(l) /\ LeaseTold(l)'
  <2>1. Pages!TypeOK' /\ Others(l) /\ Calls(l, "reattach")
    BY <1>1, <1>2, Ops, CallMakes DEF Standing, Others
  <2>2. LeaseTold(l)'
    BY <1>1, <1>2, <2>1, Ops
       DEF Standing, LeaseTold, PlaceTold, AnswerTold, HandlerTold, SentTold, EndTold, StopDone,
           Pages!Known, Pages!Submitting, SamePlace, Calls, Sited
  <2> QED
    BY <2>1, <2>2
<1> QED
  BY <1>1, <1>2, PageStepTold

\* The worker of a reattached attempt finds its conversation.
LEMMA WorkerReattachedTold ==
  ASSUME PagesTold, WorkersFit, Clocked, NEW l \in Lease, Reattached(l)
  PROVE  PagesTold'
<1>1. /\ UNCHANGED <<attemptState, acceptedAt, engine>> /\ engine = "recovering" /\ l \in visit
      /\ visit' = visit \ {l} /\ Pages!Tell(l, "reattach", "none")
      /\ UNCHANGED <<page, handler, sent, conversation>>
      /\ IF answer[l]["reattach"] = "ok" THEN To(l, "accepted") ELSE UNCHANGED worker
  BY DEF Reattached, vars, taskVars
<1>2. Pages!TypeOK /\ Sited(l) /\ LeaseTold(l) /\ (Exempt(l) => Exempt(l)')
  BY SitedAll DEF PagesTold, Clocked
<1>3. /\ answer' \in [Lease -> AnswerRow]
      /\ \A m \in Lease : m # l => answer'[m] = answer[m]
      /\ \A p \in Pages!Op : answer'[l][p] = IF p = "reattach" THEN "none" ELSE answer[l][p]
  BY <1>1, <1>2, Ops, AnswerSet
<1>4. /\ worker'[l] = IF answer[l]["reattach"] = "ok" THEN "accepted" ELSE worker[l]
      /\ \A m \in Lease : m # l => worker'[m] = worker[m]
  BY <1>1 DEF WorkersFit, To
<1>5. Pages!TypeOK' /\ Looking'
  BY <1>1, <1>2, <1>3, Typed DEF Pages!TypeOK, AnswerRow, Looking
<1>6. \A m \in Lease : StateOf(m)' = StateOf(m) /\ AcceptedOf(m)' = AcceptedOf(m)
  BY <1>1 DEF StateOf, AcceptedOf
<1>7. ASSUME NEW m \in Lease, m # l PROVE LeaseTold(m)'
  BY <1>1, <1>3, <1>4, <1>6, <1>7, Untouched DEF PagesTold, Clocked, SamePlace, SamePage
<1>8. LeaseTold(l)'
  <2>1. PlaceTold(l)' /\ AnswerTold(l)' /\ HandlerTold(l)'
    BY <1>1, <1>2, <1>3, <1>4, <1>6, Ops
       DEF LeaseTold, PlaceTold, AnswerTold, HandlerTold, Sited
  <2>2. SentTold(l)' /\ EndTold(l)'
    BY <1>1, <1>2, <1>3, <1>4, <1>6, Ops
       DEF LeaseTold, SentTold, EndTold, Pages!Known, Pages!Submitting, StopDone, Answering, Sited
  <2> QED
    BY <2>1, <2>2 DEF LeaseTold
<1> QED
  BY <1>5, <1>7, <1>8 DEF PagesTold

\* A restart forgets pages and workers, not what was sent.
LEMMA RestartTold ==
  ASSUME Ledger, PagesTold, Clocked, Restart
  PROVE  PagesTold'
<1>1. \A m \in Lease : StateOf(m)' = IF StateOf(m) = "prepared" THEN "failed"
                                     ELSE IF StateOf(m) = "submitting" THEN "uncertain"
                                     ELSE StateOf(m)
  BY RecoveredState DEF Restart, Ledger
<1>2. /\ UNCHANGED acceptedAt /\ Pages!Lost /\ engine' = "idle"
      /\ worker' = [l \in Lease |-> "none"]
  BY DEF Restart, Recover
<1>3. Pages!TypeOK' /\ Looking'
  BY <1>2, Ops DEF Pages!TypeOK, Pages!Lost, Pages!NoPage, Pages!Phase, Pages!Stopping, Pages!Submission,
     PagesTold, Looking
<1>4. ASSUME NEW m \in Lease PROVE LeaseTold(m)'
  <2>1. /\ AcceptedOf(m)' = AcceptedOf(m) /\ sent'[m] = sent[m] /\ conversation'[m] = conversation[m]
        /\ page'[m].submission = "none" /\ page'[m].stopping = "none"
        /\ \A op \in Pages!Op : answer'[m][op] = "none"
        /\ \A op \in Pages!Handled : handler'[m][op] = "idle"
        /\ worker'[m] = "none" /\ (Exempt(m) => Exempt(m)') /\ LeaseTold(m)
    BY <1>2 DEF AcceptedOf, Pages!Lost, Pages!NoPage, PagesTold, Clocked
  <2>2. PlaceTold(m)' /\ AnswerTold(m)' /\ HandlerTold(m)'
    BY <1>1, <2>1, Ops DEF LeaseTold, PlaceTold, AnswerTold, HandlerTold
  <2>3. SentTold(m)'
    BY <1>1, <2>1, Ops DEF LeaseTold, SentTold, PlaceTold, Pages!Known, Pages!Submitting, Final
  <2>4. EndTold(m)'
    BY <1>1, <2>1, Ops DEF LeaseTold, SentTold, EndTold, StopDone, Pages!Known, Answering, Live
  <2> QED
    BY <2>2, <2>3, <2>4 DEF LeaseTold
<1> QED
  BY <1>3, <1>4 DEF PagesTold

---------------------------------------------------------------------------
LEMMA PagesStep ==
  ASSUME EngineInv, PagesTold, Clocked, [EngineNext]_engineVars
  PROVE  PagesTold'
<1> Ledger /\ TypeOK /\ WorkersFit
  BY DEF EngineInv, Ledger, TypeInv
<1>1. ASSUME NEW l \in Lease, WorkerStep(l) PROVE PagesTold'
  BY <1>1, WorkerTold
<1>2. CASE LockStep
  BY <1>2, ReapTold, LookTold, HaltedTold, ClaimTold, ReattachTold, WorkerReattachedTold,
     EngineTimesOutTold, OthersTold DEF LockStep, TickStep, RecoveryStep
<1>3. CASE TickBegins \/ Environment \/ \E a \in Accounts : Verified(a) \/ RestoreAccount(a)
  BY <1>3, OthersTold
<1>4. CASE BridgeStep
  BY <1>4, BridgeStepTold
<1>5. CASE Restart
  BY <1>5, RestartTold
<1>6. CASE UNCHANGED engineVars
  BY <1>6, QuietTold DEF engineVars, vars, taskVars, lockVars, PagesTold, Looking
<1> QED
  BY <1>1, <1>2, <1>3, <1>4, <1>5, <1>6 DEF EngineNext

RestartsCounted == restarts \in Nat

\* Everything known of the engine, its pages and the store under them.
PagesInv == EngineInv /\ Pipeline /\ EarlierGivenUp /\ Capped /\ RestartsCounted /\ PagesTold

LEMMA PagesInductive == EngineSpec => []PagesInv
<1>1. EngineInit => PagesTold
  <2> SUFFICES ASSUME EngineInit PROVE PagesTold
    OBVIOUS
  <2>1. Pages!TypeOK /\ Looking
    BY Ops DEF EngineInit, Pages!Init, Pages!TypeOK, Pages!NoPage, Pages!Phase, Pages!Stopping,
       Pages!Submission, Looking
  <2>2. ASSUME NEW m \in Lease PROVE LeaseTold(m)
    <3>1. /\ page[m].submission = "none" /\ page[m].stopping = "none" /\ sent[m] = 0
          /\ conversation[m] = "none" /\ worker[m] = "none"
          /\ \A op \in Pages!Op : answer[m][op] = "none"
          /\ \A op \in Pages!Handled : handler[m][op] = "idle"
      BY DEF EngineInit, Pages!Init, Pages!NoPage
    <3>2. StateOf(m) = "none" /\ AcceptedOf(m) = NotAccepted
      BY DEF EngineInit, Init, StateOf, AcceptedOf, Lease
    <3> QED
      BY <3>1, <3>2, Ops DEF LeaseTold, PlaceTold, AnswerTold, HandlerTold, SentTold, EndTold,
         StopDone, Pages!Known, Pages!Submitting, Answering, Final
  <2> QED
    BY <2>1, <2>2 DEF PagesTold
<1>2. EngineInv /\ Pipeline /\ PagesTold /\ [EngineNext]_engineVars => PagesTold'
  <2> SUFFICES ASSUME EngineInv, Pipeline, PagesTold, [EngineNext]_engineVars PROVE PagesTold'
    OBVIOUS
  <2>1. Clocked
    BY EngineRefines, ExemptKept DEF EngineInv, Ledger, TypeInv, Clocked
  <2> QED
    BY <2>1, PagesStep
<1>3. EngineInit => RestartsCounted
  BY DEF EngineInit, RestartsCounted
<1>4. RestartsCounted /\ [EngineNext]_engineVars => RestartsCounted'
  <2>1. ASSUME [EngineNext]_engineVars, ~Restart PROVE restarts' = restarts
    <3>1. ASSUME NEW l \in Lease, WorkerStep(l) PROVE UNCHANGED lifeVars
      BY <3>1 DEF WorkerStep
    <3>2. CASE TickBegins \/ Environment \/ BridgeStep \/ UNCHANGED engineVars
      BY <3>2 DEF TickBegins, Environment, BridgeStep, engineVars, lifeVars
    <3>3. CASE LockStep
      BY <3>3 DEF LockStep, TickStep, RecoveryStep, Reap, Look, Halted, ReapingEnds, StoppingEnds,
         TickEnds, EngineClaims, Reattach, Reattached, RecoveringEnds, ResumingEnds,
         ResumeRecovered, EngineTimesOut, Turns, lifeVars
    <3>4. ASSUME NEW a \in Accounts, Verified(a) \/ RestoreAccount(a) PROVE UNCHANGED restarts
      BY <3>4 DEF Verified, RestoreAccount
    <3> QED
      BY <2>1, <3>1, <3>2, <3>3, <3>4 DEF EngineNext, lifeVars
  <2> QED
    BY <2>1 DEF RestartsCounted, Restart
<1> QED
  BY <1>1, <1>2, <1>3, <1>4, EngineInductive, EngineImplementsStore, PipelineInductive, GivenUpInductive,
     CappedInductive, PTL DEF EngineSpec, PagesInv

\* A task's prompt is sent once per attempt, and again only when every earlier
\* send of it was accepted, captured and given up, whatever failed, timed out
\* or restarted.
THEOREM NeverSentTwice == EngineSpec => []SentAgainOnlyAfterSettled
<1>1. PagesInv => SentAgainOnlyAfterSettled
  <2> SUFFICES ASSUME PagesInv, NEW l \in Lease
               PROVE  /\ sent[l] <= 1
                      /\ \A m \in Lease :
                           l.run = m.run /\ l.task = m.task /\ l.number < m.number /\ sent[l] > 0 /\ sent[m] > 0
                             => StateOf(l) \in {"failed", "partial"} /\ AcceptedOf(l) # NotAccepted
    BY DEF SentAgainOnlyAfterSettled, AcceptedOf
  <2>1. SentTold(l)
    BY DEF PagesInv, PagesTold, LeaseTold
  <2>2. ASSUME NEW m \in Lease, l.run = m.run, l.task = m.task, l.number < m.number, sent[l] > 0, sent[m] > 0
        PROVE  StateOf(l) \in {"failed", "partial"} /\ AcceptedOf(l) # NotAccepted
    <3>1. StateOf(m) # "none"
      BY <2>2 DEF PagesInv, PagesTold, LeaseTold, SentTold
    <3>2. m.number <= attempts[m.run][m.task]
      BY <3>1, LatestLiveMeans DEF PagesInv, EngineInv, Ledger, LatestLive
    <3>3. /\ l.number \in Nat /\ m.number \in Nat /\ attempts[m.run][m.task] \in Nat
      BY DEF PagesInv, EngineInv, Ledger, TypeInv, TypeOK, Lease, Number
    <3>4. StateOf(l) \in {"failed", "partial"}
      BY <2>2, <3>2, <3>3 DEF PagesInv, EarlierGivenUp
    <3> QED
      BY <2>1, <2>2, <3>4 DEF SentTold, Final
  <2> QED
    BY <2>1, <2>2 DEF SentTold
<1> QED
  BY <1>1, PagesInductive, PTL

\* Only the bridge's close empties a page, and the end of the process.
LEMMA PagesKept ==
  ASSUME Pages!TypeOK, [EngineNext]_engineVars, ~Restart, NEW l \in Lease, Pages!Owned(l)
  PROVE  page'[l].phase # "none" \/ Pages!PageCloses(l)
<1>t. page \in [Lease -> PageRow] /\ page[l].phase # "none"
  BY Typed DEF Pages!Owned
<1>1. ASSUME NEW m \in Lease, NEW op \in Pages!Op, Pages!Call(m, op) PROVE page'[l].phase # "none"
  BY <1>1, <1>t, CallMakes DEF Calls, SamePage
<1>2. ASSUME page' = page PROVE page'[l].phase # "none"
  BY <1>2, <1>t
<1>3. ASSUME NEW m \in Lease, WorkerStep(m) PROVE page'[l].phase # "none"
  <2>1. CASE \/ Prepare(m) \/ Discard(m) \/ CloseCancelled(m) \/ CloseExpired(m) \/ SubmitPrompt(m)
             \/ CaptureAnswer(m) \/ StopIncomplete(m) \/ ClosePage(m)
    <3>1. PICK op \in Pages!Op : Pages!Call(m, op)
      BY <2>1, Ops DEF Prepare, Discard, CloseCancelled, CloseExpired, SubmitPrompt, CaptureAnswer,
         StopIncomplete, ClosePage, Asks, Waiting
    <3> QED
      BY <1>1, <3>1
  <2>2. CASE \/ PromptFails(m) \/ SuspendRun(m) \/ PollExpired(m) \/ Begin(m)
             \/ RecordAccount(m) \/ WorkerTimesOut(m)
    BY <1>2, <2>2 DEF PromptFails, SuspendRun, PollExpired, Begin, RecordAccount, WorkerTimesOut,
       Pages!TimeOut, pageVars
  <2>3. CASE \/ Prepared(m) \/ PrepareFailed(m) \/ Discarded(m) \/ CancelClosed(m) \/ CloseRefused(m)
             \/ ExpiredClosed(m) \/ PromptAccepted(m) \/ SubmissionFailed(m) \/ CaptureFailed(m)
             \/ CaptureComplete(m) \/ Stopped(m) \/ StopUnconfirmed(m) \/ PageClosed(m)
    <3>1. Take(m)
      BY <2>3 DEF Prepared, PrepareFailed, Discarded, CancelClosed, CloseRefused, ExpiredClosed,
         PromptAccepted, SubmissionFailed, CaptureFailed, CaptureComplete, Stopped,
         StopUnconfirmed, PageClosed, GoesOn
    <3> QED
      BY <1>2, <3>1 DEF Take
  <2> QED
    BY <1>3, <2>1, <2>2, <2>3 DEF WorkerStep, WorkerActs
<1>4. CASE LockStep
  <2>1. ASSUME NEW m \in Lease, Look(m) \/ Reattach(m) PROVE page'[l].phase # "none"
    BY <1>1, <1>2, <2>1, Ops DEF Look, Reattach, pageVars
  <2>2. CASE page' = page
    BY <1>2, <2>2
  <2> QED
    BY <1>4, <2>1, <2>2 DEF LockStep, TickStep, RecoveryStep, Reap, Halted, ReapingEnds, StoppingEnds,
       TickEnds, EngineClaims, Reattached, RecoveringEnds, ResumingEnds,
       ResumeRecovered, EngineTimesOut, Turns, pageVars, Pages!TimeOut
<1>5. CASE BridgeStep
  <2>1. PICK m \in Lease : Pages!HandlerStep(m) \/ Pages!ProviderStep(m)
    BY <1>5 DEF BridgeStep
  <2>2. CASE m # l
    <3>1. page'[l] = page[l]
      BY <1>t, <2>1, <2>2 DEF Pages!HandlerStep, Pages!ProviderStep, Pages!PageOpens, Pages!OpeningFails,
         Pages!Prepared, Pages!Reattached, Pages!SendClicked, Pages!SubmissionAccepted,
         Pages!SubmissionFails, Pages!CaptureEnds, Pages!StopConfirmed, Pages!StopFails,
         Pages!PageCloses, Pages!ClosingFails, Pages!GenerationEnds
    <3> QED
      BY <1>t, <3>1
  <2>3. CASE m = l
    <3>1. CASE Pages!PageCloses(l)
      BY <3>1
    <3>2. CASE ~Pages!PageCloses(l)
      BY <1>t, <2>1, <2>3, <3>2 DEF Pages!HandlerStep, Pages!ProviderStep, Pages!PageOpens,
         Pages!OpeningFails, Pages!Prepared, Pages!Reattached, Pages!SendClicked,
         Pages!SubmissionAccepted, Pages!SubmissionFails, Pages!CaptureEnds, Pages!StopConfirmed,
         Pages!StopFails, Pages!ClosingFails, Pages!GenerationEnds, PageRow, Pages!NoPage
    <3> QED
      BY <3>1, <3>2
  <2> QED
    BY <2>2, <2>3
<1>6. CASE TickBegins \/ Environment \/ UNCHANGED engineVars \/ \E a \in Accounts : Verified(a) \/ RestoreAccount(a)
  BY <1>2, <1>6 DEF TickBegins, Environment, engineVars, Verified, RestoreAccount, pageVars
<1> QED
  BY <1>3, <1>4, <1>5, <1>6 DEF EngineNext

\* A page is only ever closed when its attempt has nothing on it to lose.
THEOREM PagesClosedWhenStored == EngineSpec => ClosedOnlyWhenStored
<1>1. PagesInv /\ [EngineNext]_engineVars =>
        [\A l \in Lease :
           Pages!Owned(l) /\ page'[l].phase = "none" /\ restarts' = restarts =>
             StateOf(l) \notin {"submitting", "accepted", "uncertain"}]_engineVars
  <2> SUFFICES ASSUME PagesInv, [EngineNext]_engineVars, NEW l \in Lease, Pages!Owned(l),
                      page'[l].phase = "none", restarts' = restarts
               PROVE  StateOf(l) \notin {"submitting", "accepted", "uncertain"}
    OBVIOUS
  <2>1. ~Restart
    BY DEF Restart, PagesInv, RestartsCounted
  <2>2. handler[l]["close"] = "running"
    BY <2>1, PagesKept DEF PagesInv, PagesTold, Pages!PageCloses
  <2> QED
    BY <2>2 DEF PagesInv, PagesTold, LeaseTold, HandlerTold, Final
<1> QED
  BY <1>1, PagesInductive, PTL DEF EngineSpec, ClosedOnlyWhenStored

\* However restarts, failures and retries interleave, the provider never
\* generates more answers for an account than its capacity: every conversation
\* that still generates is reserved, the exempt runs' excepted.
THEOREM ProviderLoadKept == EngineSpec => []ProviderLoadBounded
<1>1. PagesInv => ProviderLoadBounded
  <2> SUFFICES ASSUME PagesInv, NEW a \in Accounts
               PROVE  Cardinality({l \in Lease : /\ Account(l) = a
                                                /\ conversation[l] = "generating"
                                                /\ runStatus[l.run] # "cancelled"
                                                /\ now < deadline[l.run]}) <= Capacity
    BY DEF ProviderLoadBounded
  <2> DEFINE load == {l \in Lease : /\ Account(l) = a
                                    /\ conversation[l] = "generating"
                                    /\ runStatus[l.run] # "cancelled"
                                    /\ now < deadline[l.run]}
             Row(l) == CHOOSE v \in reservations : v.lease = l
             rows == [l \in load |-> Row(l)]
  <2>1. ASSUME NEW l \in load PROVE Row(l) \in ActiveOn(a) /\ Row(l).lease = l
    <3>1. l \in Lease /\ ~Exempt(l)
      <4>1. now \in Nat /\ deadline[l.run] \in Nat
        BY DEF PagesInv, EngineInv, Ledger, TypeInv, TypeOK, Lease
      <4> QED
        BY <4>1 DEF Exempt
    <3>2. StateOf(l) \in Live
      BY <3>1 DEF PagesInv, PagesTold, LeaseTold, EndTold
    <3>3. Owns(l)
      BY <3>1, <3>2 DEF PagesInv, EngineInv, Ledger, ReservedExactlyWhileLive
    <3> QED
      BY <3>3 DEF Owns, ActiveOn, Account
  <2>2. rows \in Injection(load, ActiveOn(a))
    <3> HIDE DEF Row, load
    <3> QED
      BY <2>1 DEF Injection, IsInjective
  <2>3. IsFiniteSet(ActiveOn(a)) /\ Cardinality(ActiveOn(a)) <= Capacity
    <3>1. ActiveOn(a) \subseteq reservations
      BY DEF ActiveOn
    <3> QED
      BY <3>1, FS_Subset DEF PagesInv, Capped, CapacityRespected
  <2> HIDE DEF load, rows
  <2>4. IsFiniteSet(load) /\ Cardinality(load) <= Cardinality(ActiveOn(a))
    BY <2>2, <2>3, FS_Injection
  <2>5. Cardinality(load) \in Nat /\ Cardinality(ActiveOn(a)) \in Nat
    BY <2>3, <2>4, FS_CardinalityType
  <2>6. Cardinality(load) <= Capacity
    BY <2>3, <2>4, <2>5, CapacityAssumption
  <2> QED
    BY <2>6 DEF load
<1> QED
  BY <1>1, PagesInductive, PTL

(***************************************************************************)
(* Recovery.  Only the holder of the lock reattaches, no worker is         *)
(* forgotten meanwhile, and a worker that ended has left its attempt in    *)
(* another state than accepted.                                            *)
(***************************************************************************)
Attended ==
  /\ reattached # {} => engine \in {"recovering", "resuming"}
  /\ \A l \in reattached : l \in Lease /\ worker[l] # "none"

LEMMA AttendedStep ==
  ASSUME EngineInv, Attended, [EngineNext]_engineVars
  PROVE  Attended'
<1> WorkersFit /\ worker \in [Lease -> Worker]
  BY DEF EngineInv, WorkersFit
<1>1. ASSUME NEW m \in Lease, WorkerStep(m) PROVE Attended'
  <2>1. Local(m) /\ UNCHANGED <<engine, reattached>>
    BY <1>1, WorkerFits DEF EngineInv, Ledger, TypeInv, WorkerStep, lockVars
  <2>2. \A l \in Lease : worker[l] # "none" => worker'[l] # "none"
    BY <2>1 DEF Local
  <2> QED
    BY <2>1, <2>2 DEF Attended
<1>2. ASSUME reattached = {}, reattached' = {} PROVE Attended'
  BY <1>2 DEF Attended
<1>3. CASE TickBegins \/ TickStep \/ ResumingEnds \/ \E a \in Accounts : Verified(a)
  <2>1. reattached' = reattached
    BY <1>3 DEF TickBegins, TickStep, Reap, Look, Halted, ReapingEnds, StoppingEnds, TickEnds,
       EngineClaims, ResumingEnds, Turns, Verified, lockVars
  <2>2. engine \notin {"recovering", "resuming"} \/ reattached = {}
    BY <1>3 DEF TickBegins, LockFree, TickStep, Reap, Look, Halted, ReapingEnds, StoppingEnds,
       TickEnds, EngineClaims, ResumingEnds, Turns, Verified
  <2> QED
    BY <1>2, <2>1, <2>2 DEF Attended
<1>4. ASSUME NEW m \in Lease, Reattached(m) PROVE Attended'
  <2>1. /\ engine' = "recovering"
        /\ \/ UNCHANGED <<worker, reattached>>
           \/ To(m, "accepted") /\ reattached' = reattached \cup {m}
    BY <1>4 DEF Reattached
  <2>2. \A l \in reattached' : l \in Lease /\ worker'[l] # "none"
    <3>1. CASE UNCHANGED <<worker, reattached>>
      BY <3>1 DEF Attended
    <3>2. CASE To(m, "accepted") /\ reattached' = reattached \cup {m}
      BY <3>2 DEF Attended, To
    <3> QED
      BY <2>1, <3>1, <3>2
  <2> QED
    BY <2>1, <2>2 DEF Attended
<1>5. ASSUME NEW r \in Runs, ResumeRecovered(r) PROVE Attended'
  BY <1>5 DEF ResumeRecovered, Attended
<1>6. CASE RecoveringEnds
  BY <1>6 DEF RecoveringEnds, Turns, Goto, Attended
<1>7. CASE Restart
  BY <1>7 DEF Restart, Attended
<1>8. CASE \/ \E m \in Lease : Reattach(m) \/ EngineTimesOut(m)
           \/ \E a \in Accounts : RestoreAccount(a)
           \/ Environment \/ BridgeStep \/ UNCHANGED engineVars
  <2>1. UNCHANGED <<worker, engine, reattached>>
    BY <1>8 DEF Reattach, EngineTimesOut, RestoreAccount, Environment, BridgeStep, engineVars, lockVars
  <2> QED
    BY <2>1 DEF Attended
<1> QED
  BY <1>1, <1>3, <1>4, <1>5, <1>6, <1>7, <1>8 DEF EngineNext, LockStep, RecoveryStep

\* A run that recovery puts back into the schedule has a capturing worker for
\* each conversation it still holds, in however many calls they were reattached.
THEOREM ResumedRunsAttended == EngineSpec => ResumedIsAttended
<1>1. EngineInit => Attended
  BY DEF EngineInit, Attended
<1>2. EngineInv /\ Attended /\ [EngineNext]_engineVars => Attended'
  BY AttendedStep
<1>3. PagesInv /\ Attended /\ [EngineNext]_engineVars =>
        [\A r \in Runs :
           /\ \E l \in reattached \ reattached' : l.run = r
           /\ runStatus[r] = "reconciliation-required"
           /\ runStatus'[r] \in Recoverable
           => \A l \in Lease : l.run = r /\ Owns(l) =>
                worker[l] \in {"accepted", "capturing", "stopping"}]_engineVars
  <2> SUFFICES ASSUME PagesInv, Attended, [EngineNext]_engineVars, NEW r \in Runs,
                      NEW k \in reattached \ reattached', k.run = r,
                      runStatus[r] = "reconciliation-required", runStatus'[r] \in Recoverable,
                      NEW l \in Lease, l.run = r, Owns(l)
               PROVE  worker[l] \in Answering
    BY DEF Answering
  <2>1. \E q \in Runs : ResumeRecovered(q)
    <3>1. CASE Restart
      <4>1. runStatus'[r] = "reconciliation-required"
        BY <3>1 DEF Restart, Recover
      <4> QED
        BY <4>1 DEF Recoverable
    <3>2. CASE ~Restart
      BY <3>2 DEF EngineNext, WorkerStep, TickBegins, LockStep, TickStep, RecoveryStep, Reap, Look,
         Halted, ReapingEnds, StoppingEnds, TickEnds, EngineClaims, Reattach, Reattached,
         RecoveringEnds, ResumingEnds, EngineTimesOut, Turns, Verified, RestoreAccount, Environment,
         BridgeStep, engineVars, lockVars
    <3> QED
      BY <3>1, <3>2
  <2>2. PICK q \in Runs : ResumeRecovered(q)
    BY <2>1
  <2>3. q = r
    BY <2>2 DEF ResumeRecovered
  <2>4. ResumeReattached(r, reattached)
    BY <2>2, <2>3 DEF ResumeRecovered, vars, Recoverable
  <2>5. PICK v \in reservations : v.lease = l
    BY DEF Owns
  <2>6. StateOf(l) = "accepted" /\ l \in reattached
    BY <2>4, <2>5 DEF ResumeReattached, ReservationsOf
  <2>7. worker[l] # "none" /\ PlaceTold(l) /\ Fits(worker[l], StateOf(l)) /\ worker[l] \in Worker
    BY <2>6 DEF Attended, PagesInv, PagesTold, LeaseTold, EngineInv, WorkersFit
  <2> QED
    BY <2>6, <2>7, Positions DEF PlaceTold, Fits, ToSend, Sending, Past, Final
<1> QED
  BY <1>1, <1>2, <1>3, EngineInductive, PagesInductive, PTL DEF EngineSpec, ResumedIsAttended

(***************************************************************************)
(* A tick that fails.  SchedulingGoesOn fails, and this is the only way.   *)
(***************************************************************************)
\* Only the worker of a cancelled run leaves a prepared attempt behind.
ErrorsCancelled ==
  \A l \in Lease :
    worker[l] = "cancelling" \/ (worker[l] = "error" /\ StateOf(l) = "prepared")
      => runStatus[l.run] = "cancelled"

\* Where a worker gets to the closing of a cancelled run's page, and to an error.
LEMMA WorkersErr ==
  ASSUME WorkersFit, [EngineNext]_engineVars, NEW l \in Lease,
         worker'[l] \in {"cancelling", "error"}, worker'[l] # worker[l]
  PROVE  /\ UNCHANGED vars
         /\ \/ worker'[l] = "cancelling" /\ runStatus[l.run] = "cancelled"
            \/ worker'[l] = "error" /\ worker[l] \in {"suspending", "cancelling", "expiring", "closing"}
<1>1. \A k \in Lease : \A pc : To(k, pc) => worker'[l] = IF k = l THEN pc ELSE worker[l]
  BY DEF WorkersFit, To
<1>2. ASSUME NEW k \in Lease, WorkerActs(k)
      PROVE  /\ UNCHANGED vars
             /\ \/ worker'[l] = "cancelling" /\ runStatus[l.run] = "cancelled"
                \/ worker'[l] = "error" /\ worker[l] \in {"suspending", "cancelling", "expiring", "closing"}
  <2>1. CASE CloseCancelled(k)
    BY <1>1, <2>1 DEF CloseCancelled, Asks
  <2>2. CASE CloseRefused(k)
    BY <1>1, <2>2 DEF CloseRefused, GoesOn, Told
  <2>3. CASE SuspendRun(k)
    BY <1>1, <2>3 DEF SuspendRun
  <2>4. CASE PromptFails(k) \/ PrepareFailed(k) \/ CancelClosed(k) \/ PollExpired(k) \/ Begin(k)
    BY <1>1, <2>4 DEF PromptFails, PrepareFailed, CancelClosed, PollExpired, Begin
  <2>5. CASE PromptAccepted(k) \/ SubmissionFailed(k) \/ CaptureFailed(k) \/ CaptureComplete(k)
             \/ Stopped(k) \/ StopUnconfirmed(k)
    BY <1>1, <2>5 DEF PromptAccepted, SubmissionFailed, CaptureFailed, CaptureComplete, Stopped,
       StopUnconfirmed
  <2>6. CASE Prepare(k) \/ Discard(k) \/ CloseExpired(k) \/ SubmitPrompt(k) \/ CaptureAnswer(k)
             \/ ClosePage(k) \/ StopIncomplete(k)
    BY <1>1, <2>6 DEF Prepare, Discard, CloseExpired, SubmitPrompt, CaptureAnswer, ClosePage,
       StopIncomplete, Asks
  <2>7. CASE Prepared(k) \/ Discarded(k) \/ ExpiredClosed(k) \/ PageClosed(k)
    BY <1>1, <2>7 DEF Prepared, Discarded, ExpiredClosed, PageClosed, GoesOn
  <2>8. CASE RecordAccount(k) \/ WorkerTimesOut(k)
    BY <2>8 DEF RecordAccount, WorkerTimesOut
  <2> QED
    BY <1>2, <2>1, <2>2, <2>3, <2>4, <2>5, <2>6, <2>7, <2>8 DEF WorkerActs
<1>3. CASE \E k \in Lease : WorkerStep(k)
  BY <1>2, <1>3 DEF WorkerStep
<1>4. ASSUME NEW k \in Lease, Reap(k) \/ Reattached(k) PROVE FALSE
  BY <1>1, <1>4 DEF Reap, Reattached
<1>5. ASSUME NEW r \in Runs, NEW t \in Task, NEW jitter \in 0..MaxJitter, EngineClaims(r, t, jitter)
      PROVE  FALSE
  <2>1. worker \in [Lease -> Worker]
    BY DEF WorkersFit
  <2> QED
    BY <1>5, <2>1 DEF EngineClaims, To
<1>6. CASE LockStep
  BY <1>4, <1>5, <1>6 DEF LockStep, TickStep, RecoveryStep, Look, Halted, ReapingEnds, StoppingEnds,
     TickEnds, Reattach, RecoveringEnds, ResumingEnds, ResumeRecovered, EngineTimesOut, Turns
<1>7. CASE TickBegins \/ Environment \/ BridgeStep \/ UNCHANGED engineVars
  BY <1>7 DEF TickBegins, Environment, BridgeStep, engineVars
<1>8. ASSUME NEW a \in Accounts, Verified(a) \/ RestoreAccount(a) PROVE FALSE
  BY <1>8 DEF Verified, RestoreAccount
<1>9. CASE Restart
  BY <1>9 DEF Restart
<1> QED
  BY <1>3, <1>6, <1>7, <1>8, <1>9 DEF EngineNext

LEMMA CancelledErrors == EngineSpec => []ErrorsCancelled
<1>1. EngineInit => ErrorsCancelled
  BY DEF EngineInit, ErrorsCancelled
<1>2. PagesInv /\ ErrorsCancelled /\ [EngineNext]_engineVars => ErrorsCancelled'
  <2> SUFFICES ASSUME PagesInv, ErrorsCancelled, [EngineNext]_engineVars, NEW l \in Lease,
                      worker'[l] = "cancelling" \/ (worker'[l] = "error" /\ StateOf(l)' = "prepared")
               PROVE  runStatus'[l.run] = "cancelled"
    BY DEF ErrorsCancelled
  <2>1. [Next]_vars
    BY EngineRefines DEF PagesInv, EngineInv, Ledger, TypeInv
  <2>2. runStatus[l.run] = "cancelled" => runStatus'[l.run] = "cancelled"
    BY <2>1, RunMoves DEF PagesInv, RunMove, Lease, Terminal
  <2>3. PlaceTold(l) /\ WorkersFit
    BY DEF PagesInv, PagesTold, LeaseTold, EngineInv
  <2>4. Follows(l)
    BY <2>1, FollowsStep DEF PagesInv, EngineInv
  <2>5. CASE worker'[l] = worker[l]
    <3>1. worker[l] = "error" /\ StateOf(l)' = "prepared" => StateOf(l) = "prepared"
      BY <2>3, <2>4 DEF Follows, PlaceTold, Final, Schema!Checked, Schema!Successors
    <3> QED
      BY <2>2, <2>5, <3>1 DEF ErrorsCancelled
  <2>6. CASE worker'[l] # worker[l]
    <3>1. /\ UNCHANGED vars
          /\ \/ worker'[l] = "cancelling" /\ runStatus[l.run] = "cancelled"
             \/ worker'[l] = "error" /\ worker[l] \in {"suspending", "cancelling", "expiring", "closing"}
      BY <2>3, <2>6, WorkersErr
    <3>2. StateOf(l)' = StateOf(l)
      BY <3>1 DEF vars, taskVars, StateOf
    <3> QED
      BY <2>2, <2>3, <3>1, <3>2 DEF ErrorsCancelled, PlaceTold, Final
  <2> QED
    BY <2>5, <2>6
<1> QED
  BY <1>1, <1>2, PagesInductive, PTL DEF EngineSpec

\* The tick fails on nothing but a worker of a cancelled run that could not
\* close its prepared page.
FailsOnCancelled ==
  [][engine # "failed" /\ engine' = "failed" =>
       \E l \in Lease : /\ worker[l] = "error"
                        /\ StateOf(l) = "prepared"
                        /\ runStatus[l.run] = "cancelled"]_engineVars

\* The daemon's scheduler ends in one way only: the tick reaps a worker of a
\* cancelled run whose prepared page could not be closed (engine.rs:77), for any
\* runs, accounts, failures, timeouts and restarts.
THEOREM OnlyCancelledFails == EngineSpec => FailsOnCancelled
<1>1. PagesInv /\ ErrorsCancelled /\ [EngineNext]_engineVars
        => (engine # "failed" /\ engine' = "failed" =>
              \E l \in Lease : /\ worker[l] = "error"
                               /\ StateOf(l) = "prepared"
                               /\ runStatus[l.run] = "cancelled")
  <2> SUFFICES ASSUME PagesInv, ErrorsCancelled, [EngineNext]_engineVars,
                      engine # "failed", engine' = "failed"
               PROVE  \E l \in Lease : /\ worker[l] = "error"
                                       /\ StateOf(l) = "prepared"
                                       /\ runStatus[l.run] = "cancelled"
    OBVIOUS
  <2>1. PICK l \in Lease : Reap(l)
    BY DEF EngineNext, WorkerStep, TickBegins, LockStep, TickStep, RecoveryStep, Look, Halted,
       ReapingEnds, StoppingEnds, TickEnds, EngineClaims, Reattach, Reattached, RecoveringEnds,
       ResumingEnds, ResumeRecovered, EngineTimesOut, Turns, Goto, Verified, RestoreAccount,
       Environment, BridgeStep, Restart, engineVars, lockVars
  <2>2. worker[l] = "error" /\ Owns(l)
    BY <2>1 DEF Reap
  <2>3. StateOf(l) \in Live
    BY <2>2 DEF PagesInv, EngineInv, Ledger, ReservedExactlyWhileLive
  <2>4. StateOf(l) = "prepared"
    BY <2>2, <2>3 DEF PagesInv, PagesTold, LeaseTold, PlaceTold, Live, Final
  <2> QED
    BY <2>2, <2>4 DEF ErrorsCancelled
<1> QED
  BY <1>1, CancelledErrors, PagesInductive, PTL DEF EngineSpec, FailsOnCancelled

(***************************************************************************)
(* A conversation that escapes its reservation.  CancelledKeepsCapacity    *)
(* fails, and this is the only step that makes it fail.                    *)
(***************************************************************************)
\* submit begins on a page whose stop is remembered as one that succeeded.
SubmitAfterStop ==
  \E l \in Lease : /\ page[l].stopping = "done"
                   /\ page[l].submission # "pending"
                   /\ page'[l].submission = "pending"

StoppedStaySpec == EngineInit /\ [][EngineNext /\ ~SubmitAfterStop]_engineVars

\* A stop that was confirmed came before anything to stop, or has ended the
\* conversation; what still generates belongs to a live attempt.
HeldTold(l) ==
  /\ StopDone(l) /\ StateOf(l) \in {"none", "prepared", "submitting", "accepted"} =>
       \/ page[l].submission = "none" /\ StateOf(l) \in {"prepared", "submitting"}
       \/ Pages!Known(l) /\ conversation[l] # "generating"
  /\ conversation[l] = "generating" => StateOf(l) \in Live

Held == \A l \in Lease : HeldTold(l)

LEMMA HeldUntouched ==
  ASSUME NEW m \in Lease, HeldTold(m), SamePage(m), StateOf(m)' = StateOf(m)
  PROVE  HeldTold(m)'
BY DEF HeldTold, SamePage, StopDone, Pages!Known

\* The bridge and the provider on their own.
LEMMA HandlerHeld ==
  ASSUME NEW l \in Lease, Standing(l), HeldTold(l), Pages!HandlerStep(l) \/ Pages!ProviderStep(l)
  PROVE  HeldTold(l)'
<1>t. /\ page \in [Lease -> PageRow] /\ answer \in [Lease -> AnswerRow]
      /\ conversation \in [Lease -> {"none", "generating", "over"}] /\ Pages!TypeOK
  BY Typed DEF Standing
<1>s. StateOf(l)' = StateOf(l) /\ LeaseTold(l) /\ Sited(l)
  BY DEF Standing, SamePlace
<1>r. ASSUME NEW op \in Pages!Op \ {"stop"}, NEW o \in Pages!Outcome, Pages!Reply(l, op, o)
      PROVE  answer'[l]["stop"] = answer[l]["stop"]
  BY <1>t, <1>r, Ops, ReplySet
<1>1. CASE \E op \in {"prepare", "reattach"} : Pages!PageOpens(l, op)
  <2>1. /\ page'[l].submission = "none" /\ page'[l].stopping = "none"
        /\ answer' = answer /\ conversation' = conversation
    BY <1>1, <1>t DEF Pages!PageOpens, Pages!NoPage
  <2>2. handler[l]["prepare"] # "idle" \/ handler[l]["reattach"] # "idle"
    BY <1>1 DEF Pages!PageOpens
  <2>3. answer[l]["stop"] # "ok" \/ StateOf(l) = "failed"
    BY <1>s, <2>2 DEF LeaseTold, HandlerTold, AnswerTold
  <2> QED
    BY <1>s, <2>1, <2>3 DEF HeldTold, StopDone
<1>2. CASE \E op \in {"prepare", "reattach"} : Pages!OpeningFails(l, op)
  <2>1. page' = page /\ conversation' = conversation
    BY <1>2 DEF Pages!OpeningFails
  <2>2. answer'[l]["stop"] = answer[l]["stop"]
    BY <1>2, <1>r, Ops DEF Pages!OpeningFails
  <2> QED
    BY <1>s, <2>1, <2>2 DEF HeldTold, StopDone, Pages!Known
<1>3. CASE Pages!Prepared(l) \/ Pages!CaptureEnds(l)
  <2>1. /\ page'[l].submission = page[l].submission /\ page'[l].stopping = page[l].stopping
        /\ conversation' = conversation
    BY <1>3, <1>t DEF Pages!Prepared, Pages!CaptureEnds, PageRow
  <2>2. answer'[l]["stop"] = answer[l]["stop"]
    BY <1>3, <1>r, Ops DEF Pages!Prepared, Pages!CaptureEnds
  <2> QED
    BY <1>s, <2>1, <2>2 DEF HeldTold, StopDone, Pages!Known
<1>4. CASE Pages!Reattached(l)
  <2>1. /\ page'[l].submission = "reattached" /\ page'[l].stopping = page[l].stopping
        /\ conversation' = conversation /\ handler[l]["reattach"] = "running"
    BY <1>4, <1>t DEF Pages!Reattached, PageRow
  <2>2. answer'[l]["stop"] = answer[l]["stop"]
    BY <1>4, <1>r, Ops DEF Pages!Reattached
  <2>3. StateOf(l) = "accepted"
    BY <1>s, <2>1 DEF LeaseTold, HandlerTold
  <2> QED
    BY <1>s, <2>1, <2>2, <2>3 DEF HeldTold, StopDone, Pages!Known
<1>5. CASE Pages!SendClicked(l)
  <2>1. /\ page[l].submission = "pending" /\ page'[l].stopping = page[l].stopping /\ answer' = answer
    BY <1>5, <1>t DEF Pages!SendClicked, PageRow
  <2>2. StateOf(l) \in {"submitting", "uncertain"}
    BY <1>s, <2>1 DEF LeaseTold, SentTold, Pages!Submitting
  <2> QED
    BY <1>s, <2>1, <2>2 DEF HeldTold, StopDone, Pages!Known, Live
<1>6. CASE Pages!SubmissionAccepted(l) \/ Pages!SubmissionFails(l)
  <2>1. /\ page[l].submission \in {"pending", "clicked"} /\ page'[l].stopping = page[l].stopping
        /\ conversation' = conversation
    BY <1>6, <1>t DEF Pages!SubmissionAccepted, Pages!SubmissionFails, Pages!Submitting, PageRow
  <2>2. answer'[l]["stop"] = answer[l]["stop"]
    BY <1>6, <1>r, Ops DEF Pages!SubmissionAccepted, Pages!SubmissionFails
  <2> QED
    BY <1>s, <2>1, <2>2 DEF HeldTold, StopDone, Pages!Known
<1>7. CASE Pages!StopConfirmed(l) \/ Pages!GenerationEnds(l)
  <2>1. conversation'[l] = "over" /\ page'[l].submission = page[l].submission
    BY <1>7, <1>t DEF Pages!StopConfirmed, Pages!GenerationEnds, PageRow
  <2>2. CASE Pages!StopConfirmed(l)
    BY <1>s, <2>1, <2>2 DEF Pages!StopConfirmed, HeldTold, Pages!Known
  <2>3. CASE Pages!GenerationEnds(l)
    BY <1>s, <2>1, <2>3 DEF Pages!GenerationEnds, HeldTold, StopDone, Pages!Known
  <2> QED
    BY <1>7, <2>2, <2>3
<1>8. CASE Pages!StopFails(l)
  <2>1. /\ page'[l].submission = page[l].submission /\ page'[l].stopping = "none"
        /\ conversation' = conversation
    BY <1>8, <1>t DEF Pages!StopFails, PageRow
  <2>2. answer'[l]["stop"] = "ok" => answer[l]["stop"] = "ok"
    BY <1>8, <1>t, Ops, StopsSet DEF Pages!StopFails
  <2> QED
    BY <1>s, <2>1, <2>2 DEF HeldTold, StopDone, Pages!Known
<1>9. CASE Pages!PageCloses(l)
  <2>1. /\ page'[l].submission = "none" /\ page'[l].stopping = "none"
        /\ conversation' = conversation /\ handler[l]["close"] = "running"
    BY <1>9, <1>t DEF Pages!PageCloses, Pages!NoPage
  <2>2. answer'[l]["stop"] = "ok" => answer[l]["stop"] = "ok"
    BY <1>9, <1>t, Ops DEF Pages!PageCloses
  <2>3. answer[l]["stop"] # "ok" \/ StateOf(l) \in Final
    BY <1>s, <2>1 DEF LeaseTold, HandlerTold, AnswerTold
  <2> QED
    BY <1>s, <2>1, <2>2, <2>3 DEF HeldTold, StopDone, Final
<1>10. CASE Pages!ClosingFails(l)
  <2>1. page' = page /\ conversation' = conversation
    BY <1>10 DEF Pages!ClosingFails
  <2>2. answer'[l]["stop"] = answer[l]["stop"]
    BY <1>10, <1>r, Ops DEF Pages!ClosingFails
  <2> QED
    BY <1>s, <2>1, <2>2 DEF HeldTold, StopDone, Pages!Known
<1> QED
  BY <1>1, <1>2, <1>3, <1>4, <1>5, <1>6, <1>7, <1>8, <1>9, <1>10
     DEF Pages!HandlerStep, Pages!ProviderStep

\* The worker asks.
LEMMA AskHeld ==
  ASSUME NEW l \in Lease, Ready(l), HeldTold(l), ~SubmitAfterStop, NEW pc, NEW op,
         <<worker[l], pc, op>> \in Asked, StateOf(l)' = StateOf(l), Pages!Call(l, op)
  PROVE  HeldTold(l)'
<1>1. op \in {"prepare", "close", "submit", "capture", "stop"} /\ op \in Pages!Op
  BY Ops DEF Asked
<1>2. Calls(l, op)
  BY <1>1, CallMakes DEF Ready
<1>3. CASE op = "submit"
  <2>1. page[l].submission = "none"
    BY <1>3 DEF Asked, Ready, LeaseTold, SentTold
  <2>2. page'[l].submission = "pending" => page[l].stopping # "done"
    BY <2>1 DEF SubmitAfterStop
  <2>3. answer[l]["stop"] = "none" /\ answer'[l]["stop"] = answer[l]["stop"]
    BY <1>2, <1>3, Ops DEF Asked, Ready, LeaseTold, AnswerTold, Calls
  <2> QED
    BY <1>2, <1>3, <2>1, <2>2, <2>3, Ops DEF Calls, HeldTold, StopDone, Pages!Known
<1>4. CASE op = "stop"
  <2>1. Pages!Known(l)
    BY <1>4 DEF Asked, Ready, LeaseTold, EndTold, Answering
  <2>2. StopDone(l)' => StopDone(l)
    BY <1>2, <1>4, <2>1, Ops DEF Calls, StopDone, Pages!Known
  <2> QED
    BY <1>2, <1>4, <2>1, <2>2 DEF Calls, HeldTold, Pages!Known
<1>5. CASE op \notin {"submit", "stop"}
  BY <1>1, <1>2, <1>5, Ops DEF Calls, HeldTold, StopDone, Pages!Known
<1> QED
  BY <1>3, <1>4, <1>5

\* The worker goes on.
LEMMA OnwardHeld ==
  ASSUME NEW l \in Lease, Ready(l), HeldTold(l), Silent(l), Onward(l)
  PROVE  HeldTold(l)'
<1>1. /\ page'[l] = page[l] /\ conversation'[l] = conversation[l] /\ answer'[l]["stop"] = "none"
  BY DEF Silent
<1>2. StopDone(l)' => StopDone(l)
  BY <1>1 DEF StopDone
<1>3. conversation[l] = "generating" => StateOf(l)' \in Live
  BY DEF Onward, Goes, Ready, LeaseTold, SentTold, EndTold, HeldTold, StopDone, Sited, Fits,
     ToSend, Sending, Answering, Past, Final, PlaceTold, Live, Pages!Known
<1>4. StateOf(l)' \in {"none", "prepared", "submitting", "accepted"} =>
        \/ StateOf(l)' = StateOf(l)
        \/ StateOf(l) = "prepared" /\ StateOf(l)' = "submitting"
        \/ StateOf(l) = "submitting" /\ StateOf(l)' = "accepted" /\ Pages!Known(l)
  BY DEF Onward, Goes, Ready, LeaseTold, EndTold, Sited, Fits, ToSend, Sending, Answering, Past
<1> QED
  BY <1>1, <1>2, <1>3, <1>4 DEF HeldTold, Pages!Known

\* An answer to the worker changes to a failure without the worker going on.
LEMMA ToldAgainHeld ==
  ASSUME NEW l \in Lease, Pages!TypeOK, HeldTold(l), StateOf(l)' = StateOf(l), NEW op \in Pages!Op,
         NEW o \in {"none", "failed", "incomplete"}, Pages!Tell(l, op, o),
         UNCHANGED <<page, conversation>>
  PROVE  HeldTold(l)'
<1>1. \A p \in Pages!Op : answer'[l][p] = IF p = op THEN o ELSE answer[l][p]
  BY Ops, AnswerSet
<1>2. StopDone(l)' => StopDone(l)
  BY <1>1, Ops DEF StopDone
<1> QED
  BY <1>2 DEF HeldTold, Pages!Known

LEMMA WorkerHeld ==
  ASSUME TypeOK, WorkersFit, PagesTold, Clocked, Held, ~SubmitAfterStop, NEW l \in Lease, WorkerStep(l)
  PROVE  Held'
<1>1. Local(l) /\ WorkerActs(l)
  BY WorkerFits DEF WorkerStep
<1>2. Ready(l) /\ Sited(l) /\ Pages!TypeOK /\ HeldTold(l)
  BY SitedAll DEF PagesTold, Clocked, WorkerStep, lockVars, Ready, Held
<1>3. Others(l) /\ HeldTold(l)'
  <2>1. CASE \/ Prepare(l) \/ Discard(l) \/ CloseCancelled(l) \/ CloseExpired(l) \/ SubmitPrompt(l)
             \/ CaptureAnswer(l) \/ StopIncomplete(l) \/ ClosePage(l)
    <3>1. PICK pc, op : /\ <<worker[l], pc, op>> \in Asked
                        /\ Pages!Call(l, op) /\ UNCHANGED vars
      BY <2>1 DEF Prepare, Discard, CloseCancelled, CloseExpired, SubmitPrompt, CaptureAnswer,
         StopIncomplete, ClosePage, Asks, Waiting, Asked, Told
    <3>2. StateOf(l)' = StateOf(l)
      BY <3>1 DEF vars, taskVars, StateOf
    <3> QED
      BY <1>2, <2>1, <3>1, <3>2, AskHeld, WorkerAsks
  <2>2. CASE RecordAccount(l) \/ WorkerTimesOut(l)
    <3>1. PICK op \in Pages!Op, o \in {"failed", "incomplete"} :
            Pages!Tell(l, op, o) /\ UNCHANGED <<page, conversation>>
      <4>1. CASE RecordAccount(l)
        BY <4>1, Ops DEF RecordAccount, Waiting
      <4>2. CASE WorkerTimesOut(l)
        BY <4>2, Ops DEF WorkerTimesOut, Pages!TimeOut, Waiting
      <4> QED
        BY <2>2, <4>1, <4>2
    <3>2. UNCHANGED <<attemptState, acceptedAt>>
      BY <2>2, Zenon DEF RecordAccount, WorkerTimesOut, AccountExpired, RateLimited, vars, taskVars
    <3>3. StateOf(l)' = StateOf(l)
      BY <3>2 DEF StateOf
    <3> QED
      BY <1>2, <2>2, <3>1, <3>3, ToldAgainHeld, WorkerRecords
  <2>3. CASE \/ Prepared(l) \/ PrepareFailed(l) \/ Discarded(l) \/ CancelClosed(l) \/ CloseRefused(l)
             \/ ExpiredClosed(l) \/ PromptAccepted(l) \/ SubmissionFailed(l) \/ CaptureFailed(l)
             \/ CaptureComplete(l) \/ Stopped(l) \/ StopUnconfirmed(l) \/ PageClosed(l)
    <3>1. Take(l) /\ Onward(l)
      BY <1>2, <2>3, WorkerGoesOn
    <3>2. Others(l) /\ Silent(l)
      BY <1>2, <3>1, TakeMakes, Ops DEF Silent
    <3> QED
      BY <1>2, <3>1, <3>2, OnwardHeld
  <2>4. CASE PromptFails(l) \/ SuspendRun(l) \/ PollExpired(l) \/ Begin(l)
    <3>1. UNCHANGED pageVars /\ Onward(l)
      BY <2>4, WorkerMoves
    <3>2. worker[l] \in {"claimed", "suspending", "polling"}
      BY <2>4 DEF PromptFails, SuspendRun, PollExpired, Begin
    <3>3. Silent(l) /\ Others(l)
      BY <1>2, <3>1, <3>2 DEF pageVars, Silent, Ready, LeaseTold, AnswerTold, Others, SamePage
    <3> QED
      BY <1>2, <3>1, <3>3, OnwardHeld
  <2> QED
    BY <1>1, <2>1, <2>2, <2>3, <2>4 DEF WorkerActs
<1>4. ASSUME NEW m \in Lease, m # l PROVE HeldTold(m)'
  <2>1. StateOf(m)' = StateOf(m) /\ SamePage(m)
    BY <1>1, <1>3, <1>4 DEF Local, StateOf, Others
  <2> QED
    BY <2>1, HeldUntouched DEF Held
<1> QED
  BY <1>3, <1>4 DEF Held

\* Steps that leave pages and attempts alone, and steps about the page of one.
LEMMA QuietHeld ==
  ASSUME Held, UNCHANGED <<pageVars, attemptState>>
  PROVE  Held'
BY HeldUntouched DEF Held, pageVars, SamePage, StateOf

LEMMA PageStepHeld ==
  ASSUME Held, NEW l \in Lease, UNCHANGED attemptState, Others(l),
         HeldTold(l) /\ StateOf(l)' = StateOf(l) => HeldTold(l)'
  PROVE  Held'
BY HeldUntouched DEF Held, Others, StateOf

\* The tick stops what must stop: an attempt whose worker does not know its
\* conversation is not accepted.
LEMMA LookHeld ==
  ASSUME WorkersFit, PagesTold, Held, NEW l \in Lease, Look(l)
  PROVE  Held'
<1>1. UNCHANGED attemptState /\ engine = "stopping" /\ l \in visit
  BY DEF Look, vars, taskVars
<1>2. CASE Pages!Call(l, "halt")
  <2>1. Pages!TypeOK /\ Sited(l) /\ LeaseTold(l) /\ worker[l] # "none" /\ "halt" \in Pages!Op
    BY <1>1, SitedAll, Ops DEF PagesTold, Looking
  <2>2. Others(l) /\ Calls(l, "halt")
    BY <1>2, <2>1, CallMakes DEF Others
  <2>3. page[l].submission = "none" => StateOf(l) \notin {"none", "accepted"}
    <3>1. StateOf(l) # "none"
      BY <2>1, Positions DEF Sited, Fits, ToSend, Sending, Answering, Past
    <3>2. ASSUME StateOf(l) = "accepted" PROVE worker[l] \in Answering
      BY <2>1, <3>2, Positions DEF Sited, Fits, ToSend, Sending, Answering, Past,
         LeaseTold, PlaceTold, Final
    <3>3. page[l].submission = "none" => worker[l] \notin Answering
      BY <2>1 DEF LeaseTold, EndTold, Pages!Known
    <3> QED
      BY <3>1, <3>2, <3>3
  <2>4. ASSUME HeldTold(l), StateOf(l)' = StateOf(l) PROVE HeldTold(l)'
    <3>1. /\ page'[l].submission = page[l].submission /\ conversation' = conversation
          /\ StopDone(l)' => StopDone(l) \/ page[l].submission = "none"
      BY <2>2, Ops DEF Calls, StopDone
    <3> QED
      BY <2>3, <2>4, <3>1 DEF HeldTold, Pages!Known
  <2> QED
    BY <1>1, <2>2, <2>4, PageStepHeld
<1>3. CASE UNCHANGED pageVars
  BY <1>1, <1>3, QuietHeld
<1> QED
  BY <1>2, <1>3 DEF Look

LEMMA LockHeld ==
  ASSUME Ledger, WorkersFit, PagesTold, Held, LockStep
  PROVE  Held'
<1>t. Pages!TypeOK /\ TypeOK
  BY DEF PagesTold, Ledger, TypeInv
<1>1. ASSUME NEW l \in Lease, Reap(l) PROVE Held'
  <2>1. UNCHANGED attemptState
    <3>1. CASE worker[l] = "error" /\ FailAttempt(l, "Uncertain")
      <4>1. StateOf(l) \in Live /\ StateOf(l) # "prepared"
        BY <3>1 DEF FailAttempt, FailCall, MayFail, Aborted
      <4>2. StateOf(l) \in Final \cup {"prepared"}
        BY <3>1 DEF PagesTold, LeaseTold, PlaceTold
      <4> QED
        BY <4>1, <4>2 DEF Live, Final
    <3>2. CASE UNCHANGED vars
      BY <3>2 DEF vars, taskVars
    <3> QED
      BY <1>1, <3>1, <3>2 DEF Reap
  <2> QED
    BY <1>1, <2>1, QuietHeld DEF Reap
<1>2. ASSUME NEW l \in Lease, Halted(l) PROVE Held'
  <2>1. /\ UNCHANGED attemptState /\ Pages!Tell(l, "halt", "none")
        /\ UNCHANGED <<page, handler, sent, conversation>> /\ "halt" \in Pages!Op
    BY <1>2, Ops DEF Halted, vars, taskVars
  <2>2. Others(l)
    BY <1>t, <2>1, AnswerSet DEF Others, SamePage
  <2> QED
    BY <1>t, <2>1, <2>2, ToldAgainHeld, PageStepHeld
<1>3. ASSUME NEW l \in Lease, Reattach(l) PROVE Held'
  <2>1. UNCHANGED attemptState /\ Pages!Call(l, "reattach") /\ "reattach" \in Pages!Op
    BY <1>3, Ops DEF Reattach, vars, taskVars
  <2>2. Others(l) /\ Calls(l, "reattach")
    BY <1>t, <2>1, CallMakes DEF Others
  <2>3. HeldTold(l) /\ StateOf(l)' = StateOf(l) => HeldTold(l)'
    BY <2>2, Ops DEF Calls, HeldTold, StopDone, Pages!Known
  <2> QED
    BY <2>1, <2>2, <2>3, PageStepHeld
<1>4. ASSUME NEW l \in Lease, Reattached(l) PROVE Held'
  <2>1. /\ UNCHANGED attemptState /\ Pages!Tell(l, "reattach", "none")
        /\ UNCHANGED <<page, handler, sent, conversation>> /\ "reattach" \in Pages!Op
    BY <1>4, Ops DEF Reattached, vars, taskVars
  <2>2. Others(l)
    BY <1>t, <2>1, AnswerSet DEF Others, SamePage
  <2> QED
    BY <1>t, <2>1, <2>2, ToldAgainHeld, PageStepHeld
<1>5. ASSUME NEW l \in Lease, EngineTimesOut(l) PROVE Held'
  <2>1. PICK op \in Pages!Op : Pages!TimeOut(l, op)
    BY <1>5, Ops DEF EngineTimesOut
  <2>2. /\ UNCHANGED attemptState /\ Pages!Tell(l, op, "failed")
        /\ UNCHANGED <<page, handler, sent, conversation>>
    BY <1>5, <2>1 DEF EngineTimesOut, Pages!TimeOut, vars, taskVars
  <2>3. Others(l)
    BY <1>t, <2>2, Ops, AnswerSet DEF Others, SamePage
  <2> QED
    BY <1>t, <2>2, <2>3, ToldAgainHeld, PageStepHeld
<1>6. ASSUME NEW r \in Runs, NEW t \in Task, NEW jitter \in 0..MaxJitter, EngineClaims(r, t, jitter)
      PROVE  Held'
  <2>1. PICK l \in Lease : l = [run |-> r, task |-> t, number |-> attempts[r][t] + 1]
    <3>1. attempts[r][t] \in 0..MaxAttempts /\ attempts[r][t] < MaxAttempts
      BY <1>t, <1>6 DEF TypeOK, EngineClaims, ClaimTask, NextTasks
    <3>2. [run |-> r, task |-> t, number |-> attempts[r][t] + 1] \in Lease
      BY <3>1, PipelineAssumption DEF Lease, Number
    <3> QED
      BY <3>2
  <2>2. SetAttempt(l, "prepared") /\ UNCHANGED pageVars
    BY <1>6, <2>1 DEF EngineClaims, ClaimTask
  <2>3. StateOf(l) = "none"
    <3>1. LatestLive
      BY LatestLiveMeans DEF Ledger
    <3>2. l.run = r /\ l.task = t /\ l.number = attempts[r][t] + 1 /\ attempts[r][t] \in Nat
      BY <1>t, <2>1 DEF TypeOK
    <3> QED
      BY <3>1, <3>2 DEF LatestLive
  <2>4. StateOf(l)' = "prepared" /\ \A m \in Lease : m # l => StateOf(m)' = StateOf(m)
    BY <1>t, <2>2, AttemptAt DEF StateOf
  <2>5. ASSUME NEW m \in Lease PROVE HeldTold(m)'
    <3>1. SamePage(m) /\ HeldTold(m)
      BY <2>2 DEF pageVars, SamePage, Held
    <3>2. CASE m # l
      BY <2>4, <3>1, <3>2, HeldUntouched
    <3>3. CASE m = l
      BY <2>3, <2>4, <3>1, <3>3 DEF HeldTold, SamePage, StopDone, Pages!Known, Live
    <3> QED
      BY <3>2, <3>3
  <2> QED
    BY <2>5 DEF Held
<1>7. CASE ReapingEnds \/ StoppingEnds \/ TickEnds \/ RecoveringEnds \/ ResumingEnds
  BY <1>7, QuietHeld DEF ReapingEnds, StoppingEnds, TickEnds, ClaimNone, RecoveringEnds, ResumingEnds,
     Turns, vars, taskVars
<1>8. ASSUME NEW r \in Runs, ResumeRecovered(r) PROVE Held'
  BY <1>8, QuietHeld DEF ResumeRecovered, ResumeReattached, vars, taskVars
<1> QED
  BY <1>1, <1>2, <1>3, <1>4, <1>5, <1>6, <1>7, <1>8, LookHeld DEF LockStep, TickStep, RecoveryStep

LEMMA HeldStep ==
  ASSUME PagesInv, Held, [EngineNext]_engineVars, ~SubmitAfterStop
  PROVE  Held'
<1> Ledger /\ TypeOK /\ WorkersFit /\ PagesTold
  BY DEF PagesInv, EngineInv, Ledger, TypeInv
<1>1. Clocked
  BY EngineRefines, ExemptKept DEF PagesInv, Clocked
<1>2. ASSUME NEW l \in Lease, WorkerStep(l) PROVE Held'
  BY <1>1, <1>2, WorkerHeld
<1>3. CASE LockStep
  BY <1>3, LockHeld
<1>4. CASE BridgeStep
  <2>1. PICK l \in Lease : Pages!HandlerStep(l) \/ Pages!ProviderStep(l)
    BY <1>4 DEF BridgeStep
  <2>2. UNCHANGED <<worker, attemptState, acceptedAt, engine, visit>>
    BY <1>4 DEF BridgeStep, vars, taskVars, lockVars
  <2>3. Standing(l)
    BY <1>1, <2>2, SitedAll DEF PagesTold, Clocked, Standing, SamePlace, StateOf, AcceptedOf
  <2> QED
    BY <2>1, <2>2, <2>3, BridgeTold, HandlerHeld, PageStepHeld
<1>5. CASE TickBegins \/ UNCHANGED engineVars
  BY <1>5, QuietHeld DEF TickBegins, engineVars, vars, taskVars
<1>6. CASE Environment
  <2>1. UNCHANGED <<attemptState, acceptedAt>>
    BY <1>6, Zenon DEF Environment, Submit, Suspend, Cancel, Resume, AccountExpired, RateLimited,
       VerifyMismatch, Tick, vars, taskVars
  <2> QED
    BY <1>6, <2>1, QuietHeld DEF Environment
<1>7. ASSUME NEW a \in Accounts, Verified(a) \/ RestoreAccount(a) PROVE Held'
  BY <1>7, QuietHeld DEF Verified, VerifyAccount, ConfirmAccount, RestoreAccount, RestoreReadiness,
     AccountExpired, taskVars
<1>8. CASE Restart
  <2>1. \A m \in Lease : StateOf(m)' = IF StateOf(m) = "prepared" THEN "failed"
                                       ELSE IF StateOf(m) = "submitting" THEN "uncertain"
                                       ELSE StateOf(m)
    BY <1>8, RecoveredState DEF Restart, Ledger
  <2>2. ASSUME NEW m \in Lease PROVE HeldTold(m)'
    <3>1. /\ conversation'[m] = conversation[m] /\ page'[m].stopping = "none"
          /\ answer'[m]["stop"] = "none" /\ HeldTold(m) /\ SentTold(m)
      BY <1>8, Ops DEF Restart, Pages!Lost, Pages!NoPage, Held, PagesTold, LeaseTold
    <3> QED
      BY <2>1, <3>1 DEF HeldTold, SentTold, StopDone, Live
  <2> QED
    BY <2>2 DEF Held
<1> QED
  BY <1>2, <1>3, <1>4, <1>5, <1>6, <1>7, <1>8 DEF EngineNext

\* While no submit begins on a page whose stop is remembered as one that
\* succeeded, no conversation outlives its reservation, also of a cancelled or
\* expired run: that order of stop and submit (concept-bridge.mjs:152) is the
\* only way to the disagreement with db/constraints/README.md.
THEOREM OnlyLateSubmitsEscape == StoppedStaySpec => []CancelledKeepsCapacity
<1>1. EngineInit => Held
  <2> SUFFICES ASSUME EngineInit, NEW l \in Lease PROVE HeldTold(l)
    BY DEF Held
  <2>1. conversation[l] = "none" /\ page[l].stopping = "none" /\ answer[l]["stop"] = "none"
    BY Ops DEF EngineInit, Pages!Init, Pages!NoPage
  <2> QED
    BY <2>1 DEF HeldTold, StopDone
<1>2. [EngineNext /\ ~SubmitAfterStop]_engineVars => [EngineNext]_engineVars
  OBVIOUS
<1>3. StoppedStaySpec => EngineSpec
  BY <1>2, PTL DEF StoppedStaySpec, EngineSpec
<1>4. PagesInv /\ Held /\ [EngineNext /\ ~SubmitAfterStop]_engineVars => Held'
  <2>1. UNCHANGED engineVars => ~SubmitAfterStop
    BY DEF engineVars, pageVars, SubmitAfterStop
  <2> QED
    BY <1>2, <2>1, HeldStep
<1>5. PagesInv /\ Held => CancelledKeepsCapacity
  BY DEF PagesInv, EngineInv, Ledger, ReservedExactlyWhileLive, Held, HeldTold, CancelledKeepsCapacity
<1> QED
  BY <1>1, <1>3, <1>4, <1>5, PagesInductive, PTL DEF StoppedStaySpec
============================================================================

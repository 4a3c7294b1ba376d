--------------------------- MODULE WorkflowStore ---------------------------
(***************************************************************************)
(* The durable scheduler of concept workflows (crates/jailgun-workflow).   *)
(*                                                                         *)
(* Every operation of Store runs on one writer thread inside one SQLite    *)
(* transaction, so each is one atomic action here; an operation that       *)
(* returns an error before its commit changes nothing and is a stuttering  *)
(* step.  Callers are unconstrained: any lease ever handed out may be      *)
(* presented at any time, in any order, also after a restart.              *)
(*                                                                         *)
(* A run has Candidates exploration tasks, 1..Candidates, and a chain of   *)
(* Reductions tasks after them (compare, synthesize, critique, revise in   *)
(* the code); numeric order is the order of read_run's ORDER BY.  A run    *)
(* stands for its idempotency key: submit with a known key changes nothing.*)
(*                                                                         *)
(* An operator whose comment starts with "Variant" is a plausible mistake  *)
(* in the definition below it; no specification uses it.  The properties   *)
(* are shown to tell it from the code.                                     *)
(***************************************************************************)
EXTENDS Integers, FiniteSets

CONSTANTS
  Runs,             \* run identities, numbered in the order of runs.id
  Accounts,         \* registered browser accounts
  AccountOf,        \* the account each run's request names
  Capacity,         \* min(accounts.capacity, 10)
  Candidates,       \* candidate_count of a request (5..10 in the code)
  Reductions,       \* length of the reduction chain (4 in the code)
  MinComplete,      \* completed candidates needed to compare (3 in the code)
  MaxAttempts,      \* CHECK(tasks.attempts BETWEEN 0 AND 28)
  Spacing,          \* SUBMISSION_SPACING_MS
  MaxJitter,        \* MAX_JITTER_MS
  RunDeadline,      \* RUN_DEADLINE_MS
  ResponseTimeout,  \* configuration.response_timeout_ms
  RetryDelays,      \* waits a provider announces, the 5 minute default included
  MaxNow,           \* bound on the clock
  MaxLimits         \* bound on accounts.rate_limit_count

ASSUME RunsAssumption == Runs \subseteq Nat /\ IsFiniteSet(Runs)
ASSUME AccountsAssumption == AccountOf \in [Runs -> Accounts]
ASSUME CapacityAssumption == Capacity \in Nat \ {0}
ASSUME PipelineAssumption ==
  /\ Candidates \in Nat \ {0}
  /\ Reductions \in Nat \ {0}
  /\ MinComplete \in 1..Candidates
  /\ MaxAttempts \in Nat \ {0}
ASSUME ClockAssumption ==
  /\ Spacing \in Nat
  /\ MaxJitter \in Nat
  /\ RunDeadline \in Nat \ {0}
  /\ ResponseTimeout \in Nat
  /\ RetryDelays \subseteq Nat
  /\ MaxNow \in Nat
  /\ MaxLimits \in Nat

VARIABLES
  now,           \* the clock the daemon passes to every operation
  account,       \* accounts: readiness, pacing and cooldown columns
  runStatus,     \* runs.status, "absent" before submit
  recovery,      \* runs.recovery_status
  deadline,      \* runs.deadline_ms (created_ms plus a constant)
  submissions,   \* runs.submissions
  subset,        \* runs.allow_incomplete
  turn,          \* order of each run's last attempt-prepared event, 0 for none
  taskStatus,    \* tasks.status
  attempts,      \* tasks.attempts
  attemptState,  \* attempts.state by number, "none" for a row not inserted
  acceptedAt,    \* attempts.accepted_ms, NotAccepted for NULL
  reservations   \* reservations: the lease of each and its spacing_ms

runVars == <<recovery, deadline, submissions, subset, turn>>
taskVars == <<taskStatus, attempts, attemptState, acceptedAt, reservations>>
vars == <<now, account, runStatus, runVars, taskVars>>

---------------------------------------------------------------------------
Explore == 1..Candidates
Task == 1..(Candidates + Reductions)
Compare == Candidates + 1
Revise == Candidates + Reductions
Number == 1..MaxAttempts
SubmissionLimit == 2 * (Candidates + Reductions)
AutomaticAttempts == 2
NotAccepted == -1

Readiness == {"login-required", "ready", "expired", "mismatch", "cooldown", "paused"}
Terminal == {"completed", "cancelled", "failed"}
Schedulable == {"queued", "running"}
Recoverable == {"queued", "running", "paused", "waiting-for-auth"}
RunStatus == {"absent", "reconciliation-required"} \cup Recoverable \cup Terminal
TaskStatus == {"queued", "running", "completed", "partial", "failed", "excluded"}
Live == {"prepared", "submitting", "accepted", "uncertain"}
AttemptState == {"none", "completed", "partial", "failed", "cancelled"} \cup Live

Disposition == {"DefinitelyNotAccepted", "CompletedRetryable", "Uncertain", "Terminal"}
Lease == [run : Runs, task : Task, number : Number]
Reservation == [lease : Lease, spacing : Nat]
AccountRow ==
  [readiness : Readiness, nextSubmit : Nat, allowed : Nat, cooldown : Nat, limits : Nat]

\* What store_capture makes of a response: usable, complete but unusable,
\* written by another model than the one requested, or cut short.
Verdict == {"complete", "invalid", "model-mismatch", "interrupted"}

StateOf(l) == attemptState[l.run][l.task][l.number]
Owns(l) == \E v \in reservations : v.lease = l
Issued == {l \in Lease : StateOf(l) # "none"}
ReservationsOf(r) == {v \in reservations : v.lease.run = r}
ActiveOn(a) == {v \in reservations : AccountOf[v.lease.run] = a}

SetAttempt(l, s) == attemptState' = [attemptState EXCEPT ![l.run][l.task][l.number] = s]
SetTask(l, s) == taskStatus' = [taskStatus EXCEPT ![l.run][l.task] = s]

\* Variant: the reservation row is not deleted.
KeepReserved(l) == reservations

Release(l) == {v \in reservations : v.lease # l}

TypeOK ==
  /\ now \in Nat
  /\ account \in [Accounts -> AccountRow]
  /\ runStatus \in [Runs -> RunStatus]
  /\ recovery \in [Runs -> Recoverable \cup {"none"}]
  /\ deadline \in [Runs -> Nat]
  /\ submissions \in [Runs -> 0..SubmissionLimit]
  /\ subset \in [Runs -> BOOLEAN]
  /\ turn \in [Runs -> Int]
  /\ taskStatus \in [Runs -> [Task -> TaskStatus]]
  /\ attempts \in [Runs -> [Task -> 0..MaxAttempts]]
  /\ attemptState \in [Runs -> [Task -> [Number -> AttemptState]]]
  /\ acceptedAt \in [Runs -> [Task -> [Number -> Nat \cup {NotAccepted}]]]
  /\ reservations \subseteq Reservation

Init ==
  /\ now = 0
  /\ \E ready \in [Accounts -> {"ready", "login-required"}] :
       account = [a \in Accounts |-> [readiness |-> ready[a], nextSubmit |-> 0, allowed |-> 0,
                                      cooldown |-> 0, limits |-> 0]]
  /\ runStatus = [r \in Runs |-> "absent"]
  /\ recovery = [r \in Runs |-> "none"]
  /\ deadline = [r \in Runs |-> 0]
  /\ submissions = [r \in Runs |-> 0]
  /\ subset = [r \in Runs |-> FALSE]
  /\ turn = [r \in Runs |-> 0]
  /\ taskStatus = [r \in Runs |-> [t \in Task |-> "queued"]]
  /\ attempts = [r \in Runs |-> [t \in Task |-> 0]]
  /\ attemptState = [r \in Runs |-> [t \in Task |-> [n \in Number |-> "none"]]]
  /\ acceptedAt = [r \in Runs |-> [t \in Task |-> [n \in Number |-> NotAccepted]]]
  /\ reservations = {}

Tick ==
  /\ now < MaxNow
  /\ now' = now + 1
  /\ UNCHANGED <<account, runStatus, runVars, taskVars>>

---------------------------------------------------------------------------
(* runs.rs *)

InitialStatus(r) ==
  IF account[AccountOf[r]].readiness \in {"ready", "cooldown"} THEN "queued" ELSE "waiting-for-auth"

Submit(r) ==
  /\ runStatus[r] = "absent"
  /\ runStatus' = [runStatus EXCEPT ![r] = InitialStatus(r)]
  /\ deadline' = [deadline EXCEPT ![r] = now + RunDeadline]
  /\ UNCHANGED <<now, account, recovery, submissions, subset, turn, taskVars>>

\* pause is Suspend with the reason operator-paused.
Suspend(r) ==
  /\ runStatus[r] \in {"queued", "running", "waiting-for-auth"}
  /\ runStatus' = [runStatus EXCEPT ![r] = "paused"]
  /\ UNCHANGED <<now, account, runVars, taskVars>>

\* Variant: the deadline is not checked again.
WithinBudget(r) == submissions[r] < SubmissionLimit

WithinLimits(r) == now < deadline[r] /\ submissions[r] < SubmissionLimit

CompletedCandidates(r) == {t \in Explore : taskStatus[r][t] = "completed"}

\* Retry stopped work: the latest attempt must itself have ended failed or partial.
Retried(r, t) ==
  /\ taskStatus[r][t] \in {"failed", "partial"}
  /\ attempts[r][t] < MaxAttempts
  /\ \E n \in Number : n = attempts[r][t] /\ attemptState[r][t][n] \in {"failed", "partial"}

ResumeRetry(r) ==
  /\ taskStatus' = [taskStatus EXCEPT ![r] =
       [t \in Task |-> IF Retried(r, t) THEN "queued" ELSE taskStatus[r][t]]]
  /\ UNCHANGED subset

ResumeSubset(r) ==
  /\ Cardinality(CompletedCandidates(r)) >= MinComplete
  /\ ReservationsOf(r) = {}
  /\ \A t \in Task \ Explore : taskStatus[r][t] = "queued"
  /\ taskStatus' = [taskStatus EXCEPT ![r] =
       [t \in Task |-> IF t \in Explore /\ taskStatus[r][t] # "completed"
                       THEN "excluded" ELSE taskStatus[r][t]]]
  /\ subset' = [subset EXCEPT ![r] = TRUE]

Resume(r, allowIncomplete) ==
  /\ runStatus[r] = "paused"
  /\ WithinLimits(r)
  /\ IF allowIncomplete THEN ResumeSubset(r) ELSE ResumeRetry(r)
  /\ runStatus' = [runStatus EXCEPT ![r] = InitialStatus(r)]
  /\ UNCHANGED <<now, account, recovery, deadline, submissions, turn,
                 attempts, attemptState, acceptedAt, reservations>>

\* Reservations outlive cancellation until the pages are known to be stopped.
Cancel(r) ==
  /\ runStatus[r] \notin Terminal \cup {"absent"}
  /\ runStatus' = [runStatus EXCEPT ![r] = "cancelled"]
  /\ UNCHANGED <<now, account, runVars, taskVars>>

---------------------------------------------------------------------------
(* scheduler.rs *)

ExplorationDone(r) ==
  /\ \A t \in Explore : \/ taskStatus[r][t] = "completed"
                        \/ subset[r] /\ taskStatus[r][t] = "excluded"
  /\ Cardinality(CompletedCandidates(r)) >= MinComplete

\* Variant: a reduction does not wait for the exploration.
UnblockedByPredecessor(r, t) ==
  t <= Compare \/ taskStatus[r][t - 1] = "completed"

Unblocked(r, t) ==
  \/ t \in Explore
  \/ ExplorationDone(r) /\ (t = Compare \/ taskStatus[r][t - 1] = "completed")

\* Variant: the claimed task need not be queued.
NextTasksOfAnyStatus(r) ==
  {t \in Task : /\ taskStatus[r][t] \in {"queued", "running"}
                /\ attempts[r][t] < MaxAttempts
                /\ Unblocked(r, t)}

NextTasks(r) ==
  {t \in Task : taskStatus[r][t] = "queued" /\ attempts[r][t] < MaxAttempts /\ Unblocked(r, t)}

Expired(r) == runStatus[r] \in Recoverable /\ deadline[r] <= now

Exhausted(r) ==
  runStatus[r] \in Schedulable /\ now < deadline[r] /\ submissions[r] >= SubmissionLimit

\* Variant: off by one at the account's capacity.
AccountOpenAtCapacity(a) ==
  /\ account[a].readiness = "ready"
  /\ now >= account[a].nextSubmit
  /\ now >= account[a].cooldown
  /\ Cardinality(ActiveOn(a)) <= Capacity

\* The account of a run that claim's loop does not skip.
AccountOpen(a) ==
  /\ account[a].readiness = "ready"
  /\ now >= account[a].nextSubmit
  /\ now >= account[a].cooldown
  /\ Cardinality(ActiveOn(a)) < Capacity

Considered(r) ==
  runStatus[r] \in Schedulable /\ WithinLimits(r) /\ AccountOpen(AccountOf[r])

Claimable(r) == Considered(r) /\ NextTasks(r) # {}

Incomplete(r) ==
  /\ Considered(r)
  /\ NextTasks(r) = {}
  /\ \A t \in Task : taskStatus[r][t] # "running"
  /\ \E t \in Task : taskStatus[r][t] \in {"failed", "partial"}

\* Variant: the oldest run always goes first.
BeforeByAge(q, r) == deadline[q] < deadline[r] \/ (deadline[q] = deadline[r] /\ q < r)

\* ORDER BY last attempt-prepared event, created_ms, id.
Before(q, r) ==
  \/ turn[q] < turn[r]
  \/ turn[q] = turn[r] /\ deadline[q] < deadline[r]
  \/ turn[q] = turn[r] /\ deadline[q] = deadline[r] /\ q < r

Visited(r) == {q \in Runs : Before(q, r)}

\* The runs claim pauses when it looks at the runs in seen.
PausedByClaim(seen) ==
  {q \in Runs : Expired(q) \/ (q \in seen /\ (Exhausted(q) \/ Incomplete(q)))}

\* The event sequence, renumbered densely so that it stays bounded.
Renumbered(r) ==
  LET claimed == {q \in Runs : turn[q] > 0}
  IN  [q \in Runs |->
        IF q = r THEN Cardinality(claimed \cup {r})
        ELSE IF turn[r] > 0 /\ turn[q] > turn[r] THEN turn[q] - 1 ELSE turn[q]]

ClaimTask(r, t, jitter) ==
  LET l == [run |-> r, task |-> t, number |-> attempts[r][t] + 1]
      spacing == Spacing + jitter
      paused == PausedByClaim(Visited(r))
  IN  /\ Claimable(r)
      /\ \A q \in Visited(r) : ~Claimable(q)
      /\ t \in NextTasks(r)
      /\ \A u \in NextTasks(r) : t <= u
      /\ SetTask(l, "running")
      /\ attempts' = [attempts EXCEPT ![r][t] = attempts[r][t] + 1]
      /\ SetAttempt(l, "prepared")
      /\ reservations' = reservations \cup {[lease |-> l, spacing |-> spacing]}
      /\ account' = [account EXCEPT ![AccountOf[r]].nextSubmit = now + spacing]
      /\ runStatus' = [q \in Runs |-> IF q = r THEN "running"
                                      ELSE IF q \in paused THEN "paused" ELSE runStatus[q]]
      /\ turn' = Renumbered(r)
      /\ UNCHANGED <<now, recovery, deadline, submissions, subset, acceptedAt>>

\* claim that finds nothing to hand out still commits its pauses.
ClaimNone ==
  /\ \A r \in Runs : ~Claimable(r)
  /\ runStatus' = [q \in Runs |-> IF q \in PausedByClaim(Runs) THEN "paused" ELSE runStatus[q]]
  /\ UNCHANGED <<now, account, runVars, taskVars>>

\* Variant: the account's readiness is only checked by claim.
SubmittableOnAnyAccount(r) == runStatus[r] \in Schedulable /\ WithinLimits(r)

Submittable(r) ==
  runStatus[r] \in Schedulable /\ account[AccountOf[r]].readiness = "ready" /\ WithinLimits(r)

\* Variant: pacing is left to claim.
PacedByClaim(a) == TRUE

Paced(a) == now >= account[a].allowed

\* Variant: the budget is charged later, not before the provider is called.
ChargedLater(r) == submissions

Charged(r) == [submissions EXCEPT ![r] = submissions[r] + 1]

BeginSubmission(l) ==
  \E v \in reservations :
    LET a == AccountOf[l.run]
        next == now + v.spacing
    IN  /\ v.lease = l
        /\ Submittable(l.run)
        /\ Paced(a)
        /\ StateOf(l) = "prepared"
        /\ SetAttempt(l, "submitting")
        /\ runStatus' = [runStatus EXCEPT ![l.run] = "running"]
        /\ submissions' = Charged(l.run)
        /\ account' = [account EXCEPT
             ![a].allowed = next,
             ![a].nextSubmit = IF account[a].nextSubmit > next THEN account[a].nextSubmit ELSE next]
        /\ UNCHANGED <<now, recovery, deadline, subset, turn,
                       taskStatus, attempts, acceptedAt, reservations>>

Accepted(l) ==
  /\ Owns(l)
  /\ StateOf(l) = "submitting"
  /\ SetAttempt(l, "accepted")
  /\ acceptedAt' = [acceptedAt EXCEPT ![l.run][l.task][l.number] = now]
  /\ UNCHANGED <<now, account, runStatus, runVars, taskStatus, attempts, reservations>>

\* A run leaves reconciliation with its last reservation (recovery.rs).
Settles(r, remaining) ==
  runStatus[r] = "reconciliation-required" /\ \A v \in remaining : v.lease.run # r

\* Variant: a reconciled run is always queued again.
RestoredQueued(r) == "queued"

Restored(r) == IF recovery[r] = "paused" THEN "paused" ELSE "queued"

SettleReconciliation(r, remaining) ==
  IF Settles(r, remaining)
  THEN /\ runStatus' = [runStatus EXCEPT ![r] = Restored(r)]
       /\ recovery' = [recovery EXCEPT ![r] = "none"]
  ELSE UNCHANGED <<runStatus, recovery>>

RequireReconciliation(r) ==
  IF runStatus[r] \in Terminal
  THEN UNCHANGED <<runStatus, recovery>>
  ELSE /\ runStatus' = [runStatus EXCEPT ![r] = "reconciliation-required"]
       /\ recovery' = IF runStatus[r] = "reconciliation-required"
                      THEN recovery ELSE [recovery EXCEPT ![r] = runStatus[r]]

\* What fail_attempt itself asks of the attempt.
MayFail(state, disposition) ==
  /\ state \in Live
  /\ disposition = "DefinitelyNotAccepted" => state # "accepted"
  /\ disposition = "CompletedRetryable" => state = "accepted"

\* What it leaves to the database: checked_attempt_transition refuses the write
\* of an attempt that is still prepared, and the call ends without an effect.
Aborted(state, disposition) == disposition = "Uncertain" /\ state = "prepared"

\* Variant: every release requeues the task.
RetriedAlways(l, retryable) == l.number < AutomaticAttempts /\ runStatus[l.run] # "cancelled"

RetriedAutomatically(l, retryable) ==
  retryable /\ l.number < AutomaticAttempts /\ runStatus[l.run] # "cancelled"

\* fail_attempt as it is written, up to the commit.
FailCall(l, disposition) ==
  /\ Owns(l)
  /\ MayFail(StateOf(l), disposition)
  /\ IF disposition = "Uncertain"
     THEN /\ SetAttempt(l, "uncertain")
          /\ SetTask(l, "running")
          /\ RequireReconciliation(l.run)
          /\ UNCHANGED reservations
     ELSE /\ SetAttempt(l, "failed")
          /\ SetTask(l, IF RetriedAutomatically(l, disposition # "Terminal")
                        THEN "queued" ELSE "failed")
          /\ reservations' = Release(l)
          /\ SettleReconciliation(l.run, Release(l))
  /\ UNCHANGED <<now, account, deadline, submissions, subset, turn, attempts, acceptedAt>>

FailAttempt(l, disposition) ==
  /\ ~Aborted(StateOf(l), disposition)
  /\ FailCall(l, disposition)

StoppedTask(l) ==
  IF taskStatus[l.run][l.task] = "running" THEN "failed" ELSE taskStatus[l.run][l.task]

AcknowledgeCancel(l) ==
  /\ Owns(l)
  /\ runStatus[l.run] = "cancelled"
  /\ SetAttempt(l, IF StateOf(l) \in Live THEN "cancelled" ELSE StateOf(l))
  /\ SetTask(l, StoppedTask(l))
  /\ reservations' = Release(l)
  /\ UNCHANGED <<now, account, runStatus, runVars, attempts, acceptedAt>>

---------------------------------------------------------------------------
(* artifacts.rs *)

TimedOut(l) ==
  \/ now >= deadline[l.run]
  \/ now - acceptedAt[l.run][l.task][l.number] >= ResponseTimeout

\* A late or preserved response is never complete; its text may still be kept.
Captured(l, verdict, text, release) ==
  /\ Owns(l)
  /\ StateOf(l) \in {"accepted", "uncertain"}
  /\ acceptedAt[l.run][l.task][l.number] # NotAccepted
  /\ verdict = "complete" => text
  /\ TimedOut(l) \/ ~release => verdict \in {"model-mismatch", "interrupted"}

Outcome(verdict, text) ==
  IF verdict = "complete" THEN "completed" ELSE IF text THEN "partial" ELSE "failed"

\* capture: the page finished or was stopped, so the reservation is released.
StoreCapture(l, verdict, text) ==
  LET r == l.run
      remaining == Release(l)
      finished == verdict = "complete" /\ l.task = Revise /\ runStatus[r] # "cancelled"
      mismatch == verdict = "model-mismatch" /\ runStatus[r] \notin Terminal
      a == AccountOf[r]
  IN  /\ Captured(l, verdict, text, TRUE)
      /\ SetAttempt(l, Outcome(verdict, text))
      /\ SetTask(l, IF RetriedAutomatically(l, verdict = "invalid")
                    THEN "queued" ELSE Outcome(verdict, text))
      /\ reservations' = remaining
      /\ recovery' = IF Settles(r, remaining) THEN [recovery EXCEPT ![r] = "none"] ELSE recovery
      /\ runStatus' = [runStatus EXCEPT ![r] =
           IF finished THEN "completed"
           ELSE IF mismatch THEN "paused"
           ELSE IF Settles(r, remaining) THEN Restored(r) ELSE runStatus[r]]
      /\ account' = IF verdict = "complete" /\ account[a].readiness = "ready"
                    THEN [account EXCEPT ![a].limits = 0] ELSE account
      /\ UNCHANGED <<now, deadline, submissions, subset, turn, attempts, acceptedAt>>

\* preserve_partial: stopping was not confirmed, so the capacity stays reserved.
PreservePartial(l, verdict, text) ==
  /\ Captured(l, verdict, text, FALSE)
  /\ SetAttempt(l, "uncertain")
  /\ SetTask(l, "running")
  /\ RequireReconciliation(l.run)
  /\ UNCHANGED <<now, account, deadline, submissions, subset, turn,
                 attempts, acceptedAt, reservations>>

---------------------------------------------------------------------------
(* recovery.rs *)

\* Reconcile every reservation at start-up, before scheduling.
Recover ==
  LET interrupted == {v \in reservations : StateOf(v.lease) = "prepared"}
      ambiguous == reservations \ interrupted
      Has(leases, r, t, n) == \E v \in leases : v.lease = [run |-> r, task |-> t, number |-> n]
      reconciled == {r \in Runs : /\ \E v \in ambiguous : v.lease.run = r
                                  /\ runStatus[r] \notin Terminal \cup {"reconciliation-required"}}
  IN  /\ attemptState' = [r \in Runs |-> [t \in Task |-> [n \in Number |->
           IF Has(interrupted, r, t, n) THEN "failed"
           ELSE IF Has(ambiguous, r, t, n) /\ attemptState[r][t][n] = "submitting" THEN "uncertain"
           ELSE attemptState[r][t][n]]]]
      /\ taskStatus' = [r \in Runs |-> [t \in Task |->
           IF \E n \in Number : Has(interrupted, r, t, n)
           THEN IF attempts[r][t] < AutomaticAttempts THEN "queued" ELSE "failed"
           ELSE taskStatus[r][t]]]
      /\ reservations' = ambiguous
      /\ recovery' = [r \in Runs |-> IF r \in reconciled THEN runStatus[r] ELSE recovery[r]]
      /\ runStatus' = [r \in Runs |-> IF r \in reconciled
                                      THEN "reconciliation-required" ELSE runStatus[r]]
      /\ UNCHANGED <<now, account, deadline, submissions, subset, turn, attempts, acceptedAt>>

\* Variant: an attempt that was reattached counts, whatever has become of it since.
ResumeAttached(r, reattached) ==
  /\ runStatus[r] = "reconciliation-required"
  /\ \A v \in ReservationsOf(r) : v.lease \in reattached
  /\ runStatus' = [runStatus EXCEPT ![r] = Restored(r)]
  /\ recovery' = [recovery EXCEPT ![r] = "none"]
  /\ UNCHANGED <<now, account, deadline, submissions, subset, turn, taskVars>>

\* Called with the attempts just reattached: every reservation must be one of them.
ResumeReattached(r, reattached) ==
  /\ runStatus[r] = "reconciliation-required"
  /\ \A v \in ReservationsOf(r) : StateOf(v.lease) = "accepted" /\ v.lease \in reattached
  /\ runStatus' = [runStatus EXCEPT ![r] = Restored(r)]
  /\ recovery' = [recovery EXCEPT ![r] = "none"]
  /\ UNCHANGED <<now, account, deadline, submissions, subset, turn, taskVars>>

---------------------------------------------------------------------------
(* accounts.rs and confirm_account of account_sessions.rs *)

\* Statuses once the account's runs wait for a login.
PauseAccountRuns(a) ==
  runStatus' = [r \in Runs |-> IF AccountOf[r] = a /\ runStatus[r] \in Schedulable
                               THEN "waiting-for-auth" ELSE runStatus[r]]

\* Variant: verification leaves the waiting runs to the operator.
ResumeNoRuns(a) == UNCHANGED runStatus

ResumeVerifiedRuns(a) ==
  runStatus' = [r \in Runs |-> IF /\ AccountOf[r] = a
                                  /\ runStatus[r] = "waiting-for-auth"
                                  /\ deadline[r] > now
                               THEN "queued" ELSE runStatus[r]]

AccountExpired(a) ==
  /\ account' = [account EXCEPT ![a].readiness = "expired"]
  /\ PauseAccountRuns(a)
  /\ UNCHANGED <<now, runVars, taskVars>>

RateLimited(a, delay) ==
  LET until == now + delay
  IN  /\ account[a].limits < MaxLimits
      /\ account' = [account EXCEPT
           ![a].limits = account[a].limits + 1,
           ![a].cooldown = IF account[a].cooldown > until THEN account[a].cooldown ELSE until,
           ![a].readiness = IF account[a].limits >= 1 THEN "paused" ELSE "cooldown"]
      /\ UNCHANGED <<now, runStatus, runVars, taskVars>>

\* A cancelled login session refuses verification; sessions are another module's state.
MayVerify(a, operator) ==
  /\ now >= account[a].cooldown
  /\ account[a].readiness = "paused" => operator

VerifyAccount(a, operator) ==
  /\ MayVerify(a, operator)
  /\ account' = [account EXCEPT ![a].readiness = "ready", ![a].cooldown = 0,
                                ![a].limits = IF operator THEN 0 ELSE account[a].limits]
  /\ ResumeVerifiedRuns(a)
  /\ UNCHANGED <<now, runVars, taskVars>>

VerifyMismatch(a, operator) ==
  /\ MayVerify(a, operator)
  /\ account' = [account EXCEPT ![a].readiness = "mismatch"]
  /\ PauseAccountRuns(a)
  /\ UNCHANGED <<now, runVars, taskVars>>

ConfirmAccount(a) ==
  /\ now >= account[a].cooldown
  /\ account' = [account EXCEPT ![a].readiness = "ready", ![a].cooldown = 0, ![a].limits = 0]
  /\ ResumeVerifiedRuns(a)
  /\ UNCHANGED <<now, runVars, taskVars>>

---------------------------------------------------------------------------
Claim == \E r \in Runs, t \in Task, jitter \in 0..MaxJitter : ClaimTask(r, t, jitter)

RunStep ==
  \E r \in Runs :
    \/ Submit(r)
    \/ Suspend(r)
    \/ \E allowIncomplete \in BOOLEAN : Resume(r, allowIncomplete)
    \/ Cancel(r)
    \/ ResumeReattached(r, Issued)

LeaseStep ==
  \E l \in Lease :
    \/ BeginSubmission(l)
    \/ Accepted(l)
    \/ \E d \in Disposition : FailAttempt(l, d)
    \/ AcknowledgeCancel(l)
    \/ \E verdict \in Verdict, text \in BOOLEAN :
         StoreCapture(l, verdict, text) \/ PreservePartial(l, verdict, text)

AccountStep ==
  \E a \in Accounts :
    \/ AccountExpired(a)
    \/ \E delay \in RetryDelays : RateLimited(a, delay)
    \/ \E operator \in BOOLEAN : VerifyAccount(a, operator) \/ VerifyMismatch(a, operator)
    \/ ConfirmAccount(a)

Next == Tick \/ Claim \/ ClaimNone \/ RunStep \/ LeaseStep \/ Recover \/ AccountStep

Spec == Init /\ [][Next]_vars

\* The database below.
Schema == INSTANCE WorkflowSchema

---------------------------------------------------------------------------
(* Safety properties *)

LiveAttempt(r, t, n) == attemptState[r][t][n] \in Live

\* A reservation row exists for exactly the attempts that may still be using
\* the browser, one row per attempt: capacity is neither leaked by a failure,
\* capture or recovery nor given back while a conversation can still run.
ReservedExactlyWhileLive ==
  /\ \A l \in Lease : Owns(l) <=> StateOf(l) \in Live
  /\ \A v, w \in reservations : v.lease = w.lease => v = w

\* Only a task's newest attempt can be live, and the task is running exactly
\* then: a retry never overlaps the attempt it replaces.
OnlyLatestAttemptLive ==
  \A r \in Runs, t \in Task :
    /\ \A n \in Number : /\ attemptState[r][t][n] # "none" <=> n <= attempts[r][t]
                         /\ LiveAttempt(r, t, n) => n = attempts[r][t]
    /\ taskStatus[r][t] = "running" <=> \E n \in Number : LiveAttempt(r, t, n)

\* A completed answer is never superseded by a later attempt, so result and
\* prompt, which look for a completed attempt, find the only one.
CompletedAnswerIsFinal ==
  \A r \in Runs, t \in Task :
    /\ \A n \in Number : attemptState[r][t][n] = "completed" =>
                           n = attempts[r][t] /\ taskStatus[r][t] = "completed"
    /\ taskStatus[r][t] = "completed" => \E n \in Number : attemptState[r][t][n] = "completed"

\* Across every run, an account never holds more conversations than its capacity.
CapacityRespected == \A a \in Accounts : Cardinality(ActiveOn(a)) <= Capacity

\* A reduction stage is attempted only on a settled exploration and a completed
\* predecessor, and nothing later (a retry, a subset, a restart) unsettles them.
PipelineOrder ==
  \A r \in Runs, t \in Task \ Explore :
    attempts[r][t] > 0 =>
      ExplorationDone(r) /\ (t > Compare => taskStatus[r][t - 1] = "completed")

\* Once the operator continued with a subset, the candidates are frozen.
SubsetIsFrozen ==
  \A r \in Runs, t \in Explore :
    /\ subset[r] => taskStatus[r][t] \in {"completed", "excluded"}
    /\ taskStatus[r][t] = "excluded" => subset[r]

\* A completed run has its whole chain, enough candidates, and holds no capacity.
CompletedRunIsWhole ==
  \A r \in Runs : runStatus[r] = "completed" =>
    /\ ExplorationDone(r)
    /\ \A t \in Task \ Explore : taskStatus[r][t] = "completed"
    /\ ReservationsOf(r) = {}

\* Every attempt the provider may have received was charged to the budget first.
SubmissionsCharged ==
  \A r \in Runs :
    Cardinality({l \in Issued : /\ l.run = r
                                /\ \/ StateOf(l) \in {"submitting", "uncertain"}
                                   \/ acceptedAt[r][l.task][l.number] # NotAccepted})
      <= submissions[r]

\* No run with time left waits for a login that has already happened.
NoMissedVerification ==
  \A r \in Runs : runStatus[r] = "waiting-for-auth" /\ now < deadline[r] =>
                    account[AccountOf[r]].readiness # "ready"

\* completed, cancelled and failed are final (trigger terminal_run_state): no
\* operation, however late, moves a run out of them.
TerminalIsFinal ==
  [][\A r \in Runs : runStatus[r] \in Terminal => runStatus'[r] = runStatus[r]]_vars

\* Doc (docs/concept-workflows.md:93-94): a submission whose acceptance is
\* uncertain requires reconciliation, and uncertainty blocks resume
\* (recovery.rs:13): its run is not scheduled meanwhile.
UncertaintyBlocksResume ==
  \A l \in Lease : StateOf(l) = "uncertain" => runStatus[l.run] \notin Schedulable
===========================================================================

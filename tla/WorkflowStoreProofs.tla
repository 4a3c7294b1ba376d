------------------------ MODULE WorkflowStoreProofs ------------------------
(***************************************************************************)
(* Proofs about WorkflowStore, for every value of its constants: the types *)
(* of its tables and the reservation ledger.                               *)
(***************************************************************************)
EXTENDS WorkflowStore, FiniteSetTheorems, TLAPS

\* The renumbered claim order is a number.
LEMMA RenumberedType ==
  ASSUME turn \in [Runs -> Int], NEW r \in Runs
  PROVE  Renumbered(r) \in [Runs -> Int]
<1> DEFINE claimed == {q \in Runs : turn[q] > 0}
<1>1. IsFiniteSet(claimed \cup {r})
  BY RunsAssumption, FS_Subset, claimed \cup {r} \subseteq Runs
<1>2. Cardinality(claimed \cup {r}) \in Nat
  BY <1>1, FS_CardinalityType
<1> QED
  BY <1>2 DEF Renumbered

\* Writing one attempt or one task keeps the shape of the table.
LEMMA AttemptUpdate ==
  ASSUME attemptState \in [Runs -> [Task -> [Number -> AttemptState]]],
         NEW l \in Lease, NEW s \in AttemptState, SetAttempt(l, s)
  PROVE  attemptState' \in [Runs -> [Task -> [Number -> AttemptState]]]
BY DEF SetAttempt, Lease

LEMMA TaskUpdate ==
  ASSUME taskStatus \in [Runs -> [Task -> TaskStatus]],
         NEW l \in Lease, NEW s \in TaskStatus, SetTask(l, s)
  PROVE  taskStatus' \in [Runs -> [Task -> TaskStatus]]
BY DEF SetTask, Lease

\* Reconciliation, and the account's logins, only move runs between statuses of the table.
LEMMA ReconciliationType ==
  ASSUME runStatus \in [Runs -> RunStatus], recovery \in [Runs -> Recoverable \cup {"none"}],
         NEW r \in Runs, NEW remaining, runStatus[r] # "absent",
         RequireReconciliation(r) \/ SettleReconciliation(r, remaining)
  PROVE  /\ runStatus' \in [Runs -> RunStatus]
         /\ recovery' \in [Runs -> Recoverable \cup {"none"}]
<1>1. CASE RequireReconciliation(r)
  <2>1. CASE runStatus[r] \in Terminal \cup {"reconciliation-required"}
    BY <1>1, <2>1 DEF RequireReconciliation, RunStatus
  <2>2. CASE runStatus[r] \in Recoverable
    BY <1>1, <2>2 DEF RequireReconciliation, RunStatus, Recoverable, Terminal
  <2> QED
    BY <2>1, <2>2 DEF RunStatus
<1>2. CASE SettleReconciliation(r, remaining)
  BY <1>2 DEF SettleReconciliation, Restored, RunStatus, Recoverable
<1> QED
  BY <1>1, <1>2

LEMMA LoginType ==
  ASSUME runStatus \in [Runs -> RunStatus], NEW a \in Accounts,
         PauseAccountRuns(a) \/ ResumeVerifiedRuns(a)
  PROVE  runStatus' \in [Runs -> RunStatus]
BY DEF PauseAccountRuns, ResumeVerifiedRuns, RunStatus, Recoverable

LEMMA TypeInit == Init => TypeOK
BY PipelineAssumption DEF Init, TypeOK, AccountRow, Task, Number, SubmissionLimit, Readiness,
   RunStatus, TaskStatus, AttemptState, NotAccepted, Reservation, runVars, taskVars

\* TypeOK alone is not inductive: reconciliation remembers the status of a run
\* that has a reservation, which is only one of Recoverable if the run exists.
OwnersSubmitted == \A v \in reservations : runStatus[v.lease.run] # "absent"

TypeInv == TypeOK /\ OwnersSubmitted

LEMMA TypeStep == TypeInv /\ [Next]_vars => TypeOK'
<1> SUFFICES ASSUME TypeOK, OwnersSubmitted, [Next]_vars PROVE TypeOK'
  BY DEF TypeInv
<1> USE DEF runVars, taskVars
<1> USE RunsAssumption, AccountsAssumption, PipelineAssumption, ClockAssumption
<1>a. now \in Nat /\ \A a \in Accounts : account[a] \in AccountRow
  BY DEF TypeOK
<1>1. CASE Tick
  BY <1>1 DEF Tick, TypeOK
<1>2. ASSUME NEW r \in Runs, NEW t \in Task, NEW jitter \in 0..MaxJitter, ClaimTask(r, t, jitter)
      PROVE  TypeOK'
  <2> DEFINE l == [run |-> r, task |-> t, number |-> attempts[r][t] + 1]
             spacing == Spacing + jitter
             row == [account[AccountOf[r]] EXCEPT !.nextSubmit = now + spacing]
  <2>1. attempts[r][t] \in 0..MaxAttempts /\ attempts[r][t] < MaxAttempts
    BY <1>2 DEF ClaimTask, NextTasks, TypeOK
  <2>2. l \in Lease
    BY <2>1 DEF Lease, Number
  <2>3. spacing \in Nat
    OBVIOUS
  <2>4. account' \in [Accounts -> AccountRow]
    <3>1. row \in AccountRow
      BY <1>a, <2>3 DEF AccountRow
    <3>2. account' = [account EXCEPT ![AccountOf[r]] = row]
      BY <1>2 DEF ClaimTask, TypeOK, AccountRow
    <3> QED
      BY <3>1, <3>2 DEF TypeOK
  <2>5. attemptState' \in [Runs -> [Task -> [Number -> AttemptState]]]
    <3>1. SetAttempt(l, "prepared")
      BY <1>2 DEF ClaimTask
    <3> QED
      BY <2>2, <3>1, AttemptUpdate DEF TypeOK, AttemptState, Live
  <2>6. taskStatus' \in [Runs -> [Task -> TaskStatus]]
    <3>1. SetTask(l, "running")
      BY <1>2 DEF ClaimTask
    <3> QED
      BY <2>2, <3>1, TaskUpdate DEF TypeOK, TaskStatus
  <2>7. attempts' \in [Runs -> [Task -> 0..MaxAttempts]]
    BY <1>2, <2>1 DEF ClaimTask, TypeOK
  <2>8. reservations' \subseteq Reservation
    BY <1>2, <2>2, <2>3 DEF ClaimTask, TypeOK, Reservation
  <2>9. runStatus' \in [Runs -> RunStatus]
    BY <1>2 DEF ClaimTask, TypeOK, RunStatus, Recoverable
  <2>10. turn' \in [Runs -> Int]
    BY <1>2, RenumberedType DEF ClaimTask, TypeOK
  <2> QED
    BY <1>2, <2>4, <2>5, <2>6, <2>7, <2>8, <2>9, <2>10 DEF ClaimTask, TypeOK
<1>3. CASE ClaimNone
  BY <1>3 DEF ClaimNone, TypeOK, RunStatus, Recoverable
<1>4. ASSUME NEW r \in Runs, Submit(r) PROVE TypeOK'
  BY <1>4 DEF Submit, InitialStatus, TypeOK, RunStatus, Recoverable
<1>5. ASSUME NEW r \in Runs, Suspend(r) PROVE TypeOK'
  BY <1>5 DEF Suspend, TypeOK, RunStatus, Recoverable
<1>6. ASSUME NEW r \in Runs, NEW allowIncomplete \in BOOLEAN, Resume(r, allowIncomplete)
      PROVE  TypeOK'
  <2>1. taskStatus' \in [Runs -> [Task -> TaskStatus]] /\ subset' \in [Runs -> BOOLEAN]
    <3>1. taskStatus \in [Runs -> [Task -> TaskStatus]] /\ subset \in [Runs -> BOOLEAN]
      BY DEF TypeOK
    <3>2. CASE ResumeSubset(r)
      BY <3>1, <3>2 DEF ResumeSubset, TaskStatus
    <3>3. CASE ResumeRetry(r)
      BY <3>1, <3>3 DEF ResumeRetry, TaskStatus
    <3> QED
      BY <1>6, <3>2, <3>3 DEF Resume
  <2> QED
    BY <1>6, <2>1 DEF Resume, InitialStatus, TypeOK, RunStatus, Recoverable
<1>7. ASSUME NEW r \in Runs, Cancel(r) PROVE TypeOK'
  BY <1>7 DEF Cancel, TypeOK, RunStatus, Terminal
<1>8. ASSUME NEW r \in Runs, ResumeReattached(r, Issued) PROVE TypeOK'
  BY <1>8 DEF ResumeReattached, Restored, TypeOK, RunStatus, Recoverable
<1>9. ASSUME NEW l \in Lease, BeginSubmission(l) PROVE TypeOK'
  <2> DEFINE a == AccountOf[l.run]
  <2>1. l.run \in Runs /\ a \in Accounts
    BY DEF Lease
  <2>2. PICK v \in reservations :
          LET next == now + v.spacing
          IN  account' = [account EXCEPT
                ![a].allowed = next,
                ![a].nextSubmit = IF account[a].nextSubmit > next
                                  THEN account[a].nextSubmit ELSE next]
    BY <1>9 DEF BeginSubmission
  <2>3. account' \in [Accounts -> AccountRow]
    <3> DEFINE next == now + v.spacing
               row == [account[a] EXCEPT
                         !.allowed = next,
                         !.nextSubmit = IF account[a].nextSubmit > next
                                        THEN account[a].nextSubmit ELSE next]
    <3>1. next \in Nat
      BY DEF TypeOK, Reservation
    <3>2. row \in AccountRow
      BY <1>a, <2>1, <3>1 DEF AccountRow
    <3>3. account' = [account EXCEPT ![a] = row]
      BY <2>1, <2>2 DEF TypeOK, AccountRow
    <3> QED
      BY <2>1, <3>2, <3>3 DEF TypeOK
  <2>4. attemptState' \in [Runs -> [Task -> [Number -> AttemptState]]]
    BY <1>9, AttemptUpdate DEF BeginSubmission, TypeOK, AttemptState, Live
  <2>5. submissions' \in [Runs -> 0..SubmissionLimit]
    BY <1>9, <2>1 DEF BeginSubmission, Charged, Submittable, WithinLimits, SubmissionLimit, TypeOK
  <2>6. runStatus' \in [Runs -> RunStatus]
    BY <1>9, <2>1 DEF BeginSubmission, TypeOK, RunStatus, Recoverable
  <2> QED
    BY <1>9, <2>3, <2>4, <2>5, <2>6 DEF BeginSubmission, TypeOK
<1>10. ASSUME NEW l \in Lease, Accepted(l) PROVE TypeOK'
  <2>1. attemptState' \in [Runs -> [Task -> [Number -> AttemptState]]]
    BY <1>10, AttemptUpdate DEF Accepted, TypeOK, AttemptState, Live
  <2>2. acceptedAt' \in [Runs -> [Task -> [Number -> Nat \cup {NotAccepted}]]]
    <3>1. acceptedAt \in [Runs -> [Task -> [Number -> Nat \cup {NotAccepted}]]]
      BY DEF TypeOK
    <3> QED
      BY <1>a, <1>10, <3>1 DEF Accepted, Lease
  <2> QED
    BY <1>10, <2>1, <2>2 DEF Accepted, TypeOK
<1>11. ASSUME NEW l \in Lease, NEW d \in Disposition, FailAttempt(l, d) PROVE TypeOK'
  <2>1. l.run \in Runs /\ runStatus[l.run] # "absent"
    BY <1>11 DEF FailAttempt, FailCall, Owns, OwnersSubmitted, Lease
  <2>2. attemptState' \in [Runs -> [Task -> [Number -> AttemptState]]]
    BY <1>11, AttemptUpdate DEF FailAttempt, FailCall, TypeOK, AttemptState, Live
  <2>3. taskStatus' \in [Runs -> [Task -> TaskStatus]]
    BY <1>11, TaskUpdate DEF FailAttempt, FailCall, TypeOK, TaskStatus
  <2>4. /\ runStatus' \in [Runs -> RunStatus]
        /\ recovery' \in [Runs -> Recoverable \cup {"none"}]
    BY <1>11, <2>1, ReconciliationType DEF FailAttempt, FailCall, TypeOK
  <2>5. reservations' \subseteq reservations
    BY <1>11 DEF FailAttempt, FailCall, Release
  <2> QED
    BY <1>11, <2>2, <2>3, <2>4, <2>5 DEF FailAttempt, FailCall, TypeOK
<1>12. ASSUME NEW l \in Lease, AcknowledgeCancel(l) PROVE TypeOK'
  <2>1. StateOf(l) \in AttemptState /\ StoppedTask(l) \in TaskStatus
    <3>1. /\ taskStatus \in [Runs -> [Task -> TaskStatus]]
          /\ attemptState \in [Runs -> [Task -> [Number -> AttemptState]]]
      BY DEF TypeOK
    <3>2. l.run \in Runs /\ l.task \in Task /\ l.number \in Number
      BY DEF Lease
    <3>3. /\ taskStatus[l.run][l.task] \in TaskStatus
          /\ attemptState[l.run][l.task][l.number] \in AttemptState
      <4>1. attemptState[l.run] \in [Task -> [Number -> AttemptState]]
        BY <3>1, <3>2
      <4>2. attemptState[l.run][l.task] \in [Number -> AttemptState]
        BY <3>2, <4>1
      <4> QED
        BY <3>1, <3>2, <4>2
    <3> QED
      BY <3>3 DEF StateOf, StoppedTask, TaskStatus
  <2>2. attemptState' \in [Runs -> [Task -> [Number -> AttemptState]]]
    BY <1>12, <2>1, AttemptUpdate DEF AcknowledgeCancel, TypeOK, AttemptState
  <2>3. taskStatus' \in [Runs -> [Task -> TaskStatus]]
    BY <1>12, <2>1, TaskUpdate DEF AcknowledgeCancel, TypeOK
  <2> QED
    BY <1>12, <2>2, <2>3 DEF AcknowledgeCancel, Release, TypeOK
<1>13. ASSUME NEW l \in Lease, NEW verdict \in Verdict, NEW text \in BOOLEAN,
              StoreCapture(l, verdict, text)
       PROVE  TypeOK'
  <2>1. l.run \in Runs /\ AccountOf[l.run] \in Accounts
    BY DEF Lease
  <2>2. Outcome(verdict, text) \in AttemptState /\ Outcome(verdict, text) \in TaskStatus
    BY DEF Outcome, AttemptState, TaskStatus
  <2>3. attemptState' \in [Runs -> [Task -> [Number -> AttemptState]]]
    BY <1>13, <2>2, AttemptUpdate DEF StoreCapture, TypeOK
  <2>4. taskStatus' \in [Runs -> [Task -> TaskStatus]]
    <3>1. (IF RetriedAutomatically(l, verdict = "invalid")
           THEN "queued" ELSE Outcome(verdict, text)) \in TaskStatus
      BY <2>2 DEF TaskStatus
    <3> QED
      BY <1>13, <3>1, TaskUpdate DEF StoreCapture, TypeOK
  <2>5. runStatus' \in [Runs -> RunStatus] /\ recovery' \in [Runs -> Recoverable \cup {"none"}]
    BY <1>13, <2>1 DEF StoreCapture, Restored, TypeOK, RunStatus, Recoverable, Terminal
  <2>6. account' \in [Accounts -> AccountRow]
    <3> DEFINE row == [account[AccountOf[l.run]] EXCEPT !.limits = 0]
    <3>1. row \in AccountRow
      BY <1>a, <2>1 DEF AccountRow
    <3>2. account' = account \/ account' = [account EXCEPT ![AccountOf[l.run]] = row]
      BY <1>13, <2>1 DEF StoreCapture, TypeOK, AccountRow
    <3> QED
      BY <2>1, <3>1, <3>2 DEF TypeOK
  <2> QED
    BY <1>13, <2>3, <2>4, <2>5, <2>6 DEF StoreCapture, Release, TypeOK
<1>14. ASSUME NEW l \in Lease, NEW verdict \in Verdict, NEW text \in BOOLEAN,
              PreservePartial(l, verdict, text)
       PROVE  TypeOK'
  <2>1. l.run \in Runs /\ runStatus[l.run] # "absent"
    BY <1>14 DEF PreservePartial, Captured, Owns, OwnersSubmitted, Lease
  <2>2. attemptState' \in [Runs -> [Task -> [Number -> AttemptState]]]
    BY <1>14, AttemptUpdate DEF PreservePartial, TypeOK, AttemptState, Live
  <2>3. taskStatus' \in [Runs -> [Task -> TaskStatus]]
    BY <1>14, TaskUpdate DEF PreservePartial, TypeOK, TaskStatus
  <2>4. /\ runStatus' \in [Runs -> RunStatus]
        /\ recovery' \in [Runs -> Recoverable \cup {"none"}]
    BY <1>14, <2>1, ReconciliationType DEF PreservePartial, TypeOK
  <2> QED
    BY <1>14, <2>2, <2>3, <2>4 DEF PreservePartial, TypeOK
<1>15. CASE Recover
  <2>1. attemptState' \in [Runs -> [Task -> [Number -> AttemptState]]]
    BY <1>15 DEF Recover, TypeOK, AttemptState, Live
  <2>2. taskStatus' \in [Runs -> [Task -> TaskStatus]]
    BY <1>15 DEF Recover, TypeOK, TaskStatus
  <2>3. runStatus' \in [Runs -> RunStatus] /\ recovery' \in [Runs -> Recoverable \cup {"none"}]
    <3> DEFINE ambiguous == {v \in reservations : StateOf(v.lease) # "prepared"}
               reconciled == {r \in Runs :
                 /\ \E v \in ambiguous : v.lease.run = r
                 /\ runStatus[r] \notin Terminal \cup {"reconciliation-required"}}
    <3>1. runStatus \in [Runs -> RunStatus] /\ recovery \in [Runs -> Recoverable \cup {"none"}]
      BY DEF TypeOK
    <3>2. \A r \in reconciled : runStatus[r] \in Recoverable
      BY <3>1 DEF OwnersSubmitted, RunStatus
    <3>3. /\ recovery' = [r \in Runs |-> IF r \in reconciled THEN runStatus[r] ELSE recovery[r]]
          /\ runStatus' = [r \in Runs |-> IF r \in reconciled
                                          THEN "reconciliation-required" ELSE runStatus[r]]
      BY <1>15 DEF Recover
    <3> QED
      BY <3>1, <3>2, <3>3 DEF RunStatus
  <2> QED
    BY <1>15, <2>1, <2>2, <2>3 DEF Recover, TypeOK
<1>16. ASSUME NEW a \in Accounts, AccountExpired(a) PROVE TypeOK'
  <2> DEFINE row == [account[a] EXCEPT !.readiness = "expired"]
  <2>1. row \in AccountRow
    BY <1>a DEF AccountRow, Readiness
  <2>2. account' = [account EXCEPT ![a] = row]
    BY <1>16 DEF AccountExpired, TypeOK, AccountRow
  <2> QED
    BY <1>16, <2>1, <2>2, LoginType DEF AccountExpired, TypeOK
<1>17. ASSUME NEW a \in Accounts, NEW delay \in RetryDelays, RateLimited(a, delay) PROVE TypeOK'
  <2> DEFINE row == [account[a] EXCEPT
                       !.limits = account[a].limits + 1,
                       !.cooldown = IF account[a].cooldown > now + delay
                                    THEN account[a].cooldown ELSE now + delay,
                       !.readiness = IF account[a].limits >= 1 THEN "paused" ELSE "cooldown"]
  <2>1. row \in AccountRow
    <3> DEFINE limits == account[a].limits + 1
               cooldown == IF account[a].cooldown > now + delay
                           THEN account[a].cooldown ELSE now + delay
               readiness == IF account[a].limits >= 1 THEN "paused" ELSE "cooldown"
    <3>1. limits \in Nat /\ cooldown \in Nat /\ readiness \in Readiness
      BY <1>a DEF AccountRow, Readiness
    <3> HIDE DEF limits, cooldown, readiness
    <3>2. [account[a] EXCEPT !.limits = limits, !.cooldown = cooldown, !.readiness = readiness]
            \in AccountRow
      BY <1>a, <3>1 DEF AccountRow
    <3> QED
      BY <3>2 DEF limits, cooldown, readiness
  <2>2. account' = [account EXCEPT ![a] = row]
    BY <1>17 DEF RateLimited, TypeOK, AccountRow
  <2> QED
    BY <1>17, <2>1, <2>2 DEF RateLimited, TypeOK
<1>18. ASSUME NEW a \in Accounts, NEW operator \in BOOLEAN, VerifyAccount(a, operator)
       PROVE  TypeOK'
  <2> DEFINE row == [account[a] EXCEPT !.readiness = "ready", !.cooldown = 0,
                                       !.limits = IF operator THEN 0 ELSE account[a].limits]
  <2>1. row \in AccountRow
    BY <1>a DEF AccountRow, Readiness
  <2>2. account' = [account EXCEPT ![a] = row]
    BY <1>18 DEF VerifyAccount, TypeOK, AccountRow
  <2> QED
    BY <1>18, <2>1, <2>2, LoginType DEF VerifyAccount, TypeOK
<1>19. ASSUME NEW a \in Accounts, NEW operator \in BOOLEAN, VerifyMismatch(a, operator)
       PROVE  TypeOK'
  <2> DEFINE row == [account[a] EXCEPT !.readiness = "mismatch"]
  <2>1. row \in AccountRow
    BY <1>a DEF AccountRow, Readiness
  <2>2. account' = [account EXCEPT ![a] = row]
    BY <1>19 DEF VerifyMismatch, TypeOK, AccountRow
  <2> QED
    BY <1>19, <2>1, <2>2, LoginType DEF VerifyMismatch, TypeOK
<1>20. ASSUME NEW a \in Accounts, ConfirmAccount(a) PROVE TypeOK'
  <2> DEFINE row == [account[a] EXCEPT !.readiness = "ready", !.cooldown = 0, !.limits = 0]
  <2>1. row \in AccountRow
    BY <1>a DEF AccountRow, Readiness
  <2>2. account' = [account EXCEPT ![a] = row]
    BY <1>20 DEF ConfirmAccount, TypeOK, AccountRow
  <2> QED
    BY <1>20, <2>1, <2>2, LoginType DEF ConfirmAccount, TypeOK
<1>21. CASE UNCHANGED vars
  BY <1>21 DEF vars, TypeOK
<1>22. CASE RunStep
  BY <1>4, <1>5, <1>6, <1>7, <1>8, <1>22 DEF RunStep
<1>23. CASE LeaseStep
  BY <1>9, <1>10, <1>11, <1>12, <1>13, <1>14, <1>23 DEF LeaseStep
<1>24. CASE AccountStep
  BY <1>16, <1>17, <1>18, <1>19, <1>20, <1>24 DEF AccountStep
<1> QED
  BY <1>1, <1>2, <1>3, <1>15, <1>21, <1>22, <1>23, <1>24 DEF Next, Claim

\* Only claim reserves capacity.
LEMMA OnlyClaimReserves == [Next]_vars /\ ~Claim => reservations' \subseteq reservations
<1> SUFFICES ASSUME [Next]_vars, ~Claim PROVE reservations' \subseteq reservations
  OBVIOUS
<1> USE DEF runVars, taskVars
<1> DEFINE Shrinks == reservations' \subseteq reservations
<1>1. CASE Tick \/ ClaimNone \/ Recover \/ UNCHANGED vars
  BY <1>1 DEF Tick, ClaimNone, Recover, vars
<1>2. CASE RunStep
  BY <1>2 DEF RunStep, Submit, Suspend, Resume, Cancel, ResumeReattached
<1>3. CASE LeaseStep
  <2>1. ASSUME NEW l \in Lease, BeginSubmission(l) \/ Accepted(l) \/ AcknowledgeCancel(l)
        PROVE  Shrinks
    BY <2>1 DEF BeginSubmission, Accepted, AcknowledgeCancel, Release
  <2>2. ASSUME NEW l \in Lease, NEW d \in Disposition, FailAttempt(l, d) PROVE Shrinks
    BY <2>2 DEF FailAttempt, FailCall, Release
  <2>3. ASSUME NEW l \in Lease, NEW verdict \in Verdict, NEW text \in BOOLEAN,
               StoreCapture(l, verdict, text) \/ PreservePartial(l, verdict, text)
        PROVE  Shrinks
    BY <2>3 DEF StoreCapture, PreservePartial, Release
  <2> QED
    BY <1>3, <2>1, <2>2, <2>3 DEF LeaseStep
<1>4. CASE AccountStep
  BY <1>4 DEF AccountStep, AccountExpired, RateLimited, VerifyAccount, VerifyMismatch,
     ConfirmAccount
<1> QED
  BY <1>1, <1>2, <1>3, <1>4 DEF Next

LEMMA OwnersStep == TypeInv /\ [Next]_vars => OwnersSubmitted'
<1> SUFFICES ASSUME TypeInv, [Next]_vars PROVE OwnersSubmitted'
  OBVIOUS
<1> USE DEF runVars, taskVars
<1>1. runStatus \in [Runs -> RunStatus] /\ reservations \subseteq Reservation
  BY DEF TypeInv, TypeOK
<1> DEFINE Stays == \A r \in Runs : runStatus[r] # "absent" => runStatus'[r] # "absent"
<1>2. CASE Claim
  <2>1. PICK r \in Runs, t \in Task, jitter \in 0..MaxJitter : ClaimTask(r, t, jitter)
    BY <1>2 DEF Claim
  <2>2. Stays /\ runStatus'[r] = "running"
    BY <1>1, <2>1 DEF ClaimTask
  <2>3. \A v \in reservations' \ reservations : v.lease.run = r
    BY <2>1 DEF ClaimTask
  <2> QED
    BY <1>1, <2>2, <2>3 DEF TypeInv, OwnersSubmitted, Reservation, Lease
<1>3. CASE ~Claim
  <2>1. reservations' \subseteq reservations
    BY <1>3, OnlyClaimReserves
  <2>2. Stays
    <3>1. CASE Tick \/ ClaimNone \/ Recover \/ UNCHANGED vars
      BY <1>1, <3>1 DEF Tick, ClaimNone, Recover, vars
    <3>2. CASE RunStep
      BY <1>1, <3>2 DEF RunStep, Submit, Suspend, Resume, Cancel, ResumeReattached, Restored,
         InitialStatus
    <3>3. CASE LeaseStep
      <4>1. ASSUME NEW l \in Lease, BeginSubmission(l) PROVE Stays
        BY <1>1, <4>1 DEF BeginSubmission
      <4>2. ASSUME NEW l \in Lease, Accepted(l) \/ AcknowledgeCancel(l) PROVE Stays
        BY <4>2 DEF Accepted, AcknowledgeCancel
      <4>3. ASSUME NEW l \in Lease, NEW d \in Disposition, FailAttempt(l, d) PROVE Stays
        BY <1>1, <4>3 DEF FailAttempt, FailCall, RequireReconciliation, SettleReconciliation, Restored
      <4>4. ASSUME NEW l \in Lease, NEW verdict \in Verdict, NEW text \in BOOLEAN,
                   StoreCapture(l, verdict, text)
            PROVE  Stays
        BY <1>1, <4>4 DEF StoreCapture, Restored
      <4>5. ASSUME NEW l \in Lease, NEW verdict \in Verdict, NEW text \in BOOLEAN,
                   PreservePartial(l, verdict, text)
            PROVE  Stays
        BY <1>1, <4>5 DEF PreservePartial, RequireReconciliation
      <4> QED
        BY <3>3, <4>1, <4>2, <4>3, <4>4, <4>5 DEF LeaseStep
    <3>4. CASE AccountStep
      BY <1>1, <3>4 DEF AccountStep, AccountExpired, RateLimited, VerifyAccount, VerifyMismatch,
         ConfirmAccount, PauseAccountRuns, ResumeVerifiedRuns
    <3> QED
      BY <1>3, <3>1, <3>2, <3>3, <3>4 DEF Next
  <2> QED
    BY <1>1, <2>1, <2>2 DEF TypeInv, OwnersSubmitted, Reservation, Lease
<1> QED
  BY <1>2, <1>3

LEMMA TypeInductive == Spec => []TypeInv
<1>1. Init => TypeInv
  BY TypeInit DEF TypeInv, OwnersSubmitted, Init
<1>2. TypeInv /\ [Next]_vars => TypeInv'
  BY TypeStep, OwnersStep DEF TypeInv
<1> QED
  BY <1>1, <1>2, PTL DEF Spec

\* Every variable keeps its type: the CHECK constraints of the tables hold.
THEOREM TypeCorrect == Spec => []TypeOK
BY TypeInductive, PTL DEF TypeInv

(***************************************************************************)
(* The reservation ledger: the reservation rows are the live attempts, and *)
(* a task's only live attempt is its newest.                               *)
(***************************************************************************)
\* The two halves need each other: a claim finds no live attempt because a
\* queued task is not running, and continuing with a subset leaves no live
\* attempt behind because the run holds no reservation.
Ledger == TypeInv /\ ReservedExactlyWhileLive /\ OnlyLatestAttemptLive

\* An attempt that stops: its row goes and its task is no longer running.
Ends(l) ==
  /\ Owns(l)
  /\ \E s \in AttemptState \ (Live \cup {"none"}) : SetAttempt(l, s)
  /\ \E s \in TaskStatus \ {"running"} : SetTask(l, s)
  /\ reservations' = Release(l)
  /\ UNCHANGED attempts

\* An attempt that stays live keeps its row.
Advances(l) ==
  /\ Owns(l)
  /\ \E s \in Live : SetAttempt(l, s)
  /\ SetTask(l, "running")
  /\ UNCHANGED <<attempts, reservations>>

\* Where a written attempt, a written task and the owner of a row are.
LEMMA AttemptAt ==
  ASSUME TypeOK, NEW l \in Lease, NEW s, SetAttempt(l, s)
  PROVE  \A m \in Lease : attemptState'[m.run][m.task][m.number]
                            = IF m = l THEN s ELSE StateOf(m)
<1> SUFFICES ASSUME NEW m \in Lease
             PROVE  attemptState'[m.run][m.task][m.number] = IF m = l THEN s ELSE StateOf(m)
  OBVIOUS
<1>1. attemptState \in [Runs -> [Task -> [Number -> AttemptState]]]
  BY DEF TypeOK
<1>2. /\ l.run \in Runs /\ l.task \in Task /\ l.number \in Number
      /\ m.run \in Runs /\ m.task \in Task /\ m.number \in Number
      /\ l.run = m.run /\ l.task = m.task /\ l.number = m.number => l = m
  BY DEF Lease
<1> QED
  BY <1>1, <1>2 DEF SetAttempt, StateOf

LEMMA TaskAt ==
  ASSUME TypeOK, NEW l \in Lease, NEW s, SetTask(l, s)
  PROVE  \A r \in Runs, t \in Task :
           taskStatus'[r][t] = IF r = l.run /\ t = l.task THEN s ELSE taskStatus[r][t]
BY DEF TypeOK, SetTask, Lease

\* OnlyLatestAttemptLive said of leases instead of indices.
LatestLive ==
  /\ \A m \in Lease : /\ StateOf(m) # "none" <=> m.number <= attempts[m.run][m.task]
                      /\ StateOf(m) \in Live => /\ m.number = attempts[m.run][m.task]
                                                /\ taskStatus[m.run][m.task] = "running"
  /\ \A r \in Runs, t \in Task : taskStatus[r][t] = "running" =>
       \E m \in Lease : m.run = r /\ m.task = t /\ StateOf(m) \in Live

LEMMA LatestLiveMeans == OnlyLatestAttemptLive <=> LatestLive
<1>1. ASSUME NEW r \in Runs, NEW t \in Task, NEW n \in Number
      PROVE  LET m == [run |-> r, task |-> t, number |-> n]
             IN  m \in Lease /\ StateOf(m) = attemptState[r][t][n]
  BY DEF Lease, StateOf
<1>2. ASSUME NEW m \in Lease
      PROVE  /\ m.run \in Runs /\ m.task \in Task /\ m.number \in Number
             /\ StateOf(m) = attemptState[m.run][m.task][m.number]
  BY DEF Lease, StateOf
<1>3. OnlyLatestAttemptLive => LatestLive
  <2> SUFFICES ASSUME OnlyLatestAttemptLive PROVE LatestLive
    OBVIOUS
  <2>1. ASSUME NEW m \in Lease
        PROVE  /\ StateOf(m) # "none" <=> m.number <= attempts[m.run][m.task]
               /\ StateOf(m) \in Live => /\ m.number = attempts[m.run][m.task]
                                         /\ taskStatus[m.run][m.task] = "running"
    BY <1>2 DEF OnlyLatestAttemptLive, LiveAttempt
  <2>2. ASSUME NEW r \in Runs, NEW t \in Task, taskStatus[r][t] = "running"
        PROVE  \E m \in Lease : m.run = r /\ m.task = t /\ StateOf(m) \in Live
    <3>1. PICK n \in Number : LiveAttempt(r, t, n)
      BY <2>2 DEF OnlyLatestAttemptLive
    <3> DEFINE m == [run |-> r, task |-> t, number |-> n]
    <3>2. m \in Lease /\ m.run = r /\ m.task = t /\ StateOf(m) \in Live
      BY <1>1, <3>1 DEF LiveAttempt
    <3> QED
      BY <3>2
  <2> QED
    BY <2>1, <2>2 DEF LatestLive
<1>4. LatestLive => OnlyLatestAttemptLive
  <2> SUFFICES ASSUME LatestLive, NEW r \in Runs, NEW t \in Task
               PROVE  /\ \A n \in Number :
                           /\ attemptState[r][t][n] # "none" <=> n <= attempts[r][t]
                           /\ LiveAttempt(r, t, n) => n = attempts[r][t]
                      /\ taskStatus[r][t] = "running" <=> \E n \in Number : LiveAttempt(r, t, n)
    BY DEF OnlyLatestAttemptLive
  <2>1. ASSUME NEW n \in Number
        PROVE  /\ attemptState[r][t][n] # "none" <=> n <= attempts[r][t]
               /\ LiveAttempt(r, t, n) => n = attempts[r][t] /\ taskStatus[r][t] = "running"
    <3> DEFINE m == [run |-> r, task |-> t, number |-> n]
    <3>1. m \in Lease /\ StateOf(m) = attemptState[r][t][n]
      BY <1>1
    <3> QED
      BY <3>1 DEF LatestLive, LiveAttempt
  <2>2. ASSUME taskStatus[r][t] = "running"
        PROVE  \E n \in Number : LiveAttempt(r, t, n)
    <3>1. PICK m \in Lease : m.run = r /\ m.task = t /\ StateOf(m) \in Live
      BY <2>2 DEF LatestLive
    <3> QED
      BY <1>2, <3>1 DEF LiveAttempt
  <2> QED
    BY <2>1, <2>2
<1> QED
  BY <1>3, <1>4
LEMMA LedgerInit == Init => Ledger
<1> SUFFICES ASSUME Init PROVE Ledger
  OBVIOUS
<1>1. TypeInv
  BY TypeInit DEF TypeInv, OwnersSubmitted, Init
<1>2. ReservedExactlyWhileLive
  BY DEF ReservedExactlyWhileLive, Init, Owns, StateOf, Live, Lease
<1>3. OnlyLatestAttemptLive
  BY PipelineAssumption DEF OnlyLatestAttemptLive, LiveAttempt, Init, Live, Number
<1> QED
  BY <1>1, <1>2, <1>3 DEF Ledger

\* The two kinds of lease step keep the ledger.
LEMMA EndsKeepsLedger ==
  ASSUME Ledger, NEW l \in Lease, Ends(l)
  PROVE  ReservedExactlyWhileLive' /\ LatestLive'
<1> TypeOK /\ reservations \subseteq Reservation
  BY DEF Ledger, TypeInv, TypeOK
<1>1. PICK s \in AttemptState \ (Live \cup {"none"}) : SetAttempt(l, s)
  BY DEF Ends
<1>2. PICK q \in TaskStatus \ {"running"} : SetTask(l, q)
  BY DEF Ends
<1>3. \A m \in Lease : StateOf(m)' = IF m = l THEN s ELSE StateOf(m)
  BY <1>1, AttemptAt DEF StateOf
<1>4. \A r \in Runs, t \in Task :
        taskStatus'[r][t] = IF r = l.run /\ t = l.task THEN q ELSE taskStatus[r][t]
  BY <1>2, TaskAt
<1>5. \A m \in Lease : Owns(m)' <=> Owns(m) /\ m # l
  BY DEF Ends, Release, Owns
<1>6. ReservedExactlyWhileLive'
  BY <1>3, <1>5 DEF Ledger, ReservedExactlyWhileLive, Ends, Release
<1>7. LatestLive
  BY LatestLiveMeans DEF Ledger
<1>8. StateOf(l) \in Live
  BY DEF Ledger, ReservedExactlyWhileLive, Ends
<1>9. \A m \in Lease : m # l /\ m.run = l.run /\ m.task = l.task => StateOf(m) \notin Live
  BY <1>7, <1>8 DEF LatestLive, Lease
<1>10. LatestLive'
  <2>1. ASSUME NEW m \in Lease
        PROVE  /\ StateOf(m)' # "none" <=> m.number <= attempts'[m.run][m.task]
               /\ StateOf(m)' \in Live => /\ m.number = attempts'[m.run][m.task]
                                          /\ taskStatus'[m.run][m.task] = "running"
    <3>1. attempts' = attempts
      BY DEF Ends
    <3>2. m.run \in Runs /\ m.task \in Task
      BY DEF Lease
    <3>3. CASE m = l
      <4>1. StateOf(l) # "none"
        BY <1>8 DEF Live
      <4> QED
        BY <1>3, <1>7, <3>1, <3>3, <4>1 DEF LatestLive
    <3>4. CASE m # l
      BY <1>3, <1>4, <1>7, <1>9, <3>1, <3>2, <3>4 DEF LatestLive
    <3> QED
      BY <3>3, <3>4
  <2>2. ASSUME NEW r \in Runs, NEW t \in Task, taskStatus'[r][t] = "running"
        PROVE  \E m \in Lease : m.run = r /\ m.task = t /\ StateOf(m)' \in Live
    <3>1. ~(r = l.run /\ t = l.task) /\ taskStatus[r][t] = "running"
      BY <1>4, <2>2
    <3>2. PICK m \in Lease : m.run = r /\ m.task = t /\ StateOf(m) \in Live
      BY <1>7, <3>1 DEF LatestLive
    <3> QED
      BY <1>3, <3>1, <3>2
  <2> QED
    BY <2>1, <2>2 DEF LatestLive
<1> QED
  BY <1>6, <1>10

LEMMA AdvancesKeepsLedger ==
  ASSUME Ledger, NEW l \in Lease, Advances(l)
  PROVE  ReservedExactlyWhileLive' /\ LatestLive'
<1> TypeOK
  BY DEF Ledger, TypeInv
<1>1. PICK s \in Live : SetAttempt(l, s)
  BY DEF Advances
<1>2. StateOf(l) \in Live /\ LatestLive
  BY LatestLiveMeans DEF Ledger, ReservedExactlyWhileLive, Advances
<1>3. \A m \in Lease : StateOf(m)' = IF m = l THEN s ELSE StateOf(m)
  BY <1>1, AttemptAt DEF StateOf
<1>4. \A r \in Runs, t \in Task : taskStatus'[r][t] = taskStatus[r][t]
  BY <1>2, TaskAt DEF Advances, LatestLive, Lease
<1>5. ReservedExactlyWhileLive'
  BY <1>2, <1>3 DEF Ledger, ReservedExactlyWhileLive, Advances, Owns
<1>6. \A m \in Lease : /\ StateOf(m)' \in Live <=> StateOf(m) \in Live
                       /\ StateOf(m)' # "none" <=> StateOf(m) # "none"
  BY <1>2, <1>3 DEF Live
<1>7. LatestLive'
  BY <1>2, <1>4, <1>6 DEF LatestLive, Advances, Lease
<1> QED
  BY <1>5, <1>7
\* A claimed task was queued, so none of its attempts is live.
LEMMA ClaimKeepsLedger ==
  ASSUME Ledger, NEW r \in Runs, NEW t \in Task, NEW jitter \in 0..MaxJitter,
         ClaimTask(r, t, jitter)
  PROVE  ReservedExactlyWhileLive' /\ LatestLive'
<1> DEFINE l == [run |-> r, task |-> t, number |-> attempts[r][t] + 1]
           row == [lease |-> l, spacing |-> Spacing + jitter]
<1> TypeOK /\ LatestLive
  BY LatestLiveMeans DEF Ledger, TypeInv
<1>1. /\ taskStatus[r][t] = "queued" /\ attempts[r][t] \in Nat
      /\ attempts[r][t] + 1 \in Number
  BY PipelineAssumption DEF ClaimTask, NextTasks, TypeOK, Number
<1>2. l \in Lease /\ l.run = r /\ l.task = t /\ l.number = attempts[r][t] + 1
  BY <1>1 DEF Lease
<1> HIDE DEF l
<1>3. /\ SetAttempt(l, "prepared") /\ SetTask(l, "running")
      /\ attempts' = [attempts EXCEPT ![r][t] = attempts[r][t] + 1]
      /\ reservations' = reservations \cup {row}
  BY DEF ClaimTask, l
<1>4. \A m \in Lease : StateOf(m)' = IF m = l THEN "prepared" ELSE StateOf(m)
  BY <1>2, <1>3, AttemptAt DEF StateOf
<1>5. \A q \in Runs, u \in Task :
        /\ taskStatus'[q][u] = IF q = r /\ u = t THEN "running" ELSE taskStatus[q][u]
        /\ attempts'[q][u] = IF q = r /\ u = t THEN attempts[r][t] + 1 ELSE attempts[q][u]
  BY <1>2, <1>3, TaskAt DEF TypeOK
<1>6. \A m \in Lease : m.run = r /\ m.task = t => StateOf(m) \notin Live
  BY <1>1 DEF LatestLive
<1>7. StateOf(l) = "none" /\ ~Owns(l)
  <2>1. StateOf(l) = "none"
    BY <1>1, <1>2 DEF LatestLive
  <2> QED
    BY <1>2, <2>1 DEF Ledger, ReservedExactlyWhileLive, Live
<1>8. \A m \in Lease : Owns(m)' <=> Owns(m) \/ m = l
  <2>1. row.lease = l
    OBVIOUS
  <2> HIDE DEF row
  <2> QED
    BY <1>3, <2>1 DEF Owns
<1>9. ReservedExactlyWhileLive'
  <2>1. \A m \in Lease : Owns(m)' <=> StateOf(m)' \in Live
    BY <1>4, <1>8 DEF Ledger, ReservedExactlyWhileLive, Live
  <2>2. \A v, w \in reservations' : v.lease = w.lease => v = w
    BY <1>3, <1>7 DEF Ledger, ReservedExactlyWhileLive, Owns
  <2> QED
    BY <2>1, <2>2 DEF ReservedExactlyWhileLive
<1>10. LatestLive'
  <2>1. ASSUME NEW m \in Lease
        PROVE  /\ StateOf(m)' # "none" <=> m.number <= attempts'[m.run][m.task]
               /\ StateOf(m)' \in Live => /\ m.number = attempts'[m.run][m.task]
                                          /\ taskStatus'[m.run][m.task] = "running"
    <3>1. m.run \in Runs /\ m.task \in Task /\ m.number \in Nat
      BY DEF Lease, Number
    <3>2. CASE m = l
      BY <1>1, <1>2, <1>4, <1>5, <3>2 DEF Live
    <3>3. CASE m # l /\ m.run = r /\ m.task = t
      <4>1. m.number # attempts[r][t] + 1
        BY <1>2, <3>3 DEF Lease
      <4> QED
        BY <1>1, <1>4, <1>5, <1>6, <3>1, <3>3, <4>1 DEF LatestLive
    <3>4. CASE ~(m.run = r /\ m.task = t)
      BY <1>2, <1>4, <1>5, <3>1, <3>4 DEF LatestLive
    <3> QED
      BY <3>2, <3>3, <3>4
  <2>2. ASSUME NEW q \in Runs, NEW u \in Task, taskStatus'[q][u] = "running"
        PROVE  \E m \in Lease : m.run = q /\ m.task = u /\ StateOf(m)' \in Live
    <3>1. CASE q = r /\ u = t
      BY <1>2, <1>4, <3>1 DEF Live
    <3>2. CASE ~(q = r /\ u = t)
      BY <1>2, <1>4, <1>5, <2>2, <3>2 DEF LatestLive
    <3> QED
      BY <3>1, <3>2
  <2> QED
    BY <2>1, <2>2 DEF LatestLive
<1> QED
  BY <1>9, <1>10

\* Neither way to resume touches a running task: the tasks retried have
\* stopped, and a subset is only taken of a run that holds no reservation.
LEMMA ResumeKeepsLedger ==
  ASSUME Ledger, NEW r \in Runs, NEW allowIncomplete \in BOOLEAN, Resume(r, allowIncomplete)
  PROVE  ReservedExactlyWhileLive' /\ LatestLive'
<1> TypeOK /\ LatestLive
  BY LatestLiveMeans DEF Ledger, TypeInv
<1>1. UNCHANGED <<attempts, attemptState, reservations>>
  BY DEF Resume
<1>2. \A q \in Runs, t \in Task : taskStatus'[q][t] = "running" <=> taskStatus[q][t] = "running"
  <2>1. taskStatus \in [Runs -> [Task -> TaskStatus]]
    BY DEF TypeOK
  <2>2. CASE ResumeSubset(r)
    <3>1. ASSUME NEW t \in Task, taskStatus[r][t] = "running" PROVE FALSE
      <4>1. PICK m \in Lease : m.run = r /\ StateOf(m) \in Live
        BY <3>1 DEF LatestLive
      <4>2. PICK v \in reservations : v.lease = m
        BY <4>1 DEF Ledger, ReservedExactlyWhileLive, Owns
      <4> QED
        BY <2>2, <4>1, <4>2 DEF ResumeSubset, ReservationsOf
    <3>2. taskStatus' = [taskStatus EXCEPT ![r] =
            [t \in Task |-> IF t \in Explore /\ taskStatus[r][t] # "completed"
                            THEN "excluded" ELSE taskStatus[r][t]]]
      BY <2>2 DEF ResumeSubset
    <3> QED
      BY <2>1, <3>1, <3>2
  <2>3. CASE ResumeRetry(r)
    BY <2>1, <2>3 DEF ResumeRetry, Retried
  <2> QED
    BY <2>2, <2>3 DEF Resume
<1> QED
  BY <1>1, <1>2 DEF Ledger, ReservedExactlyWhileLive, LatestLive, Owns, StateOf, Lease

\* Recovery fails what was prepared and leaves what was submitting uncertain.
LEMMA RecoveredState ==
  ASSUME ReservedExactlyWhileLive, Recover
  PROVE  \A m \in Lease : StateOf(m)' = IF StateOf(m) = "prepared" THEN "failed"
                                        ELSE IF StateOf(m) = "submitting" THEN "uncertain"
                                        ELSE StateOf(m)
<1> DEFINE interrupted == {v \in reservations : StateOf(v.lease) = "prepared"}
           ambiguous == reservations \ interrupted
<1>1. \A m \in Lease : Owns(m) <=> StateOf(m) \in Live
  BY DEF ReservedExactlyWhileLive
<1> SUFFICES ASSUME NEW m \in Lease
             PROVE  StateOf(m)' = IF StateOf(m) = "prepared" THEN "failed"
                                  ELSE IF StateOf(m) = "submitting" THEN "uncertain"
                                  ELSE StateOf(m)
  OBVIOUS
<1>2. /\ m.run \in Runs /\ m.task \in Task /\ m.number \in Number
      /\ [run |-> m.run, task |-> m.task, number |-> m.number] = m
  BY DEF Lease
<1>3. StateOf(m)' = IF \E v \in interrupted : v.lease = m THEN "failed"
                    ELSE IF (\E v \in ambiguous : v.lease = m) /\ StateOf(m) = "submitting"
                    THEN "uncertain" ELSE StateOf(m)
  BY <1>2 DEF Recover, StateOf
<1>4. (\E v \in interrupted : v.lease = m) <=> StateOf(m) = "prepared"
  BY <1>1 DEF Owns, Live
<1>5. StateOf(m) = "submitting" => \E v \in ambiguous : v.lease = m
  BY <1>1 DEF Owns, Live
<1> QED
  BY <1>3, <1>4, <1>5

\* A restart fails what was never submitted and keeps the rest reserved.
LEMMA RecoverKeepsLedger ==
  ASSUME Ledger, Recover
  PROVE  ReservedExactlyWhileLive' /\ LatestLive'
<1> DEFINE interrupted == {v \in reservations : StateOf(v.lease) = "prepared"}
           ambiguous == reservations \ interrupted
<1> TypeOK /\ LatestLive /\ reservations \subseteq Reservation
  BY LatestLiveMeans DEF Ledger, TypeInv, TypeOK
<1>1. UNCHANGED attempts /\ reservations' = ambiguous
  BY DEF Recover
<1>2. \A m \in Lease : Owns(m) <=> StateOf(m) \in Live
  BY DEF Ledger, ReservedExactlyWhileLive
<1>3. \A m \in Lease : StateOf(m)' = IF StateOf(m) = "prepared" THEN "failed"
                                     ELSE IF StateOf(m) = "submitting" THEN "uncertain"
                                     ELSE StateOf(m)
  BY RecoveredState DEF Ledger
<1>4. \A r \in Runs, t \in Task :
        IF \E m \in Lease : m.run = r /\ m.task = t /\ StateOf(m) = "prepared"
        THEN taskStatus'[r][t] # "running"
        ELSE taskStatus'[r][t] = taskStatus[r][t]
  <2> SUFFICES ASSUME NEW r \in Runs, NEW t \in Task
               PROVE  IF \E m \in Lease : m.run = r /\ m.task = t /\ StateOf(m) = "prepared"
                      THEN taskStatus'[r][t] # "running"
                      ELSE taskStatus'[r][t] = taskStatus[r][t]
    OBVIOUS
  <2> DEFINE Hit == \E n \in Number : \E v \in interrupted :
                      v.lease = [run |-> r, task |-> t, number |-> n]
  <2>1. taskStatus'[r][t] = IF Hit
                            THEN IF attempts[r][t] < AutomaticAttempts THEN "queued" ELSE "failed"
                            ELSE taskStatus[r][t]
    BY DEF Recover
  <2>2. Hit <=> \E m \in Lease : m.run = r /\ m.task = t /\ StateOf(m) = "prepared"
    <3>1. ASSUME NEW m \in Lease, m.run = r, m.task = t, StateOf(m) = "prepared"
          PROVE  Hit
      <4>1. PICK v \in interrupted : v.lease = m
        BY <1>2, <3>1 DEF Owns, Live
      <4>2. m.number \in Number /\ m = [run |-> r, task |-> t, number |-> m.number]
        BY <3>1 DEF Lease
      <4> QED
        BY <4>1, <4>2
    <3>2. ASSUME NEW n \in Number, NEW v \in interrupted,
                 v.lease = [run |-> r, task |-> t, number |-> n]
          PROVE  \E m \in Lease : m.run = r /\ m.task = t /\ StateOf(m) = "prepared"
      <4>1. v.lease \in Lease /\ v.lease.run = r /\ v.lease.task = t
        BY <3>2 DEF Lease
      <4> QED
        BY <4>1
    <3> QED
      BY <3>1, <3>2
  <2> QED
    BY <2>1, <2>2
<1>5. \A m \in Lease : Owns(m)' <=> Owns(m) /\ StateOf(m) # "prepared"
  BY <1>1 DEF Owns
<1>6. ReservedExactlyWhileLive'
  BY <1>1, <1>2, <1>3, <1>5 DEF Ledger, ReservedExactlyWhileLive, Live
<1>7. \A m \in Lease : StateOf(m)' \in Live <=> StateOf(m) \in Live /\ StateOf(m) # "prepared"
  BY <1>3 DEF Live
<1>8. LatestLive'
  <2>1. ASSUME NEW m \in Lease
        PROVE  /\ StateOf(m)' # "none" <=> m.number <= attempts'[m.run][m.task]
               /\ StateOf(m)' \in Live => /\ m.number = attempts'[m.run][m.task]
                                          /\ taskStatus'[m.run][m.task] = "running"
    <3>1. m.run \in Runs /\ m.task \in Task
      BY DEF Lease
    <3>2. StateOf(m)' # "none" <=> m.number <= attempts'[m.run][m.task]
      BY <1>1, <1>3 DEF LatestLive
    <3>3. ASSUME StateOf(m)' \in Live
          PROVE  /\ m.number = attempts'[m.run][m.task]
                 /\ taskStatus'[m.run][m.task] = "running"
      <4>1. \A k \in Lease : k.run = m.run /\ k.task = m.task /\ StateOf(k) \in Live => k = m
        BY <1>7, <3>3 DEF LatestLive, Lease
      <4>2. ~\E k \in Lease : k.run = m.run /\ k.task = m.task /\ StateOf(k) = "prepared"
        BY <1>7, <3>3, <4>1 DEF Live
      <4> QED
        BY <1>1, <1>4, <1>7, <3>1, <3>3, <4>2 DEF LatestLive
    <3> QED
      BY <3>2, <3>3
  <2>2. ASSUME NEW r \in Runs, NEW t \in Task, taskStatus'[r][t] = "running"
        PROVE  \E m \in Lease : m.run = r /\ m.task = t /\ StateOf(m)' \in Live
    BY <1>4, <1>7, <2>2 DEF LatestLive
  <2> QED
    BY <2>1, <2>2 DEF LatestLive
<1> QED
  BY <1>6, <1>8
\* A step that writes no task, attempt or reservation.
LEMMA OtherKeepsLedger ==
  ASSUME Ledger, UNCHANGED <<taskStatus, attempts, attemptState, reservations>>
  PROVE  ReservedExactlyWhileLive' /\ LatestLive'
BY LatestLiveMeans DEF Ledger, ReservedExactlyWhileLive, LatestLive, Owns, StateOf

LEMMA LedgerStep == Ledger /\ [Next]_vars => ReservedExactlyWhileLive' /\ LatestLive'
<1> SUFFICES ASSUME Ledger, [Next]_vars PROVE ReservedExactlyWhileLive' /\ LatestLive'
  OBVIOUS
<1> DEFINE Keeps == ReservedExactlyWhileLive' /\ LatestLive'
<1> USE DEF runVars, taskVars
<1>1. CASE Tick \/ ClaimNone \/ AccountStep \/ UNCHANGED vars
  BY <1>1, OtherKeepsLedger DEF Tick, ClaimNone, AccountStep, AccountExpired, RateLimited,
     VerifyAccount, VerifyMismatch, ConfirmAccount, vars
<1>2. CASE Claim
  BY <1>2, ClaimKeepsLedger DEF Claim
<1>3. CASE Recover
  BY <1>3, RecoverKeepsLedger
<1>4. CASE RunStep
  <2>1. ASSUME NEW r \in Runs,
               Submit(r) \/ Suspend(r) \/ Cancel(r) \/ ResumeReattached(r, Issued)
        PROVE  Keeps
    BY <2>1, OtherKeepsLedger DEF Submit, Suspend, Cancel, ResumeReattached
  <2> QED
    BY <1>4, <2>1, ResumeKeepsLedger DEF RunStep
<1>5. CASE LeaseStep
  <2>1. ASSUME NEW l \in Lease, Owns(l)
        PROVE  /\ StateOf(l) \in Live
               /\ l.run \in Runs /\ l.task \in Task /\ taskStatus[l.run][l.task] = "running"
    BY <2>1, LatestLiveMeans DEF Ledger, ReservedExactlyWhileLive, LatestLive, Lease
  <2>2. ASSUME NEW l \in Lease, Owns(l), taskStatus' = taskStatus PROVE SetTask(l, "running")
    <3>1. taskStatus = [taskStatus EXCEPT ![l.run][l.task] = "running"]
      BY <2>1, <2>2 DEF Ledger, TypeInv, TypeOK
    <3> QED
      BY <2>2, <3>1 DEF SetTask
  <2>3. ASSUME NEW l \in Lease, BeginSubmission(l) PROVE Keeps
    <3>1. Owns(l) /\ UNCHANGED <<taskStatus, attempts, reservations>>
      BY <2>3 DEF BeginSubmission, Owns
    <3> QED
      BY <2>2, <2>3, <3>1, AdvancesKeepsLedger DEF BeginSubmission, Advances, Live
  <2>4. ASSUME NEW l \in Lease, Accepted(l) PROVE Keeps
    BY <2>2, <2>4, AdvancesKeepsLedger DEF Accepted, Advances, Live
  <2>5. ASSUME NEW l \in Lease, NEW d \in Disposition, FailAttempt(l, d) PROVE Keeps
    <3>1. CASE d = "Uncertain"
      BY <2>5, <3>1, AdvancesKeepsLedger DEF FailAttempt, FailCall, Advances, Live
    <3>2. CASE d # "Uncertain"
      BY <2>5, <3>2, EndsKeepsLedger DEF FailAttempt, FailCall, Ends, Live, AttemptState, TaskStatus
    <3> QED
      BY <3>1, <3>2
  <2>6. ASSUME NEW l \in Lease, AcknowledgeCancel(l) PROVE Keeps
    <3>1. StateOf(l) \in Live /\ StoppedTask(l) = "failed"
      BY <2>1, <2>6 DEF AcknowledgeCancel, StoppedTask
    <3> QED
      BY <2>6, <3>1, EndsKeepsLedger DEF AcknowledgeCancel, Ends, Live, AttemptState, TaskStatus
  <2>7. ASSUME NEW l \in Lease, NEW verdict \in Verdict, NEW text \in BOOLEAN,
               StoreCapture(l, verdict, text)
        PROVE  Keeps
    <3>1. /\ Outcome(verdict, text) \in AttemptState \ (Live \cup {"none"})
          /\ Outcome(verdict, text) \in TaskStatus \ {"running"}
      BY DEF Outcome, AttemptState, TaskStatus, Live
    <3>2. Ends(l)
      BY <2>7, <3>1 DEF StoreCapture, Captured, Ends, TaskStatus
    <3> QED
      BY <3>2, EndsKeepsLedger
  <2>8. ASSUME NEW l \in Lease, NEW verdict \in Verdict, NEW text \in BOOLEAN,
               PreservePartial(l, verdict, text)
        PROVE  Keeps
    BY <2>8, AdvancesKeepsLedger DEF PreservePartial, Captured, Advances, Live
  <2> QED
    BY <1>5, <2>3, <2>4, <2>5, <2>6, <2>7, <2>8 DEF LeaseStep
<1> QED
  BY <1>1, <1>2, <1>3, <1>4, <1>5 DEF Next

LEMMA LedgerInductive == Spec => []Ledger
<1>1. Ledger /\ [Next]_vars => Ledger'
  <2>1. LatestLive' => OnlyLatestAttemptLive'
    BY LatestLiveMeans, PTL
  <2> QED
    BY <2>1, LedgerStep, TypeStep, OwnersStep DEF Ledger, TypeInv
<1> QED
  BY <1>1, LedgerInit, PTL DEF Spec

\* Whatever order failures, captures, cancellations and restarts come in, the
\* reservation rows are the attempts that may still be using the browser.
THEOREM ReservationsExact == Spec => []ReservedExactlyWhileLive
BY LedgerInductive, PTL DEF Ledger

\* A retry never overlaps the attempt it replaces.
THEOREM LatestAttemptOnly == Spec => []OnlyLatestAttemptLive
BY LedgerInductive, PTL DEF Ledger
===========================================================================

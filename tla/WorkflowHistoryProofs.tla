----------------------- MODULE WorkflowHistoryProofs -----------------------
(***************************************************************************)
(* Proofs of what WorkflowStore promises over time, stated with history    *)
(* variables: runs of an account take turns, only the operator resumes a   *)
(* paused run, and submissions keep to pacing, cooldowns and deadlines.    *)
(***************************************************************************)
EXTENDS WorkflowPipelineProofs, WorkflowTurns, WorkflowPause, WorkflowClock

(***************************************************************************)
(* Turns.                                                                  *)
(***************************************************************************)
Taken == {q \in Runs : turn[q] > 0}

\* The claim order numbers the claimed runs without repetition, up to their number.
Numbered ==
  /\ \A q \in Runs : turn[q] \in 0..Cardinality(Taken)
  /\ \A q, s \in Runs : turn[q] > 0 /\ turn[q] = turn[s] => q = s

\* Who was overtaken is next in the order.
OvertakenFirst == \A q, r \in Runs : r \in overtaken[q] => turn[q] < turn[r]

TurnInv == Numbered /\ OvertakenFirst

\* The number of runs already claimed, before and after s is claimed.
LEMMA TakenCounts ==
  ASSUME NEW s \in Runs
  PROVE  /\ IsFiniteSet(Taken) /\ Cardinality(Taken) \in Nat
         /\ Cardinality(Taken \cup {s}) = IF turn[s] > 0 THEN Cardinality(Taken)
                                          ELSE Cardinality(Taken) + 1
<1>1. IsFiniteSet(Taken)
  BY RunsAssumption, FS_Subset DEF Taken
<1>2. s \in Taken <=> turn[s] > 0
  BY DEF Taken
<1> QED
  BY <1>1, <1>2, FS_AddElement, FS_CardinalityType

\* A claim moves its run to the end of the order and leaves the order of the
\* others as it is.
LEMMA ClaimedLast ==
  ASSUME turn \in [Runs -> Int], Numbered, NEW s \in Runs, turn' = Renumbered(s)
  PROVE  /\ Numbered'
         /\ \A q \in Runs \ {s} : turn'[q] < turn'[s]
         /\ \A q, r \in Runs \ {s} : turn[q] < turn[r] => turn'[q] < turn'[r]
<1> DEFINE c == Cardinality(Taken)
           last == IF turn[s] > 0 THEN c ELSE c + 1
<1>1. c \in Nat /\ Cardinality(Taken \cup {s}) = last
  BY TakenCounts
<1>2. \A q \in Runs : turn'[q] = IF q = s THEN last
                                 ELSE IF turn[s] > 0 /\ turn[q] > turn[s] THEN turn[q] - 1 ELSE turn[q]
  BY <1>1 DEF Renumbered, Taken
<1>3. \A q \in Runs : turn[q] \in 0..c
  BY DEF Numbered
<1>4. \A q, r \in Runs : turn[q] > 0 /\ turn[q] = turn[r] => q = r
  BY DEF Numbered
<1>5. last > 0
  BY <1>1, <1>3
<1> HIDE DEF c
<1>6. Taken' = Taken \cup {s}
  <2>1. ASSUME NEW q \in Runs, q # s PROVE turn'[q] > 0 <=> turn[q] > 0
    BY <1>1, <1>2, <1>3, <2>1
  <2>2. turn'[s] > 0
    BY <1>2, <1>5
  <2> QED
    BY <2>1, <2>2 DEF Taken
<1>7. \A q \in Runs \ {s} : turn'[q] < last /\ turn'[q] \in Nat
  <2> SUFFICES ASSUME NEW q \in Runs \ {s} PROVE turn'[q] < last /\ turn'[q] \in Nat
    OBVIOUS
  <2>1. turn[q] \in 0..c /\ turn[s] \in 0..c /\ (turn[s] > 0 => turn[q] # turn[s])
    BY <1>3, <1>4
  <2> QED
    BY <1>1, <1>2, <2>1
<1>8. \A q, r \in Runs \ {s} : turn[q] < turn[r] => turn'[q] < turn'[r]
  <2> SUFFICES ASSUME NEW q \in Runs \ {s}, NEW r \in Runs \ {s}, turn[q] < turn[r]
               PROVE  turn'[q] < turn'[r]
    OBVIOUS
  <2>1. turn[q] \in 0..c /\ turn[r] \in 0..c /\ turn[s] \in 0..c
        /\ (turn[s] > 0 => turn[q] # turn[s] /\ turn[r] # turn[s])
    BY <1>3, <1>4
  <2> QED
    BY <1>1, <1>2, <2>1
<1>9. \A q, r \in Runs : turn'[q] > 0 /\ turn'[q] = turn'[r] => q = r
  <2> SUFFICES ASSUME NEW q \in Runs, NEW r \in Runs, turn'[q] > 0, turn'[q] = turn'[r], q # r
               PROVE  FALSE
    OBVIOUS
  <2>1. q # s /\ r # s
    BY <1>2, <1>7
  <2>2. turn[q] # turn[r]
    BY <1>1, <1>2, <1>3, <1>4, <2>1
  <2>3. turn[q] < turn[r] \/ turn[r] < turn[q]
    BY <1>1, <1>3, <2>2
  <2> QED
    BY <1>7, <1>8, <2>1, <2>3
<1> QED
  BY <1>1, <1>2, <1>5, <1>6, <1>7, <1>8, <1>9 DEF Numbered

\* Every step but a claim leaves the order and the attempts alone.
LEMMA OrderKept ==
  ASSUME [Next]_vars, ~Claim
  PROVE  turn' = turn /\ attempts' = attempts
<1> USE DEF runVars, taskVars
<1>1. CASE Tick \/ ClaimNone \/ Recover \/ AccountStep \/ UNCHANGED vars
  BY <1>1 DEF Tick, ClaimNone, Recover, AccountStep, AccountExpired, RateLimited, VerifyAccount,
     VerifyMismatch, ConfirmAccount, vars
<1>2. CASE RunStep
  BY <1>2 DEF RunStep, Submit, Suspend, Cancel, Resume, ResumeReattached
<1>3. CASE LeaseStep
  BY <1>3 DEF LeaseStep, BeginSubmission, Accepted, FailAttempt, FailCall, AcknowledgeCancel,
     StoreCapture, PreservePartial
<1> QED
  BY <1>1, <1>2, <1>3 DEF Next

\* Who is claimed is claimed by ClaimTask, and nobody else is.
LEMMA ClaimedRun ==
  ASSUME TypeOK, NEW s \in Runs, NEW t \in Task, NEW jitter \in 0..MaxJitter,
         ClaimTask(s, t, jitter)
  PROVE  \A r \in Runs : Claimed(r) <=> r = s
<1>1. attempts \in [Runs -> [Task -> 0..MaxAttempts]]
  BY DEF TypeOK
<1>2. attempts' = [attempts EXCEPT ![s][t] = attempts[s][t] + 1]
  BY DEF ClaimTask
<1>3. \A r \in Runs, u \in Task :
        attempts'[r][u] = IF r = s /\ u = t THEN attempts[s][t] + 1 ELSE attempts[r][u]
  BY <1>1, <1>2
<1>4. \A r \in Runs, u \in Task : attempts[r][u] \in Nat
  BY <1>1, PipelineAssumption
<1> QED
  BY <1>3, <1>4 DEF Claimed

\* Nobody is claimed while a run of the same account that comes before it wants
\* its claim: that run's account is open too.
LEMMA FirstGoesFirst ==
  ASSUME NEW q \in Runs, NEW r \in Runs, NEW t \in Task, NEW jitter \in 0..MaxJitter,
         ClaimTask(r, t, jitter), AccountOf[q] = AccountOf[r], Wanting(q)
  PROVE  ~Before(q, r)
BY DEF ClaimTask, Claimable, Considered, Wanting, Visited

LEMMA TurnTypes == TurnSpec => []TypeOK
<1>1. [TurnNext]_turnVars => [Next]_vars
  BY DEF TurnNext, turnVars
<1>2. TurnInit => Init
  BY DEF TurnInit
<1> QED
  BY <1>1, <1>2, TypeCorrect, PTL DEF TurnSpec, Spec

\* Nobody is claimed twice while another run of its account had a task to claim
\* all along, for any runs and accounts (claim's ORDER BY last attempt).
THEOREM TurnsTaken == TurnSpec => TurnsAlternate
<1>1. TurnInit => TurnInv
  <2> SUFFICES ASSUME TurnInit PROVE TurnInv
    OBVIOUS
  <2>1. Cardinality(Taken) \in Nat
    BY RunsAssumption, FS_Subset, FS_CardinalityType DEF Taken
  <2>2. \A q \in Runs : turn[q] = 0 /\ overtaken[q] = {}
    BY DEF TurnInit, Init
  <2> QED
    BY <2>1, <2>2 DEF TurnInv, Numbered, OvertakenFirst
<1>2. TypeOK /\ TurnInv /\ [TurnNext]_turnVars => TurnInv'
  <2> SUFFICES ASSUME TypeOK, TurnInv, [TurnNext]_turnVars PROVE TurnInv'
    OBVIOUS
  <2>1. [Next]_vars
    BY DEF TurnNext, turnVars
  <2>2. CASE UNCHANGED turnVars
    BY <2>2 DEF TurnInv, Numbered, OvertakenFirst, Taken, turnVars, vars, runVars
  <2>3. CASE TurnNext /\ ~Claim
    <3>1. turn' = turn /\ attempts' = attempts
      BY <2>1, <2>3, OrderKept
    <3>2. \A r \in Runs : ~Claimed(r)
      BY <2>1, <3>1, PipelineAssumption DEF Claimed, TypeOK
    <3>3. \A q \in Runs : overtaken'[q] \subseteq overtaken[q]
      BY <2>3, <3>2 DEF TurnNext
    <3> QED
      BY <3>1, <3>3 DEF TurnInv, Numbered, OvertakenFirst, Taken
  <2>4. CASE TurnNext /\ Claim
    <3>1. PICK s \in Runs, t \in Task, jitter \in 0..MaxJitter : ClaimTask(s, t, jitter)
      BY <2>4 DEF Claim
    <3>2. /\ Numbered'
          /\ \A q \in Runs \ {s} : turn'[q] < turn'[s]
          /\ \A q, r \in Runs \ {s} : turn[q] < turn[r] => turn'[q] < turn'[r]
      BY <2>1, <3>1, ClaimedLast DEF ClaimTask, TurnInv, TypeOK
    <3>3. \A r \in Runs : Claimed(r) <=> r = s
      BY <2>1, <3>1, ClaimedRun
    <3>4. ASSUME NEW q \in Runs, NEW r \in Runs, r \in overtaken'[q] PROVE turn'[q] < turn'[r]
      <4>1. q # s /\ (r \in overtaken[q] \/ r = s)
        BY <2>4, <3>3, <3>4 DEF TurnNext
      <4> QED
        BY <3>2, <4>1 DEF TurnInv, OvertakenFirst
    <3> QED
      BY <3>2, <3>4 DEF TurnInv, OvertakenFirst
  <2> QED
    BY <2>2, <2>3, <2>4
<1>3. TypeOK /\ TurnInv /\ [TurnNext]_turnVars
        => \A q, r \in Runs : AccountOf[q] = AccountOf[r] /\ Wanting(q) /\ r \in overtaken[q]
                                => ~Claimed(r)
  <2> SUFFICES ASSUME TypeOK, TurnInv, [TurnNext]_turnVars, NEW q \in Runs, NEW r \in Runs,
                      AccountOf[q] = AccountOf[r], Wanting(q), r \in overtaken[q], Claimed(r)
               PROVE  FALSE
    OBVIOUS
  <2>1. [Next]_vars
    BY DEF TurnNext, turnVars
  <2>2. Claim
    <3> SUFFICES ASSUME ~Claim PROVE FALSE
      OBVIOUS
    <3>1. attempts' = attempts
      BY <2>1, OrderKept
    <3> QED
      BY <2>1, <3>1, PipelineAssumption DEF Claimed, TypeOK
  <2>3. PICK s \in Runs, t \in Task, jitter \in 0..MaxJitter : ClaimTask(s, t, jitter)
    BY <2>2 DEF Claim
  <2>4. r = s
    BY <2>1, <2>3, ClaimedRun
  <2>5. Before(q, r)
    BY DEF TurnInv, OvertakenFirst, Before
  <2> QED
    BY <2>3, <2>4, <2>5, FirstGoesFirst
<1> QED
  BY <1>1, <1>2, <1>3, TurnTypes, PTL DEF TurnSpec, TurnsAlternate

(***************************************************************************)
(* Pauses.                                                                 *)
(***************************************************************************)
\* Paused, or to be paused again once it is reconciled.
Resting(r) ==
  \/ runStatus[r] = "paused"
  \/ runStatus[r] = "reconciliation-required" /\ recovery[r] = "paused"

Rests(r) == Resting(r)' \/ runStatus'[r] \in Terminal

LEMMA LeaseRests ==
  ASSUME TypeOK, NEW r \in Runs, Resting(r), LeaseStep
  PROVE  Rests(r)
<1> USE DEF runVars, taskVars
<1>a. /\ runStatus \in [Runs -> RunStatus] /\ recovery \in [Runs -> Recoverable \cup {"none"}]
      /\ runStatus[r] \notin Schedulable
  BY DEF TypeOK, Resting, Schedulable
<1>b. UNCHANGED <<runStatus, recovery>> => Rests(r)
  BY DEF Rests, Resting
<1>1. ASSUME NEW l \in Lease, BeginSubmission(l) PROVE Rests(r)
  <2>1. l.run # r /\ l.run \in Runs
    BY <1>a, <1>1 DEF BeginSubmission, Submittable, Lease
  <2> QED
    BY <1>a, <1>1, <2>1 DEF BeginSubmission, Rests, Resting
<1>2. ASSUME NEW l \in Lease, Accepted(l) \/ AcknowledgeCancel(l) PROVE Rests(r)
  BY <1>b, <1>2 DEF Accepted, AcknowledgeCancel
<1>3. ASSUME NEW q \in Runs, RequireReconciliation(q) PROVE Rests(r)
  BY <1>a, <1>3 DEF RequireReconciliation, Rests, Resting, Terminal
<1>4. ASSUME NEW q \in Runs, NEW remaining, SettleReconciliation(q, remaining) PROVE Rests(r)
  BY <1>a, <1>4 DEF SettleReconciliation, Settles, Restored, Rests, Resting
<1>5. ASSUME NEW l \in Lease, NEW d \in Disposition, FailAttempt(l, d) PROVE Rests(r)
  <2>1. l.run \in Runs
    BY DEF Lease
  <2> QED
    BY <1>3, <1>4, <1>5, <2>1 DEF FailAttempt, FailCall
<1>6. ASSUME NEW l \in Lease, NEW verdict \in Verdict, NEW text \in BOOLEAN,
             PreservePartial(l, verdict, text)
      PROVE  Rests(r)
  BY <1>3, <1>6 DEF PreservePartial, Lease
<1>7. ASSUME NEW l \in Lease, NEW verdict \in Verdict, NEW text \in BOOLEAN,
             StoreCapture(l, verdict, text)
      PROVE  Rests(r)
  <2> DEFINE finished == /\ verdict = "complete" /\ l.task = Revise
                         /\ runStatus[l.run] # "cancelled"
             mismatch == verdict = "model-mismatch" /\ runStatus[l.run] \notin Terminal
             settled == Settles(l.run, Release(l))
  <2>1. /\ runStatus' = [runStatus EXCEPT ![l.run] =
                          IF finished THEN "completed"
                          ELSE IF mismatch THEN "paused"
                          ELSE IF settled THEN Restored(l.run) ELSE runStatus[l.run]]
        /\ recovery' = IF settled THEN [recovery EXCEPT ![l.run] = "none"] ELSE recovery
        /\ l.run \in Runs
    BY <1>7 DEF StoreCapture, Lease
  <2>2. CASE r = l.run /\ settled
    <3>1. Restored(r) = "paused"
      BY <2>2 DEF Resting, Settles, Restored
    <3> QED
      BY <1>a, <2>1, <2>2, <3>1 DEF Rests, Resting, Terminal
  <2>3. CASE r = l.run /\ ~settled
    <3> HIDE DEF finished, mismatch, settled
    <3> QED
      BY <1>a, <2>1, <2>3 DEF Rests, Resting, Terminal
  <2>4. CASE r # l.run
    <3> HIDE DEF finished, mismatch, settled
    <3> QED
      BY <1>a, <2>1, <2>4 DEF Rests, Resting
  <2> QED
    BY <2>2, <2>3, <2>4
<1> QED
  BY <1>1, <1>2, <1>5, <1>6, <1>7 DEF LeaseStep

\* Whatever happens to a resting run, it rests or has ended until the operator
\* resumes it.
LEMMA OperatorResumes ==
  ASSUME TypeOK, [Next]_vars, NEW r \in Runs, Resting(r)
  PROVE  Rests(r) \/ ResumedByOperator(r)
<1> USE DEF runVars, taskVars
<1>a. /\ runStatus \in [Runs -> RunStatus] /\ recovery \in [Runs -> Recoverable \cup {"none"}]
      /\ runStatus[r] \notin Schedulable \cup {"absent", "waiting-for-auth"}
  BY DEF TypeOK, Resting, Schedulable
<1>b. UNCHANGED <<runStatus, recovery>> => Rests(r)
  BY DEF Rests, Resting
<1>1. CASE Tick \/ UNCHANGED vars
  BY <1>b, <1>1 DEF Tick, vars
<1>2. CASE Claim
  <2>1. PICK q \in Runs, t \in Task, jitter \in 0..MaxJitter : ClaimTask(q, t, jitter)
    BY <1>2 DEF Claim
  <2>2. q # r
    BY <1>a, <2>1 DEF ClaimTask, Claimable, Considered
  <2>3. recovery' = recovery /\ (runStatus'[r] = "paused" \/ runStatus'[r] = runStatus[r])
    BY <2>1, <2>2 DEF ClaimTask
  <2> QED
    BY <2>3 DEF Rests, Resting
<1>3. CASE ClaimNone
  BY <1>3 DEF ClaimNone, Rests, Resting
<1>4. CASE RunStep
  <2>1. PICK q \in Runs : \/ Submit(q) \/ Suspend(q) \/ Cancel(q)
                          \/ \E allowIncomplete \in BOOLEAN : Resume(q, allowIncomplete)
                          \/ ResumeReattached(q, Issued)
    BY <1>4 DEF RunStep
  <2>2. CASE Submit(q)
    BY <1>a, <2>2 DEF Submit, Rests, Resting
  <2>3. CASE Suspend(q) \/ Cancel(q)
    BY <1>a, <2>3 DEF Suspend, Cancel, Rests, Resting, Terminal
  <2>4. ASSUME NEW allowIncomplete \in BOOLEAN, Resume(q, allowIncomplete)
        PROVE  Rests(r) \/ ResumedByOperator(r)
    <3>1. CASE q = r
      BY <2>4, <3>1 DEF ResumedByOperator
    <3>2. CASE q # r
      BY <1>a, <2>4, <3>2 DEF Resume, Rests, Resting
    <3> QED
      BY <3>1, <3>2
  <2>5. CASE ResumeReattached(q, Issued)
    <3>1. CASE q = r
      BY <1>a, <2>5, <3>1 DEF ResumeReattached, Restored, Rests, Resting
    <3>2. CASE q # r
      BY <1>a, <2>5, <3>2 DEF ResumeReattached, Rests, Resting
    <3> QED
      BY <3>1, <3>2
  <2> QED
    BY <2>1, <2>2, <2>3, <2>4, <2>5
<1>5. CASE LeaseStep
  BY <1>5, LeaseRests
<1>6. CASE Recover
  BY <1>6 DEF Recover, Rests, Resting
<1>7. CASE AccountStep
  <2>1. recovery' = recovery
    BY <1>7 DEF AccountStep, AccountExpired, RateLimited, VerifyAccount, VerifyMismatch,
       ConfirmAccount
  <2>2. runStatus'[r] = runStatus[r]
    BY <1>a, <1>7 DEF AccountStep, AccountExpired, RateLimited, VerifyAccount, VerifyMismatch,
       ConfirmAccount, PauseAccountRuns, ResumeVerifiedRuns
  <2> QED
    BY <2>1, <2>2 DEF Rests, Resting
<1> QED
  BY <1>1, <1>2, <1>3, <1>4, <1>5, <1>6, <1>7 DEF Next

LEMMA PauseTypes == PauseSpec => []TypeOK
<1>1. [PauseNext]_pauseVars => [Next]_vars
  BY DEF PauseNext, pauseVars
<1>2. PauseInit => Init
  BY DEF PauseInit
<1> QED
  BY <1>1, <1>2, TypeCorrect, PTL DEF PauseSpec, Spec

HeldRests == \A r \in Runs : held[r] => Resting(r)

\* Only the operator makes a paused run schedulable again, for any runs and
\* whatever captures, failures, logins and restarts come in between.
THEOREM PausesHold == PauseSpec => PauseHolds
<1>1. PauseInit => HeldRests
  BY DEF PauseInit, HeldRests
<1>2. TypeOK /\ HeldRests /\ [PauseNext]_pauseVars => HeldRests'
  <2> SUFFICES ASSUME TypeOK, HeldRests, [PauseNext]_pauseVars, NEW r \in Runs, held'[r]
               PROVE  Resting(r)'
    BY DEF HeldRests
  <2>1. CASE UNCHANGED pauseVars
    BY <2>1 DEF HeldRests, Resting, pauseVars, vars, runVars
  <2>2. CASE PauseNext
    <3>1. CASE runStatus'[r] = "paused"
      BY <3>1 DEF Resting
    <3>2. CASE held[r] /\ runStatus'[r] = "reconciliation-required"
      <4>1. Rests(r) \/ ResumedByOperator(r)
        BY <2>2, <3>2, OperatorResumes DEF PauseNext, HeldRests
      <4>2. ~ResumedByOperator(r)
        BY <3>2 DEF ResumedByOperator, Resume, InitialStatus, TypeOK
      <4> QED
        BY <3>2, <4>1, <4>2 DEF Rests, Terminal
    <3> QED
      BY <2>2, <3>1, <3>2 DEF PauseNext
  <2> QED
    BY <2>1, <2>2
<1>3. TypeOK /\ HeldRests /\ [PauseNext]_pauseVars
        => \A r \in Runs : held[r] /\ runStatus'[r] \in Schedulable \cup {"waiting-for-auth"}
                             => ResumedByOperator(r)
  <2> SUFFICES ASSUME TypeOK, HeldRests, [PauseNext]_pauseVars, NEW r \in Runs, held[r],
                      runStatus'[r] \in Schedulable \cup {"waiting-for-auth"}
               PROVE  ResumedByOperator(r)
    OBVIOUS
  <2>1. [Next]_vars
    BY DEF PauseNext, pauseVars
  <2>2. Rests(r) \/ ResumedByOperator(r)
    BY <2>1, OperatorResumes DEF HeldRests
  <2>3. ~Rests(r)
    BY DEF Rests, Resting, Terminal, Schedulable
  <2> QED
    BY <2>2, <2>3
<1> QED
  BY <1>1, <1>2, <1>3, PauseTypes, PTL DEF PauseSpec, PauseHolds

(***************************************************************************)
(* Pacing, cooldowns and deadlines.                                        *)
(***************************************************************************)
\* An attempt begins its submission by begin_submission and nothing else.
LEMMA BeginsBySubmission ==
  ASSUME Ledger, [Next]_vars, NEW l \in Lease
  PROVE  Begins(l) <=> BeginSubmission(l)
<1> USE DEF runVars, taskVars
<1>t. TypeOK
  BY DEF Ledger, TypeInv
<1>0. Begins(l) <=> StateOf(l) = "prepared" /\ StateOf(l)' = "submitting"
  BY DEF Begins, StateOf
<1>1. BeginSubmission(l) => Begins(l)
  BY <1>t, <1>0, AttemptAt DEF BeginSubmission, StateOf
<1> SUFFICES ASSUME Begins(l) PROVE BeginSubmission(l)
  BY <1>1
<1>2. attemptState' # attemptState
  BY <1>0 DEF StateOf
<1>3. CASE Tick \/ ClaimNone \/ AccountStep \/ RunStep \/ UNCHANGED vars
  BY <1>2, <1>3, Zenon DEF Tick, ClaimNone, AccountStep, AccountExpired, RateLimited, VerifyAccount,
     VerifyMismatch, ConfirmAccount, RunStep, Submit, Suspend, Cancel, Resume,
     ResumeReattached, vars
<1>4. CASE Claim
  <2>1. PICK q \in Runs, t \in Task, jitter \in 0..MaxJitter : ClaimTask(q, t, jitter)
    BY <1>4 DEF Claim
  <2> DEFINE m == [run |-> q, task |-> t, number |-> attempts[q][t] + 1]
  <2>2. SetAttempt(m, "prepared")
    BY <2>1 DEF ClaimTask
  <2>3. m \in Lease
    <3>1. attempts[q][t] < MaxAttempts
      BY <2>1 DEF ClaimTask, NextTasks
    <3>2. attempts[q][t] \in Nat
      BY <1>t DEF TypeOK
    <3> QED
      BY <3>1, <3>2, PipelineAssumption DEF Number, Lease
  <2> QED
    BY <1>t, <1>0, <2>2, <2>3, AttemptAt DEF StateOf
<1>5. CASE Recover
  BY <1>0, <1>5, RecoveredState DEF Ledger
<1>6. CASE LeaseStep
  <2>1. PICK m \in Lease :
          \/ BeginSubmission(m) \/ Accepted(m) \/ AcknowledgeCancel(m)
          \/ \E d \in Disposition : FailAttempt(m, d)
          \/ \E verdict \in Verdict, text \in BOOLEAN :
               StoreCapture(m, verdict, text) \/ PreservePartial(m, verdict, text)
    BY <1>6 DEF LeaseStep
  <2>2. \A s : SetAttempt(m, s) /\ StateOf(l)' = "submitting" /\ StateOf(l) = "prepared"
                 => m = l /\ s = "submitting"
    BY <1>t, AttemptAt DEF StateOf
  <2>3. \/ BeginSubmission(m)
        \/ \E s \in {"accepted", "uncertain", "failed", "cancelled", "completed", "partial"} :
             SetAttempt(m, s)
        \/ SetAttempt(m, StateOf(m))
    BY <2>1 DEF Accepted, AcknowledgeCancel, FailAttempt, FailCall, StoreCapture,
                PreservePartial, Outcome
  <2>4. ~SetAttempt(m, StateOf(m)) \/ BeginSubmission(m)
    <3>1. ASSUME SetAttempt(m, StateOf(m)) PROVE FALSE
      <4>1. m = l /\ StateOf(m) = "submitting"
        BY <1>0, <2>2, <3>1
      <4> QED
        BY <1>0, <4>1
    <3> QED
      BY <3>1
  <2>5. BeginSubmission(m)
    BY <1>0, <2>2, <2>3, <2>4
  <2> QED
    BY <1>0, <2>2, <2>5 DEF BeginSubmission
<1> QED
  BY <1>3, <1>4, <1>5, <1>6 DEF Next

\* The rows of an account that pacing and cooldowns are about, before and after.
Allowed(a) == account[a].allowed
Cooldown(a) == account[a].cooldown
Limits(a) == account[a].limits
Ready(a) == account[a].readiness = "ready"

\* What a step does to an account's cooldown: a limit is announced, the account
\* is not made ready, or what was announced is over.
CooldownMove(a) ==
  \/ Limits(a)' > Limits(a) /\ ~Ready(a)'
  \/ /\ Limits(a)' <= Limits(a) /\ Cooldown(a)' = Cooldown(a)
     /\ Ready(a)' => Ready(a)
  \/ Limits(a)' <= Limits(a) /\ now >= Cooldown(a)

\* What a step does to the time from which an account may be submitted to.
PaceMove(a) ==
  \/ Allowed(a)' = Allowed(a)
  \/ \E l \in Lease, v \in reservations :
       /\ AccountOf[l.run] = a /\ BeginSubmission(l)
       /\ Allowed(a)' = now + v.spacing

LEMMA RowTypes ==
  ASSUME TypeOK, NEW a \in Accounts
  PROVE  Allowed(a) \in Nat /\ Cooldown(a) \in Nat /\ Limits(a) \in Nat
BY DEF TypeOK, AccountRow, Allowed, Cooldown, Limits

LEMMA RowKept ==
  ASSUME TypeOK, NEW a \in Accounts, account'[a] = account[a]
  PROVE  CooldownMove(a) /\ PaceMove(a)
BY RowTypes DEF CooldownMove, PaceMove, Allowed, Cooldown, Limits, Ready

\* A step of the supervisor touches no pacing.
LEMMA AccountStepMoves ==
  ASSUME TypeOK, NEW a \in Accounts, AccountStep
  PROVE  CooldownMove(a) /\ PaceMove(a)
<1>a. /\ account \in [Accounts -> AccountRow] /\ now \in Nat
      /\ Allowed(a) \in Nat /\ Cooldown(a) \in Nat /\ Limits(a) \in Nat
  BY RowTypes DEF TypeOK
<1>1. PICK b \in Accounts :
        \/ AccountExpired(b)
        \/ \E delay \in RetryDelays : RateLimited(b, delay)
        \/ \E operator \in BOOLEAN : VerifyAccount(b, operator) \/ VerifyMismatch(b, operator)
        \/ ConfirmAccount(b)
  BY DEF AccountStep
<1>2. CASE b # a
  <2>1. account'[a] = account[a]
    BY <1>a, <1>1, <1>2 DEF AccountExpired, RateLimited, VerifyAccount, VerifyMismatch, ConfirmAccount
  <2> QED
    BY <2>1, RowKept
<1>3. CASE b = a
  <2> USE DEF CooldownMove, PaceMove, Allowed, Cooldown, Limits, Ready, AccountRow
  <2>1. CASE AccountExpired(a)
    BY <1>a, <2>1 DEF AccountExpired
  <2>2. ASSUME NEW delay \in RetryDelays, RateLimited(a, delay) PROVE CooldownMove(a) /\ PaceMove(a)
    <3>1. account' = [account EXCEPT
           ![a].limits = account[a].limits + 1,
           ![a].cooldown = IF account[a].cooldown > now + delay
                           THEN account[a].cooldown ELSE now + delay,
           ![a].readiness = IF account[a].limits >= 1 THEN "paused" ELSE "cooldown"]
      BY <2>2 DEF RateLimited
    <3>2. /\ account'[a].limits = account[a].limits + 1 /\ account'[a].allowed = account[a].allowed
          /\ account'[a].readiness \in {"paused", "cooldown"}
      BY <1>a, <3>1
    <3> QED
      BY <1>a, <3>2
  <2>3. ASSUME NEW operator \in BOOLEAN, VerifyAccount(a, operator)
        PROVE  CooldownMove(a) /\ PaceMove(a)
    <3>1. /\ now >= Cooldown(a)
          /\ account' = [account EXCEPT ![a].readiness = "ready", ![a].cooldown = 0,
                                        ![a].limits = IF operator THEN 0 ELSE account[a].limits]
      BY <2>3 DEF VerifyAccount, MayVerify
    <3>2. Limits(a)' \in {0, Limits(a)} /\ Allowed(a)' = Allowed(a)
      BY <1>a, <3>1
    <3> QED
      BY <1>a, <3>1, <3>2
  <2>4. ASSUME NEW operator \in BOOLEAN, VerifyMismatch(a, operator)
        PROVE  CooldownMove(a) /\ PaceMove(a)
    BY <1>a, <2>4 DEF VerifyMismatch
  <2>5. CASE ConfirmAccount(a)
    BY <1>a, <2>5 DEF ConfirmAccount
  <2> QED
    BY <1>1, <1>3, <2>1, <2>2, <2>3, <2>4, <2>5
<1> QED
  BY <1>2, <1>3

LEMMA AccountMoves ==
  ASSUME TypeOK, [Next]_vars, NEW a \in Accounts
  PROVE  CooldownMove(a) /\ PaceMove(a)
<1> USE DEF runVars, taskVars
<1>a. /\ account \in [Accounts -> AccountRow] /\ now \in Nat
      /\ Allowed(a) \in Nat /\ Cooldown(a) \in Nat /\ Limits(a) \in Nat
  BY RowTypes DEF TypeOK
<1>1. CASE Tick \/ ClaimNone \/ Recover \/ RunStep \/ UNCHANGED vars
  <2>1. account' = account
    BY <1>1 DEF Tick, ClaimNone, Recover, RunStep, Submit, Suspend, Cancel, Resume,
       ResumeReattached, vars
  <2> QED
    BY <2>1, RowKept
<1>2. CASE Claim
  <2>1. PICK q \in Runs, t \in Task, jitter \in 0..MaxJitter : ClaimTask(q, t, jitter)
    BY <1>2 DEF Claim
  <2>2. account' = [account EXCEPT ![AccountOf[q]].nextSubmit = now + (Spacing + jitter)]
    BY <2>1 DEF ClaimTask
  <2>3. /\ account'[a].allowed = account[a].allowed /\ account'[a].cooldown = account[a].cooldown
        /\ account'[a].limits = account[a].limits /\ account'[a].readiness = account[a].readiness
    BY <1>a, <2>2 DEF AccountRow
  <2> QED
    BY <1>a, <2>3 DEF CooldownMove, PaceMove, Allowed, Cooldown, Limits, Ready
<1>3. CASE AccountStep
  BY <1>3, AccountStepMoves
<1>4. CASE LeaseStep
  <2>1. ASSUME NEW l \in Lease, BeginSubmission(l) PROVE CooldownMove(a) /\ PaceMove(a)
    <3>1. PICK v \in reservations :
            LET b == AccountOf[l.run]
                next == now + v.spacing
            IN  account' = [account EXCEPT
                  ![b].allowed = next,
                  ![b].nextSubmit = IF account[b].nextSubmit > next
                                    THEN account[b].nextSubmit ELSE next]
      BY <2>1 DEF BeginSubmission
    <3>2. /\ account'[a].cooldown = account[a].cooldown
          /\ account'[a].limits = account[a].limits /\ account'[a].readiness = account[a].readiness
          /\ account'[a].allowed = IF AccountOf[l.run] = a THEN now + v.spacing ELSE account[a].allowed
      BY <1>a, <3>1 DEF AccountRow
    <3>3. CooldownMove(a)
      BY <1>a, <3>2 DEF CooldownMove, Allowed, Cooldown, Limits, Ready
    <3>4. PaceMove(a)
      BY <2>1, <3>2 DEF PaceMove, Allowed
    <3> QED
      BY <3>3, <3>4
  <2>2. ASSUME NEW l \in Lease,
               \/ Accepted(l) \/ AcknowledgeCancel(l)
               \/ \E d \in Disposition : FailAttempt(l, d)
               \/ \E verdict \in Verdict, text \in BOOLEAN : PreservePartial(l, verdict, text)
        PROVE  CooldownMove(a) /\ PaceMove(a)
    BY <2>2, RowKept DEF Accepted, AcknowledgeCancel, FailAttempt, FailCall, PreservePartial
  <2>3. ASSUME NEW l \in Lease, NEW verdict \in Verdict, NEW text \in BOOLEAN,
               StoreCapture(l, verdict, text)
        PROVE  CooldownMove(a) /\ PaceMove(a)
    <3>1. \/ account' = account
          \/ account' = [account EXCEPT ![AccountOf[l.run]].limits = 0]
      BY <2>3 DEF StoreCapture
    <3>2. /\ account'[a].cooldown = account[a].cooldown /\ account'[a].allowed = account[a].allowed
          /\ account'[a].limits \in {0, account[a].limits}
          /\ account'[a].readiness = account[a].readiness
      BY <1>a, <3>1 DEF AccountRow
    <3> QED
      BY <1>a, <3>2 DEF CooldownMove, PaceMove, Allowed, Cooldown, Limits, Ready
  <2> QED
    BY <1>4, <2>1, <2>2, <2>3 DEF LeaseStep
<1> QED
  BY <1>1, <1>2, <1>3, <1>4 DEF Next

\* Every reservation's spacing is at least the configured one.
SpacingKept == \A v \in reservations : v.spacing >= Spacing

LEMMA SpacingStep == TypeOK /\ SpacingKept /\ [Next]_vars => SpacingKept'
<1> SUFFICES ASSUME TypeOK, SpacingKept, [Next]_vars PROVE SpacingKept'
  OBVIOUS
<1>1. CASE Claim
  <2>1. PICK q \in Runs, t \in Task, jitter \in 0..MaxJitter : ClaimTask(q, t, jitter)
    BY <1>1 DEF Claim
  <2>2. \A v \in reservations' : v \in reservations \/ v.spacing = Spacing + jitter
    BY <2>1 DEF ClaimTask
  <2> QED
    BY <2>2, ClockAssumption DEF SpacingKept
<1>2. CASE ~Claim
  BY <1>2, OnlyClaimReserves DEF SpacingKept
<1> QED
  BY <1>1, <1>2

\* The account's pacing is ahead of its last submission by the spacing.
PacedAhead ==
  \A a \in Accounts : submittedAt[a] # NotAccepted =>
    submittedAt[a] \in Nat /\ Allowed(a) >= submittedAt[a] + Spacing

\* What was announced is over, or the account is not ready and still knows it.
AnnouncedKnown ==
  \A a \in Accounts :
    /\ announced[a] \in Nat
    /\ announced[a] <= now \/ (~Ready(a) /\ announced[a] <= Cooldown(a))

ClockInv == SpacingKept /\ PacedAhead /\ AnnouncedKnown

LEMMA ClockLedger == ClockSpec => []Ledger
<1>1. [ClockNext]_clockVars => [Next]_vars
  BY DEF ClockNext, clockVars
<1>2. ClockInit => Init
  BY DEF ClockInit
<1> QED
  BY <1>1, <1>2, LedgerInductive, PTL DEF ClockSpec, Spec

LEMMA ClockStep == Ledger /\ TypeOK' /\ ClockInv /\ [ClockNext]_clockVars => ClockInv'
<1> SUFFICES ASSUME Ledger, TypeOK', ClockInv, [ClockNext]_clockVars PROVE ClockInv'
  OBVIOUS
<1>1. TypeOK /\ [Next]_vars
  BY DEF Ledger, TypeInv, ClockNext, clockVars
<1>2. now \in Nat /\ now' \in Nat /\ now' >= now
  BY <1>1, TimeAdvances DEF TypeOK
<1>3. SpacingKept'
  BY <1>1, SpacingStep DEF ClockInv
<1>4. CASE UNCHANGED clockVars
  BY <1>3, <1>4 DEF ClockInv, PacedAhead, AnnouncedKnown, Allowed, Cooldown, Ready, clockVars, vars
<1>5. CASE ClockNext
  <2>1. ASSUME NEW a \in Accounts, submittedAt'[a] # NotAccepted
        PROVE  submittedAt'[a] \in Nat /\ Allowed(a)' >= submittedAt'[a] + Spacing
    <3>1. submittedAt'[a] = IF BeginsOn(a) THEN now ELSE submittedAt[a]
      BY <1>5 DEF ClockNext
    <3>2. CASE ~BeginsOn(a)
      <4>1. Allowed(a)' = Allowed(a)
        BY <1>1, <3>2, AccountMoves, BeginsBySubmission DEF PaceMove, BeginsOn
      <4> QED
        BY <2>1, <3>1, <3>2, <4>1 DEF ClockInv, PacedAhead
    <3>3. CASE BeginsOn(a)
      <4>1. PICK l \in Lease : AccountOf[l.run] = a /\ BeginSubmission(l)
        BY <1>1, <3>3, BeginsBySubmission DEF BeginsOn
      <4>2. PICK v \in reservations : Allowed(a)' = now + v.spacing
        BY <1>1, <4>1 DEF BeginSubmission, Allowed, TypeOK, AccountRow
      <4>3. v.spacing \in Nat /\ v.spacing >= Spacing
        BY <1>1 DEF ClockInv, SpacingKept, TypeOK, Reservation
      <4> QED
        BY <1>2, <3>1, <3>3, <4>2, <4>3, ClockAssumption
    <3> QED
      BY <3>2, <3>3
  <2>2. ASSUME NEW a \in Accounts
        PROVE  /\ announced'[a] \in Nat
               /\ announced'[a] <= now' \/ (~Ready(a)' /\ announced'[a] <= Cooldown(a)')
    <3>1. announced'[a] = IF Limits(a)' > Limits(a) THEN Cooldown(a)' ELSE announced[a]
      BY <1>5 DEF ClockNext, Limits, Cooldown
    <3>2. Cooldown(a) \in Nat /\ Limits(a) \in Nat
      BY <1>1, RowTypes
    <3>3. Cooldown(a)' \in Nat /\ Limits(a)' \in Nat
      BY DEF TypeOK, AccountRow, Cooldown, Limits
    <3>4. CooldownMove(a)
      BY <1>1, AccountMoves
    <3>5. /\ announced[a] \in Nat
          /\ announced[a] <= now \/ (~Ready(a) /\ announced[a] <= Cooldown(a))
      BY DEF ClockInv, AnnouncedKnown
    <3>6. CASE Limits(a)' > Limits(a)
      BY <3>1, <3>2, <3>3, <3>4, <3>6 DEF CooldownMove
    <3>7. CASE ~(Limits(a)' > Limits(a))
      BY <1>2, <3>1, <3>2, <3>3, <3>4, <3>5, <3>7 DEF CooldownMove
    <3> QED
      BY <3>6, <3>7
  <2> QED
    BY <1>3, <2>1, <2>2 DEF ClockInv, PacedAhead, AnnouncedKnown
<1> QED
  BY <1>4, <1>5

LEMMA ClockInductive == ClockSpec => [](Ledger /\ ClockInv)
<1>1. ClockInit => ClockInv
  BY DEF ClockInit, Init, ClockInv, SpacingKept, PacedAhead, AnnouncedKnown
<1>2. Ledger /\ Ledger' /\ ClockInv /\ [ClockNext]_clockVars => ClockInv'
  BY ClockStep DEF Ledger, TypeInv
<1> QED
  BY <1>1, <1>2, ClockLedger, PTL DEF ClockSpec

\* A submission on an account finds it ready and its pacing reached.
LEMMA BeginsWhenAllowed ==
  ASSUME Ledger, [Next]_vars, NEW a \in Accounts, BeginsOn(a)
  PROVE  Ready(a) /\ now >= Allowed(a)
BY BeginsBySubmission DEF BeginsOn, BeginSubmission, Submittable, Paced, Ready, Allowed

\* Two submissions of one account, whatever their runs, are at least the
\* configured spacing apart, for any accounts, runs and jitter (begin_submission).
THEOREM SubmissionsPaced == ClockSpec => SubmissionsSpaced
<1>1. Ledger /\ ClockInv /\ [ClockNext]_clockVars
        => \A a \in Accounts : BeginsOn(a) /\ submittedAt[a] # NotAccepted
                                 => now >= submittedAt[a] + Spacing
  <2> SUFFICES ASSUME Ledger, ClockInv, [ClockNext]_clockVars, NEW a \in Accounts,
                      BeginsOn(a), submittedAt[a] # NotAccepted
               PROVE  now >= submittedAt[a] + Spacing
    OBVIOUS
  <2>1. [Next]_vars /\ TypeOK
    BY DEF ClockNext, clockVars, Ledger, TypeInv
  <2>2. now >= Allowed(a) /\ Allowed(a) \in Nat /\ now \in Nat
    BY <2>1, BeginsWhenAllowed, RowTypes DEF TypeOK
  <2>3. submittedAt[a] \in Nat /\ Allowed(a) >= submittedAt[a] + Spacing
    BY DEF ClockInv, PacedAhead
  <2> QED
    BY <2>2, <2>3, ClockAssumption
<1> QED
  BY <1>1, ClockInductive, PTL DEF ClockSpec, SubmissionsSpaced

\* No attempt, however early it was prepared, is submitted before the end of a
\* cooldown that was announced to its account, for any accounts and delays.
THEOREM CooldownsKept == ClockSpec => CooldownBlocksSubmissions
<1>1. Ledger /\ ClockInv /\ [ClockNext]_clockVars
        => \A a \in Accounts : BeginsOn(a) => now >= announced[a]
  <2> SUFFICES ASSUME Ledger, ClockInv, [ClockNext]_clockVars, NEW a \in Accounts, BeginsOn(a)
               PROVE  now >= announced[a]
    OBVIOUS
  <2>1. [Next]_vars /\ TypeOK
    BY DEF ClockNext, clockVars, Ledger, TypeInv
  <2>2. Ready(a) /\ now \in Nat
    BY <2>1, BeginsWhenAllowed DEF TypeOK
  <2> QED
    BY <2>2 DEF ClockInv, AnnouncedKnown
<1> QED
  BY <1>1, ClockInductive, PTL DEF ClockSpec, CooldownBlocksSubmissions

\* Neither an operator nor a login makes an expired run schedulable again.
LEMMA ExpiredStays ==
  ASSUME TypeOK, [Next]_vars, NEW r \in Runs, now >= deadline[r],
         runStatus[r] \in {"paused", "waiting-for-auth"}
  PROVE  runStatus'[r] \notin Schedulable
<1> USE DEF runVars, taskVars, Schedulable
<1>a. /\ runStatus \in [Runs -> RunStatus] /\ now \in Nat /\ deadline[r] \in Nat
      /\ ~(now < deadline[r]) /\ ~(deadline[r] > now)
  BY DEF TypeOK
<1>1. CASE Tick \/ UNCHANGED vars
  BY <1>1 DEF Tick, vars
<1>2. CASE Claim
  <2>1. PICK q \in Runs, t \in Task, jitter \in 0..MaxJitter : ClaimTask(q, t, jitter)
    BY <1>2 DEF Claim
  <2>2. q # r
    BY <2>1 DEF ClaimTask, Claimable, Considered
  <2> QED
    BY <2>1, <2>2 DEF ClaimTask
<1>3. CASE ClaimNone
  BY <1>3 DEF ClaimNone
<1>4. CASE RunStep
  <2>1. PICK q \in Runs : \/ Submit(q) \/ Suspend(q) \/ Cancel(q)
                          \/ \E allowIncomplete \in BOOLEAN : Resume(q, allowIncomplete)
                          \/ ResumeReattached(q, Issued)
    BY <1>4 DEF RunStep
  <2> QED
    BY <1>a, <2>1 DEF Submit, Suspend, Cancel, Resume, WithinLimits, ResumeReattached
<1>5. CASE Recover
  BY <1>5 DEF Recover
<1>6. CASE AccountStep
  BY <1>a, <1>6 DEF AccountStep, AccountExpired, RateLimited, VerifyAccount, VerifyMismatch,
     ConfirmAccount, PauseAccountRuns, ResumeVerifiedRuns
<1>7. CASE LeaseStep
  <2>1. ASSUME NEW l \in Lease, BeginSubmission(l) PROVE runStatus'[r] \notin Schedulable
    BY <1>a, <2>1 DEF BeginSubmission, Submittable
  <2>2. ASSUME NEW l \in Lease, Accepted(l) \/ AcknowledgeCancel(l)
        PROVE  runStatus'[r] \notin Schedulable
    BY <2>2 DEF Accepted, AcknowledgeCancel
  <2>3. ASSUME NEW q, RequireReconciliation(q) PROVE runStatus'[r] \notin Schedulable
    BY <1>a, <2>3 DEF RequireReconciliation
  <2>4. ASSUME NEW l \in Lease, NEW d \in Disposition, FailAttempt(l, d)
        PROVE  runStatus'[r] \notin Schedulable
    <3>1. RequireReconciliation(l.run) \/ SettleReconciliation(l.run, Release(l))
      BY <2>4 DEF FailAttempt, FailCall
    <3>2. SettleReconciliation(l.run, Release(l)) => runStatus'[r] \notin Schedulable
      BY <1>a DEF SettleReconciliation, Settles
    <3> QED
      BY <2>3, <3>1, <3>2
  <2>5. ASSUME NEW l \in Lease, NEW verdict \in Verdict, NEW text \in BOOLEAN,
               StoreCapture(l, verdict, text)
        PROVE  runStatus'[r] \notin Schedulable
    <3> DEFINE finished == /\ verdict = "complete" /\ l.task = Revise
                           /\ runStatus[l.run] # "cancelled"
               mismatch == verdict = "model-mismatch" /\ runStatus[l.run] \notin Terminal
    <3>1. runStatus' = [runStatus EXCEPT ![l.run] =
                          IF finished THEN "completed"
                          ELSE IF mismatch THEN "paused"
                          ELSE IF Settles(l.run, Release(l)) THEN Restored(l.run)
                          ELSE runStatus[l.run]]
      BY <2>5 DEF StoreCapture
    <3> HIDE DEF finished, mismatch
    <3> QED
      BY <1>a, <3>1 DEF Settles
  <2>6. ASSUME NEW l \in Lease, NEW verdict \in Verdict, NEW text \in BOOLEAN,
               PreservePartial(l, verdict, text)
        PROVE  runStatus'[r] \notin Schedulable
    BY <2>3, <2>6 DEF PreservePartial
  <2> QED
    BY <1>7, <2>1, <2>2, <2>4, <2>5, <2>6 DEF LeaseStep
<1> QED
  BY <1>1, <1>2, <1>3, <1>4, <1>5, <1>6, <1>7 DEF Next

\* From its deadline on nothing is submitted for a run and nobody revives it, for
\* any runs and whatever they went through (resume, claim and begin_submission).
THEOREM DeadlinesHold == ClockSpec => DeadlineHolds
<1>1. Ledger /\ [ClockNext]_clockVars
        => \A r \in Runs : runStatus[r] # "absent" /\ now >= deadline[r] =>
             /\ \A l \in Lease : l.run = r => ~Begins(l)
             /\ runStatus[r] \in {"paused", "waiting-for-auth"} => runStatus'[r] \notin Schedulable
  <2> SUFFICES ASSUME Ledger, [ClockNext]_clockVars, NEW r \in Runs, now >= deadline[r]
               PROVE  /\ \A l \in Lease : l.run = r => ~Begins(l)
                      /\ runStatus[r] \in {"paused", "waiting-for-auth"}
                           => runStatus'[r] \notin Schedulable
    OBVIOUS
  <2>1. [Next]_vars /\ TypeOK
    BY DEF ClockNext, clockVars, Ledger, TypeInv
  <2>2. ~(now < deadline[r])
    BY <2>1 DEF TypeOK
  <2>3. \A l \in Lease : l.run = r => ~BeginSubmission(l)
    BY <2>2 DEF BeginSubmission, Submittable, WithinLimits
  <2> QED
    BY <2>1, <2>3, BeginsBySubmission, ExpiredStays
<1> QED
  BY <1>1, ClockLedger, PTL DEF ClockSpec, DeadlineHolds
===========================================================================

----------------------- MODULE WorkflowPipelineProofs -----------------------
(***************************************************************************)
(* The order of a run's stages and what is final in it, what a run may     *)
(* cost, the runs that wait for a login, and the attempts that another     *)
(* one followed: each from a summary of what any step of WorkflowStore can *)
(* do to a task, an attempt or a status.                                   *)
(***************************************************************************)
EXTENDS WorkflowStoreProofs

\* The moves of a task: none, claimed, an attempt's step or end, retried by the
\* operator, left out of the comparison.
Kept(r, t) == taskStatus'[r][t] = taskStatus[r][t] /\ attempts'[r][t] = attempts[r][t]

Started(r, t) ==
  /\ taskStatus[r][t] = "queued" /\ Unblocked(r, t)
  /\ taskStatus'[r][t] = "running" /\ attempts'[r][t] = attempts[r][t] + 1

Stepped(r, t) ==
  /\ taskStatus[r][t] = "running" /\ taskStatus'[r][t] # "excluded"
  /\ attempts'[r][t] = attempts[r][t]
  /\ taskStatus'[r][t] = "completed" => \E n \in Number : attemptState'[r][t][n] = "completed"

Requeued(r, t) ==
  /\ taskStatus[r][t] \in {"failed", "partial"} /\ taskStatus'[r][t] = "queued"
  /\ attempts'[r][t] = attempts[r][t]

LeftOut(r, t) ==
  /\ t \in Explore /\ taskStatus[r][t] # "completed" /\ taskStatus'[r][t] = "excluded"
  /\ attempts'[r][t] = attempts[r][t] /\ subset'[r]

TaskMove(r, t) ==
  Kept(r, t) \/ Started(r, t) \/ Stepped(r, t) \/ Requeued(r, t) \/ LeftOut(r, t)

SubsetMove(r) ==
  \/ subset'[r] = subset[r]
  \/ subset'[r] /\ \A t \in Explore : taskStatus'[r][t] \in {"completed", "excluded"}

\* The moves of an attempt: none, prepared, any step while it is live; it only
\* becomes completed together with its task.
AttemptMove(m) ==
  \/ StateOf(m)' = StateOf(m)
  \/ StateOf(m) = "none" /\ StateOf(m)' = "prepared"
  \/ /\ StateOf(m) \in Live
     /\ StateOf(m)' = "completed" => taskStatus'[m.run][m.task] = "completed"

Moves ==
  /\ \A r \in Runs : SubsetMove(r) /\ \A t \in Task : TaskMove(r, t)
  /\ \A m \in Lease : AttemptMove(m)

\* A step of an attempt that holds a reservation.
LEMMA LeaseMoves ==
  ASSUME Ledger, NEW l \in Lease, NEW s \in AttemptState, NEW q \in TaskStatus \ {"excluded"},
         Owns(l), SetAttempt(l, s), SetTask(l, q), UNCHANGED <<attempts, subset>>,
         s = "completed" <=> q = "completed"
  PROVE  Moves
<1> TypeOK /\ LatestLive
  BY LatestLiveMeans DEF Ledger, TypeInv
<1>1. /\ StateOf(l) \in Live /\ taskStatus[l.run][l.task] = "running"
      /\ l.run \in Runs /\ l.task \in Task /\ l.number \in Number
  BY DEF Ledger, ReservedExactlyWhileLive, LatestLive, Lease
<1>2. \A m \in Lease : StateOf(m)' = IF m = l THEN s ELSE StateOf(m)
  BY AttemptAt DEF StateOf
<1>3. \A r \in Runs, t \in Task :
        taskStatus'[r][t] = IF r = l.run /\ t = l.task THEN q ELSE taskStatus[r][t]
  BY TaskAt
<1>4. q = "completed" => attemptState'[l.run][l.task][l.number] = "completed"
  BY <1>2 DEF StateOf
<1>5. ASSUME NEW r \in Runs, NEW t \in Task PROVE TaskMove(r, t)
  <2>1. CASE r = l.run /\ t = l.task
    BY <1>1, <1>3, <1>4, <2>1 DEF TaskMove, Stepped
  <2>2. CASE ~(r = l.run /\ t = l.task)
    BY <1>3, <2>2 DEF TaskMove, Kept
  <2> QED
    BY <2>1, <2>2
<1>6. ASSUME NEW m \in Lease PROVE AttemptMove(m)
  BY <1>1, <1>2, <1>3 DEF AttemptMove
<1> QED
  BY <1>5, <1>6 DEF Moves, SubsetMove

LEMMA ClaimMoves ==
  ASSUME Ledger, NEW r \in Runs, NEW t \in Task, NEW jitter \in 0..MaxJitter,
         ClaimTask(r, t, jitter)
  PROVE  Moves
<1> DEFINE l == [run |-> r, task |-> t, number |-> attempts[r][t] + 1]
<1> TypeOK /\ LatestLive
  BY LatestLiveMeans DEF Ledger, TypeInv
<1>1. /\ taskStatus[r][t] = "queued" /\ Unblocked(r, t) /\ attempts[r][t] \in Nat
      /\ attempts[r][t] + 1 \in Number
  BY PipelineAssumption DEF ClaimTask, NextTasks, TypeOK, Number
<1>2. l \in Lease /\ l.run = r /\ l.task = t /\ l.number = attempts[r][t] + 1
  BY <1>1 DEF Lease
<1> HIDE DEF l
<1>3. /\ SetAttempt(l, "prepared") /\ SetTask(l, "running") /\ UNCHANGED subset
      /\ attempts' = [attempts EXCEPT ![r][t] = attempts[r][t] + 1]
  BY DEF ClaimTask, l
<1>4. \A m \in Lease : StateOf(m)' = IF m = l THEN "prepared" ELSE StateOf(m)
  BY <1>2, <1>3, AttemptAt DEF StateOf
<1>5. \A q \in Runs, u \in Task :
        /\ taskStatus'[q][u] = IF q = r /\ u = t THEN "running" ELSE taskStatus[q][u]
        /\ attempts'[q][u] = IF q = r /\ u = t THEN attempts[r][t] + 1 ELSE attempts[q][u]
  BY <1>2, <1>3, TaskAt DEF TypeOK
<1>6. StateOf(l) = "none"
  BY <1>1, <1>2 DEF LatestLive
<1>7. ASSUME NEW q \in Runs, NEW u \in Task PROVE TaskMove(q, u)
  <2>1. CASE q = r /\ u = t
    BY <1>1, <1>5, <2>1 DEF TaskMove, Started
  <2>2. CASE ~(q = r /\ u = t)
    BY <1>5, <2>2 DEF TaskMove, Kept
  <2> QED
    BY <2>1, <2>2
<1>8. ASSUME NEW m \in Lease PROVE AttemptMove(m)
  BY <1>4, <1>6 DEF AttemptMove
<1> QED
  BY <1>3, <1>7, <1>8 DEF Moves, SubsetMove

LEMMA ResumeMoves ==
  ASSUME Ledger, NEW r \in Runs, NEW allowIncomplete \in BOOLEAN, Resume(r, allowIncomplete)
  PROVE  Moves
<1>1. /\ taskStatus \in [Runs -> [Task -> TaskStatus]] /\ subset \in [Runs -> BOOLEAN]
      /\ UNCHANGED <<attempts, attemptState>>
  BY DEF Ledger, TypeInv, TypeOK, Resume
<1>2. \A m \in Lease : AttemptMove(m)
  BY <1>1 DEF AttemptMove, StateOf
<1>3. Explore \subseteq Task
  BY PipelineAssumption DEF Explore, Task
<1>4. CASE ResumeSubset(r)
  <2>1. \A q \in Runs, t \in Task : taskStatus'[q][t] =
          IF q = r /\ t \in Explore /\ taskStatus[q][t] # "completed"
          THEN "excluded" ELSE taskStatus[q][t]
    BY <1>1, <1>4 DEF ResumeSubset
  <2>2. \A q \in Runs : subset'[q] = IF q = r THEN TRUE ELSE subset[q]
    BY <1>1, <1>4 DEF ResumeSubset
  <2>3. \A q \in Runs, t \in Task : TaskMove(q, t)
    BY <1>1, <2>1, <2>2 DEF TaskMove, Kept, LeftOut
  <2>4. ASSUME NEW q \in Runs PROVE SubsetMove(q)
    <3>1. CASE q = r
      <4>1. ASSUME NEW t \in Explore PROVE taskStatus'[q][t] \in {"completed", "excluded"}
        <5>1. t \in Task
          BY <1>3
        <5> QED
          BY <2>1, <3>1, <5>1
      <4>2. subset'[q] = TRUE
        BY <2>2, <3>1
      <4> QED
        BY <4>1, <4>2 DEF SubsetMove
    <3>2. CASE q # r
      BY <2>2, <3>2 DEF SubsetMove
    <3> QED
      BY <3>1, <3>2
  <2> QED
    BY <1>2, <2>3, <2>4 DEF Moves
<1>5. CASE ResumeRetry(r)
  <2>1. \A q \in Runs, t \in Task : TaskMove(q, t)
    BY <1>1, <1>5 DEF ResumeRetry, Retried, TaskMove, Kept, Requeued
  <2>2. \A q \in Runs : SubsetMove(q)
    BY <1>5 DEF ResumeRetry, SubsetMove
  <2> QED
    BY <1>2, <2>1, <2>2 DEF Moves
<1> QED
  BY <1>4, <1>5 DEF Resume

LEMMA RecoverMoves ==
  ASSUME Ledger, Recover
  PROVE  Moves
<1> DEFINE interrupted == {v \in reservations : StateOf(v.lease) = "prepared"}
           ambiguous == reservations \ interrupted
<1> TypeOK /\ LatestLive
  BY LatestLiveMeans DEF Ledger, TypeInv
<1>1. UNCHANGED <<attempts, subset>>
  BY DEF Recover
<1>2. ASSUME NEW m \in Lease PROVE AttemptMove(m)
  <2>1. /\ m.run \in Runs /\ m.task \in Task /\ m.number \in Number
        /\ [run |-> m.run, task |-> m.task, number |-> m.number] = m
    BY DEF Lease
  <2>2. StateOf(m)' = IF \E v \in interrupted : v.lease = m THEN "failed"
                      ELSE IF (\E v \in ambiguous : v.lease = m) /\ StateOf(m) = "submitting"
                      THEN "uncertain" ELSE StateOf(m)
    BY <2>1 DEF Recover, StateOf
  <2>3. (\E v \in interrupted : v.lease = m) => StateOf(m) = "prepared"
    OBVIOUS
  <2> QED
    BY <2>2, <2>3 DEF AttemptMove, Live
<1>3. ASSUME NEW r \in Runs, NEW t \in Task PROVE TaskMove(r, t)
  <2> DEFINE Hit == \E n \in Number : \E v \in interrupted :
                      v.lease = [run |-> r, task |-> t, number |-> n]
  <2>1. taskStatus'[r][t] = IF Hit
                            THEN IF attempts[r][t] < AutomaticAttempts THEN "queued" ELSE "failed"
                            ELSE taskStatus[r][t]
    BY DEF Recover
  <2>2. Hit => taskStatus[r][t] = "running"
    <3> SUFFICES ASSUME NEW n \in Number, NEW v \in interrupted,
                        v.lease = [run |-> r, task |-> t, number |-> n]
                 PROVE  taskStatus[r][t] = "running"
      OBVIOUS
    <3>1. v.lease \in Lease /\ v.lease.run = r /\ v.lease.task = t /\ StateOf(v.lease) \in Live
      BY DEF Lease, Live
    <3> QED
      BY <3>1 DEF LatestLive
  <2>3. CASE Hit
    BY <1>1, <2>1, <2>2, <2>3 DEF TaskMove, Stepped
  <2>4. CASE ~Hit
    BY <1>1, <2>1, <2>4 DEF TaskMove, Kept
  <2> QED
    BY <2>3, <2>4
<1> QED
  BY <1>1, <1>2, <1>3 DEF Moves, SubsetMove

LEMMA OtherMoves ==
  ASSUME UNCHANGED <<taskStatus, attempts, attemptState, subset>>
  PROVE  Moves
BY DEF Moves, SubsetMove, TaskMove, Kept, AttemptMove, StateOf

LEMMA MovesStep == Ledger /\ [Next]_vars => Moves
<1> SUFFICES ASSUME Ledger, [Next]_vars PROVE Moves
  OBVIOUS
<1> USE DEF runVars, taskVars
<1>1. CASE Tick \/ ClaimNone \/ AccountStep \/ UNCHANGED vars
  BY <1>1, OtherMoves DEF Tick, ClaimNone, AccountStep, AccountExpired, RateLimited,
     VerifyAccount, VerifyMismatch, ConfirmAccount, vars
<1>2. CASE Claim
  BY <1>2, ClaimMoves DEF Claim
<1>3. CASE Recover
  BY <1>3, RecoverMoves
<1>4. CASE RunStep
  <2>1. ASSUME NEW r \in Runs,
               Submit(r) \/ Suspend(r) \/ Cancel(r) \/ ResumeReattached(r, Issued)
        PROVE  Moves
    BY <2>1, OtherMoves DEF Submit, Suspend, Cancel, ResumeReattached
  <2> QED
    BY <1>4, <2>1, ResumeMoves DEF RunStep
<1>5. CASE LeaseStep
  <2>1. ASSUME NEW l \in Lease, Owns(l)
        PROVE  /\ StateOf(l) \in Live
               /\ l.run \in Runs /\ l.task \in Task /\ taskStatus[l.run][l.task] = "running"
    BY <2>1, LatestLiveMeans DEF Ledger, ReservedExactlyWhileLive, LatestLive, Lease
  <2>2. ASSUME NEW l \in Lease, Owns(l), taskStatus' = taskStatus PROVE SetTask(l, "running")
    <3>1. taskStatus = [taskStatus EXCEPT ![l.run][l.task] = "running"]
      BY <2>1, <2>2 DEF Ledger, TypeInv, TypeOK
    <3> QED
      BY <2>2, <3>1 DEF SetTask
  <2>3. ASSUME NEW l \in Lease, NEW s \in AttemptState, NEW q \in TaskStatus,
               Owns(l), SetAttempt(l, s), SetTask(l, q), UNCHANGED <<attempts, subset>>,
               q # "excluded", s = "completed" <=> q = "completed"
        PROVE  Moves
    BY <2>3, LeaseMoves
  <2> USE DEF AttemptState, TaskStatus, Live
  <2>4. ASSUME NEW l \in Lease, BeginSubmission(l) PROVE Moves
    <3>1. Owns(l) /\ SetAttempt(l, "submitting") /\ UNCHANGED <<taskStatus, attempts, subset>>
      BY <2>4 DEF BeginSubmission, Owns
    <3> QED
      BY <2>2, <2>3, <3>1
  <2>5. ASSUME NEW l \in Lease, Accepted(l) PROVE Moves
    BY <2>2, <2>3, <2>5 DEF Accepted
  <2>6. ASSUME NEW l \in Lease, NEW d \in Disposition, FailAttempt(l, d) PROVE Moves
    BY <2>3, <2>6 DEF FailAttempt, FailCall
  <2>7. ASSUME NEW l \in Lease, AcknowledgeCancel(l) PROVE Moves
    <3>1. StateOf(l) \in Live /\ StoppedTask(l) = "failed"
      BY <2>1, <2>7 DEF AcknowledgeCancel, StoppedTask
    <3> QED
      BY <2>3, <2>7, <3>1 DEF AcknowledgeCancel
  <2>8. ASSUME NEW l \in Lease, NEW verdict \in Verdict, NEW text \in BOOLEAN,
               StoreCapture(l, verdict, text)
        PROVE  Moves
    <3>1. ~(verdict = "complete" /\ RetriedAutomatically(l, verdict = "invalid"))
      BY DEF RetriedAutomatically
    <3> QED
      BY <2>3, <2>8, <3>1 DEF StoreCapture, Captured, Outcome
  <2>9. ASSUME NEW l \in Lease, NEW verdict \in Verdict, NEW text \in BOOLEAN,
               PreservePartial(l, verdict, text)
        PROVE  Moves
    BY <2>3, <2>9 DEF PreservePartial, Captured
  <2> QED
    BY <1>5, <2>4, <2>5, <2>6, <2>7, <2>8, <2>9 DEF LeaseStep
<1> QED
  BY <1>1, <1>2, <1>3, <1>4, <1>5 DEF Next

---------------------------------------------------------------------------
\* Everything before an attempted reduction is settled.  PipelineOrder only
\* speaks of the stage before; the whole chain is what a completed run needs.
ChainOrder ==
  \A r \in Runs, t \in Task \ Explore : attempts[r][t] > 0 =>
    ExplorationDone(r) /\ \A u \in Task \ Explore : u < t => taskStatus[r][u] = "completed"

\* A run only ends completed by completing its last stage; nothing ends it failed.
RunsEnd ==
  \A r \in Runs : /\ runStatus[r] # "failed"
                  /\ runStatus[r] = "completed" => taskStatus[r][Revise] = "completed"

Pipeline == Ledger /\ CompletedAnswerIsFinal /\ SubsetIsFrozen /\ ChainOrder /\ RunsEnd

\* CompletedAnswerIsFinal said of leases.
CompletedFinal ==
  /\ \A m \in Lease : StateOf(m) = "completed" => /\ m.number = attempts[m.run][m.task]
                                                  /\ taskStatus[m.run][m.task] = "completed"
  /\ \A r \in Runs, t \in Task : taskStatus[r][t] = "completed" =>
       \E n \in Number : attemptState[r][t][n] = "completed"

LEMMA CompletedFinalMeans == CompletedAnswerIsFinal <=> CompletedFinal
<1>1. ASSUME NEW r \in Runs, NEW t \in Task, NEW n \in Number
      PROVE  LET m == [run |-> r, task |-> t, number |-> n]
             IN  m \in Lease /\ m.run = r /\ m.task = t /\ m.number = n
                 /\ StateOf(m) = attemptState[r][t][n]
  BY DEF Lease, StateOf
<1>2. ASSUME NEW m \in Lease
      PROVE  /\ m.run \in Runs /\ m.task \in Task /\ m.number \in Number
             /\ StateOf(m) = attemptState[m.run][m.task][m.number]
  BY DEF Lease, StateOf
<1>3. CompletedAnswerIsFinal => CompletedFinal
  BY <1>2 DEF CompletedAnswerIsFinal, CompletedFinal
<1>4. ASSUME CompletedFinal, NEW r \in Runs, NEW t \in Task, NEW n \in Number,
             attemptState[r][t][n] = "completed"
      PROVE  n = attempts[r][t] /\ taskStatus[r][t] = "completed"
  <2> DEFINE m == [run |-> r, task |-> t, number |-> n]
  <2>1. m \in Lease /\ m.run = r /\ m.task = t /\ m.number = n /\ StateOf(m) = "completed"
    BY <1>1, <1>4
  <2> HIDE DEF m
  <2> QED
    BY <1>4, <2>1 DEF CompletedFinal
<1>5. CompletedFinal => CompletedAnswerIsFinal
  BY <1>4 DEF CompletedAnswerIsFinal, CompletedFinal
<1> QED
  BY <1>3, <1>5

LEMMA PipelineInit == Init => Pipeline
<1> SUFFICES ASSUME Init PROVE Pipeline
  OBVIOUS
<1>1. CompletedAnswerIsFinal
  BY DEF Init, CompletedAnswerIsFinal
<1>2. SubsetIsFrozen
  BY PipelineAssumption DEF Init, SubsetIsFrozen, Explore, Task, runVars
<1>3. ChainOrder
  BY DEF Init, ChainOrder
<1>4. RunsEnd
  BY DEF Init, RunsEnd
<1> QED
  BY <1>1, <1>2, <1>3, <1>4, LedgerInit DEF Pipeline

\* A completed task stays completed, a candidate left out stays left out.
LEMMA Settled ==
  ASSUME Moves, NEW r \in Runs, NEW t \in Task
  PROVE  /\ taskStatus[r][t] = "completed" => taskStatus'[r][t] = "completed"
         /\ taskStatus[r][t] = "excluded" => taskStatus'[r][t] = "excluded"
BY DEF Moves, TaskMove, Kept, Started, Stepped, Requeued, LeftOut

LEMMA ExplorationSettled ==
  ASSUME Moves, NEW r \in Runs, ExplorationDone(r)
  PROVE  ExplorationDone(r)'
<1> DEFINE now_ == CompletedCandidates(r)
           next_ == {t \in Explore : taskStatus'[r][t] = "completed"}
<1>1. Explore \subseteq Task /\ next_ \subseteq 1..Candidates
  BY PipelineAssumption DEF Explore, Task
<1>2. now_ \subseteq next_
  BY <1>1, Settled DEF CompletedCandidates
<1>3. IsFiniteSet(1..Candidates)
  BY PipelineAssumption, FS_Interval
<1>4. IsFiniteSet(next_) /\ Cardinality(next_) \in Nat
  BY <1>1, <1>3, FS_Subset, FS_CardinalityType
<1>5. Cardinality(now_) <= Cardinality(next_) /\ Cardinality(now_) \in Nat
  BY <1>2, <1>4, FS_Subset, FS_CardinalityType
<1>6. Cardinality(next_) >= MinComplete
  BY <1>4, <1>5, PipelineAssumption DEF ExplorationDone
<1>7. subset[r] => subset'[r]
  BY DEF Moves, SubsetMove
<1>8. \A t \in Explore : \/ taskStatus'[r][t] = "completed"
                         \/ subset'[r] /\ taskStatus'[r][t] = "excluded"
  BY <1>1, <1>7, Settled DEF ExplorationDone
<1> QED
  BY <1>6, <1>8 DEF ExplorationDone, CompletedCandidates

LEMMA CompletedKept ==
  ASSUME Ledger, CompletedAnswerIsFinal, Moves
  PROVE  CompletedFinal'
<1>1. LatestLive /\ CompletedFinal
  BY LatestLiveMeans, CompletedFinalMeans DEF Ledger
<1>2. ASSUME NEW m \in Lease, StateOf(m)' = "completed"
      PROVE  m.number = attempts'[m.run][m.task] /\ taskStatus'[m.run][m.task] = "completed"
  <2>1. m.run \in Runs /\ m.task \in Task
    BY DEF Lease
  <2>2. AttemptMove(m) /\ TaskMove(m.run, m.task)
    BY <2>1 DEF Moves
  <2>3. CASE StateOf(m)' = StateOf(m)
    BY <1>1, <1>2, <2>2, <2>3
       DEF CompletedFinal, TaskMove, Kept, Started, Stepped, Requeued, LeftOut
  <2>4. CASE StateOf(m) \in Live /\ taskStatus'[m.run][m.task] = "completed"
    BY <1>1, <2>2, <2>4 DEF LatestLive, TaskMove, Kept, Started, Stepped, Requeued, LeftOut
  <2> QED
    BY <1>2, <2>2, <2>3, <2>4 DEF AttemptMove
<1>3. ASSUME NEW r \in Runs, NEW t \in Task, taskStatus'[r][t] = "completed"
      PROVE  \E n \in Number : attemptState'[r][t][n] = "completed"
  <2>1. TaskMove(r, t)
    BY DEF Moves
  <2>2. CASE taskStatus[r][t] = "completed"
    <3>1. PICK n \in Number : attemptState[r][t][n] = "completed"
      BY <1>1, <2>2 DEF CompletedFinal
    <3> DEFINE m == [run |-> r, task |-> t, number |-> n]
    <3>2. /\ m \in Lease /\ StateOf(m) = "completed"
          /\ StateOf(m)' = attemptState'[r][t][n]
      BY <3>1 DEF Lease, StateOf
    <3> HIDE DEF m
    <3>3. StateOf(m)' = StateOf(m)
      BY <3>2 DEF Moves, AttemptMove, Live
    <3> QED
      BY <3>2, <3>3
  <2>3. CASE taskStatus[r][t] # "completed"
    BY <1>3, <2>1, <2>3 DEF TaskMove, Kept, Started, Stepped, Requeued, LeftOut
  <2> QED
    BY <2>2, <2>3
<1> QED
  BY <1>2, <1>3 DEF CompletedFinal

LEMMA SubsetKept ==
  ASSUME SubsetIsFrozen, Moves
  PROVE  SubsetIsFrozen'
<1> SUFFICES ASSUME NEW r \in Runs, NEW t \in Explore
             PROVE  /\ subset'[r] => taskStatus'[r][t] \in {"completed", "excluded"}
                    /\ taskStatus'[r][t] = "excluded" => subset'[r]
  BY DEF SubsetIsFrozen
<1>1. t \in Task
  BY PipelineAssumption DEF Explore, Task
<1>2. TaskMove(r, t) /\ SubsetMove(r)
  BY <1>1 DEF Moves
<1>3. subset'[r] => taskStatus'[r][t] \in {"completed", "excluded"}
  BY <1>1, <1>2, Settled DEF SubsetIsFrozen, SubsetMove
<1>4. taskStatus'[r][t] = "excluded" => subset'[r]
  BY <1>2 DEF SubsetIsFrozen, SubsetMove, TaskMove, Kept, Started, Stepped, Requeued, LeftOut
<1> QED
  BY <1>3, <1>4

\* A stage is first attempted when the one before is completed, which was
\* attempted on a settled chain itself.
LEMMA ChainKept ==
  ASSUME Ledger, CompletedAnswerIsFinal, ChainOrder, Moves
  PROVE  ChainOrder'
<1> SUFFICES ASSUME NEW r \in Runs, NEW t \in Task \ Explore, attempts'[r][t] > 0,
                    NEW u \in Task \ Explore
             PROVE  /\ ExplorationDone(r)'
                    /\ u < t => taskStatus'[r][u] = "completed"
  BY DEF ChainOrder
<1>1. /\ TaskMove(r, t) /\ attempts[r][t] \in Nat
      /\ t \in Int /\ u \in Int /\ t >= Compare /\ u >= Compare /\ Compare \in Int
  BY PipelineAssumption DEF Moves, Ledger, TypeInv, TypeOK, Task, Explore, Compare
<1>2. CASE attempts[r][t] > 0
  BY <1>2, Settled, ExplorationSettled DEF ChainOrder
<1>3. CASE ~(attempts[r][t] > 0)
  <2>1. Unblocked(r, t)
    BY <1>1, <1>3 DEF TaskMove, Kept, Started, Stepped, Requeued, LeftOut
  <2>2. ExplorationDone(r) /\ (t = Compare \/ taskStatus[r][t - 1] = "completed")
    BY <2>1 DEF Unblocked
  <2>3. ASSUME u < t PROVE taskStatus[r][u] = "completed"
    <3> DEFINE p == t - 1
    <3>1. p \in Task \ Explore /\ taskStatus[r][p] = "completed" /\ u <= p
      BY <1>1, <2>2, <2>3, PipelineAssumption DEF Task, Explore, Compare
    <3>2. attempts[r][p] > 0
      <4>1. PICK n \in Number : attemptState[r][p][n] = "completed"
        BY <3>1 DEF CompletedAnswerIsFinal
      <4>2. n = attempts[r][p]
        BY <3>1, <4>1 DEF CompletedAnswerIsFinal
      <4> QED
        BY <4>2, PipelineAssumption DEF Number
    <3>3. CASE u = p
      BY <3>1, <3>3
    <3>4. CASE u < p
      BY <3>1, <3>2, <3>4 DEF ChainOrder
    <3> QED
      BY <1>1, <3>1, <3>3, <3>4
  <2> QED
    BY <2>2, <2>3, Settled, ExplorationSettled
<1> QED
  BY <1>2, <1>3

\* Completing the last stage leaves nothing running, so nothing is reserved.
LEMMA RunWhole == Pipeline => CompletedRunIsWhole
<1> SUFFICES ASSUME Pipeline, NEW r \in Runs, runStatus[r] = "completed"
             PROVE  /\ ExplorationDone(r)
                    /\ \A t \in Task \ Explore : taskStatus[r][t] = "completed"
                    /\ ReservationsOf(r) = {}
  BY DEF CompletedRunIsWhole
<1>1. taskStatus[r][Revise] = "completed" /\ Revise \in Task \ Explore
  BY PipelineAssumption DEF Pipeline, RunsEnd, Revise, Task, Explore
<1>2. attempts[r][Revise] > 0
  <2>1. PICK n \in Number : attemptState[r][Revise][n] = "completed"
    BY <1>1 DEF Pipeline, CompletedAnswerIsFinal
  <2>2. n = attempts[r][Revise]
    BY <1>1, <2>1 DEF Pipeline, CompletedAnswerIsFinal
  <2> QED
    BY <2>2, PipelineAssumption DEF Number
<1>3. ExplorationDone(r)
  BY <1>1, <1>2 DEF Pipeline, ChainOrder
<1>4. ASSUME NEW t \in Task \ Explore PROVE taskStatus[r][t] = "completed"
  <2>1. t = Revise \/ t < Revise
    BY PipelineAssumption DEF Task, Revise
  <2> QED
    BY <1>1, <1>2, <2>1 DEF Pipeline, ChainOrder
<1>5. ASSUME NEW v \in ReservationsOf(r) PROVE FALSE
  <2>1. v.lease \in Lease /\ v.lease.run = r /\ v.lease.task \in Task /\ Owns(v.lease)
    BY DEF Pipeline, Ledger, TypeInv, TypeOK, ReservationsOf, Reservation, Lease, Owns
  <2>2. taskStatus[r][v.lease.task] = "running"
    BY <2>1, LatestLiveMeans DEF Pipeline, Ledger, ReservedExactlyWhileLive, LatestLive
  <2> QED
    BY <1>3, <1>4, <2>1, <2>2 DEF ExplorationDone
<1> QED
  BY <1>3, <1>4, <1>5

\* The moves of a run's status that matter: none, between statuses that do not
\* end a run, an operator's cancellation, the capture of the last stage.
RunMove(r) ==
  \/ runStatus'[r] = runStatus[r]
  \/ /\ runStatus[r] \notin Terminal
     /\ \/ runStatus'[r] \notin {"completed", "failed"}
        \/ runStatus'[r] = "completed" /\ taskStatus'[r][Revise] = "completed"

LEMMA RunMoves == Pipeline /\ [Next]_vars => \A r \in Runs : RunMove(r)
<1> SUFFICES ASSUME Pipeline, [Next]_vars, NEW r \in Runs PROVE RunMove(r)
  OBVIOUS
<1> USE DEF runVars, taskVars, Terminal
<1>1. /\ runStatus \in [Runs -> RunStatus] /\ recovery \in [Runs -> Recoverable \cup {"none"}]
      /\ runStatus[r] # "failed" /\ ReservedExactlyWhileLive
  BY DEF Pipeline, Ledger, TypeInv, TypeOK, RunsEnd
<1>2. CASE Tick \/ UNCHANGED vars
  BY <1>2 DEF Tick, vars, RunMove
<1>3. CASE Claim
  <2>1. PICK q \in Runs, t \in Task, jitter \in 0..MaxJitter : ClaimTask(q, t, jitter)
    BY <1>3 DEF Claim
  <2>2. runStatus'[r] = IF r = q THEN "running"
                        ELSE IF r \in PausedByClaim(Visited(q)) THEN "paused" ELSE runStatus[r]
    BY <2>1 DEF ClaimTask
  <2>3. runStatus[q] \notin Terminal
    BY <2>1 DEF ClaimTask, Claimable, Considered, Schedulable
  <2>4. r \in PausedByClaim(Visited(q)) => runStatus[r] \notin Terminal
    BY DEF PausedByClaim, Expired, Exhausted, Incomplete, Considered, Schedulable, Recoverable
  <2> QED
    BY <2>2, <2>3, <2>4 DEF RunMove
<1>4. CASE ClaimNone
  <2>1. r \in PausedByClaim(Runs) => runStatus[r] \notin Terminal
    BY DEF PausedByClaim, Expired, Exhausted, Incomplete, Considered, Schedulable, Recoverable
  <2> QED
    BY <1>4, <2>1 DEF ClaimNone, RunMove
<1>5. CASE RunStep
  <2>1. PICK q \in Runs : \/ Submit(q) \/ Suspend(q) \/ Cancel(q)
                          \/ \E allowIncomplete \in BOOLEAN : Resume(q, allowIncomplete)
                          \/ ResumeReattached(q, Issued)
    BY <1>5 DEF RunStep
  <2> QED
    BY <1>1, <2>1 DEF RunMove, Submit, Suspend, Cancel, Resume, ResumeReattached, InitialStatus,
       Restored
<1>6. CASE Recover
  BY <1>1, <1>6 DEF Recover, RunMove
<1>7. CASE AccountStep
  BY <1>1, <1>7 DEF AccountStep, AccountExpired, RateLimited, VerifyAccount, VerifyMismatch,
     ConfirmAccount, PauseAccountRuns, ResumeVerifiedRuns, RunMove, Schedulable
<1>8. CASE LeaseStep
  <2>1. ASSUME NEW l \in Lease, Owns(l) PROVE runStatus[l.run] # "completed" /\ l.run \in Runs
    BY <2>1, RunWhole DEF CompletedRunIsWhole, ReservationsOf, Owns, Lease
  <2>2. ASSUME NEW l \in Lease, BeginSubmission(l) PROVE RunMove(r)
    BY <1>1, <2>2 DEF BeginSubmission, Submittable, Schedulable, RunMove
  <2>3. ASSUME NEW l \in Lease, Accepted(l) \/ AcknowledgeCancel(l) PROVE RunMove(r)
    BY <2>3 DEF Accepted, AcknowledgeCancel, RunMove
  <2>4. ASSUME NEW l \in Lease, RequireReconciliation(l.run) PROVE RunMove(r)
    BY <1>1, <2>4 DEF RequireReconciliation, RunMove
  <2>5. ASSUME NEW l \in Lease, NEW d \in Disposition, FailAttempt(l, d) PROVE RunMove(r)
    <3>1. CASE d = "Uncertain"
      BY <2>4, <2>5, <3>1 DEF FailAttempt, FailCall
    <3>2. CASE d # "Uncertain"
      BY <1>1, <2>5, <3>2 DEF FailAttempt, FailCall, SettleReconciliation, Settles, Restored, RunMove
    <3> QED
      BY <3>1, <3>2
  <2>6. ASSUME NEW l \in Lease, NEW verdict \in Verdict, NEW text \in BOOLEAN,
               PreservePartial(l, verdict, text)
        PROVE  RunMove(r)
    BY <2>4, <2>6 DEF PreservePartial
  <2>7. ASSUME NEW l \in Lease, NEW verdict \in Verdict, NEW text \in BOOLEAN,
               StoreCapture(l, verdict, text)
        PROVE  RunMove(r)
    <3> DEFINE finished == /\ verdict = "complete" /\ l.task = Revise
                           /\ runStatus[l.run] # "cancelled"
               mismatch == verdict = "model-mismatch" /\ runStatus[l.run] \notin Terminal
               settled == Settles(l.run, Release(l))
    <3>1. runStatus[l.run] # "completed" /\ l.run \in Runs /\ l.task \in Task
      BY <2>1, <2>7 DEF StoreCapture, Captured, Lease
    <3>2. runStatus' = [runStatus EXCEPT ![l.run] =
                          IF finished THEN "completed"
                          ELSE IF mismatch THEN "paused"
                          ELSE IF settled THEN Restored(l.run) ELSE runStatus[l.run]]
      BY <2>7 DEF StoreCapture
    <3>3. CASE r # l.run
      BY <1>1, <3>2, <3>3 DEF RunMove
    <3>4. CASE r = l.run /\ finished
      <4>1. SetTask(l, "completed")
        BY <2>7, <3>4 DEF StoreCapture, RetriedAutomatically, Outcome
      <4>2. taskStatus'[r][Revise] = "completed"
        BY <3>1, <3>4, <4>1, TaskAt DEF Pipeline, Ledger, TypeInv
      <4> QED
        BY <1>1, <3>1, <3>2, <3>4, <4>2 DEF RunMove
    <3>5. CASE r = l.run /\ ~finished
      BY <1>1, <3>1, <3>2, <3>5 DEF RunMove, Settles, Restored
    <3> QED
      BY <3>3, <3>4, <3>5
  <2> QED
    BY <1>8, <2>2, <2>3, <2>5, <2>6, <2>7 DEF LeaseStep
<1> QED
  BY <1>2, <1>3, <1>4, <1>5, <1>6, <1>7, <1>8 DEF Next

LEMMA PipelineStep == Pipeline /\ [Next]_vars => Pipeline'
<1> SUFFICES ASSUME Pipeline, [Next]_vars PROVE Pipeline'
  OBVIOUS
<1>1. Moves
  BY MovesStep DEF Pipeline
<1>2. Ledger'
  <2>1. LatestLive' => OnlyLatestAttemptLive'
    BY LatestLiveMeans, PTL
  <2> QED
    BY <2>1, LedgerStep, TypeStep, OwnersStep DEF Pipeline, Ledger, TypeInv
<1>3. CompletedAnswerIsFinal'
  <2>1. CompletedFinal' => CompletedAnswerIsFinal'
    BY CompletedFinalMeans, PTL
  <2> QED
    BY <1>1, <2>1, CompletedKept DEF Pipeline
<1>4. SubsetIsFrozen' /\ ChainOrder'
  BY <1>1, SubsetKept, ChainKept DEF Pipeline
<1>5. RunsEnd'
  <2>1. Revise \in Task
    BY PipelineAssumption DEF Revise, Task
  <2>2. \A r \in Runs : RunMove(r)
    BY RunMoves
  <2>3. \A r \in Runs : taskStatus[r][Revise] = "completed" => taskStatus'[r][Revise] = "completed"
    BY <1>1, <2>1, Settled
  <2> QED
    BY <2>2, <2>3 DEF Pipeline, RunsEnd, RunMove
<1> QED
  BY <1>2, <1>3, <1>4, <1>5 DEF Pipeline

LEMMA PipelineInductive == Spec => []Pipeline
BY PipelineInit, PipelineStep, PTL DEF Spec

---------------------------------------------------------------------------
\* result and prompt find one completed answer per stage, whatever was retried.
THEOREM AnswersFinal == Spec => []CompletedAnswerIsFinal
BY PipelineInductive, PTL DEF Pipeline

\* Continuing with a subset decides the candidates once and for all.
THEOREM SubsetFrozen == Spec => []SubsetIsFrozen
BY PipelineInductive, PTL DEF Pipeline

\* No retry, subset or restart lets a stage run on an unsettled predecessor.
THEOREM StagesInOrder == Spec => []PipelineOrder
<1>1. Pipeline => PipelineOrder
  <2> SUFFICES ASSUME Pipeline, NEW r \in Runs, NEW t \in Task \ Explore, attempts[r][t] > 0
               PROVE  ExplorationDone(r) /\ (t > Compare => taskStatus[r][t - 1] = "completed")
    BY DEF PipelineOrder
  <2>1. ExplorationDone(r)
    BY DEF Pipeline, ChainOrder
  <2>2. ASSUME t > Compare PROVE taskStatus[r][t - 1] = "completed"
    <3>1. t - 1 \in Task \ Explore /\ t - 1 < t
      BY <2>2, PipelineAssumption DEF Task, Explore, Compare
    <3> QED
      BY <3>1 DEF Pipeline, ChainOrder
  <2> QED
    BY <2>1, <2>2
<1> QED
  BY <1>1, PipelineInductive, PTL

\* A run reported completed has every stage and gave all its capacity back.
THEOREM CompletedRunsWhole == Spec => []CompletedRunIsWhole
BY PipelineInductive, RunWhole, PTL

\* The trigger terminal_run_state never has to refuse an operation of Store.
THEOREM TerminalRunsFinal == Spec => TerminalIsFinal
<1>1. Pipeline /\ [Next]_vars =>
        [\A r \in Runs : runStatus[r] \in Terminal => runStatus'[r] = runStatus[r]]_vars
  BY RunMoves DEF RunMove
<1> QED
  BY <1>1, PipelineInductive, PTL DEF Spec, TerminalIsFinal

---------------------------------------------------------------------------
(***************************************************************************)
(* What a run may cost: the submission budget and the account's capacity.  *)
(***************************************************************************)
AcceptedOf(m) == acceptedAt[m.run][m.task][m.number]

\* The attempts of r the provider may have received.
Sent(r) ==
  {l \in Issued : /\ l.run = r
                  /\ \/ StateOf(l) \in {"submitting", "uncertain"}
                     \/ acceptedAt[r][l.task][l.number] # NotAccepted}

\* An acceptance is recorded with the step that makes the attempt accepted.
AcceptanceRecorded ==
  \A m \in Lease : /\ StateOf(m) \in {"none", "prepared"} => AcceptedOf(m) = NotAccepted
                   /\ StateOf(m) = "accepted" => AcceptedOf(m) # NotAccepted

SentFinite == \A r \in Runs : IsFiniteSet(Sent(r))

Budget == Ledger /\ AcceptanceRecorded /\ SentFinite /\ SubmissionsCharged

\* What a step that submits nothing does to an attempt.
Waits(m) == StateOf(m)' = StateOf(m) /\ AcceptedOf(m)' = AcceptedOf(m)

Answers(m) ==
  \/ StateOf(m) = "none" /\ StateOf(m)' = "prepared" /\ AcceptedOf(m)' = AcceptedOf(m)
  \/ StateOf(m) = "submitting" /\ StateOf(m)' = "accepted" /\ AcceptedOf(m)' # NotAccepted
  \/ /\ StateOf(m) \in {"submitting", "accepted", "uncertain"} /\ StateOf(m)' = "uncertain"
     /\ AcceptedOf(m)' = AcceptedOf(m)
  \/ /\ StateOf(m) \in Live /\ StateOf(m)' \notin Live \cup {"none"}
     /\ AcceptedOf(m)' = AcceptedOf(m)

Unsubmitted == submissions' = submissions /\ \A m \in Lease : Waits(m) \/ Answers(m)

\* What the step that submits l does.
Submitted(l) ==
  /\ StateOf(l) = "prepared" /\ StateOf(l)' = "submitting" /\ AcceptedOf(l)' = AcceptedOf(l)
  /\ \A m \in Lease : m # l => Waits(m)
  /\ submissions' = Charged(l.run)

LEMMA UnsubmittedKeepsBudget ==
  ASSUME Budget, Unsubmitted
  PROVE  AcceptanceRecorded' /\ SentFinite' /\ SubmissionsCharged'
<1>1. AcceptanceRecorded'
  BY DEF Budget, AcceptanceRecorded, Unsubmitted, Waits, Answers, Live
<1>2. \A r \in Runs : Sent(r)' \subseteq Sent(r)
  <2> SUFFICES ASSUME NEW r \in Runs, NEW m \in Lease, m.run = r, StateOf(m)' # "none",
                      \/ StateOf(m)' \in {"submitting", "uncertain"}
                      \/ AcceptedOf(m)' # NotAccepted
               PROVE  m \in Sent(r)
    BY DEF Sent, Issued, AcceptedOf
  <2>1. Waits(m) \/ Answers(m)
    BY DEF Unsubmitted
  <2>2. /\ StateOf(m) # "none"
        /\ StateOf(m) \in {"submitting", "uncertain"} \/ AcceptedOf(m) # NotAccepted
    BY <2>1 DEF Budget, AcceptanceRecorded, Waits, Answers, Live
  <2> QED
    BY <2>2 DEF Sent, Issued, AcceptedOf
<1>3. ASSUME NEW r \in Runs
      PROVE  IsFiniteSet(Sent(r)') /\ Cardinality(Sent(r)') <= Cardinality(Sent(r))
  BY <1>2, FS_Subset DEF Budget, SentFinite
<1>4. SentFinite'
  BY <1>3 DEF SentFinite
<1>5. ASSUME NEW r \in Runs PROVE Cardinality(Sent(r)') <= submissions'[r]
  <2>1. Cardinality(Sent(r)) <= submissions[r]
    BY DEF Budget, SubmissionsCharged, Sent
  <2>2. Cardinality(Sent(r)) \in Nat /\ Cardinality(Sent(r)') \in Nat /\ submissions[r] \in Int
    BY <1>3, FS_CardinalityType DEF Budget, SentFinite, Ledger, TypeInv, TypeOK
  <2>3. submissions'[r] = submissions[r]
    BY DEF Unsubmitted
  <2> QED
    BY <1>3, <2>1, <2>2, <2>3
<1> QED
  BY <1>1, <1>4, <1>5 DEF SubmissionsCharged, Sent

LEMMA SubmittedKeepsBudget ==
  ASSUME Budget, NEW l \in Lease, Submitted(l)
  PROVE  AcceptanceRecorded' /\ SentFinite' /\ SubmissionsCharged'
<1>1. AcceptanceRecorded'
  BY DEF Budget, AcceptanceRecorded, Submitted, Waits
<1>2. ASSUME NEW r \in Runs, NEW m \in Sent(r)' PROVE m \in Sent(r) \/ (m = l /\ r = l.run)
  <2>1. m \in Lease /\ m.run = r
    BY DEF Sent, Issued
  <2>2. CASE m = l
    BY <2>1, <2>2
  <2>3. CASE m # l
    <3>1. StateOf(m)' = StateOf(m) /\ AcceptedOf(m)' = AcceptedOf(m)
      BY <2>1, <2>3 DEF Submitted, Waits
    <3> QED
      BY <2>1, <3>1 DEF Sent, Issued, AcceptedOf
  <2> QED
    BY <2>2, <2>3
<1>3. ASSUME NEW r \in Runs
      PROVE  IsFiniteSet(Sent(r)') /\ Cardinality(Sent(r)') <= submissions'[r]
  <2>1. IsFiniteSet(Sent(r)) /\ Cardinality(Sent(r)) \in Nat
    BY FS_CardinalityType DEF Budget, SentFinite
  <2>2. /\ Cardinality(Sent(r)) <= submissions[r]
        /\ submissions \in [Runs -> 0..SubmissionLimit] /\ submissions[r] \in Int
    BY DEF Budget, SubmissionsCharged, Sent, Ledger, TypeInv, TypeOK
  <2>3. CASE r # l.run
    <3>1. Sent(r)' \subseteq Sent(r)
      BY <1>2, <2>3
    <3>2. /\ IsFiniteSet(Sent(r)') /\ Cardinality(Sent(r)') \in Nat
          /\ Cardinality(Sent(r)') <= Cardinality(Sent(r))
      BY <2>1, <3>1, FS_Subset, FS_CardinalityType
    <3>3. submissions'[r] = submissions[r]
      BY <2>2, <2>3 DEF Submitted, Charged
    <3> QED
      BY <2>1, <2>2, <3>2, <3>3
  <2>4. CASE r = l.run
    <3>1. Sent(r)' \subseteq Sent(r) \cup {l}
      BY <1>2
    <3>2. /\ IsFiniteSet(Sent(r) \cup {l})
          /\ Cardinality(Sent(r) \cup {l}) \in Nat
          /\ Cardinality(Sent(r) \cup {l}) <= Cardinality(Sent(r)) + 1
      <4>1. /\ IsFiniteSet(Sent(r) \cup {l})
            /\ Cardinality(Sent(r) \cup {l})
                 = IF l \in Sent(r) THEN Cardinality(Sent(r)) ELSE Cardinality(Sent(r)) + 1
        BY <2>1, FS_AddElement
      <4> QED
        BY <2>1, <4>1
    <3>3. /\ IsFiniteSet(Sent(r)') /\ Cardinality(Sent(r)') \in Nat
          /\ Cardinality(Sent(r)') <= Cardinality(Sent(r) \cup {l})
      BY <3>1, <3>2, FS_Subset, FS_CardinalityType
    <3>4. submissions'[r] = submissions[r] + 1
      BY <2>2, <2>4 DEF Submitted, Charged
    <3> QED
      BY <2>1, <2>2, <3>2, <3>3, <3>4
  <2> QED
    BY <2>3, <2>4
<1> QED
  BY <1>1, <1>3 DEF SentFinite, SubmissionsCharged, Sent

\* A step of the attempt of l alone that submits nothing.
LEMMA LeaseAnswers ==
  ASSUME TypeOK, NEW l \in Lease, NEW s, SetAttempt(l, s), UNCHANGED <<acceptedAt, submissions>>,
         \/ StateOf(l) = s
         \/ StateOf(l) \in {"submitting", "accepted", "uncertain"} /\ s = "uncertain"
         \/ StateOf(l) \in Live /\ s \notin Live \cup {"none"}
         \/ StateOf(l) = "none" /\ s = "prepared"
  PROVE  Unsubmitted
<1>1. \A m \in Lease : StateOf(m)' = IF m = l THEN s ELSE StateOf(m)
  BY AttemptAt DEF StateOf
<1>2. \A m \in Lease : AcceptedOf(m)' = AcceptedOf(m)
  BY DEF AcceptedOf
<1> QED
  BY <1>1, <1>2 DEF Unsubmitted, Waits, Answers

LEMMA NothingSubmitted ==
  ASSUME UNCHANGED <<attemptState, acceptedAt, submissions>>
  PROVE  Unsubmitted
BY DEF Unsubmitted, Waits, StateOf, AcceptedOf

LEMMA BudgetSteps ==
  ASSUME Ledger, [Next]_vars
  PROVE  Unsubmitted \/ \E l \in Lease : Submitted(l)
<1> USE DEF runVars, taskVars
<1>a. TypeOK /\ LatestLive
  BY LatestLiveMeans DEF Ledger, TypeInv
<1>b. \A l \in Lease : Owns(l) => StateOf(l) \in Live
  BY DEF Ledger, ReservedExactlyWhileLive
<1>1. CASE Tick \/ ClaimNone \/ AccountStep \/ UNCHANGED vars
  BY <1>1, NothingSubmitted DEF Tick, ClaimNone, AccountStep, AccountExpired, RateLimited,
     VerifyAccount, VerifyMismatch, ConfirmAccount, vars
<1>2. CASE RunStep
  BY <1>2, NothingSubmitted DEF RunStep, Submit, Suspend, Cancel, Resume, ResumeReattached
<1>3. CASE Claim
  <2>1. PICK r \in Runs, t \in Task, jitter \in 0..MaxJitter : ClaimTask(r, t, jitter)
    BY <1>3 DEF Claim
  <2> DEFINE l == [run |-> r, task |-> t, number |-> attempts[r][t] + 1]
  <2>2. attempts[r][t] \in Nat /\ attempts[r][t] + 1 \in Number
    BY <1>a, <2>1, PipelineAssumption DEF ClaimTask, NextTasks, TypeOK, Number
  <2>3. l \in Lease /\ l.run = r /\ l.task = t /\ l.number = attempts[r][t] + 1
    BY <2>2 DEF Lease
  <2>4. SetAttempt(l, "prepared") /\ UNCHANGED <<acceptedAt, submissions>>
    BY <2>1 DEF ClaimTask
  <2> HIDE DEF l
  <2>5. StateOf(l) = "none"
    BY <1>a, <2>2, <2>3 DEF LatestLive
  <2> QED
    BY <1>a, <2>3, <2>4, <2>5, LeaseAnswers
<1>4. CASE Recover
  <2>1. \A m \in Lease : StateOf(m)' = IF StateOf(m) = "prepared" THEN "failed"
                                       ELSE IF StateOf(m) = "submitting" THEN "uncertain"
                                       ELSE StateOf(m)
    BY <1>4, RecoveredState DEF Ledger
  <2>2. UNCHANGED <<acceptedAt, submissions>>
    BY <1>4 DEF Recover
  <2>3. \A m \in Lease : AcceptedOf(m)' = AcceptedOf(m)
    BY <2>2 DEF AcceptedOf
  <2> QED
    BY <2>1, <2>2, <2>3 DEF Unsubmitted, Waits, Answers, Live
<1>5. CASE LeaseStep
  <2>1. ASSUME NEW l \in Lease, BeginSubmission(l) PROVE Submitted(l)
    <3>1. /\ StateOf(l) = "prepared" /\ SetAttempt(l, "submitting")
          /\ submissions' = Charged(l.run) /\ acceptedAt' = acceptedAt
      BY <2>1 DEF BeginSubmission
    <3>2. \A m \in Lease : StateOf(m)' = IF m = l THEN "submitting" ELSE StateOf(m)
      BY <1>a, <3>1, AttemptAt DEF StateOf
    <3> QED
      BY <3>1, <3>2 DEF Submitted, Waits, AcceptedOf
  <2>2. ASSUME NEW l \in Lease, Accepted(l) PROVE Unsubmitted
    <3>1. /\ StateOf(l) = "submitting" /\ SetAttempt(l, "accepted") /\ submissions' = submissions
          /\ acceptedAt' = [acceptedAt EXCEPT ![l.run][l.task][l.number] = now]
      BY <2>2 DEF Accepted
    <3>2. \A m \in Lease : StateOf(m)' = IF m = l THEN "accepted" ELSE StateOf(m)
      BY <1>a, <3>1, AttemptAt DEF StateOf
    <3>3. ASSUME NEW m \in Lease PROVE AcceptedOf(m)' = IF m = l THEN now ELSE AcceptedOf(m)
      <4>1. acceptedAt \in [Runs -> [Task -> [Number -> Nat \cup {NotAccepted}]]]
        BY <1>a DEF TypeOK
      <4>2. /\ l.run \in Runs /\ l.task \in Task /\ l.number \in Number
            /\ m.run \in Runs /\ m.task \in Task /\ m.number \in Number
            /\ l.run = m.run /\ l.task = m.task /\ l.number = m.number => l = m
        BY DEF Lease
      <4> QED
        BY <3>1, <4>1, <4>2 DEF AcceptedOf
    <3>4. now # NotAccepted
      BY <1>a DEF TypeOK, NotAccepted
    <3> QED
      BY <3>1, <3>2, <3>3, <3>4 DEF Unsubmitted, Waits, Answers
  <2>3. ASSUME NEW l \in Lease, NEW d \in Disposition, FailAttempt(l, d) PROVE Unsubmitted
    <3>1. UNCHANGED <<acceptedAt, submissions>>
      BY <2>3 DEF FailAttempt, FailCall
    <3>2. CASE d = "Uncertain"
      BY <1>a, <2>3, <3>1, <3>2, LeaseAnswers DEF FailAttempt, FailCall, MayFail, Aborted, Live
    <3>3. CASE d # "Uncertain"
      BY <1>a, <2>3, <3>1, <3>3, LeaseAnswers DEF FailAttempt, FailCall, MayFail, Aborted, Live
    <3> QED
      BY <3>2, <3>3
  <2>4. ASSUME NEW l \in Lease, AcknowledgeCancel(l) PROVE Unsubmitted
    BY <1>a, <1>b, <2>4, LeaseAnswers DEF AcknowledgeCancel, Live
  <2>5. ASSUME NEW l \in Lease, NEW verdict \in Verdict, NEW text \in BOOLEAN,
               StoreCapture(l, verdict, text)
        PROVE  Unsubmitted
    <3>1. Outcome(verdict, text) \notin Live \cup {"none"}
      BY DEF Outcome, Live
    <3> QED
      BY <1>a, <2>5, <3>1, LeaseAnswers DEF StoreCapture, Captured, Live
  <2>6. ASSUME NEW l \in Lease, NEW verdict \in Verdict, NEW text \in BOOLEAN,
               PreservePartial(l, verdict, text)
        PROVE  Unsubmitted
    BY <1>a, <2>6, LeaseAnswers DEF PreservePartial, Captured
  <2> QED
    BY <1>5, <2>1, <2>2, <2>3, <2>4, <2>5, <2>6 DEF LeaseStep
<1> QED
  BY <1>1, <1>2, <1>3, <1>4, <1>5 DEF Next

LEMMA BudgetInductive == Spec => []Budget
<1>1. Init => Budget
  <2> SUFFICES ASSUME Init PROVE Budget
    OBVIOUS
  <2>1. \A m \in Lease : StateOf(m) = "none" /\ AcceptedOf(m) = NotAccepted
    BY DEF Init, StateOf, AcceptedOf, Lease
  <2>a. AcceptanceRecorded
    BY <2>1 DEF AcceptanceRecorded
  <2>2. \A r \in Runs : Sent(r) = {}
    BY <2>1 DEF Sent, Issued
  <2>3. SentFinite
    BY <2>2, FS_EmptySet DEF SentFinite
  <2>4. \A r \in Runs : Cardinality(Sent(r)) <= submissions[r]
    <3>1. \A r \in Runs : submissions[r] = 0
      BY DEF Init, runVars
    <3> QED
      BY <2>2, <3>1, FS_EmptySet
  <2> QED
    BY <2>a, <2>3, <2>4, LedgerInit DEF Budget, SubmissionsCharged, Sent
<1>2. Budget /\ Ledger' /\ [Next]_vars => Budget'
  <2> SUFFICES ASSUME Budget, Ledger', [Next]_vars PROVE Budget'
    OBVIOUS
  <2>1. Unsubmitted \/ \E l \in Lease : Submitted(l)
    BY BudgetSteps DEF Budget
  <2> QED
    BY <2>1, UnsubmittedKeepsBudget, SubmittedKeepsBudget DEF Budget
<1> QED
  BY <1>1, <1>2, LedgerInductive, PTL DEF Spec

\* Each attempt the provider may have received was charged to its run's budget
\* before it left, through failures, retries and restarts.
THEOREM BudgetCharged == Spec => []SubmissionsCharged
BY BudgetInductive, PTL DEF Budget

\* Only finitely many rows are ever reserved, so counting them makes sense.
Capped == TypeOK /\ IsFiniteSet(reservations) /\ CapacityRespected

LEMMA CappedStep == Capped /\ TypeOK' /\ [Next]_vars => Capped'
<1> SUFFICES ASSUME Capped, TypeOK', [Next]_vars PROVE Capped'
  OBVIOUS
<1>1. \A a \in Accounts : IsFiniteSet(ActiveOn(a)) /\ Cardinality(ActiveOn(a)) \in Nat
  <2>1. \A a \in Accounts : ActiveOn(a) \subseteq reservations
    BY DEF ActiveOn
  <2> QED
    BY <2>1, FS_Subset, FS_CardinalityType DEF Capped
<1>2. CASE ~Claim
  <2>1. reservations' \subseteq reservations
    BY <1>2, OnlyClaimReserves
  <2>2. IsFiniteSet(reservations')
    BY <2>1, FS_Subset DEF Capped
  <2>3. ASSUME NEW a \in Accounts PROVE Cardinality(ActiveOn(a)') <= Capacity
    <3>1. ActiveOn(a)' \subseteq ActiveOn(a)
      BY <2>1 DEF ActiveOn
    <3>2. /\ IsFiniteSet(ActiveOn(a)')
          /\ Cardinality(ActiveOn(a)') <= Cardinality(ActiveOn(a))
      BY <1>1, <3>1, FS_Subset
    <3>3. Cardinality(ActiveOn(a)') \in Nat
      BY <3>2, FS_CardinalityType
    <3>4. Cardinality(ActiveOn(a)) <= Capacity
      BY DEF Capped, CapacityRespected
    <3> QED
      BY <1>1, <3>2, <3>3, <3>4, CapacityAssumption
  <2> QED
    BY <2>2, <2>3 DEF Capped, CapacityRespected
<1>3. CASE Claim
  <2>1. PICK r \in Runs, t \in Task, jitter \in 0..MaxJitter : ClaimTask(r, t, jitter)
    BY <1>3 DEF Claim
  <2> DEFINE l == [run |-> r, task |-> t, number |-> attempts[r][t] + 1]
             row == [lease |-> l, spacing |-> Spacing + jitter]
  <2>2. reservations' = reservations \cup {row} /\ AccountOf[r] \in Accounts
    BY <2>1, AccountsAssumption DEF ClaimTask
  <2>3. row.lease.run = r
    OBVIOUS
  <2> HIDE DEF row
  <2>4. IsFiniteSet(reservations')
    BY <2>2, FS_AddElement DEF Capped
  <2>5. ASSUME NEW a \in Accounts PROVE Cardinality(ActiveOn(a)') <= Capacity
    <3>1. CASE a # AccountOf[r]
      <4>1. ActiveOn(a)' = ActiveOn(a)
        BY <2>2, <2>3, <3>1 DEF ActiveOn
      <4> QED
        BY <4>1 DEF Capped, CapacityRespected
    <3>2. CASE a = AccountOf[r]
      <4>1. ActiveOn(a)' = ActiveOn(a) \cup {row}
        BY <2>2, <2>3, <3>2 DEF ActiveOn
      <4>2. Cardinality(ActiveOn(a)) < Capacity
        BY <2>1, <3>2 DEF ClaimTask, Claimable, Considered, AccountOpen
      <4>3. Cardinality(ActiveOn(a) \cup {row})
              = IF row \in ActiveOn(a) THEN Cardinality(ActiveOn(a))
                ELSE Cardinality(ActiveOn(a)) + 1
        BY <1>1, FS_AddElement
      <4> QED
        BY <1>1, <4>1, <4>2, <4>3, CapacityAssumption
    <3> QED
      BY <3>1, <3>2
  <2> QED
    BY <2>4, <2>5 DEF Capped, CapacityRespected
<1> QED
  BY <1>2, <1>3

LEMMA CappedInductive == Spec => []Capped
<1>1. Init => Capped
  <2> SUFFICES ASSUME Init PROVE Capped
    OBVIOUS
  <2>1. reservations = {} /\ \A a \in Accounts : ActiveOn(a) = {}
    BY DEF Init, ActiveOn
  <2> QED
    BY <2>1, TypeInit, FS_EmptySet, CapacityAssumption DEF Capped, CapacityRespected
<1> QED
  BY <1>1, CappedStep, TypeCorrect, PTL DEF Spec

\* Across every run of an account, claim never reserves beyond its capacity,
\* and no other operation reserves anything.
THEOREM CapacityKept == Spec => []CapacityRespected
BY CappedInductive, PTL DEF Capped

---------------------------------------------------------------------------
(***************************************************************************)
(* Waiting for a login.                                                    *)
(***************************************************************************)
ReadinessFor(r) == account[AccountOf[r]].readiness

\* What a step does to a run that may wait for its account's login.
LoginMove(r) ==
  \/ runStatus'[r] # "waiting-for-auth"
  \/ /\ runStatus'[r] = runStatus[r] /\ deadline'[r] = deadline[r]
     /\ ReadinessFor(r)' = ReadinessFor(r)
  \/ ReadinessFor(r)' # "ready"
  \/ deadline'[r] <= now'

\* A step that leaves the accounts, or at least their readiness, alone.
LEMMA StatusMoves ==
  ASSUME NEW r \in Runs, ReadinessFor(r)' = ReadinessFor(r),
         \/ runStatus'[r] # "waiting-for-auth"
         \/ runStatus'[r] = InitialStatus(r)
         \/ runStatus'[r] = runStatus[r] /\ deadline'[r] = deadline[r]
  PROVE  LoginMove(r)
BY DEF LoginMove, InitialStatus, ReadinessFor

LEMMA LoginMoves ==
  ASSUME TypeOK, [Next]_vars, NEW r \in Runs
  PROVE  LoginMove(r)
<1> USE DEF runVars, taskVars
<1>a. /\ runStatus \in [Runs -> RunStatus] /\ deadline \in [Runs -> Nat]
      /\ account \in [Accounts -> AccountRow] /\ AccountOf[r] \in Accounts
  BY AccountsAssumption DEF TypeOK
<1>b. account' = account => ReadinessFor(r)' = ReadinessFor(r)
  BY DEF ReadinessFor
<1>1. CASE Tick \/ ClaimNone \/ Recover \/ UNCHANGED vars
  BY <1>b, <1>1, StatusMoves DEF Tick, ClaimNone, Recover, vars
<1>2. CASE Claim
  <2>1. PICK q \in Runs, t \in Task, jitter \in 0..MaxJitter : ClaimTask(q, t, jitter)
    BY <1>2 DEF Claim
  <2>2. ReadinessFor(r)' = ReadinessFor(r)
    <3>1. account' = [account EXCEPT ![AccountOf[q]].nextSubmit = now + (Spacing + jitter)]
      BY <2>1 DEF ClaimTask
    <3> QED
      BY <1>a, <3>1 DEF ReadinessFor, AccountRow
  <2>3. /\ deadline' = deadline
        /\ runStatus'[r] \in {"running", "paused"} \/ runStatus'[r] = runStatus[r]
    BY <1>a, <2>1 DEF ClaimTask
  <2> QED
    BY <2>2, <2>3, StatusMoves
<1>3. CASE RunStep
  <2>1. PICK q \in Runs : \/ Submit(q) \/ Suspend(q) \/ Cancel(q)
                          \/ \E allowIncomplete \in BOOLEAN : Resume(q, allowIncomplete)
                          \/ ResumeReattached(q, Issued)
    BY <1>3 DEF RunStep
  <2>2. ReadinessFor(r)' = ReadinessFor(r)
    BY <1>b, <2>1 DEF Submit, Suspend, Cancel, Resume, ResumeReattached
  <2>3. Restored(q) # "waiting-for-auth"
    BY DEF Restored
  <2>4. \/ runStatus'[r] # "waiting-for-auth"
        \/ runStatus'[r] = InitialStatus(r)
        \/ runStatus'[r] = runStatus[r] /\ deadline'[r] = deadline[r]
    BY <1>a, <2>1, <2>3 DEF Submit, Suspend, Cancel, Resume, ResumeReattached
  <2> QED
    BY <2>2, <2>4, StatusMoves
<1>4. CASE LeaseStep
  <2>1. ASSUME NEW l \in Lease, BeginSubmission(l) PROVE LoginMove(r)
    <3>1. PICK v \in reservations :
            LET a == AccountOf[l.run]
                next == now + v.spacing
            IN  account' = [account EXCEPT
                  ![a].allowed = next,
                  ![a].nextSubmit = IF account[a].nextSubmit > next
                                    THEN account[a].nextSubmit ELSE next]
      BY <2>1 DEF BeginSubmission
    <3>2. ReadinessFor(r)' = ReadinessFor(r)
      BY <1>a, <3>1 DEF ReadinessFor, AccountRow
    <3>3. deadline' = deadline /\ (runStatus'[r] = "running" \/ runStatus'[r] = runStatus[r])
      BY <1>a, <2>1 DEF BeginSubmission
    <3> QED
      BY <3>2, <3>3, StatusMoves
  <2>2. ASSUME NEW l \in Lease, Accepted(l) \/ AcknowledgeCancel(l) PROVE LoginMove(r)
    BY <1>b, <2>2, StatusMoves DEF Accepted, AcknowledgeCancel
  <2>3. ASSUME NEW q, RequireReconciliation(q), account' = account, deadline' = deadline
        PROVE  LoginMove(r)
    BY <1>a, <1>b, <2>3, StatusMoves DEF RequireReconciliation
  <2>4. ASSUME NEW l \in Lease, NEW d \in Disposition, FailAttempt(l, d) PROVE LoginMove(r)
    <3>1. account' = account /\ deadline' = deadline
      BY <2>4 DEF FailAttempt, FailCall
    <3>2. CASE d = "Uncertain"
      BY <2>3, <2>4, <3>1, <3>2 DEF FailAttempt, FailCall
    <3>3. CASE d # "Uncertain"
      <4>1. SettleReconciliation(l.run, Release(l))
        BY <2>4, <3>3 DEF FailAttempt, FailCall
      <4>2. runStatus'[r] # "waiting-for-auth" \/ runStatus'[r] = runStatus[r]
        BY <1>a, <4>1 DEF SettleReconciliation, Restored
      <4> QED
        BY <1>b, <3>1, <4>2, StatusMoves
    <3> QED
      BY <3>2, <3>3
  <2>5. ASSUME NEW l \in Lease, NEW verdict \in Verdict, NEW text \in BOOLEAN,
               StoreCapture(l, verdict, text)
        PROVE  LoginMove(r)
    <3>1. ReadinessFor(r)' = ReadinessFor(r)
      <4>1. \/ account' = account
            \/ account' = [account EXCEPT ![AccountOf[l.run]].limits = 0]
        BY <2>5 DEF StoreCapture
      <4> QED
        BY <1>a, <4>1 DEF ReadinessFor, AccountRow
    <3>2. deadline' = deadline
      BY <2>5 DEF StoreCapture
    <3>3. runStatus'[r] # "waiting-for-auth" \/ runStatus'[r] = runStatus[r]
      BY <1>a, <2>5 DEF StoreCapture, Restored
    <3> QED
      BY <3>1, <3>2, <3>3, StatusMoves
  <2>6. ASSUME NEW l \in Lease, NEW verdict \in Verdict, NEW text \in BOOLEAN,
               PreservePartial(l, verdict, text)
        PROVE  LoginMove(r)
    BY <2>3, <2>6 DEF PreservePartial
  <2> QED
    BY <1>4, <2>1, <2>2, <2>4, <2>5, <2>6 DEF LeaseStep
<1>5. CASE AccountStep
  <2>1. ASSUME NEW a \in Accounts, AccountExpired(a) PROVE LoginMove(r)
    BY <1>a, <2>1 DEF AccountExpired, PauseAccountRuns, LoginMove, ReadinessFor, AccountRow
  <2>2. ASSUME NEW a \in Accounts, NEW delay \in RetryDelays, RateLimited(a, delay)
        PROVE  LoginMove(r)
    <3>1. runStatus' = runStatus /\ deadline' = deadline
      BY <2>2 DEF RateLimited
    <3>2. CASE AccountOf[r] = a
      <4>1. ReadinessFor(r)' \in {"paused", "cooldown"}
        BY <1>a, <2>2, <3>2 DEF RateLimited, ReadinessFor, AccountRow
      <4> QED
        BY <4>1 DEF LoginMove
    <3>3. CASE AccountOf[r] # a
      <4>1. ReadinessFor(r)' = ReadinessFor(r)
        BY <1>a, <2>2, <3>3 DEF RateLimited, ReadinessFor
      <4> QED
        BY <3>1, <4>1, StatusMoves
    <3> QED
      BY <3>2, <3>3
  <2>3. ASSUME NEW a \in Accounts, ResumeVerifiedRuns(a), deadline' = deadline, now' = now,
               AccountOf[r] # a => ReadinessFor(r)' = ReadinessFor(r)
        PROVE  LoginMove(r)
    BY <1>a, <2>3 DEF ResumeVerifiedRuns, LoginMove, TypeOK
  <2>4. ASSUME NEW a \in Accounts, NEW operator \in BOOLEAN, VerifyAccount(a, operator)
        PROVE  LoginMove(r)
    BY <1>a, <2>3, <2>4 DEF VerifyAccount, ReadinessFor
  <2>5. ASSUME NEW a \in Accounts, NEW operator \in BOOLEAN, VerifyMismatch(a, operator)
        PROVE  LoginMove(r)
    BY <1>a, <2>5 DEF VerifyMismatch, PauseAccountRuns, LoginMove, ReadinessFor, AccountRow
  <2>6. ASSUME NEW a \in Accounts, ConfirmAccount(a) PROVE LoginMove(r)
    BY <1>a, <2>3, <2>6 DEF ConfirmAccount, ReadinessFor
  <2> QED
    BY <1>5, <2>1, <2>2, <2>4, <2>5, <2>6 DEF AccountStep
<1> QED
  BY <1>1, <1>2, <1>3, <1>4, <1>5 DEF Next

LEMMA TimeAdvances == TypeOK /\ [Next]_vars => now' >= now
<1> SUFFICES ASSUME TypeOK, [Next]_vars PROVE now' >= now
  OBVIOUS
<1>1. CASE Tick
  BY <1>1 DEF Tick, TypeOK
<1>2. CASE ~Tick
  <2> SUFFICES now' = now
    BY DEF TypeOK
  <2>1. CASE Claim \/ ClaimNone \/ Recover \/ UNCHANGED vars
    BY <2>1 DEF Claim, ClaimTask, ClaimNone, Recover, vars
  <2>2. CASE RunStep
    BY <2>2 DEF RunStep, Submit, Suspend, Cancel, Resume, ResumeReattached
  <2>3. CASE LeaseStep
    BY <2>3 DEF LeaseStep, BeginSubmission, Accepted, FailAttempt, FailCall, AcknowledgeCancel,
       StoreCapture, PreservePartial
  <2>4. CASE AccountStep
    BY <2>4 DEF AccountStep, AccountExpired, RateLimited, VerifyAccount, VerifyMismatch,
       ConfirmAccount
  <2> QED
    BY <1>2, <2>1, <2>2, <2>3, <2>4 DEF Next
<1> QED
  BY <1>1, <1>2

\* The account's readiness and its runs' statuses are written together, so a
\* run never waits for a login that was already verified.
THEOREM LoginsNotMissed == Spec => []NoMissedVerification
<1>1. Init => NoMissedVerification
  BY DEF Init, NoMissedVerification
<1>2. TypeOK /\ TypeOK' /\ NoMissedVerification /\ [Next]_vars => NoMissedVerification'
  <2> SUFFICES ASSUME TypeOK, TypeOK', NoMissedVerification, [Next]_vars, NEW r \in Runs,
                      runStatus'[r] = "waiting-for-auth", now' < deadline'[r]
               PROVE  account'[AccountOf[r]].readiness # "ready"
    BY DEF NoMissedVerification
  <2>1. LoginMove(r) /\ now' >= now
    BY LoginMoves, TimeAdvances
  <2>2. now \in Nat /\ now' \in Nat /\ deadline'[r] \in Nat
    BY DEF TypeOK
  <2> QED
    BY <2>1, <2>2 DEF LoginMove, ReadinessFor, NoMissedVerification
<1> QED
  BY <1>1, <1>2, TypeCorrect, PTL DEF Spec

---------------------------------------------------------------------------
(***************************************************************************)
(* What an attempt left behind when there is another one after it.         *)
(***************************************************************************)
\* An attempt is only followed by another, or its task queued again, once it was
\* given up: what completed or was cancelled is not tried again.
EarlierGivenUp ==
  \A m \in Lease :
    \/ m.number < attempts[m.run][m.task]
    \/ m.number = attempts[m.run][m.task] /\ taskStatus[m.run][m.task] = "queued"
    => StateOf(m) \in {"failed", "partial"}

\* A task that is queued again has a latest attempt that was given up.
Requeues ==
  \A m \in Lease :
    /\ m.number = attempts[m.run][m.task]
    /\ taskStatus[m.run][m.task] # "queued" /\ taskStatus'[m.run][m.task] = "queued"
    => StateOf(m)' \in {"failed", "partial"}

LEMMA LeaseRequeues ==
  ASSUME Ledger, NEW l \in Lease, NEW s, NEW q, SetAttempt(l, s), SetTask(l, q), Owns(l),
         q = "queued" => s \in {"failed", "partial"}
  PROVE  Requeues
<1> SUFFICES ASSUME NEW m \in Lease, m.number = attempts[m.run][m.task],
                    taskStatus[m.run][m.task] # "queued", taskStatus'[m.run][m.task] = "queued"
             PROVE  StateOf(m)' \in {"failed", "partial"}
  BY DEF Requeues
<1>1. TypeOK /\ LatestLive
  BY LatestLiveMeans DEF Ledger, TypeInv
<1>2. m.run \in Runs /\ m.task \in Task
  BY DEF Lease
<1>3. m.run = l.run /\ m.task = l.task /\ q = "queued"
  BY <1>1, <1>2, TaskAt
<1>4. StateOf(l) \in Live
  BY DEF Ledger, ReservedExactlyWhileLive
<1>5. l.number = attempts[l.run][l.task]
  BY <1>1, <1>4 DEF LatestLive
<1>6. m = l
  BY <1>3, <1>5 DEF Lease
<1> QED
  BY <1>1, <1>3, <1>6, AttemptAt DEF StateOf

LEMMA RecoverRequeues ==
  ASSUME Ledger, Recover
  PROVE  Requeues
<1> SUFFICES ASSUME NEW m \in Lease, m.number = attempts[m.run][m.task],
                    taskStatus[m.run][m.task] # "queued", taskStatus'[m.run][m.task] = "queued"
             PROVE  StateOf(m)' \in {"failed", "partial"}
  BY DEF Requeues
<1>1. LatestLive
  BY LatestLiveMeans DEF Ledger
<1>2. m.run \in Runs /\ m.task \in Task
  BY DEF Lease
<1>3. PICK n \in Number : \E v \in reservations :
        StateOf(v.lease) = "prepared" /\ v.lease = [run |-> m.run, task |-> m.task, number |-> n]
  BY <1>2 DEF Recover
<1> DEFINE k == [run |-> m.run, task |-> m.task, number |-> n]
<1>4. k \in Lease /\ StateOf(k) = "prepared" /\ k.run = m.run /\ k.task = m.task
  BY <1>2, <1>3 DEF Lease
<1> HIDE DEF k
<1>5. k.number = attempts[m.run][m.task]
  BY <1>1, <1>4 DEF LatestLive, Live
<1>6. k = m
  BY <1>4, <1>5 DEF Lease
<1> QED
  BY <1>4, <1>6, RecoveredState DEF Ledger

LEMMA RequeuesStep == Ledger /\ [Next]_vars => Requeues
<1> SUFFICES ASSUME Ledger, [Next]_vars PROVE Requeues
  OBVIOUS
<1> TypeOK
  BY DEF Ledger, TypeInv
<1>a. taskStatus' = taskStatus => Requeues
  BY DEF Requeues
<1>1. CASE Tick \/ ClaimNone \/ AccountStep \/ UNCHANGED vars
  BY <1>1, <1>a DEF Tick, ClaimNone, AccountStep, AccountExpired, RateLimited,
     VerifyAccount, VerifyMismatch, ConfirmAccount, vars, taskVars
<1>2. CASE Claim
  <2>1. PICK r \in Runs, t \in Task : taskStatus' = [taskStatus EXCEPT ![r][t] = "running"]
    BY <1>2 DEF Claim, ClaimTask, SetTask
  <2> QED
    BY <2>1 DEF Requeues, TypeOK, Lease
<1>3. CASE Recover
  BY <1>3, RecoverRequeues
<1>4. CASE RunStep
  <2>1. ASSUME NEW r \in Runs,
               Submit(r) \/ Suspend(r) \/ Cancel(r) \/ ResumeReattached(r, Issued)
        PROVE  Requeues
    BY <2>1, <1>a DEF Submit, Suspend, Cancel, ResumeReattached, taskVars
  <2>2. ASSUME NEW r \in Runs, NEW allowIncomplete \in BOOLEAN, Resume(r, allowIncomplete)
        PROVE  Requeues
    <3> SUFFICES ASSUME NEW m \in Lease, m.number = attempts[m.run][m.task],
                        taskStatus[m.run][m.task] # "queued",
                        taskStatus'[m.run][m.task] = "queued"
                 PROVE  StateOf(m)' \in {"failed", "partial"}
      BY DEF Requeues
    <3>1. m.run \in Runs /\ m.task \in Task /\ attemptState' = attemptState
      BY <2>2 DEF Lease, Resume
    <3>2. Retried(m.run, m.task)
      <4>1. PICK f : taskStatus' = [taskStatus EXCEPT ![r] = [t \in Task |-> f[t]]]
                     /\ \A t \in Task : f[t] = "queued" /\ taskStatus[r][t] # "queued" => Retried(r, t)
        <5>1. CASE ResumeRetry(r)
          <6> DEFINE f == [t \in Task |-> IF Retried(r, t) THEN "queued" ELSE taskStatus[r][t]]
          <6>1. taskStatus' = [taskStatus EXCEPT ![r] = [t \in Task |-> f[t]]]
            BY <5>1 DEF ResumeRetry
          <6>2. \A t \in Task : f[t] = "queued" /\ taskStatus[r][t] # "queued" => Retried(r, t)
            OBVIOUS
          <6> HIDE DEF f
          <6> QED
            BY <6>1, <6>2
        <5>2. CASE ResumeSubset(r)
          <6> DEFINE f == [t \in Task |-> IF t \in Explore /\ taskStatus[r][t] # "completed"
                                         THEN "excluded" ELSE taskStatus[r][t]]
          <6>1. taskStatus' = [taskStatus EXCEPT ![r] = [t \in Task |-> f[t]]]
            BY <5>2 DEF ResumeSubset
          <6>2. \A t \in Task : f[t] = "queued" => taskStatus[r][t] = "queued"
            OBVIOUS
          <6> HIDE DEF f
          <6> QED
            BY <6>1, <6>2
        <5> QED
          BY <2>2, <5>1, <5>2 DEF Resume
      <4>2. taskStatus'[m.run][m.task] = IF m.run = r THEN f[m.task] ELSE taskStatus[m.run][m.task]
        BY <3>1, <4>1 DEF TypeOK
      <4> QED
        BY <3>1, <4>1, <4>2
    <3> QED
      BY <3>1, <3>2 DEF Retried, StateOf
  <2> QED
    BY <1>4, <2>1, <2>2 DEF RunStep
<1>5. CASE LeaseStep
  <2>1. ASSUME NEW l \in Lease, BeginSubmission(l) \/ Accepted(l) PROVE Requeues
    BY <2>1, <1>a DEF BeginSubmission, Accepted
  <2>2. ASSUME NEW l \in Lease, NEW d \in Disposition, FailAttempt(l, d) PROVE Requeues
    BY <2>2, LeaseRequeues DEF FailAttempt, FailCall
  <2>3. ASSUME NEW l \in Lease, AcknowledgeCancel(l) PROVE Requeues
    <3>1. StateOf(l) \in Live
      BY <2>3 DEF AcknowledgeCancel, Ledger, ReservedExactlyWhileLive
    <3>2. taskStatus[l.run][l.task] = "running"
      BY <3>1, LatestLiveMeans DEF Ledger, LatestLive
    <3> QED
      BY <2>3, <3>2, LeaseRequeues DEF AcknowledgeCancel, StoppedTask
  <2>4. ASSUME NEW l \in Lease, NEW verdict \in Verdict, NEW text \in BOOLEAN,
               StoreCapture(l, verdict, text)
        PROVE  Requeues
    <3>1. /\ RetriedAutomatically(l, verdict = "invalid") =>
                Outcome(verdict, text) \in {"failed", "partial"}
          /\ Outcome(verdict, text) # "queued"
      BY DEF RetriedAutomatically, Outcome
    <3> QED
      BY <2>4, <3>1, LeaseRequeues DEF StoreCapture, Captured
  <2>5. ASSUME NEW l \in Lease, NEW verdict \in Verdict, NEW text \in BOOLEAN,
               PreservePartial(l, verdict, text)
        PROVE  Requeues
    BY <2>5, LeaseRequeues DEF PreservePartial, Captured
  <2> QED
    BY <1>5, <2>1, <2>2, <2>3, <2>4, <2>5 DEF LeaseStep
<1> QED
  BY <1>1, <1>2, <1>3, <1>4, <1>5 DEF Next

LEMMA GivenUpStep == Ledger /\ EarlierGivenUp /\ [Next]_vars => EarlierGivenUp'
<1> SUFFICES ASSUME Ledger, EarlierGivenUp, [Next]_vars, NEW m \in Lease,
                    \/ m.number < attempts'[m.run][m.task]
                    \/ /\ m.number = attempts'[m.run][m.task]
                       /\ taskStatus'[m.run][m.task] = "queued"
             PROVE  StateOf(m)' \in {"failed", "partial"}
  BY DEF EarlierGivenUp
<1>1. Moves /\ Requeues /\ LatestLive /\ TypeOK
  BY MovesStep, RequeuesStep, LatestLiveMeans DEF Ledger, TypeInv
<1>2. /\ m.run \in Runs /\ m.task \in Task /\ m.number \in Nat
      /\ attempts[m.run][m.task] \in Nat
  BY <1>1 DEF Lease, TypeOK, Number
<1>3. StateOf(m) \in {"failed", "partial"} => StateOf(m)' = StateOf(m)
  BY <1>1 DEF Moves, AttemptMove, Live
<1>4. TaskMove(m.run, m.task)
  BY <1>1, <1>2 DEF Moves
<1>5. CASE attempts'[m.run][m.task] = attempts[m.run][m.task]
  <2>1. CASE m.number = attempts[m.run][m.task] /\ taskStatus[m.run][m.task] # "queued"
    BY <1>1, <1>2, <1>5, <2>1 DEF Requeues
  <2>2. CASE ~(m.number = attempts[m.run][m.task] /\ taskStatus[m.run][m.task] # "queued")
    BY <1>2, <1>3, <1>5, <2>2 DEF EarlierGivenUp
  <2> QED
    BY <2>1, <2>2
<1>6. CASE Started(m.run, m.task)
  BY <1>2, <1>3, <1>6 DEF EarlierGivenUp, Started
<1> QED
  BY <1>4, <1>5, <1>6 DEF TaskMove, Kept, Stepped, Requeued, LeftOut

LEMMA GivenUpInductive == Spec => [](Ledger /\ EarlierGivenUp)
<1>1. Init => EarlierGivenUp
  BY DEF Init, EarlierGivenUp, Lease, Number
<1>2. Ledger /\ EarlierGivenUp /\ [Next]_vars => EarlierGivenUp'
  BY GivenUpStep
<1> QED
  BY <1>1, <1>2, LedgerInductive, PTL DEF Spec

---------------------------------------------------------------------------
(***************************************************************************)
(* Uncertain submissions.  UncertaintyBlocksResume fails, and this is the  *)
(* only step that makes it fail.                                           *)
(***************************************************************************)
\* A capture that finds another model pauses a run that is being reconciled.
MismatchWhileReconciling ==
  \E l \in Lease, text \in BOOLEAN :
    runStatus[l.run] = "reconciliation-required" /\ StoreCapture(l, "model-mismatch", text)

MatchingSpec == Init /\ [][Next /\ ~MismatchWhileReconciling]_vars

\* Where a run with an uncertain submission is: out of the reach of claim, and
\* of a login or an operator who would queue it again.
Blocked == {"reconciliation-required"} \cup Terminal

UncertaintyHeld == \A m \in Lease : StateOf(m) = "uncertain" => runStatus[m.run] \in Blocked

\* A step that makes no attempt uncertain and unblocks no run.
LEMMA NothingUncertain ==
  ASSUME UncertaintyHeld,
         \A m \in Lease : StateOf(m)' = "uncertain" => StateOf(m) = "uncertain",
         \A r \in Runs : runStatus[r] \in Blocked => runStatus'[r] \in Blocked
  PROVE  UncertaintyHeld'
BY DEF UncertaintyHeld, Lease, Blocked, Terminal

\* A step of an attempt after which its run has no other reservation.
LEMMA LastSettled ==
  ASSUME Ledger, UncertaintyHeld, NEW l \in Lease, NEW s \in AttemptState \ {"uncertain"},
         SetAttempt(l, s), \A r \in Runs \ {l.run} : runStatus'[r] = runStatus[r],
         \/ Settles(l.run, Release(l))
         \/ runStatus[l.run] \in Blocked => runStatus'[l.run] \in Blocked
  PROVE  UncertaintyHeld'
<1>1. TypeOK /\ ReservedExactlyWhileLive
  BY DEF Ledger, TypeInv
<1>2. \A m \in Lease : StateOf(m)' = IF m = l THEN s ELSE StateOf(m)
  BY <1>1, AttemptAt DEF StateOf
<1>3. ASSUME NEW m \in Lease, m # l, StateOf(m) = "uncertain", Settles(l.run, Release(l))
      PROVE  m.run # l.run
  <2>1. PICK v \in reservations : v.lease = m
    BY <1>1, <1>3 DEF ReservedExactlyWhileLive, Owns, Live
  <2>2. v \in Release(l)
    BY <1>3, <2>1 DEF Release
  <2>. QED
    BY <1>3, <2>1, <2>2 DEF Settles
<1>. QED
  BY <1>2, <1>3 DEF UncertaintyHeld, Lease, Blocked, Terminal

LEMMA UncertainAttempt ==
  ASSUME Ledger, UncertaintyHeld, NEW l \in Lease, Owns(l), SetAttempt(l, "uncertain"),
         RequireReconciliation(l.run)
  PROVE  UncertaintyHeld'
<1>1. TypeOK /\ l.run \in Runs
  BY DEF Ledger, TypeInv, Lease
<1>2. \A m \in Lease : m # l => StateOf(m)' = StateOf(m)
  BY <1>1, AttemptAt DEF StateOf
<1>3. /\ runStatus'[l.run] \in Blocked
      /\ \A r \in Runs \ {l.run} : runStatus'[r] = runStatus[r]
  BY <1>1 DEF RequireReconciliation, TypeOK, Blocked
<1>. QED
  BY <1>2, <1>3 DEF UncertaintyHeld, Lease, Blocked, Terminal

LEMMA RecoverReconciles == ASSUME Ledger, UncertaintyHeld, Recover PROVE UncertaintyHeld'
<1>. SUFFICES ASSUME NEW m \in Lease, StateOf(m)' = "uncertain"
              PROVE  runStatus'[m.run] \in Blocked
  BY DEF UncertaintyHeld, StateOf, Blocked, Terminal
<1>1. m.run \in Runs /\ m.task \in Task /\ m.number \in Number
  BY DEF Lease
<1>2. /\ runStatus'[m.run] \in {runStatus[m.run], "reconciliation-required"}
      /\ (\E v \in reservations : v.lease.run = m.run /\ StateOf(v.lease) # "prepared")
           => runStatus'[m.run] \in Blocked
  <2>. DEFINE ambiguous == reservations \ {v \in reservations : StateOf(v.lease) = "prepared"}
              met == \E v \in ambiguous : v.lease.run = m.run
              reconciled == met /\ runStatus[m.run] \notin Blocked
  <2>1. runStatus'[m.run] = IF reconciled THEN "reconciliation-required" ELSE runStatus[m.run]
    BY <1>1 DEF Recover, Blocked
  <2>. HIDE DEF ambiguous
  <2>2. met => runStatus'[m.run] \in Blocked
    BY <2>1 DEF Blocked
  <2>3. (\E v \in reservations : v.lease.run = m.run /\ StateOf(v.lease) # "prepared") => met
    BY DEF ambiguous
  <2>. QED
    BY <2>1, <2>2, <2>3
<1>3. StateOf(m) = "uncertain" \/ \E v \in reservations : v.lease = m /\ StateOf(m) # "prepared"
  <2>1. ReservedExactlyWhileLive
    BY DEF Ledger
  <2>2. StateOf(m) \in {"submitting", "uncertain"}
    BY <2>1, RecoveredState
  <2>. QED
    BY <2>1, <2>2 DEF ReservedExactlyWhileLive, Owns, Live
<1>4. CASE StateOf(m) = "uncertain"
  <2>1. runStatus[m.run] \in Blocked
    BY <1>4 DEF UncertaintyHeld
  <2>2. "reconciliation-required" \in Blocked
    BY DEF Blocked
  <2>. QED
    BY <1>2, <2>1, <2>2
<1>5. ASSUME NEW v \in reservations, v.lease = m, StateOf(m) # "prepared"
      PROVE  runStatus'[m.run] \in Blocked
  BY <1>2, <1>5
<1>. QED
  BY <1>3, <1>4, <1>5

LEMMA LeaseReconciles ==
  ASSUME Ledger, UncertaintyHeld, NEW l \in Lease, ~MismatchWhileReconciling,
         \/ BeginSubmission(l) \/ Accepted(l) \/ AcknowledgeCancel(l)
         \/ \E d \in Disposition : FailAttempt(l, d)
         \/ \E verdict \in Verdict, text \in BOOLEAN :
              StoreCapture(l, verdict, text) \/ PreservePartial(l, verdict, text)
  PROVE  UncertaintyHeld'
<1>. USE DEF AttemptState
<1>1. runStatus \in [Runs -> RunStatus] /\ l.run \in Runs
  BY DEF Ledger, TypeInv, TypeOK, Lease
<1>2. CASE BeginSubmission(l)
  BY <1>1, <1>2, LastSettled
     DEF BeginSubmission, Submittable, Schedulable, Blocked, Terminal, Live
<1>3. CASE Accepted(l)
  BY <1>1, <1>3, LastSettled DEF Accepted, Live
<1>4. CASE AcknowledgeCancel(l)
  <2>1. StateOf(l) \in Live
    BY <1>4 DEF AcknowledgeCancel, Ledger, ReservedExactlyWhileLive
  <2>. QED
    BY <1>1, <1>4, <2>1, LastSettled DEF AcknowledgeCancel
<1>5. ASSUME NEW d \in Disposition, FailAttempt(l, d) PROVE UncertaintyHeld'
  <2>1. CASE d = "Uncertain"
    BY <1>5, <2>1, UncertainAttempt DEF FailAttempt, FailCall
  <2>2. CASE d # "Uncertain"
    <3>1. SetAttempt(l, "failed") /\ SettleReconciliation(l.run, Release(l))
      BY <1>5, <2>2 DEF FailAttempt, FailCall
    <3>2. \A r \in Runs \ {l.run} : runStatus'[r] = runStatus[r]
      BY <1>1, <3>1 DEF SettleReconciliation
    <3>3. Settles(l.run, Release(l)) \/ runStatus' = runStatus
      BY <3>1 DEF SettleReconciliation
    <3>. QED
      BY <3>1, <3>2, <3>3, LastSettled
  <2>. QED
    BY <2>1, <2>2
<1>6. ASSUME NEW verdict \in Verdict, NEW text \in BOOLEAN, PreservePartial(l, verdict, text)
      PROVE  UncertaintyHeld'
  BY <1>6, UncertainAttempt DEF PreservePartial, Captured
<1>7. ASSUME NEW verdict \in Verdict, NEW text \in BOOLEAN, StoreCapture(l, verdict, text)
      PROVE  UncertaintyHeld'
  <2>. DEFINE finished == /\ verdict = "complete" /\ l.task = Revise
                          /\ runStatus[l.run] # "cancelled"
              mismatch == verdict = "model-mismatch" /\ runStatus[l.run] \notin Terminal
              settled == Settles(l.run, Release(l))
  <2>1. runStatus' = [runStatus EXCEPT ![l.run] =
                        IF finished THEN "completed"
                        ELSE IF mismatch THEN "paused"
                        ELSE IF settled THEN Restored(l.run) ELSE runStatus[l.run]]
    BY <1>7 DEF StoreCapture
  <2>2. mismatch => runStatus[l.run] \notin Blocked
    BY <1>7 DEF MismatchWhileReconciling, Blocked
  <2>3. /\ \A r \in Runs \ {l.run} : runStatus'[r] = runStatus[r]
        /\ settled \/ (runStatus[l.run] \in Blocked => runStatus'[l.run] \in Blocked)
    BY <1>1, <2>1, <2>2 DEF Blocked, Terminal
  <2>4. PICK s \in AttemptState \ {"uncertain"} : SetAttempt(l, s)
    BY <1>7 DEF StoreCapture, Outcome, Live
  <2>. QED
    BY <2>3, <2>4, LastSettled
<1>. QED
  BY <1>2, <1>3, <1>4, <1>5, <1>6, <1>7

LEMMA ReconciledStep ==
  Ledger /\ UncertaintyHeld /\ [Next /\ ~MismatchWhileReconciling]_vars => UncertaintyHeld'
<1>. SUFFICES ASSUME Ledger, UncertaintyHeld, [Next /\ ~MismatchWhileReconciling]_vars
              PROVE  UncertaintyHeld'
  OBVIOUS
<1>. USE DEF runVars, taskVars
<1>1. /\ runStatus \in [Runs -> RunStatus] /\ recovery \in [Runs -> Recoverable \cup {"none"}]
      /\ ReservedExactlyWhileLive /\ TypeOK
  BY DEF Ledger, TypeInv, TypeOK
<1>2. CASE Tick \/ UNCHANGED vars
  BY <1>2 DEF Tick, vars, UncertaintyHeld, StateOf
<1>3. CASE Claim
  <2>1. PICK r \in Runs, t \in Task, jitter \in 0..MaxJitter : ClaimTask(r, t, jitter)
    BY <1>3 DEF Claim
  <2>. DEFINE l == [run |-> r, task |-> t, number |-> attempts[r][t] + 1]
  <2>2. l \in Lease /\ SetAttempt(l, "prepared")
    BY <1>1, <2>1, PipelineAssumption DEF ClaimTask, NextTasks, TypeOK, Lease, Number
  <2>3. \A m \in Lease : StateOf(m)' = IF m = l THEN "prepared" ELSE StateOf(m)
    BY <1>1, <2>2, AttemptAt DEF StateOf
  <2>4. \A q \in Runs : runStatus[q] \in Blocked => runStatus'[q] = runStatus[q]
    BY <2>1
       DEF ClaimTask, Claimable, PausedByClaim, Expired, Exhausted, Incomplete, Considered,
           Schedulable, Recoverable, Blocked, Terminal
  <2>. QED
    BY <2>3, <2>4, NothingUncertain
<1>4. CASE ClaimNone
  <2>1. \A q \in Runs : runStatus[q] \in Blocked => runStatus'[q] = runStatus[q]
    BY <1>4
       DEF ClaimNone, PausedByClaim, Expired, Exhausted, Incomplete, Considered, Schedulable,
           Recoverable, Blocked, Terminal
  <2>. QED
    BY <1>4, <2>1, NothingUncertain DEF ClaimNone, StateOf
<1>5. CASE RunStep
  <2>1. ASSUME NEW r \in Runs,
               \/ Submit(r) \/ Suspend(r) \/ Cancel(r)
               \/ \E allowIncomplete \in BOOLEAN : Resume(r, allowIncomplete)
        PROVE  UncertaintyHeld'
    <3>1. \A q \in Runs : runStatus[q] \in Blocked => runStatus'[q] \in Blocked
      BY <1>1, <2>1 DEF Submit, Suspend, Cancel, Resume, Blocked, Terminal
    <3>2. attemptState' = attemptState
      BY <2>1 DEF Submit, Suspend, Cancel, Resume
    <3>. QED
      BY <3>1, <3>2, NothingUncertain DEF StateOf
  <2>2. ASSUME NEW r \in Runs, ResumeReattached(r, Issued) PROVE UncertaintyHeld'
    <3>1. attemptState' = attemptState /\ \A q \in Runs \ {r} : runStatus'[q] = runStatus[q]
      BY <1>1, <2>2 DEF ResumeReattached
    <3>2. ASSUME NEW m \in Lease, StateOf(m) = "uncertain" PROVE m.run # r
      <4>1. PICK v \in reservations : v.lease = m
        BY <1>1, <3>2 DEF ReservedExactlyWhileLive, Owns, Live
      <4>. QED
        BY <2>2, <3>2, <4>1 DEF ResumeReattached, ReservationsOf
    <3>. QED
      BY <3>1, <3>2 DEF UncertaintyHeld, StateOf, Lease, Blocked, Terminal
  <2>. QED
    BY <1>5, <2>1, <2>2 DEF RunStep
<1>6. CASE Recover
  BY <1>6, RecoverReconciles
<1>7. CASE AccountStep
  <2>1. PICK a \in Accounts :
          \/ AccountExpired(a)
          \/ \E delay \in RetryDelays : RateLimited(a, delay)
          \/ \E operator \in BOOLEAN : VerifyAccount(a, operator) \/ VerifyMismatch(a, operator)
          \/ ConfirmAccount(a)
    BY <1>7 DEF AccountStep
  <2>2. CASE \E delay \in RetryDelays : RateLimited(a, delay)
    <3>1. UNCHANGED <<runStatus, attemptState>>
      BY <2>2, Zenon DEF RateLimited
    <3>. QED
      BY <3>1 DEF UncertaintyHeld, StateOf
  <2>3. CASE ~\E delay \in RetryDelays : RateLimited(a, delay)
    <3>1. attemptState' = attemptState /\ (PauseAccountRuns(a) \/ ResumeVerifiedRuns(a))
      BY <2>1, <2>3 DEF AccountExpired, VerifyAccount, VerifyMismatch, ConfirmAccount
    <3>2. \A q \in Runs : runStatus[q] \in Blocked => runStatus'[q] \in Blocked
      BY <3>1 DEF PauseAccountRuns, ResumeVerifiedRuns, Schedulable, Blocked, Terminal
    <3>. QED
      BY <3>1, <3>2, NothingUncertain DEF StateOf
  <2>. QED
    BY <2>2, <2>3
<1>8. CASE LeaseStep /\ ~MismatchWhileReconciling
  <2>1. PICK l \in Lease :
          \/ BeginSubmission(l) \/ Accepted(l) \/ AcknowledgeCancel(l)
          \/ \E d \in Disposition : FailAttempt(l, d)
          \/ \E verdict \in Verdict, text \in BOOLEAN :
               StoreCapture(l, verdict, text) \/ PreservePartial(l, verdict, text)
    BY <1>8 DEF LeaseStep
  <2>. QED
    BY <1>8, <2>1, LeaseReconciles
<1>. QED
  BY <1>2, <1>3, <1>4, <1>5, <1>6, <1>7, <1>8 DEF Next

\* While no capture finds another model in a run that is being reconciled, a run
\* with an uncertain submission is never scheduled: that capture is the only
\* cause of the disagreement with docs/concept-workflows.md, and every other
\* operation keeps what the document says (settle_reconciliation, resume, recover).
THEOREM OnlyMismatchUnblocks == MatchingSpec => []UncertaintyBlocksResume
<1>1. Init => UncertaintyHeld
  BY DEF Init, UncertaintyHeld, StateOf, Lease
<1>2. [Next /\ ~MismatchWhileReconciling]_vars => [Next]_vars
  OBVIOUS
<1>3. MatchingSpec => Spec
  BY <1>2, PTL DEF MatchingSpec, Spec
<1>4. UncertaintyHeld => UncertaintyBlocksResume
  BY DEF UncertaintyHeld, UncertaintyBlocksResume, Blocked, Terminal, Schedulable
<1>. QED
  BY <1>1, <1>3, <1>4, ReconciledStep, LedgerInductive, PTL DEF MatchingSpec

---------------------------------------------------------------------------
(***************************************************************************)
(* The database accepts what the store writes: WorkflowStore implements    *)
(* WorkflowSchema.                                                         *)
(***************************************************************************)
Follows(m) == Schema!Checked(StateOf(m), StateOf(m)')

LEMMA NoneFollows == attemptState' = attemptState => \A m \in Lease : Follows(m)
BY DEF Follows, StateOf, Schema!Checked

LEMMA OneFollows ==
  ASSUME TypeOK, NEW l \in Lease, NEW s, SetAttempt(l, s), Schema!Checked(StateOf(l), s)
  PROVE  \A m \in Lease : Follows(m)
<1>1. \A m \in Lease : StateOf(m)' = IF m = l THEN s ELSE StateOf(m)
  BY AttemptAt DEF StateOf
<1>. QED
  BY <1>1 DEF Follows, Schema!Checked

LEMMA SuccessorsAre ==
  /\ DOMAIN Schema!Successors = Live
  /\ Schema!Successors["prepared"] = {"submitting", "failed", "cancelled"}
  /\ Schema!Successors["submitting"] = {"accepted", "failed", "uncertain", "cancelled"}
  /\ Schema!Successors["accepted"] = {"completed", "partial", "failed", "uncertain", "cancelled"}
  /\ Schema!Successors["uncertain"] = {"accepted", "completed", "partial", "failed", "cancelled"}
BY DEF Schema!Successors, Live

LEMMA LeaseFollows ==
  ASSUME Ledger, NEW l \in Lease,
         \/ BeginSubmission(l) \/ Accepted(l) \/ AcknowledgeCancel(l)
         \/ \E d \in Disposition : FailAttempt(l, d)
         \/ \E verdict \in Verdict, text \in BOOLEAN :
              StoreCapture(l, verdict, text) \/ PreservePartial(l, verdict, text)
  PROVE  \A m \in Lease : Follows(m)
<1>1. TypeOK /\ (Owns(l) => StateOf(l) \in Live)
  BY DEF Ledger, TypeInv, ReservedExactlyWhileLive
<1>. USE DEF Schema!Checked, Live
<1>2. CASE BeginSubmission(l) \/ Accepted(l)
  BY <1>1, <1>2, OneFollows, SuccessorsAre DEF BeginSubmission, Accepted
<1>3. CASE AcknowledgeCancel(l)
  <2>1. StateOf(l) \in Live /\ SetAttempt(l, "cancelled")
    BY <1>1, <1>3 DEF AcknowledgeCancel
  <2>. QED
    BY <1>1, <2>1, OneFollows, SuccessorsAre
<1>4. ASSUME NEW d \in Disposition, FailAttempt(l, d) PROVE \A m \in Lease : Follows(m)
  <2>1. PICK s \in {"uncertain", "failed"} : SetAttempt(l, s) /\ (s = "uncertain" <=> d = "Uncertain")
    BY <1>4 DEF FailAttempt, FailCall
  <2>2. Schema!Checked(StateOf(l), s)
    BY <1>4, <2>1, SuccessorsAre DEF FailAttempt, FailCall, MayFail, Aborted
  <2>. QED
    BY <1>1, <2>1, <2>2, OneFollows
<1>5. ASSUME NEW verdict \in Verdict, NEW text \in BOOLEAN,
             StoreCapture(l, verdict, text) \/ PreservePartial(l, verdict, text)
      PROVE  \A m \in Lease : Follows(m)
  <2>1. PICK s \in {"uncertain", "completed", "partial", "failed"} : SetAttempt(l, s)
    BY <1>5 DEF StoreCapture, PreservePartial, Outcome
  <2>2. Schema!Checked(StateOf(l), s)
    BY <1>5, <2>1, SuccessorsAre DEF StoreCapture, PreservePartial, Captured
  <2>. QED
    BY <1>1, <2>1, <2>2, OneFollows
<1>. QED
  BY <1>2, <1>3, <1>4, <1>5

LEMMA FollowsStep == Ledger /\ [Next]_vars => \A m \in Lease : Follows(m)
<1>. SUFFICES ASSUME Ledger, [Next]_vars PROVE \A m \in Lease : Follows(m)
  OBVIOUS
<1>. USE DEF runVars, taskVars
<1>1. TypeOK /\ ReservedExactlyWhileLive /\ LatestLive
  BY LatestLiveMeans DEF Ledger, TypeInv
<1>2. CASE Tick \/ ClaimNone \/ AccountStep \/ UNCHANGED vars
  BY <1>2, NoneFollows DEF Tick, ClaimNone, AccountStep, AccountExpired, RateLimited,
     VerifyAccount, VerifyMismatch, ConfirmAccount, vars
<1>3. CASE Claim
  <2>1. PICK r \in Runs, t \in Task, jitter \in 0..MaxJitter : ClaimTask(r, t, jitter)
    BY <1>3 DEF Claim
  <2>. DEFINE l == [run |-> r, task |-> t, number |-> attempts[r][t] + 1]
  <2>2. l \in Lease /\ SetAttempt(l, "prepared") /\ attempts[r][t] \in Nat
    BY <1>1, <2>1, PipelineAssumption DEF ClaimTask, NextTasks, TypeOK, Lease, Number
  <2>3. StateOf(l) = "none"
    BY <1>1, <2>2 DEF LatestLive
  <2>. QED
    BY <1>1, <2>2, <2>3, OneFollows DEF Schema!Checked
<1>4. CASE RunStep
  <2>1. attemptState' = attemptState
    BY <1>4 DEF RunStep, Submit, Suspend, Cancel, Resume, ResumeReattached
  <2>. QED
    BY <2>1, NoneFollows
<1>5. CASE Recover
  <2>1. \A m \in Lease : StateOf(m)' = IF StateOf(m) = "prepared" THEN "failed"
                                       ELSE IF StateOf(m) = "submitting" THEN "uncertain"
                                       ELSE StateOf(m)
    BY <1>1, <1>5, RecoveredState
  <2>. QED
    BY <2>1, SuccessorsAre DEF Follows, Schema!Checked, Live
<1>6. CASE LeaseStep
  <2>1. PICK l \in Lease :
          \/ BeginSubmission(l) \/ Accepted(l) \/ AcknowledgeCancel(l)
          \/ \E d \in Disposition : FailAttempt(l, d)
          \/ \E verdict \in Verdict, text \in BOOLEAN :
               StoreCapture(l, verdict, text) \/ PreservePartial(l, verdict, text)
    BY <1>6 DEF LeaseStep
  <2>. QED
    BY <2>1, LeaseFollows
<1>. QED
  BY <1>2, <1>3, <1>4, <1>5, <1>6 DEF Next

\* Every row has the spacing it was claimed with.
Spaced == \A v \in reservations : v.spacing \in Spacing..(Spacing + MaxJitter)

LEMMA SpacedStep == Spaced /\ [Next]_vars => Spaced'
<1>. SUFFICES ASSUME Spaced, [Next]_vars PROVE Spaced'
  OBVIOUS
<1>1. CASE ~Claim
  BY <1>1, OnlyClaimReserves DEF Spaced
<1>2. CASE Claim
  <2>1. PICK r \in Runs, t \in Task, jitter \in 0..MaxJitter : ClaimTask(r, t, jitter)
    BY <1>2 DEF Claim
  <2>2. \A v \in reservations' : v \in reservations \/ v.spacing = Spacing + jitter
    BY <2>1 DEF ClaimTask
  <2>3. Spacing + jitter \in Spacing..(Spacing + MaxJitter)
    BY ClockAssumption
  <2>. QED
    BY <2>2, <2>3 DEF Spaced
<1>. QED
  BY <1>1, <1>2

LEMMA DeadlineSet ==
  ASSUME [Next]_vars, deadline \in [Runs -> Nat], NEW r \in Runs, runStatus[r] # "absent"
  PROVE  deadline'[r] = deadline[r]
<1>. USE DEF runVars, taskVars
<1>1. CASE Tick \/ ClaimNone \/ UNCHANGED vars
  BY <1>1 DEF Tick, ClaimNone, vars
<1>2. CASE Claim \/ Recover
  BY <1>2 DEF Claim, ClaimTask, Recover
<1>3. CASE AccountStep
  BY <1>3, Zenon
     DEF AccountStep, AccountExpired, RateLimited, VerifyAccount, VerifyMismatch, ConfirmAccount
<1>4. CASE RunStep
  BY <1>4 DEF RunStep, Submit, Suspend, Cancel, Resume, ResumeReattached
<1>5. CASE LeaseStep
  BY <1>5 DEF LeaseStep, BeginSubmission, Accepted, FailAttempt, FailCall,
              AcknowledgeCancel, StoreCapture, PreservePartial
<1>. QED
  BY <1>1, <1>2, <1>3, <1>4, <1>5 DEF Next

\* What claim leaves of the capacity before it reserves.
LEMMA CapacityTaken ==
  ASSUME TypeOK, IsFiniteSet(reservations), [Next]_vars
  PROVE  Schema!CapacityLeft
<1>1. CASE ~Claim
  BY <1>1, OnlyClaimReserves DEF Schema!CapacityLeft
<1>2. CASE Claim
  <2>1. PICK r \in Runs, t \in Task, jitter \in 0..MaxJitter : ClaimTask(r, t, jitter)
    BY <1>2 DEF Claim
  <2>. DEFINE l == [run |-> r, task |-> t, number |-> attempts[r][t] + 1]
              row == [lease |-> l, spacing |-> Spacing + jitter]
              a == AccountOf[r]
  <2>2. reservations' = reservations \cup {row} /\ row.lease.run = r
    BY <2>1 DEF ClaimTask
  <2>3. Cardinality(ActiveOn(a)) < Capacity
    BY <2>1 DEF ClaimTask, Claimable, Considered, AccountOpen
  <2>. HIDE DEF row
  <2>4. row \notin reservations => reservations' \ {row} = reservations
    BY <2>2
  <2>5. Schema!SameAccount(row, reservations') = {v \in reservations' : AccountOf[v.lease.run] = a}
    BY <2>2 DEF Schema!SameAccount
  <2>6. row \notin reservations =>
          Schema!SameAccount(row, reservations') \ {row} = ActiveOn(a)
    BY <2>4, <2>5 DEF ActiveOn
  <2>7. \A v \in reservations' \ reservations : v = row
    BY <2>2
  <2>8. \A v \in reservations' \ reservations :
          Schema!SameAccount(v, reservations') \ {v} = ActiveOn(a)
    BY <2>6, <2>7
  <2>9. \A v \in reservations' \ reservations :
          Cardinality(Schema!SameAccount(v, reservations') \ {v}) < Capacity
    BY <2>3, <2>8
  <2>. HIDE DEF row, l, a
  <2>10. \A S : Schema!Cardinality(S) = Cardinality(S)
    BY DEF Schema!Cardinality, Cardinality
  <2>. QED
    BY <2>9, <2>10 DEF Schema!CapacityLeft
<1>. QED
  BY <1>1, <1>2

RowsHeld == Pipeline /\ Spaced /\ Capped

LEMMA RowsStored == RowsHeld => Schema!RowsChecked
<1>. SUFFICES ASSUME RowsHeld PROVE Schema!RowsChecked
  OBVIOUS
<1>1. TypeOK /\ ReservedExactlyWhileLive /\ Spaced
  BY DEF RowsHeld, Pipeline, Ledger, TypeInv
<1>2. ASSUME NEW v \in reservations PROVE Schema!Of(v) # "none"
  <2>1. v.lease \in Lease /\ Owns(v.lease)
    BY <1>1 DEF TypeOK, Reservation, Owns
  <2>. QED
    BY <1>1, <2>1 DEF ReservedExactlyWhileLive, Live, StateOf, Schema!Of
<1>3. \A r \in Runs : submissions[r] \in 0..SubmissionLimit
  BY <1>1 DEF TypeOK
<1>. QED
  BY <1>1, <1>2, <1>3 DEF Schema!RowsChecked, Spaced, ReservedExactlyWhileLive

LEMMA StoredInductive == Spec => []RowsHeld
<1>1. Init => Spaced
  BY DEF Init, Spaced
<1>2. Spec => []Spaced
  BY <1>1, SpacedStep, PTL DEF Spec
<1>. QED
  BY <1>2, PipelineInductive, CappedInductive, PTL DEF RowsHeld

LEMMA TransactionStep == RowsHeld /\ RowsHeld' /\ [Next]_vars => Schema!Transaction
<1>. SUFFICES ASSUME RowsHeld, RowsHeld', [Next]_vars PROVE Schema!Transaction
  OBVIOUS
<1>1. Schema!RowsChecked'
  BY RowsStored, PTL
<1>2. Schema!AttemptsChecked
  <2>1. \A m \in Lease : Follows(m)
    BY FollowsStep DEF RowsHeld, Pipeline
  <2>. SUFFICES ASSUME NEW r \in Runs, NEW t \in Task, NEW n \in Number
                PROVE  Schema!Checked(attemptState[r][t][n], attemptState'[r][t][n])
    BY DEF Schema!AttemptsChecked
  <2>. DEFINE m == [run |-> r, task |-> t, number |-> n]
  <2>2. m \in Lease /\ StateOf(m) = attemptState[r][t][n] /\ StateOf(m)' = attemptState'[r][t][n]
    BY DEF Lease, StateOf
  <2>. HIDE DEF m
  <2>. QED
    BY <2>1, <2>2 DEF Follows
<1>3. Schema!FinalRunsKept
  BY RunMoves DEF RowsHeld, RunMove, Schema!FinalRunsKept, Schema!Final, Terminal
<1>4. Schema!ConfigurationKept
  BY DeadlineSet DEF RowsHeld, Pipeline, Ledger, TypeInv, TypeOK, Schema!ConfigurationKept
<1>5. Schema!CapacityLeft
  BY CapacityTaken DEF RowsHeld, Capped
<1>. QED
  BY <1>1, <1>2, <1>3, <1>4, <1>5 DEF Schema!Transaction

\* A call of the scheduler with no guard but those its handler has itself.
Call == Next \/ \E l \in Lease, d \in Disposition : FailCall(l, d)

\* fail_attempt as uncertain, of an attempt that never began its submission.
FailsPrepared == \E l \in Lease : FailCall(l, "Uncertain") /\ StateOf(l) = "prepared"

LEMMA StoredStep == RowsHeld /\ [Next]_vars => RowsHeld'
<1>. SUFFICES ASSUME RowsHeld, [Next]_vars PROVE RowsHeld'
  OBVIOUS
<1>1. Pipeline' /\ Spaced'
  BY PipelineStep, SpacedStep DEF RowsHeld
<1>2. Capped'
  BY <1>1, CappedStep DEF RowsHeld, Pipeline, Ledger, TypeInv
<1>. QED
  BY <1>1, <1>2 DEF RowsHeld

\* Such a call moves its attempt where checked_attempt_transition lets none go.
LEMMA PreparedNotUncertain == RowsHeld /\ FailsPrepared => ~Schema!AttemptsChecked
<1>. SUFFICES ASSUME RowsHeld, NEW l \in Lease, FailCall(l, "Uncertain"), StateOf(l) = "prepared"
              PROVE  ~Schema!AttemptsChecked
  BY DEF FailsPrepared
<1>1. StateOf(l)' = "uncertain"
  <2>1. SetAttempt(l, "uncertain")
    BY DEF FailCall
  <2>. QED
    BY <2>1, AttemptAt DEF RowsHeld, Pipeline, Ledger, TypeInv, StateOf
<1>2. l.run \in Runs /\ l.task \in Task /\ l.number \in Number
  BY DEF Lease
<1>3. ~Schema!Checked("prepared", "uncertain")
  BY DEF Schema!Checked, Schema!Successors
<1>. QED
  BY <1>1, <1>2, <1>3 DEF StateOf, Schema!AttemptsChecked

\* Of all the calls of the scheduler the database refuses one: a failure called
\* uncertain of an attempt that is still prepared, which fail_attempt does not
\* exclude itself and which the reaping of a failed worker makes.  Every other call
\* passes the triggers and checks by its own guards: attempts only move along
\* checked_attempt_transition, a final run stays, a deadline is set once, the
\* budget and the spacing stay in range, and a row is inserted within capacity.
THEOREM OneCallRefused ==
  ASSUME RowsHeld, Call
  PROVE  Schema!Transaction <=> ~FailsPrepared
<1>1. CASE FailsPrepared
  BY <1>1, PreparedNotUncertain DEF Schema!Transaction
<1>2. CASE ~FailsPrepared
  <2>1. ASSUME NEW l \in Lease, NEW d \in Disposition, FailCall(l, d) PROVE Next
    <3>1. ~Aborted(StateOf(l), d)
      BY <1>2, <2>1 DEF FailsPrepared, Aborted
    <3>2. LeaseStep
      BY <2>1, <3>1 DEF FailAttempt, LeaseStep
    <3>. QED
      BY <3>2 DEF Next
  <2>2. Next
    BY <2>1 DEF Call
  <2>. QED
    BY <1>2, <2>2, StoredStep, TransactionStep
<1>. QED
  BY <1>1, <1>2

\* So whatever is committed is what the schema allows, from the empty database on.
THEOREM CommitsKeepSchema == Spec => Schema!SchemaSpec
<1>1. Init => Schema!Empty
  BY DEF Init, Schema!Empty
<1>2. RowsHeld /\ RowsHeld' /\ [Next]_vars => [Schema!Transaction]_Schema!schemaVars
  BY TransactionStep
<1>. QED
  BY <1>1, <1>2, StoredInductive, PTL DEF Spec, Schema!SchemaSpec
===========================================================================

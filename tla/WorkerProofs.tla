---------------------------- MODULE WorkerProofs ----------------------------
(***************************************************************************)
(* Proofs about the worker.  WorkerJobs: tabs follow their jobs, and one   *)
(* job per key.  WorkerExecutor: it is an executor of WorkerJobs, it sends *)
(* the prompt of a key at most once, and a job that completes has the      *)
(* whole answer.  WorkerCancellation: a job that is cancelled in time      *)
(* sends nothing.                                                          *)
(***************************************************************************)
EXTENDS WorkerCancellation, TLAPS

Before == {"idle", "waiting", "opening", "reserving", "recording"}

\* At most one submission is past the key check.
OneSubmitting ==
  \A c, d \in Calls : call[c].at \in Submitting /\ call[d].at \in Submitting => c = d

\* How far the submission, the record and the task of a job are.
Stages ==
  \A j \in Calls :
    /\ call[j].at \in Before => status[j] = "absent" /\ task[j] = "none"
    /\ call[j].at = "registering" => status[j] # "absent" /\ task[j] = "none"
    /\ task[j] # "none" => status[j] # "absent"

\* The recorded job of a key is a job for that key, and the only one; while a
\* submission is on its way to record its own, there is none.
Keyed ==
  /\ \A j \in Calls : status[j] # "absent" => keys[call[j].request.key] = j
  /\ \A k \in Keys : keys[k] \in Calls => call[keys[k]].request.key = k
  /\ \A c \in Calls :
       call[c].at \in {"opening", "reserving", "recording"} => keys[call[c].request.key] = NoJob

Answered ==
  \A c \in Calls : call[c].answer \in Calls => call[call[c].answer].request = call[c].request

\* What job_cancel and tab_close refer to exists.
Stopping ==
  \A x \in Stoppers :
    /\ stopper[x].at \in {"checking", "signalling", "marking"} => stopper[x].job \in Calls
    /\ stopper[x].at \in {"signalling", "marking"} => status[stopper[x].job] # "absent"
    /\ stopper[x].at = "closing" => stopper[x].tab \in Tabs

JobsInv == TypeOK /\ OneSubmitting /\ Stages /\ Keyed /\ Answered /\ Stopping /\ TabsFollowJobs

---------------------------------------------------------------------------
CallRow == [at : {"idle", "waiting", "done"} \cup Submitting, request : Request,
            answer : Calls \cup {NoJob, "error"}]

\* What At and Answer change.
LEMMA Moved ==
  ASSUME TypeOK, NEW c \in Calls, NEW stage \in {"waiting", "done"} \cup Submitting,
         At(c, stage)
  PROVE  /\ \A d \in Calls : /\ call'[d].request = call[d].request
                             /\ call'[d].answer = call[d].answer
                             /\ call'[d].at = IF d = c THEN stage ELSE call[d].at
         /\ call' \in [Calls -> CallRow]
<1>1. call \in [Calls -> CallRow]
  BY DEF TypeOK, CallRow
<1>. DEFINE row == [call[c] EXCEPT !.at = stage]
<1>2. /\ row \in CallRow /\ row.at = stage
      /\ row.request = call[c].request /\ row.answer = call[c].answer
  BY <1>1 DEF CallRow
<1>3. call' = [call EXCEPT ![c] = row]
  BY DEF At
<1>. HIDE DEF row
<1>. QED
  BY <1>1, <1>2, <1>3

LEMMA Replied ==
  ASSUME TypeOK, NEW c \in Calls, NEW a \in Calls \cup {NoJob, "error"}, Answer(c, a)
  PROVE  /\ \A d \in Calls : /\ call'[d].request = call[d].request
                             /\ call'[d].answer = IF d = c THEN a ELSE call[d].answer
                             /\ call'[d].at = IF d = c THEN "done" ELSE call[d].at
         /\ call' \in [Calls -> CallRow]
<1>1. call \in [Calls -> CallRow]
  BY DEF TypeOK, CallRow
<1>. DEFINE row == [call[c] EXCEPT !.at = "done", !.answer = a]
<1>2. row \in CallRow /\ row.at = "done" /\ row.request = call[c].request /\ row.answer = a
  BY <1>1 DEF CallRow
<1>3. call' = [call EXCEPT ![c] = row]
  BY DEF Answer
<1>. HIDE DEF row
<1>. QED
  BY <1>1, <1>2, <1>3

\* The tab of a job is a tab, and stays the same.
LEMMA TabTyped ==
  ASSUME TypeOK, NEW j \in Calls
  PROVE  TabOf(j) \in Tabs /\ call[j].request \in Request /\ call[j].request.key \in Keys
<1>1. call[j].request \in Request
  BY DEF TypeOK
<1>2. call[j].request.key \in Keys /\ call[j].request.tab \in Tabs \cup {Implicit}
  BY <1>1 DEF Request
<1>. QED
  BY <1>1, <1>2 DEF TabOf, Tabs

LEMMA JobsInit == Init => JobsInv
<1>. SUFFICES ASSUME Init PROVE JobsInv
  OBVIOUS
<1>1. \A c \in Calls : call[c].at = "idle" /\ call[c].answer = NoJob /\ call[c].request \in Requests
  BY DEF Init
<1>2. TypeOK
  BY RequestsAssumption DEF Init, TypeOK, NotStopping, Outcome, Submitting
<1>3. OneSubmitting /\ Stages /\ Keyed /\ Answered
  BY <1>1, NamesAssumption DEF Init, OneSubmitting, Stages, Keyed, Answered, Submitting, Before
<1>4. Stopping
  BY DEF Init, Stopping, NotStopping
<1>5. TabsFollowJobs
  BY <1>1, NamesAssumption DEF Init, TabsFollowJobs, Holds
<1>. QED
  BY <1>2, <1>3, <1>4, <1>5 DEF JobsInv

TabRow == [status : {"absent", "opening", "lost", "open", "closed"}, active : Calls \cup {NoJob}]

\* A tab's status changes, or its active job.
LEMMA TabStatus ==
  ASSUME TypeOK, NEW t \in Tabs, NEW s \in {"absent", "opening", "lost", "open", "closed"},
         tabs' = [tabs EXCEPT ![t].status = s]
  PROVE  /\ \A u \in Tabs : /\ tabs'[u].active = tabs[u].active
                            /\ tabs'[u].status = IF u = t THEN s ELSE tabs[u].status
         /\ tabs' \in [Tabs -> TabRow]
<1>1. tabs \in [Tabs -> TabRow]
  BY DEF TypeOK, TabRow
<1>. DEFINE row == [tabs[t] EXCEPT !.status = s]
<1>2. row \in TabRow /\ row.status = s /\ row.active = tabs[t].active
  BY <1>1 DEF TabRow
<1>3. tabs' = [tabs EXCEPT ![t] = row]
  OBVIOUS
<1>. HIDE DEF row
<1>. QED
  BY <1>1, <1>2, <1>3

LEMMA TabActive ==
  ASSUME TypeOK, NEW t \in Tabs, NEW j \in Calls \cup {NoJob},
         tabs' = [tabs EXCEPT ![t].active = j]
  PROVE  /\ \A u \in Tabs : /\ tabs'[u].status = tabs[u].status
                            /\ tabs'[u].active = IF u = t THEN j ELSE tabs[u].active
         /\ tabs' \in [Tabs -> TabRow]
<1>1. tabs \in [Tabs -> TabRow]
  BY DEF TypeOK, TabRow
<1>. DEFINE row == [tabs[t] EXCEPT !.active = j]
<1>2. row \in TabRow /\ row.active = j /\ row.status = tabs[t].status
  BY <1>1 DEF TabRow
<1>3. tabs' = [tabs EXCEPT ![t] = row]
  OBVIOUS
<1>. HIDE DEF row
<1>. QED
  BY <1>1, <1>2, <1>3

StopperRow == [at : {"idle", "checking", "signalling", "marking", "closing"},
               job : Calls \cup {NoJob}, tab : Tabs \cup {NoTab}]

\* The ways in which a stopper goes on.
LEMMA StopperMoved ==
  ASSUME TypeOK, NEW x \in Stoppers,
         NEW stage \in {"idle", "checking", "signalling", "marking", "closing"},
         StopperAt(x, stage)
  PROVE  /\ \A y \in Stoppers : /\ stopper'[y].at = IF y = x THEN stage ELSE stopper[y].at
                                /\ stopper'[y].job = stopper[y].job
                                /\ stopper'[y].tab = stopper[y].tab
         /\ stopper' \in [Stoppers -> StopperRow]
<1>1. stopper \in [Stoppers -> StopperRow]
  BY DEF TypeOK, StopperRow
<1>. DEFINE row == [stopper[x] EXCEPT !.at = stage]
<1>2. /\ row \in StopperRow /\ row.at = stage
      /\ row.job = stopper[x].job /\ row.tab = stopper[x].tab
  BY <1>1 DEF StopperRow
<1>3. stopper' = [stopper EXCEPT ![x] = row]
  BY DEF StopperAt
<1>. HIDE DEF row
<1>. QED
  BY <1>1, <1>2, <1>3

LEMMA StopperSet ==
  ASSUME TypeOK, NEW x \in Stoppers,
         NEW stage \in {"idle", "checking", "signalling", "marking", "closing"},
         NEW j \in Calls \cup {NoJob}, NEW t \in Tabs \cup {NoTab}, Stops(x, stage, j, t)
  PROVE  /\ \A y \in Stoppers :
              stopper'[y] = IF y = x THEN [at |-> stage, job |-> j, tab |-> t] ELSE stopper[y]
         /\ stopper' \in [Stoppers -> StopperRow]
<1>1. stopper \in [Stoppers -> StopperRow]
  BY DEF TypeOK, StopperRow
<1>2. [at |-> stage, job |-> j, tab |-> t] \in StopperRow
  BY DEF StopperRow
<1>3. stopper' = [stopper EXCEPT ![x] = [at |-> stage, job |-> j, tab |-> t]]
  BY DEF Stops
<1>. QED
  BY <1>1, <1>2, <1>3

LEMMA StopperReturns ==
  ASSUME TypeOK, NEW x \in Stoppers, Returns(x)
  PROVE  /\ \A y \in Stoppers : stopper'[y] = IF y = x THEN NotStopping ELSE stopper[y]
         /\ stopper' \in [Stoppers -> StopperRow]
<1>1. stopper \in [Stoppers -> StopperRow]
  BY DEF TypeOK, StopperRow
<1>2. NotStopping \in StopperRow
  BY DEF StopperRow, NotStopping
<1>. QED
  BY <1>1, <1>2 DEF Returns

LEMMA StopperAfterJob ==
  ASSUME TypeOK, NEW x \in Stoppers, AfterJob(x)
  PROVE  /\ \A y \in Stoppers : y # x => stopper'[y] = stopper[y]
         /\ \/ stopper'[x].at = "idle"
            \/ stopper'[x].at = "closing" /\ stopper'[x].tab \in Tabs
         /\ stopper' \in [Stoppers -> StopperRow]
<1>1. stopper[x].tab \in Tabs \cup {NoTab}
  BY DEF TypeOK
<1>2. CASE stopper[x].tab = NoTab
  <2>1. Returns(x)
    BY <1>2 DEF AfterJob
  <2>2. /\ \A y \in Stoppers : stopper'[y] = IF y = x THEN NotStopping ELSE stopper[y]
        /\ stopper' \in [Stoppers -> StopperRow]
    BY <2>1, StopperReturns
  <2>. QED
    BY <2>2 DEF NotStopping
<1>3. CASE stopper[x].tab # NoTab
  <2>1. Stops(x, "closing", NoJob, stopper[x].tab)
    BY <1>3 DEF AfterJob
  <2>2. stopper[x].tab \in Tabs
    BY <1>1, <1>3
  <2>3. /\ \A y \in Stoppers :
             stopper'[y] = IF y = x THEN [at |-> "closing", job |-> NoJob, tab |-> stopper[x].tab]
                           ELSE stopper[y]
        /\ stopper' \in [Stoppers -> StopperRow]
    BY <2>1, <1>1, StopperSet
  <2>. QED
    BY <2>2, <2>3
<1>. QED
  BY <1>2, <1>3

---------------------------------------------------------------------------
(* Steps that change neither submissions nor jobs *)

\* When only tabs' statuses and stoppers change, the parts about submissions,
\* keys and jobs stay as they are.
LEMMA Frame ==
  ASSUME JobsInv, UNCHANGED <<call, keys, jobVars>>,
         tabs' \in [Tabs -> TabRow],
         \A t \in Tabs : tabs'[t].active = tabs[t].active,
         stopper' \in [Stoppers -> StopperRow],
         Stopping'
  PROVE  JobsInv'
<1>. USE DEF jobVars
<1>1. TypeOK'
  BY DEF JobsInv, TypeOK, TabRow, StopperRow
<1>2. OneSubmitting' /\ Stages' /\ Keyed' /\ Answered'
  BY DEF JobsInv, OneSubmitting, Stages, Keyed, Answered
<1>3. TabsFollowJobs'
  BY DEF JobsInv, TabsFollowJobs, Holds, TabOf
<1>. QED
  BY <1>1, <1>2, <1>3 DEF JobsInv

LEMMA OpeningSteps ==
  ASSUME JobsInv, NEW t \in TabNames, OpenTab(t) \/ TabOpened(t)
  PROVE  JobsInv'
<1>1. t \in Tabs /\ TypeOK
  BY DEF Tabs, JobsInv
<1>2. PICK s \in {"absent", "opening", "lost", "open", "closed"} :
        tabs' = [tabs EXCEPT ![t].status = s]
  BY DEF OpenTab, TabOpened
<1>3. UNCHANGED <<call, keys, jobVars, stopper>>
  BY DEF OpenTab, TabOpened
<1>4. Stopping'
  BY <1>3 DEF JobsInv, Stopping, jobVars
<1>5. stopper' \in [Stoppers -> StopperRow]
  BY <1>1, <1>3 DEF TypeOK, StopperRow
<1>. QED
  BY <1>1, <1>2, <1>3, <1>4, <1>5, TabStatus, Frame

LEMMA StopperBegins ==
  ASSUME JobsInv, NEW x \in Stoppers,
         (\E j \in Calls : CancelJob(x, j))
           \/ \E t \in Tabs, force \in BOOLEAN : CloseTab(x, t, force)
  PROVE  JobsInv'
<1>1. TypeOK
  BY DEF JobsInv
<1>2. UNCHANGED <<call, keys, tabs, jobVars>>
  BY DEF CancelJob, CloseTab
<1>3. PICK j \in Calls \cup {NoJob}, t \in Tabs \cup {NoTab},
           stage \in {"checking", "closing"} :
        /\ Stops(x, stage, j, t)
        /\ stage = "checking" => j \in Calls
        /\ stage = "closing" => t \in Tabs
  <2>1. CASE \E j \in Calls : CancelJob(x, j)
    BY <2>1 DEF CancelJob
  <2>2. CASE \E t \in Tabs, force \in BOOLEAN : CloseTab(x, t, force)
    <3>1. PICK t \in Tabs, force \in BOOLEAN : CloseTab(x, t, force)
      BY <2>2
    <3>2. tabs[t].active \in Calls \cup {NoJob}
      BY <1>1 DEF TypeOK
    <3>. QED
      BY <3>1, <3>2 DEF CloseTab
  <2>. QED
    BY <2>1, <2>2
<1>4. /\ \A y \in Stoppers :
           stopper'[y] = IF y = x THEN [at |-> stage, job |-> j, tab |-> t] ELSE stopper[y]
      /\ stopper' \in [Stoppers -> StopperRow]
  BY <1>1, <1>3, StopperSet
<1>5. Stopping'
  BY <1>2, <1>3, <1>4 DEF JobsInv, Stopping, jobVars
<1>6. tabs' \in [Tabs -> TabRow] /\ \A u \in Tabs : tabs'[u].active = tabs[u].active
  BY <1>1, <1>2 DEF TypeOK, TabRow
<1>. QED
  BY <1>2, <1>4, <1>5, <1>6, Frame

LEMMA StopperChecks ==
  ASSUME JobsInv, NEW x \in Stoppers, CheckJob(x)
  PROVE  JobsInv'
<1>1. TypeOK /\ stopper[x].at = "checking" /\ stopper[x].job \in Calls
  BY DEF JobsInv, Stopping, CheckJob
<1>2. UNCHANGED <<call, keys, tabs, jobVars>>
  BY DEF CheckJob
<1>3. tabs' \in [Tabs -> TabRow] /\ \A u \in Tabs : tabs'[u].active = tabs[u].active
  BY <1>1, <1>2 DEF TypeOK, TabRow
<1>4. stopper' \in [Stoppers -> StopperRow] /\ Stopping'
  <2>1. CASE Returns(x)
    <3>1. /\ \A y \in Stoppers : stopper'[y] = IF y = x THEN NotStopping ELSE stopper[y]
          /\ stopper' \in [Stoppers -> StopperRow]
      BY <1>1, <2>1, StopperReturns
    <3>. QED
      BY <1>2, <3>1 DEF JobsInv, Stopping, NotStopping, jobVars
  <2>2. CASE AfterJob(x)
    <3>1. /\ \A y \in Stoppers : y # x => stopper'[y] = stopper[y]
          /\ \/ stopper'[x].at = "idle"
             \/ stopper'[x].at = "closing" /\ stopper'[x].tab \in Tabs
          /\ stopper' \in [Stoppers -> StopperRow]
      BY <1>1, <2>2, StopperAfterJob
    <3>. QED
      BY <1>2, <3>1 DEF JobsInv, Stopping, jobVars
  <2>3. CASE StopperAt(x, "signalling") /\ status[stopper[x].job] # "absent"
    <3>1. /\ \A y \in Stoppers : /\ stopper'[y].at = IF y = x THEN "signalling" ELSE stopper[y].at
                                 /\ stopper'[y].job = stopper[y].job
                                 /\ stopper'[y].tab = stopper[y].tab
          /\ stopper' \in [Stoppers -> StopperRow]
      BY <1>1, <2>3, StopperMoved
    <3>. QED
      BY <1>1, <1>2, <2>3, <3>1 DEF JobsInv, Stopping, jobVars
  <2>. QED
    BY <2>1, <2>2, <2>3 DEF CheckJob
<1>. QED
  BY <1>2, <1>3, <1>4, Frame

LEMMA StopperCloses ==
  ASSUME JobsInv, NEW x \in Stoppers, TabCloses(x)
  PROVE  JobsInv'
<1>1. TypeOK /\ stopper[x].tab \in Tabs
  BY DEF JobsInv, Stopping, TabCloses
<1>2. UNCHANGED <<call, keys, jobVars>> /\ Returns(x)
  BY DEF TabCloses
<1>3. tabs' \in [Tabs -> TabRow] /\ \A u \in Tabs : tabs'[u].active = tabs[u].active
  <2>1. tabs' = [tabs EXCEPT ![stopper[x].tab].status = "closed"]
    BY DEF TabCloses
  <2>. QED
    BY <1>1, <2>1, TabStatus
<1>4. /\ \A y \in Stoppers : stopper'[y] = IF y = x THEN NotStopping ELSE stopper[y]
      /\ stopper' \in [Stoppers -> StopperRow]
  BY <1>1, <1>2, StopperReturns
<1>5. Stopping'
  BY <1>2, <1>4 DEF JobsInv, Stopping, NotStopping, jobVars
<1>. QED
  BY <1>2, <1>3, <1>4, <1>5, Frame

---------------------------------------------------------------------------
(* Steps of submissions *)

\* A submission goes on without reserving or recording anything.
LEMMA OnlyCall ==
  ASSUME JobsInv, NEW c \in Calls, UNCHANGED <<keys, jobVars, stopper>>,
         tabs' \in [Tabs -> TabRow],
         \A t \in Tabs : tabs'[t].active = tabs[t].active,
         call' \in [Calls -> CallRow],
         \A d \in Calls : call'[d].request = call[d].request,
         \A d \in Calls : d # c => call'[d].at = call[d].at /\ call'[d].answer = call[d].answer,
         call[c].at \in {"idle", "waiting", "opening", "reserving"},
         call'[c].at \in {"waiting", "opening", "reserving", "done"},
         call'[c].at \in {"opening", "reserving"} =>
           /\ keys[call[c].request.key] = NoJob
           /\ \A d \in Calls : call[d].at \in Submitting => d = c,
         call'[c].answer \in Calls => call[call'[c].answer].request = call[c].request
  PROVE  JobsInv'
<1>. USE DEF jobVars
<1>1. TypeOK'
  BY DEF JobsInv, TypeOK, TabRow, CallRow
<1>2. OneSubmitting'
  BY DEF JobsInv, OneSubmitting, Submitting
<1>3. Stages'
  BY DEF JobsInv, Stages, Before
<1>4. Keyed'
  BY DEF JobsInv, Keyed
<1>5. Answered'
  BY DEF JobsInv, Answered
<1>6. Stopping'
  BY DEF JobsInv, Stopping
<1>7. TabsFollowJobs'
  <2>1. \A j \in Calls : TabOf(j)' = TabOf(j)
    BY DEF TabOf
  <2>2. \A j \in Calls : Holds(j)' <=> Holds(j)
    BY DEF Holds
  <2>. QED
    BY <2>1, <2>2 DEF JobsInv, TabsFollowJobs
<1>. QED
  BY <1>1, <1>2, <1>3, <1>4, <1>5, <1>6, <1>7 DEF JobsInv

LEMMA SubmissionMoves ==
  ASSUME JobsInv, NEW c \in Calls,
         \/ Submit(c) \/ Accept(c)
         \/ OpeningFails(c) \/ OpenImplicitTab(c) \/ ReservationRefused(c)
  PROVE  JobsInv'
<1>1. /\ TypeOK /\ c \in Tabs
      /\ call[c].request.key \in Keys
      /\ keys[call[c].request.key] \in Calls \cup {NoJob}
      /\ call[c].answer \in Calls => call[call[c].answer].request = call[c].request
  <2>1. TypeOK /\ c \in Tabs
    BY DEF JobsInv, Tabs
  <2>. QED
    BY <2>1, TabTyped DEF JobsInv, TypeOK, Answered
<1>2. UNCHANGED <<keys, jobVars, stopper>>
  BY DEF Submit, Accept, OpeningFails, OpenImplicitTab, ReservationRefused
<1>3. tabs' \in [Tabs -> TabRow] /\ \A t \in Tabs : tabs'[t].active = tabs[t].active
  <2>1. CASE tabs' = tabs
    BY <1>1, <2>1 DEF TypeOK, TabRow
  <2>2. CASE tabs' = [tabs EXCEPT ![c].status = "open"]
    BY <1>1, <2>2, TabStatus
  <2>. QED
    BY <2>1, <2>2 DEF Submit, Accept, OpeningFails, OpenImplicitTab, ReservationRefused
<1>4. call[c].at \in {"idle", "waiting", "opening", "reserving"}
  BY DEF Submit, Accept, OpeningFails, OpenImplicitTab, ReservationRefused
<1>5. CASE \E stage \in {"waiting", "opening", "reserving"} :
             /\ At(c, stage)
             /\ stage # "waiting" =>
                  /\ keys[call[c].request.key] = NoJob
                  /\ \A d \in Calls : call[d].at \in Submitting => d = c
  <2>1. PICK stage \in {"waiting", "opening", "reserving"} :
             /\ At(c, stage)
             /\ stage # "waiting" =>
                  /\ keys[call[c].request.key] = NoJob
                  /\ \A d \in Calls : call[d].at \in Submitting => d = c
    BY <1>5
  <2>2. stage \in {"waiting", "done"} \cup Submitting
    BY DEF Submitting
  <2>3. /\ \A d \in Calls : /\ call'[d].request = call[d].request
                            /\ call'[d].answer = call[d].answer
                            /\ call'[d].at = IF d = c THEN stage ELSE call[d].at
        /\ call' \in [Calls -> CallRow]
    BY <1>1, <2>1, <2>2, Moved
  <2>. QED
    BY <1>1, <1>2, <1>3, <1>4, <2>1, <2>3, OnlyCall
<1>6. CASE \E a \in Calls \cup {NoJob, "error"} :
             /\ Answer(c, a)
             /\ a \in Calls => call[a].request = call[c].request
  <2>1. PICK a \in Calls \cup {NoJob, "error"} :
             /\ Answer(c, a)
             /\ a \in Calls => call[a].request = call[c].request
    BY <1>6
  <2>2. /\ \A d \in Calls : /\ call'[d].request = call[d].request
                            /\ call'[d].answer = IF d = c THEN a ELSE call[d].answer
                            /\ call'[d].at = IF d = c THEN "done" ELSE call[d].at
        /\ call' \in [Calls -> CallRow]
    BY <1>1, <2>1, Replied
  <2>. QED
    BY <1>1, <1>2, <1>3, <1>4, <2>1, <2>2, OnlyCall
<1>7. CASE Submit(c)
  BY <1>5, <1>7 DEF Submit
<1>8. CASE OpeningFails(c) \/ ReservationRefused(c)
  BY <1>6, <1>8, NamesAssumption DEF OpeningFails, ReservationRefused
<1>9. CASE OpenImplicitTab(c)
  <2>1. At(c, "reserving") /\ call[c].at = "opening"
    BY <1>9 DEF OpenImplicitTab
  <2>2. /\ keys[call[c].request.key] = NoJob
        /\ \A d \in Calls : call[d].at \in Submitting => d = c
    BY <2>1 DEF JobsInv, Keyed, OneSubmitting, Submitting
  <2>. QED
    BY <1>5, <2>1, <2>2
<1>10. CASE Accept(c)
  <2>1. CASE keys[call[c].request.key] = NoJob
    <3>1. \E stage \in {"opening", "reserving"} : At(c, stage)
      BY <1>10, <2>1 DEF Accept
    <3>2. \A d \in Calls : call[d].at \in Submitting => d = c
      BY <1>10 DEF Accept, SubmissionsFree
    <3>. QED
      BY <1>5, <2>1, <3>1, <3>2
  <2>2. CASE keys[call[c].request.key] # NoJob
    <3>1. keys[call[c].request.key] \in Calls
      BY <1>1, <2>2
    <3>2. Answer(c, IF call[keys[call[c].request.key]].request = call[c].request
                    THEN keys[call[c].request.key] ELSE "error")
      BY <1>10, <2>2 DEF Accept
    <3>. QED
      BY <1>6, <3>1, <3>2, NamesAssumption
  <2>. QED
    BY <2>1, <2>2
<1>. QED
  BY <1>7, <1>8, <1>9, <1>10

\* A reservation gives the tab to the job, and nothing else does.
LEMMA SubmissionReserves ==
  ASSUME JobsInv, NEW c \in Calls, Reserve(c)
  PROVE  JobsInv'
<1>1. /\ TypeOK /\ TabOf(c) \in Tabs
      /\ call[c].at = "reserving" /\ At(c, "recording")
      /\ tabs[TabOf(c)].active = NoJob
      /\ tabs' = [tabs EXCEPT ![TabOf(c)].active = c]
      /\ UNCHANGED <<keys, status, task, outcome, signal, stopper>>
  BY TabTyped DEF JobsInv, Reserve, IdleAndOpen, jobVars
<1>2. /\ \A d \in Calls : /\ call'[d].request = call[d].request
                          /\ call'[d].answer = call[d].answer
                          /\ call'[d].at = IF d = c THEN "recording" ELSE call[d].at
      /\ call' \in [Calls -> CallRow]
  <2>1. "recording" \in {"waiting", "done"} \cup Submitting
    BY DEF Submitting
  <2>. QED
    BY <1>1, <2>1, Moved
<1>3. /\ \A u \in Tabs : /\ tabs'[u].status = tabs[u].status
                         /\ tabs'[u].active = IF u = TabOf(c) THEN c ELSE tabs[u].active
      /\ tabs' \in [Tabs -> TabRow]
  BY <1>1, TabActive
<1>4. TypeOK'
  BY <1>1, <1>2, <1>3 DEF TypeOK, TabRow, CallRow
<1>5. OneSubmitting' /\ Stages' /\ Keyed' /\ Answered' /\ Stopping'
  BY <1>1, <1>2 DEF JobsInv, OneSubmitting, Stages, Keyed, Answered, Stopping, Submitting, Before
<1>6. TabsFollowJobs'
  <2>1. \A j \in Calls : TabOf(j)' = TabOf(j)
    BY <1>2 DEF TabOf
  <2>2. \A j \in Calls : Holds(j)' <=> Holds(j) \/ j = c
    BY <1>1, <1>2 DEF Holds
  <2>3. ~Holds(c) /\ c # NoJob
    BY <1>1, NamesAssumption DEF Holds, JobsInv, Stages, Before
  <2>. QED
    BY <1>1, <1>3, <2>1, <2>2, <2>3, NamesAssumption DEF JobsInv, TabsFollowJobs
<1>. QED
  BY <1>4, <1>5, <1>6 DEF JobsInv

LEMMA SubmissionRecords ==
  ASSUME JobsInv, NEW c \in Calls, Record(c)
  PROVE  JobsInv'
<1>. DEFINE k == call[c].request.key
<1>1. /\ TypeOK /\ k \in Keys
      /\ call[c].at = "recording" /\ At(c, "registering")
      /\ keys' = [keys EXCEPT ![k] = c]
      /\ status' = [status EXCEPT ![c] = "queued"]
      /\ UNCHANGED <<tabs, task, outcome, signal, stopper>>
  BY TabTyped DEF JobsInv, Record
<1>2. /\ \A d \in Calls : /\ call'[d].request = call[d].request
                          /\ call'[d].answer = call[d].answer
                          /\ call'[d].at = IF d = c THEN "registering" ELSE call[d].at
      /\ call' \in [Calls -> CallRow]
  <2>1. "registering" \in {"waiting", "done"} \cup Submitting
    BY DEF Submitting
  <2>. QED
    BY <1>1, <2>1, Moved
<1>3. /\ \A l \in Keys : keys'[l] = IF l = k THEN c ELSE keys[l]
      /\ keys' \in [Keys -> Calls \cup {NoJob}]
      /\ \A j \in Calls : status'[j] = IF j = c THEN "queued" ELSE status[j]
      /\ status' \in [Calls -> {"absent", "queued", "running", "cancelling"} \cup Outcome]
  BY <1>1 DEF TypeOK
<1>4. keys[k] = NoJob
  BY <1>1 DEF JobsInv, Keyed
<1>. HIDE DEF k
<1>5. TypeOK'
  BY <1>1, <1>2, <1>3 DEF TypeOK, CallRow
<1>6. OneSubmitting' /\ Stages' /\ Answered' /\ Stopping'
  BY <1>1, <1>2, <1>3
  DEF JobsInv, OneSubmitting, Stages, Answered, Stopping, Submitting, Before
<1>7. Keyed'
  <2>1. \A j \in Calls : call[j].request.key \in Keys
    BY <1>1, TabTyped
  <2>2. k = call[c].request.key
    BY DEF k
  <2>3. \A j \in Calls : status'[j] # "absent" => keys'[call'[j].request.key] = j
    BY <1>1, <1>2, <1>3, <1>4, <2>1, <2>2, NamesAssumption DEF JobsInv, Keyed
  <2>4. \A l \in Keys : keys'[l] \in Calls => call'[keys'[l]].request.key = l
    BY <1>1, <1>2, <1>3, <2>2 DEF JobsInv, Keyed
  <2>5. \A d \in Calls :
          call'[d].at \in {"opening", "reserving", "recording"} =>
            keys'[call'[d].request.key] = NoJob
    <3>1. SUFFICES ASSUME NEW d \in Calls,
                          call'[d].at \in {"opening", "reserving", "recording"}
                   PROVE  FALSE
      OBVIOUS
    <3>2. d # c /\ call[d].at \in Submitting /\ call[c].at \in Submitting
      BY <1>1, <1>2, <3>1 DEF Submitting
    <3>. QED
      BY <3>2 DEF JobsInv, OneSubmitting
  <2>. QED
    BY <2>3, <2>4, <2>5 DEF Keyed
<1>8. TabsFollowJobs'
  <2>1. \A j \in Calls : TabOf(j)' = TabOf(j)
    BY <1>2 DEF TabOf
  <2>2. \A j \in Calls : Holds(j)' <=> Holds(j)
    BY <1>1, <1>2 DEF Holds
  <2>. QED
    BY <1>1, <2>1, <2>2 DEF JobsInv, TabsFollowJobs
<1>. QED
  BY <1>5, <1>6, <1>7, <1>8 DEF JobsInv

LEMMA SubmissionRegisters ==
  ASSUME JobsInv, NEW c \in Calls, Register(c)
  PROVE  JobsInv'
<1>1. /\ TypeOK /\ call[c].at = "registering" /\ Answer(c, c)
      /\ signal' = [signal EXCEPT ![c] = "registered"]
      /\ task' = [task EXCEPT ![c] = "spawned"]
      /\ UNCHANGED <<keys, tabs, status, outcome, stopper>>
  BY DEF JobsInv, Register
<1>2. /\ \A d \in Calls : /\ call'[d].request = call[d].request
                          /\ call'[d].answer = IF d = c THEN c ELSE call[d].answer
                          /\ call'[d].at = IF d = c THEN "done" ELSE call[d].at
      /\ call' \in [Calls -> CallRow]
  BY <1>1, Replied
<1>3. \A j \in Calls : task'[j] = IF j = c THEN "spawned" ELSE task[j]
  BY <1>1 DEF TypeOK
<1>4. TypeOK'
  BY <1>1, <1>2 DEF TypeOK, CallRow
<1>5. OneSubmitting' /\ Stages' /\ Keyed' /\ Answered' /\ Stopping'
  BY <1>1, <1>2, <1>3
  DEF JobsInv, OneSubmitting, Stages, Keyed, Answered, Stopping, Submitting, Before
<1>6. TabsFollowJobs'
  <2>1. \A j \in Calls : TabOf(j)' = TabOf(j)
    BY <1>2 DEF TabOf
  <2>2. \A j \in Calls : Holds(j)' <=> Holds(j)
    BY <1>1, <1>2, <1>3 DEF Holds
  <2>. QED
    BY <1>1, <2>1, <2>2 DEF JobsInv, TabsFollowJobs
<1>. QED
  BY <1>4, <1>5, <1>6 DEF JobsInv

---------------------------------------------------------------------------
(* Steps of stoppers and tasks that change a job *)

\* A signal or a mark changes the job's record and not its task.
LEMMA StopperActs ==
  ASSUME JobsInv, NEW x \in Stoppers, SignalJob(x) \/ MarkCancelling(x)
  PROVE  JobsInv'
<1>1. /\ TypeOK /\ stopper[x].job \in Calls /\ status[stopper[x].job] # "absent"
      /\ UNCHANGED <<call, keys, tabs, task, outcome>>
  BY DEF JobsInv, Stopping, SignalJob, MarkCancelling
<1>2. /\ \A j \in Calls : status'[j] # "absent" <=> status[j] # "absent"
      /\ status' \in [Calls -> {"absent", "queued", "running", "cancelling"} \cup Outcome]
      /\ signal' \in [Calls -> {"unregistered", "registered", "sent"}]
  BY <1>1 DEF TypeOK, SignalJob, MarkCancelling
<1>3. stopper' \in [Stoppers -> StopperRow] /\ Stopping'
  <2>1. CASE SignalJob(x)
    <3>1. StopperAt(x, "marking") /\ UNCHANGED status
      BY <2>1 DEF SignalJob
    <3>2. /\ \A y \in Stoppers : /\ stopper'[y].at = IF y = x THEN "marking" ELSE stopper[y].at
                                 /\ stopper'[y].job = stopper[y].job
                                 /\ stopper'[y].tab = stopper[y].tab
          /\ stopper' \in [Stoppers -> StopperRow]
      BY <1>1, <3>1, StopperMoved
    <3>. QED
      BY <1>1, <3>1, <3>2 DEF JobsInv, Stopping
  <2>2. CASE MarkCancelling(x)
    <3>1. AfterJob(x)
      BY <2>2 DEF MarkCancelling
    <3>2. /\ \A y \in Stoppers : y # x => stopper'[y] = stopper[y]
          /\ \/ stopper'[x].at = "idle"
             \/ stopper'[x].at = "closing" /\ stopper'[x].tab \in Tabs
          /\ stopper' \in [Stoppers -> StopperRow]
      BY <1>1, <3>1, StopperAfterJob
    <3>. QED
      BY <1>2, <3>2 DEF JobsInv, Stopping
  <2>. QED
    BY <2>1, <2>2
<1>4. TypeOK'
  BY <1>1, <1>2, <1>3 DEF TypeOK, StopperRow
<1>5. OneSubmitting' /\ Stages' /\ Keyed' /\ Answered' /\ TabsFollowJobs'
  BY <1>1, <1>2
  DEF JobsInv, OneSubmitting, Stages, Keyed, Answered, TabsFollowJobs, Holds, TabOf
<1>. QED
  BY <1>3, <1>4, <1>5 DEF JobsInv

\* A task goes on and keeps its tab, or has released it before.
LEMMA TaskMoves ==
  ASSUME JobsInv, NEW j \in Calls,
         Start(j) \/ (\E r \in Outcome : Executed(j, r)) \/ Package(j) \/ Unregister(j)
  PROVE  JobsInv'
<1>1. /\ TypeOK /\ task[j] # "none"
      /\ UNCHANGED <<call, keys, tabs, stopper>>
  BY DEF JobsInv, Start, Executed, Package, Unregister
<1>2. /\ \A i \in Calls : i # j => task'[i] = task[i]
      /\ task[j] \in {"spawned", "executing", "packaging"} =>
            task'[j] \in {"executing", "packaging", "finishing"}
      /\ task[j] \notin {"spawned", "executing", "packaging"} =>
            task[j] = "finished" /\ task'[j] = "done"
      /\ \A i \in Calls : status'[i] # "absent" <=> status[i] # "absent"
  <2>1. status[j] # "absent"
    BY <1>1 DEF JobsInv, Stages
  <2>. QED
    BY <1>1, <2>1 DEF TypeOK, Start, Executed, Package, Unregister
<1>3. TypeOK'
  <2>1. /\ task' \in [Calls -> {"none", "spawned", "executing", "packaging", "finishing",
                               "finished", "done"}]
        /\ outcome' \in [Calls -> Outcome]
        /\ status' \in [Calls -> {"absent", "queued", "running", "cancelling"} \cup Outcome]
        /\ signal' \in [Calls -> {"unregistered", "registered", "sent"}]
    <3>1. CASE Start(j)
      BY <1>1, <3>1 DEF TypeOK, Start
    <3>2. CASE \E r \in Outcome : Executed(j, r)
      BY <1>1, <3>2 DEF TypeOK, Executed
    <3>3. CASE Package(j)
      BY <1>1, <3>3 DEF TypeOK, Package, Outcome
    <3>4. CASE Unregister(j)
      BY <1>1, <3>4 DEF TypeOK, Unregister
    <3>. QED
      BY <3>1, <3>2, <3>3, <3>4
  <2>. QED
    BY <1>1, <2>1 DEF TypeOK
<1>4. OneSubmitting' /\ Stages' /\ Keyed' /\ Answered' /\ Stopping'
  BY <1>1, <1>2 DEF JobsInv, OneSubmitting, Stages, Keyed, Answered, Stopping, Before
<1>5. TabsFollowJobs'
  <2>1. \A i \in Calls : TabOf(i)' = TabOf(i)
    BY <1>1 DEF TabOf
  <2>2. \A i \in Calls : Holds(i)' <=> Holds(i)
    BY <1>1, <1>2 DEF Holds
  <2>. QED
    BY <1>1, <2>1, <2>2 DEF JobsInv, TabsFollowJobs
<1>. QED
  BY <1>3, <1>4, <1>5 DEF JobsInv

\* A job that reports gives its tab back.
LEMMA TaskFinishes ==
  ASSUME JobsInv, NEW j \in Calls, Finish(j)
  PROVE  JobsInv'
<1>1. /\ TypeOK /\ task[j] = "finishing" /\ TabOf(j) \in Tabs
      /\ task' = [task EXCEPT ![j] = "finished"]
      /\ status' = [status EXCEPT ![j] = outcome[j]]
      /\ UNCHANGED <<call, keys, outcome, signal, stopper>>
  BY TabTyped DEF JobsInv, Finish
<1>2. Holds(j) /\ tabs[TabOf(j)].active = j
  BY <1>1 DEF JobsInv, TabsFollowJobs, Holds
<1>3. tabs' = [tabs EXCEPT ![TabOf(j)].active = NoJob]
  BY <1>2 DEF Finish
<1>4. /\ \A u \in Tabs : /\ tabs'[u].status = tabs[u].status
                         /\ tabs'[u].active = IF u = TabOf(j) THEN NoJob ELSE tabs[u].active
      /\ tabs' \in [Tabs -> TabRow]
  BY <1>1, <1>3, TabActive
<1>5. /\ \A i \in Calls : task'[i] = IF i = j THEN "finished" ELSE task[i]
      /\ \A i \in Calls : status'[i] # "absent" <=> status[i] # "absent"
  <2>1. status[j] # "absent" /\ outcome[j] \in Outcome
    BY <1>1 DEF JobsInv, Stages, TypeOK
  <2>. QED
    BY <1>1, <2>1 DEF TypeOK, Outcome
<1>6. TypeOK'
  BY <1>1, <1>4 DEF TypeOK, TabRow
<1>7. OneSubmitting' /\ Stages' /\ Keyed' /\ Answered' /\ Stopping'
  BY <1>1, <1>5 DEF JobsInv, OneSubmitting, Stages, Keyed, Answered, Stopping
<1>8. TabsFollowJobs'
  <2>1. \A i \in Calls : TabOf(i)' = TabOf(i)
    BY <1>1 DEF TabOf
  <2>2. \A i \in Calls : Holds(i)' <=> Holds(i) /\ i # j
    <3>1. call[j].at = "done" \/ call[j].at \notin {"recording", "registering"}
      BY <1>1 DEF JobsInv, Stages, Before
    <3>. QED
      BY <1>1, <1>5, <3>1 DEF Holds, JobsInv, Stages, Before
  <2>. QED
    BY <1>1, <1>2, <1>4, <2>1, <2>2, NamesAssumption DEF JobsInv, TabsFollowJobs
<1>. QED
  BY <1>6, <1>7, <1>8 DEF JobsInv

---------------------------------------------------------------------------
LEMMA JobsStep == JobsInv /\ [Next]_vars => JobsInv'
<1>. SUFFICES ASSUME JobsInv, [Next]_vars PROVE JobsInv'
  OBVIOUS
<1>1. CASE ClientStep
  BY <1>1, OpeningSteps, SubmissionMoves, StopperBegins DEF ClientStep
<1>2. CASE \E c \in Calls : SubmissionStep(c)
  BY <1>2, SubmissionMoves, SubmissionReserves, SubmissionRecords, SubmissionRegisters
  DEF SubmissionStep
<1>3. CASE \E x \in Stoppers : StopperStep(x)
  BY <1>3, StopperChecks, StopperActs, StopperCloses DEF StopperStep
<1>4. CASE \E j \in Calls : Start(j) \/ JobStep(j) \/ \E r \in Outcome : Executed(j, r)
  BY <1>4, TaskMoves, TaskFinishes DEF JobStep
<1>5. CASE UNCHANGED vars
  BY <1>5
  DEF JobsInv, TypeOK, OneSubmitting, Stages, Keyed, Answered, Stopping, TabsFollowJobs, Holds,
      TabOf, vars
<1>. QED
  BY <1>1, <1>2, <1>3, <1>4, <1>5 DEF Next

LEMMA JobsInvariant == Spec => []JobsInv
<1>. QED
  BY JobsInit, JobsStep, PTL DEF Spec

\* A tab is busy with a job exactly while the job is underway: at most one job
\* at a time, and every end of a job gives its tab back (jobs.rs:53-83, 210-215).
THEOREM TabsKept == Spec => []TabsFollowJobs
<1>1. JobsInv => TabsFollowJobs
  BY DEF JobsInv
<1>. QED
  BY <1>1, JobsInvariant, PTL

\* Two recorded jobs never share a key, and an answer names the job made for
\* the same request (jobs.rs:9-27).
THEOREM KeysKept == Spec => []OneJobPerKey
<1>1. JobsInv => OneJobPerKey
  BY DEF JobsInv, Keyed, Answered, OneJobPerKey
<1>. QED
  BY <1>1, JobsInvariant, PTL

\* A closed tab stays closed and gets no further job (jobs.rs:58, tabs.rs:92).
THEOREM ClosedTabsStayClosed == Spec => ClosedTabsRetire
<1>1. JobsInv /\ [Next]_vars =>
        [\A t \in Tabs : tabs[t].status = "closed" =>
           /\ tabs'[t].status = "closed"
           /\ tabs'[t].active \in {tabs[t].active, NoJob}]_vars
  <2>. SUFFICES ASSUME JobsInv, [Next]_vars, NEW t \in Tabs, tabs[t].status = "closed"
                PROVE  /\ tabs'[t].status = "closed"
                       /\ tabs'[t].active \in {tabs[t].active, NoJob}
    OBVIOUS
  <2>1. TypeOK
    BY DEF JobsInv
  <2>2. CASE UNCHANGED tabs
    BY <2>2
  <2>3. CASE \E u \in TabNames : OpenTab(u) \/ TabOpened(u)
    <3>1. PICK u \in TabNames, s \in {"absent", "opening", "lost", "open", "closed"} :
            tabs[u].status # "closed" /\ tabs' = [tabs EXCEPT ![u].status = s]
      BY <2>3 DEF OpenTab, TabOpened
    <3>2. u \in Tabs
      BY DEF Tabs
    <3>. QED
      BY <2>1, <3>1, <3>2, TabStatus
  <2>4. CASE \E c \in Calls : OpenImplicitTab(c)
    <3>1. PICK c \in Calls :
            tabs[c].status = "absent" /\ tabs' = [tabs EXCEPT ![c].status = "open"]
      BY <2>4 DEF OpenImplicitTab
    <3>2. c \in Tabs
      BY DEF Tabs
    <3>. QED
      BY <2>1, <3>1, <3>2, TabStatus
  <2>5. CASE \E c \in Calls : Reserve(c)
    <3>1. PICK c \in Calls : Reserve(c)
      BY <2>5
    <3>2. /\ TabOf(c) \in Tabs /\ tabs[TabOf(c)].status = "open"
          /\ tabs' = [tabs EXCEPT ![TabOf(c)].active = c]
      BY <2>1, <3>1, TabTyped DEF Reserve, IdleAndOpen
    <3>. QED
      BY <2>1, <3>2, TabActive
  <2>6. CASE \E x \in Stoppers : TabCloses(x)
    <3>1. PICK x \in Stoppers : TabCloses(x)
      BY <2>6
    <3>2. /\ stopper[x].tab \in Tabs
          /\ tabs' = [tabs EXCEPT ![stopper[x].tab].status = "closed"]
      BY <3>1 DEF TabCloses, JobsInv, Stopping
    <3>. QED
      BY <2>1, <3>2, TabStatus
  <2>7. CASE \E j \in Calls : Finish(j)
    <3>1. PICK j \in Calls, i \in Calls \cup {NoJob} :
            /\ tabs' = [tabs EXCEPT ![TabOf(j)].active = i]
            /\ i \in {NoJob, tabs[TabOf(j)].active}
      <4>1. PICK j \in Calls : Finish(j)
        BY <2>7
      <4>2. tabs[TabOf(j)].active \in Calls \cup {NoJob}
        BY <2>1, TabTyped DEF TypeOK
      <4>. QED
        BY <4>1, <4>2 DEF Finish
    <3>2. TabOf(j) \in Tabs
      BY <2>1, TabTyped
    <3>. QED
      BY <2>1, <3>1, <3>2, TabActive
  <2>8. CASE ClientStep
    BY <2>2, <2>3, <2>8 DEF ClientStep, Submit, CancelJob, CloseTab
  <2>9. CASE \E c \in Calls : SubmissionStep(c)
    BY <2>2, <2>4, <2>5, <2>9
    DEF SubmissionStep, Accept, OpeningFails, ReservationRefused, Record, Register
  <2>10. CASE \E x \in Stoppers : StopperStep(x)
    BY <2>2, <2>6, <2>10 DEF StopperStep, CheckJob, SignalJob, MarkCancelling
  <2>11. CASE \E j \in Calls : Start(j) \/ JobStep(j) \/ \E r \in Outcome : Executed(j, r)
    BY <2>2, <2>7, <2>11 DEF JobStep, Start, Package, Unregister, Executed
  <2>12. CASE UNCHANGED vars
    BY <2>2, <2>12 DEF vars
  <2>. QED
    BY <2>8, <2>9, <2>10, <2>11, <2>12 DEF Next
<1>. QED
  BY <1>1, JobsInvariant, PTL DEF Spec, ClosedTabsRetire

---------------------------------------------------------------------------
(* The browser executor *)

PageRow == [phase : Pages!Phase, aborted : BOOLEAN, stopping : Pages!Stopping,
            submission : Pages!Submission]
AnswerRow == [Pages!Op -> {"none", "waiting"} \cup Pages!Outcome]
HandlerRow == [Pages!Handled -> {"idle", "opening", "running"}]

\* For what is sent, a step leaves the page of i as it is or clears it, begins
\* no handler, and answers a prepare that worked only when its handler ends.
Quiet(i) ==
  /\ sent'[i] = sent[i]
  /\ page'[i].submission \in {page[i].submission, "none"}
  /\ \A op \in {"prepare", "reattach"} : handler[i][op] = "idle" => handler'[i][op] = "idle"
  /\ answer'[i]["prepare"] = "ok" => answer[i]["prepare"] = "ok" \/ handler'[i]["prepare"] = "idle"

\* The submission goes on: it ends, or the send control is clicked.
Submits(i) ==
  /\ handler'[i] = handler[i]
  /\ answer'[i]["prepare"] = answer[i]["prepare"]
  /\ \/ /\ page[i].submission \in {"pending", "clicked"}
        /\ page'[i].submission \in {"rejected", "resolved"}
        /\ sent'[i] = sent[i]
     \/ /\ page[i].submission = "pending"
        /\ page'[i].submission = "clicked"
        /\ sent'[i] = sent[i] + 1

---------------------------------------------------------------------------
(* What single updates of the bridge's variables do *)

LEMMA PageSet ==
  ASSUME Pages!TypeOK, NEW j \in Calls, NEW row \in PageRow, page' = [page EXCEPT ![j] = row]
  PROVE  /\ page' \in [Calls -> PageRow]
         /\ \A i \in Calls : page'[i] = IF i = j THEN row ELSE page[i]
BY DEF Pages!TypeOK, PageRow

LEMMA AnswerSet ==
  ASSUME Pages!TypeOK, NEW j \in Calls, NEW op \in Pages!Op,
         NEW o \in {"none", "waiting"} \cup Pages!Outcome,
         Pages!Tell(j, op, o)
  PROVE  /\ answer' \in [Calls -> AnswerRow]
         /\ \A i \in Calls, p \in Pages!Op :
              answer'[i][p] = IF i = j /\ p = op THEN o ELSE answer[i][p]
BY DEF Pages!TypeOK, AnswerRow, Pages!Tell

LEMMA HandlerSet ==
  ASSUME Pages!TypeOK, NEW j \in Calls, NEW op \in Pages!Handled,
         NEW s \in {"idle", "opening", "running"}, Pages!SetHandler(j, op, s)
  PROVE  /\ handler' \in [Calls -> HandlerRow]
         /\ \A i \in Calls, p \in Pages!Handled :
              handler'[i][p] = IF i = j /\ p = op THEN s ELSE handler[i][p]
BY DEF Pages!TypeOK, HandlerRow, Pages!SetHandler

LEMMA Replies ==
  ASSUME Pages!TypeOK, NEW j \in Calls, NEW op \in Pages!Op, NEW o \in Pages!Outcome,
         Pages!Reply(j, op, o)
  PROVE  /\ answer' \in [Calls -> AnswerRow]
         /\ \A i \in Calls, p \in Pages!Op :
              answer'[i][p] = answer[i][p] \/ (i = j /\ p = op /\ answer'[i][p] = o)
<1>1. CASE answer[j][op] = "waiting"
  <2>1. Pages!Tell(j, op, o) /\ o \in {"none", "waiting"} \cup Pages!Outcome
    BY <1>1 DEF Pages!Reply, Pages!Tell
  <2>2. /\ answer' \in [Calls -> AnswerRow]
        /\ \A i \in Calls, p \in Pages!Op :
             answer'[i][p] = IF i = j /\ p = op THEN o ELSE answer[i][p]
    BY <2>1, AnswerSet
  <2>. QED
    BY <2>2
<1>2. CASE answer[j][op] # "waiting"
  BY <1>2 DEF Pages!Reply, Pages!TypeOK, AnswerRow
<1>. QED
  BY <1>1, <1>2

LEMMA StopsReplied ==
  ASSUME Pages!TypeOK, NEW j \in Calls, NEW o \in Pages!Outcome, Pages!ReplyStops(j, o)
  PROVE  /\ answer' \in [Calls -> AnswerRow]
         /\ \A i \in Calls : answer'[i]["prepare"] = answer[i]["prepare"]
<1>. DEFINE row == [op \in Pages!Op |->
                     IF op \in Pages!Stops /\ answer[j][op] = "waiting" THEN o ELSE answer[j][op]]
<1>1. answer \in [Calls -> AnswerRow]
  BY DEF Pages!TypeOK, AnswerRow
<1>2. row \in AnswerRow
  BY <1>1 DEF AnswerRow
<1>3. row["prepare"] = answer[j]["prepare"]
  BY DEF Pages!Op, Pages!Stops, Pages!Handled
<1>4. answer' = [answer EXCEPT ![j] = row]
  BY DEF Pages!ReplyStops
<1>. HIDE DEF row
<1>. QED
  BY <1>1, <1>2, <1>3, <1>4

LEMMA Ops ==
  /\ "prepare" \in Pages!Op /\ "submit" \in Pages!Op /\ "capture" \in Pages!Op
  /\ "stop" \in Pages!Op /\ "close" \in Pages!Op /\ "reattach" \in Pages!Op
  /\ "prepare" \in Pages!Handled /\ "reattach" \in Pages!Handled /\ "close" \in Pages!Handled
  /\ Pages!Failure \subseteq Pages!Outcome
  /\ {"ok", "complete", "incomplete"} \subseteq Pages!Outcome
BY DEF Pages!Op, Pages!Handled, Pages!Stops, Pages!Outcome

---------------------------------------------------------------------------
(* Steps of the bridge and the provider *)

BridgeEffect ==
  /\ Pages!TypeOK'
  /\ \A i \in Calls : Quiet(i) \/ Submits(i)

\* A step that leaves what is sent, and touches the page of j at most to clear
\* its submission.
LEMMA QuietStep ==
  ASSUME Pages!TypeOK, NEW j \in Calls,
         page' \in [Calls -> PageRow], handler' \in [Calls -> HandlerRow],
         answer' \in [Calls -> AnswerRow],
         conversation' \in [Calls -> {"none", "generating", "over"}],
         sent' = sent,
         \A i \in Calls : page'[i].submission \in {page[i].submission, "none"},
         \A i \in Calls, op \in {"prepare", "reattach"} :
           handler[i][op] = "idle" => handler'[i][op] = "idle",
         \A i \in Calls :
           answer'[i]["prepare"] = "ok" =>
             answer[i]["prepare"] = "ok" \/ handler'[i]["prepare"] = "idle"
  PROVE  Pages!TypeOK' /\ \A i \in Calls : Quiet(i)
<1>1. Pages!TypeOK'
  BY DEF Pages!TypeOK, PageRow, HandlerRow, AnswerRow
<1>2. \A i \in Calls : Quiet(i)
  BY DEF Quiet
<1>. QED
  BY <1>1, <1>2

LEMMA Typed ==
  ASSUME Pages!TypeOK
  PROVE  /\ page \in [Calls -> PageRow] /\ handler \in [Calls -> HandlerRow]
         /\ answer \in [Calls -> AnswerRow]
         /\ conversation \in [Calls -> {"none", "generating", "over"}]
         /\ sent \in [Calls -> Nat]
BY DEF Pages!TypeOK, PageRow, HandlerRow, AnswerRow

LEMMA PageOpening ==
  ASSUME Pages!TypeOK, NEW j \in Calls, NEW op \in {"prepare", "reattach"},
         Pages!PageOpens(j, op)
  PROVE  BridgeEffect
<1>. DEFINE row == [Pages!NoPage EXCEPT !.phase = "preparing"]
<1>1. row \in PageRow /\ row.submission = "none"
  BY DEF PageRow, Pages!NoPage, Pages!Phase, Pages!Stopping, Pages!Submission
<1>2. page' = [page EXCEPT ![j] = row] /\ Pages!SetHandler(j, op, "running")
  BY DEF Pages!PageOpens
<1>3. UNCHANGED <<answer, sent, conversation>> /\ handler[j][op] = "opening"
  BY DEF Pages!PageOpens
<1>. HIDE DEF row
<1>4. /\ page' \in [Calls -> PageRow]
      /\ \A i \in Calls : page'[i] = IF i = j THEN row ELSE page[i]
  BY <1>1, <1>2, PageSet
<1>5. /\ handler' \in [Calls -> HandlerRow]
      /\ \A i \in Calls, p \in Pages!Handled :
           handler'[i][p] = IF i = j /\ p = op THEN "running" ELSE handler[i][p]
  BY <1>2, HandlerSet, Ops
<1>. QED
  BY <1>1, <1>3, <1>4, <1>5, Typed, QuietStep, Ops DEF BridgeEffect

LEMMA HandlersEnding ==
  ASSUME Pages!TypeOK, NEW j \in Calls,
         \/ \E op \in {"prepare", "reattach"} : Pages!OpeningFails(j, op)
         \/ Pages!Prepared(j) \/ Pages!ClosingFails(j)
  PROVE  BridgeEffect
<1>1. PICK op \in Pages!Handled, o \in Pages!Outcome :
        Pages!SetHandler(j, op, "idle") /\ Pages!Reply(j, op, o)
  <2>1. CASE \E op \in {"prepare", "reattach"} : Pages!OpeningFails(j, op)
    BY <2>1, Ops, FailuresAssumption DEF Pages!OpeningFails
  <2>2. CASE Pages!Prepared(j)
    BY <2>2, Ops DEF Pages!Prepared
  <2>3. CASE Pages!ClosingFails(j)
    BY <2>3, Ops DEF Pages!ClosingFails, Pages!Outcome, Pages!Failure
  <2>. QED
    BY <2>1, <2>2, <2>3
<1>2. UNCHANGED <<sent, conversation>>
  BY DEF Pages!OpeningFails, Pages!Prepared, Pages!ClosingFails
<1>3. /\ page' \in [Calls -> PageRow]
      /\ \A i \in Calls : page'[i].submission = page[i].submission
  <2>1. CASE UNCHANGED page
    BY <2>1, Typed
  <2>2. CASE page' = [page EXCEPT ![j].phase = "prepared"]
    <3>. DEFINE row == [page[j] EXCEPT !.phase = "prepared"]
    <3>1. row \in PageRow /\ row.submission = page[j].submission
      BY Typed DEF PageRow, Pages!Phase
    <3>2. page' = [page EXCEPT ![j] = row]
      BY <2>2
    <3>. HIDE DEF row
    <3>. QED
      BY <3>1, <3>2, PageSet
  <2>. QED
    BY <2>1, <2>2 DEF Pages!OpeningFails, Pages!Prepared, Pages!ClosingFails
<1>4. op \in Pages!Op
  BY DEF Pages!Op
<1>5. /\ handler' \in [Calls -> HandlerRow]
      /\ \A i \in Calls, p \in Pages!Handled :
           handler'[i][p] = IF i = j /\ p = op THEN "idle" ELSE handler[i][p]
  BY <1>1, HandlerSet
<1>6. /\ answer' \in [Calls -> AnswerRow]
      /\ \A i \in Calls, p \in Pages!Op :
           answer'[i][p] = answer[i][p] \/ (i = j /\ p = op /\ answer'[i][p] = o)
  BY <1>1, <1>4, Replies
<1>. QED
  BY <1>2, <1>3, <1>5, <1>6, Typed, QuietStep, Ops DEF BridgeEffect

LEMMA SubmissionEnding ==
  ASSUME Pages!TypeOK, NEW j \in Calls, NEW o \in Pages!Outcome,
         NEW row \in PageRow, row.submission \in {"rejected", "resolved"},
         page[j].submission \in {"pending", "clicked"},
         page' = [page EXCEPT ![j] = row], Pages!Reply(j, "submit", o),
         UNCHANGED <<handler, sent, conversation>>
  PROVE  BridgeEffect
<1>1. /\ page' \in [Calls -> PageRow]
      /\ \A i \in Calls : page'[i] = IF i = j THEN row ELSE page[i]
  BY PageSet
<1>2. /\ answer' \in [Calls -> AnswerRow]
      /\ \A i \in Calls, p \in Pages!Op :
           answer'[i][p] = answer[i][p] \/ (i = j /\ p = "submit" /\ answer'[i][p] = o)
  BY Replies, Ops
<1>3. Pages!TypeOK'
  BY <1>1, <1>2 DEF Pages!TypeOK, PageRow, AnswerRow
<1>4. ASSUME NEW i \in Calls PROVE Quiet(i) \/ Submits(i)
  <2>1. answer'[i]["prepare"] = answer[i]["prepare"]
    BY <1>2, Ops
  <2>. QED
    BY <1>1, <2>1 DEF Quiet, Submits
<1>. QED
  BY <1>3, <1>4 DEF BridgeEffect

LEMMA Sending ==
  ASSUME Pages!TypeOK, NEW j \in Calls,
         Pages!SendClicked(j) \/ Pages!SubmissionAccepted(j) \/ Pages!SubmissionFails(j)
  PROVE  BridgeEffect
<1>1. CASE Pages!SendClicked(j)
  <2>. DEFINE row == [page[j] EXCEPT !.submission = "clicked"]
  <2>1. row \in PageRow /\ row.submission = "clicked"
    BY Typed DEF PageRow, Pages!Submission
  <2>2. page' = [page EXCEPT ![j] = row]
    BY <1>1 DEF Pages!SendClicked
  <2>. HIDE DEF row
  <2>3. /\ page' \in [Calls -> PageRow]
        /\ \A i \in Calls : page'[i] = IF i = j THEN row ELSE page[i]
    BY <2>1, <2>2, PageSet
  <2>4. /\ sent' \in [Calls -> Nat]
        /\ \A i \in Calls : sent'[i] = IF i = j THEN sent[i] + 1 ELSE sent[i]
    BY <1>1, Typed DEF Pages!SendClicked
  <2>5. /\ page[j].submission = "pending" /\ UNCHANGED <<handler, answer>>
        /\ conversation' \in [Calls -> {"none", "generating", "over"}]
    BY <1>1, Typed DEF Pages!SendClicked
  <2>6. Pages!TypeOK'
    BY <2>3, <2>4, <2>5 DEF Pages!TypeOK, PageRow
  <2>. QED
    BY <2>1, <2>3, <2>4, <2>5, <2>6 DEF BridgeEffect, Quiet, Submits
<1>2. CASE Pages!SubmissionAccepted(j)
  <2>. DEFINE row == [page[j] EXCEPT !.phase = "accepted", !.submission = "resolved"]
  <2>1. row \in PageRow /\ row.submission \in {"rejected", "resolved"}
    BY Typed DEF PageRow, Pages!Submission, Pages!Phase
  <2>2. page' = [page EXCEPT ![j] = row]
    BY <1>2 DEF Pages!SubmissionAccepted
  <2>3. /\ page[j].submission \in {"pending", "clicked"} /\ Pages!Reply(j, "submit", "ok")
        /\ UNCHANGED <<handler, sent, conversation>>
    BY <1>2 DEF Pages!SubmissionAccepted
  <2>4. "ok" \in Pages!Outcome
    BY Ops
  <2>. HIDE DEF row
  <2>. QED
    BY <2>1, <2>2, <2>3, <2>4, SubmissionEnding
<1>3. CASE Pages!SubmissionFails(j)
  <2>. DEFINE row == [page[j] EXCEPT !.submission = "rejected"]
  <2>1. row \in PageRow /\ row.submission \in {"rejected", "resolved"}
    BY Typed DEF PageRow, Pages!Submission
  <2>2. page' = [page EXCEPT ![j] = row]
    BY <1>3 DEF Pages!SubmissionFails
  <2>3. PICK f \in Failures : Pages!Reply(j, "submit", f)
    BY <1>3 DEF Pages!SubmissionFails
  <2>4. f \in Pages!Outcome
    BY Ops, FailuresAssumption
  <2>5. page[j].submission \in {"pending", "clicked"} /\ UNCHANGED <<handler, sent, conversation>>
    BY <1>3 DEF Pages!SubmissionFails, Pages!Submitting
  <2>. HIDE DEF row
  <2>. QED
    BY <2>1, <2>2, <2>3, <2>4, <2>5, SubmissionEnding
<1>. QED
  BY <1>1, <1>2, <1>3

\* Everything else the bridge does: the submission stays as it is.
LEMMA StoppingAndCapture ==
  ASSUME Pages!TypeOK, NEW j \in Calls,
         Pages!CaptureEnds(j) \/ Pages!StopConfirmed(j) \/ Pages!StopFails(j)
  PROVE  BridgeEffect
<1>1. PICK row \in PageRow :
        row.submission = page[j].submission /\ page' = [page EXCEPT ![j] = row]
  <2>1. CASE Pages!CaptureEnds(j)
    <3>1. [page[j] EXCEPT !.phase = "captured", !.aborted = FALSE] \in PageRow
      BY Typed DEF PageRow, Pages!Phase
    <3>2. [page[j] EXCEPT !.phase = "captured", !.aborted = FALSE].submission = page[j].submission
      BY Typed DEF PageRow
    <3>. QED
      BY <2>1, <3>1, <3>2 DEF Pages!CaptureEnds
  <2>2. ASSUME NEW s \in {"done", "none"}, page' = [page EXCEPT ![j].stopping = s]
        PROVE  \E row \in PageRow :
                 row.submission = page[j].submission /\ page' = [page EXCEPT ![j] = row]
    <3>1. [page[j] EXCEPT !.stopping = s] \in PageRow
      BY Typed DEF PageRow, Pages!Stopping
    <3>2. [page[j] EXCEPT !.stopping = s].submission = page[j].submission
      BY Typed DEF PageRow
    <3>. QED
      BY <2>2, <3>1, <3>2
  <2>3. CASE Pages!StopConfirmed(j)
    BY <2>2, <2>3 DEF Pages!StopConfirmed
  <2>4. CASE Pages!StopFails(j)
    BY <2>2, <2>4 DEF Pages!StopFails
  <2>. QED
    BY <2>1, <2>3, <2>4
<1>2. /\ page' \in [Calls -> PageRow]
      /\ \A i \in Calls : page'[i] = IF i = j THEN row ELSE page[i]
  BY <1>1, PageSet
<1>3. /\ answer' \in [Calls -> AnswerRow]
      /\ \A i \in Calls : answer'[i]["prepare"] = answer[i]["prepare"]
  <2>1. CASE Pages!CaptureEnds(j)
    <3>1. PICK v \in {"complete", "incomplete"} \cup (Failures \cap {"expired", "limited"}) :
            Pages!Reply(j, "capture", v)
      BY <2>1 DEF Pages!CaptureEnds
    <3>2. v \in Pages!Outcome
      BY Ops, FailuresAssumption
    <3>3. /\ answer' \in [Calls -> AnswerRow]
          /\ \A i \in Calls, p \in Pages!Op :
               answer'[i][p] = answer[i][p] \/ (i = j /\ p = "capture" /\ answer'[i][p] = v)
      BY <3>1, <3>2, Replies, Ops
    <3>. QED
      BY <3>3, Ops
  <2>2. CASE Pages!StopConfirmed(j)
    BY <2>2, StopsReplied, Ops DEF Pages!StopConfirmed
  <2>3. CASE Pages!StopFails(j)
    BY <2>3, StopsReplied, Ops DEF Pages!StopFails, Pages!Failure
  <2>. QED
    BY <2>1, <2>2, <2>3
<1>4. /\ UNCHANGED <<handler, sent>>
      /\ conversation' \in [Calls -> {"none", "generating", "over"}]
  BY Typed DEF Pages!CaptureEnds, Pages!StopConfirmed, Pages!StopFails
<1>. QED
  BY <1>1, <1>2, <1>3, <1>4, Typed, QuietStep DEF BridgeEffect

LEMMA PageClosing ==
  ASSUME Pages!TypeOK, NEW j \in Calls, Pages!PageCloses(j)
  PROVE  BridgeEffect
<1>. DEFINE row == [op \in Pages!Op |->
                     IF answer[j][op] # "waiting" THEN answer[j][op]
                     ELSE IF op = "close" THEN "ok"
                     ELSE IF op \in Pages!Stops THEN "failed" ELSE "waiting"]
<1>1. row \in AnswerRow
  BY Typed, Ops DEF AnswerRow, Pages!Failure
<1>2. row["prepare"] = answer[j]["prepare"]
  BY Ops DEF Pages!Stops
<1>3. answer' = [answer EXCEPT ![j] = row]
  BY DEF Pages!PageCloses
<1>. HIDE DEF row
<1>4. answer' \in [Calls -> AnswerRow] /\ \A i \in Calls : answer'[i]["prepare"] = answer[i]["prepare"]
  BY <1>1, <1>2, <1>3, Typed
<1>5. Pages!NoPage \in PageRow /\ Pages!NoPage.submission = "none"
  BY DEF PageRow, Pages!NoPage, Pages!Phase, Pages!Stopping, Pages!Submission
<1>6. /\ page' \in [Calls -> PageRow]
      /\ \A i \in Calls : page'[i] = IF i = j THEN Pages!NoPage ELSE page[i]
  BY <1>5, PageSet DEF Pages!PageCloses
<1>7. /\ handler' \in [Calls -> HandlerRow]
      /\ \A i \in Calls, p \in Pages!Handled :
           handler'[i][p] = IF i = j /\ p = "close" THEN "idle" ELSE handler[i][p]
  BY HandlerSet, Ops DEF Pages!PageCloses
<1>8. UNCHANGED <<sent, conversation>>
  BY DEF Pages!PageCloses
<1>. QED
  BY <1>4, <1>5, <1>6, <1>7, <1>8, Typed, QuietStep, Ops DEF BridgeEffect

\* Nothing of the bridge reattaches a page here.
LEMMA BridgeSteps ==
  ASSUME Pages!TypeOK, NEW j \in Calls, handler[j]["reattach"] = "idle",
         Pages!HandlerStep(j) \/ Pages!ProviderStep(j)
  PROVE  BridgeEffect
<1>1. CASE \E op \in {"prepare", "reattach"} : Pages!PageOpens(j, op)
  BY <1>1, PageOpening
<1>2. CASE \/ \E op \in {"prepare", "reattach"} : Pages!OpeningFails(j, op)
           \/ Pages!Prepared(j) \/ Pages!ClosingFails(j)
  BY <1>2, HandlersEnding
<1>3. CASE Pages!SendClicked(j) \/ Pages!SubmissionAccepted(j) \/ Pages!SubmissionFails(j)
  BY <1>3, Sending
<1>4. CASE Pages!CaptureEnds(j) \/ Pages!StopConfirmed(j) \/ Pages!StopFails(j)
  BY <1>4, StoppingAndCapture
<1>5. CASE Pages!PageCloses(j)
  BY <1>5, PageClosing
<1>6. CASE Pages!GenerationEnds(j)
  <2>1. /\ UNCHANGED <<page, handler, answer, sent>>
        /\ conversation' \in [Calls -> {"none", "generating", "over"}]
    BY <1>6, Typed DEF Pages!GenerationEnds
  <2>. QED
    BY <2>1, Typed, QuietStep DEF BridgeEffect
<1>. QED
  BY <1>1, <1>2, <1>3, <1>4, <1>5, <1>6
     DEF Pages!HandlerStep, Pages!ProviderStep, Pages!Reattached

---------------------------------------------------------------------------
(* Steps of executors *)

\* A call of prepare, and of submit, as far as what is sent is concerned.
Opens(i) ==
  /\ sent'[i] = sent[i]
  /\ page'[i].submission = page[i].submission
  /\ handler[i]["reattach"] = "idle" => handler'[i]["reattach"] = "idle"
  /\ answer'[i]["prepare"] # "ok"

Sends(i) ==
  /\ sent'[i] = sent[i]
  /\ handler'[i] = handler[i]
  /\ answer'[i]["prepare"] = answer[i]["prepare"]
  /\ page'[i].submission \in {page[i].submission, "pending"}

LEMMA CallTold ==
  ASSUME NEW j \in Calls, NEW op \in {"prepare", "submit", "capture", "stop", "close"},
         Pages!Call(j, op)
  PROVE  /\ \E o \in {"waiting", "failed", "ok"} :
              Pages!Tell(j, op, o) /\ (op = "prepare" => o # "ok")
         /\ UNCHANGED <<sent, conversation>>
<1>1. CASE Pages!Unreachable(j, op)
  BY <1>1 DEF Pages!Unreachable
<1>2. CASE op = "prepare" /\ Pages!OpenPage(j, op)
  BY <1>2 DEF Pages!OpenPage
<1>3. CASE op = "submit" /\ Pages!Submit(j)
  BY <1>3 DEF Pages!Submit
<1>4. CASE op = "capture" /\ Pages!Capture(j)
  BY <1>4 DEF Pages!Capture
<1>5. CASE op = "stop" /\ Pages!Stop(j, op)
  <2>1. CASE ~Pages!Owned(j)
    BY <1>5, <2>1 DEF Pages!Stop
  <2>2. CASE Pages!Owned(j) /\ page[j].stopping # "none"
    BY <1>5, <2>2 DEF Pages!Stop
  <2>3. CASE Pages!Owned(j) /\ page[j].stopping = "none"
    BY <1>5, <2>3 DEF Pages!Stop
  <2>. QED
    BY <2>1, <2>2, <2>3
<1>6. CASE op = "close" /\ Pages!Close(j)
  BY <1>6 DEF Pages!Close
<1>. QED
  BY <1>1, <1>2, <1>3, <1>4, <1>5, <1>6 DEF Pages!Call, Pages!Stops

LEMMA CallPage ==
  ASSUME Pages!TypeOK, NEW j \in Calls,
         NEW op \in {"prepare", "submit", "capture", "stop", "close"}, Pages!Call(j, op)
  PROVE  /\ page' \in [Calls -> PageRow]
         /\ \A i \in Calls : \/ page'[i].submission = page[i].submission
                             \/ i = j /\ op = "submit" /\ page'[i].submission = "pending"
<1>1. ASSUME NEW row \in PageRow, page' = [page EXCEPT ![j] = row],
             \/ row.submission = page[j].submission
             \/ op = "submit" /\ row.submission = "pending"
      PROVE  /\ page' \in [Calls -> PageRow]
             /\ \A i \in Calls : \/ page'[i].submission = page[i].submission
                                 \/ i = j /\ op = "submit" /\ page'[i].submission = "pending"
  <2>1. /\ page' \in [Calls -> PageRow]
        /\ \A i \in Calls : page'[i] = IF i = j THEN row ELSE page[i]
    BY <1>1, PageSet
  <2>. QED
    BY <1>1, <2>1
<1>2. CASE UNCHANGED page
  BY <1>2, Typed
<1>3. CASE op = "submit" /\ page' = [page EXCEPT ![j].phase = "submitting", ![j].submission = "pending"]
  <2>. DEFINE row == [page[j] EXCEPT !.phase = "submitting", !.submission = "pending"]
  <2>1. row \in PageRow /\ row.submission = "pending"
    BY Typed DEF PageRow, Pages!Phase, Pages!Submission
  <2>2. page' = [page EXCEPT ![j] = row]
    BY <1>3
  <2>. HIDE DEF row
  <2>. QED
    BY <1>1, <1>3, <2>1, <2>2
<1>4. CASE page' = [page EXCEPT ![j].phase = "capturing"]
  <2>. DEFINE row == [page[j] EXCEPT !.phase = "capturing"]
  <2>1. row \in PageRow /\ row.submission = page[j].submission
    BY Typed DEF PageRow, Pages!Phase
  <2>2. page' = [page EXCEPT ![j] = row]
    BY <1>4
  <2>. HIDE DEF row
  <2>. QED
    BY <1>1, <2>1, <2>2
<1>5. ASSUME NEW w \in BOOLEAN, NEW s \in Pages!Stopping,
             page' = [page EXCEPT ![j].aborted = w, ![j].stopping = s]
      PROVE  /\ page' \in [Calls -> PageRow]
             /\ \A i \in Calls : \/ page'[i].submission = page[i].submission
                                 \/ i = j /\ op = "submit" /\ page'[i].submission = "pending"
  <2>. DEFINE row == [page[j] EXCEPT !.aborted = w, !.stopping = s]
  <2>1. row \in PageRow /\ row.submission = page[j].submission
    BY Typed DEF PageRow, Pages!Stopping
  <2>2. page' = [page EXCEPT ![j] = row]
    BY <1>5
  <2>. HIDE DEF row
  <2>. QED
    BY <1>1, <2>1, <2>2
<1>6. CASE op = "stop" /\ Pages!Stop(j, op)
  <2>1. CASE UNCHANGED page
    BY <1>2, <2>1
  <2>2. CASE ~UNCHANGED page
    <3>. DEFINE w == page[j].aborted \/ Pages!LooksAgain(j)
    <3>1. page' = [page EXCEPT ![j].aborted = w, ![j].stopping =
                    IF page[j].submission = "none" THEN "done" ELSE "running"]
      BY <1>6, <2>2 DEF Pages!Stop
    <3>2. (IF page[j].submission = "none" THEN "done" ELSE "running") \in Pages!Stopping
      BY DEF Pages!Stopping
    <3>3. w \in BOOLEAN
      OBVIOUS
    <3>. HIDE DEF w
    <3>. QED
      BY <1>5, <3>1, <3>2, <3>3
  <2>. QED
    BY <2>1, <2>2
<1>7. CASE op = "submit" /\ Pages!Submit(j)
  BY <1>2, <1>3, <1>7 DEF Pages!Submit
<1>8. CASE op = "capture" /\ Pages!Capture(j)
  BY <1>2, <1>4, <1>8 DEF Pages!Capture
<1>9. CASE \/ Pages!Unreachable(j, op)
           \/ op = "prepare" /\ Pages!OpenPage(j, op)
           \/ op = "close" /\ Pages!Close(j)
  BY <1>2, <1>9 DEF Pages!Unreachable, Pages!OpenPage, Pages!Close
<1>. QED
  BY <1>6, <1>7, <1>8, <1>9 DEF Pages!Call, Pages!Stops

LEMMA CallHandler ==
  ASSUME Pages!TypeOK, NEW j \in Calls,
         NEW op \in {"prepare", "submit", "capture", "stop", "close"}, Pages!Call(j, op)
  PROVE  /\ handler' \in [Calls -> HandlerRow]
         /\ op = "submit" => handler' = handler
         /\ \A i \in Calls : handler'[i]["reattach"] = handler[i]["reattach"]
         /\ \A i \in Calls : \/ handler'[i]["prepare"] = handler[i]["prepare"]
                             \/ i = j /\ op = "prepare"
<1>1. CASE UNCHANGED handler
  BY <1>1, Typed
<1>2. ASSUME op \in {"prepare", "close"}, NEW s \in {"opening", "running"},
             Pages!SetHandler(j, op, s)
      PROVE  /\ handler' \in [Calls -> HandlerRow]
             /\ \A i \in Calls : handler'[i]["reattach"] = handler[i]["reattach"]
             /\ \A i \in Calls : \/ handler'[i]["prepare"] = handler[i]["prepare"]
                                 \/ i = j /\ op = "prepare"
  <2>1. op \in Pages!Handled
    BY <1>2, Ops
  <2>2. /\ handler' \in [Calls -> HandlerRow]
        /\ \A i \in Calls, p \in Pages!Handled :
             handler'[i][p] = IF i = j /\ p = op THEN s ELSE handler[i][p]
    BY <1>2, <2>1, HandlerSet
  <2>. QED
    BY <1>2, <2>2, Ops
<1>3. \/ UNCHANGED handler
      \/ op = "prepare" /\ Pages!SetHandler(j, op, "opening")
      \/ op = "close" /\ Pages!SetHandler(j, op, "running")
  BY DEF Pages!Call, Pages!Stops, Pages!Unreachable, Pages!OpenPage, Pages!Submit,
         Pages!Capture, Pages!Stop, Pages!Close
<1>. QED
  BY <1>1, <1>2, <1>3

LEMMA Calling ==
  ASSUME Pages!TypeOK, NEW j \in Calls,
         NEW op \in {"prepare", "submit", "capture", "stop", "close"}, Pages!Call(j, op)
  PROVE  /\ Pages!TypeOK'
         /\ \A i \in Calls : \/ Quiet(i)
                             \/ i = j /\ op = "prepare" /\ Opens(i)
                             \/ i = j /\ op = "submit" /\ Sends(i)
<1>1. PICK o \in {"waiting", "failed", "ok"} :
        Pages!Tell(j, op, o) /\ (op = "prepare" => o # "ok")
  BY CallTold
<1>2. UNCHANGED <<sent, conversation>>
  BY CallTold
<1>3. op \in Pages!Op
  BY Ops
<1>4. o \in {"none", "waiting"} \cup Pages!Outcome
  BY Ops DEF Pages!Failure
<1>5. /\ answer' \in [Calls -> AnswerRow]
      /\ \A i \in Calls, p \in Pages!Op :
           answer'[i][p] = IF i = j /\ p = op THEN o ELSE answer[i][p]
  BY <1>1, <1>3, <1>4, AnswerSet
<1>6. Pages!TypeOK'
  BY <1>2, <1>5, CallPage, CallHandler DEF Pages!TypeOK, PageRow, AnswerRow, HandlerRow
<1>7. ASSUME NEW i \in Calls
      PROVE  \/ Quiet(i)
             \/ i = j /\ op = "prepare" /\ Opens(i)
             \/ i = j /\ op = "submit" /\ Sends(i)
  <2>1. answer'[i]["prepare"] = IF i = j /\ op = "prepare" THEN o ELSE answer[i]["prepare"]
    BY <1>5, Ops
  <2>2. CASE i = j /\ op = "prepare"
    BY <1>1, <1>2, <2>1, <2>2, CallPage, CallHandler DEF Opens
  <2>3. CASE i = j /\ op = "submit"
    BY <1>2, <2>1, <2>3, CallPage, CallHandler DEF Sends
  <2>4. CASE ~(i = j /\ op \in {"prepare", "submit"})
    BY <1>2, <2>1, <2>4, CallPage, CallHandler DEF Quiet
  <2>. QED
    BY <2>2, <2>3, <2>4
<1>. QED
  BY <1>6, <1>7

LEMMA Taking ==
  ASSUME Pages!TypeOK, NEW j \in Calls, Take(j)
  PROVE  Pages!TypeOK' /\ \A i \in Calls : Quiet(i)
<1>. DEFINE row == [op \in Pages!Op |-> "none"]
<1>1. row \in AnswerRow /\ row["prepare"] = "none"
  BY Ops DEF AnswerRow
<1>2. answer' = [answer EXCEPT ![j] = row]
  BY DEF Take
<1>. HIDE DEF row
<1>3. answer' \in [Calls -> AnswerRow]
  BY <1>1, <1>2, Typed
<1>4. \A i \in Calls : answer'[i] = IF i = j THEN row ELSE answer[i]
  BY <1>2, Typed
<1>. QED
  BY <1>1, <1>3, <1>4, Typed, QuietStep DEF Take

LEMMA TimingOut ==
  ASSUME Pages!TypeOK, NEW j \in Calls,
         NEW op \in {"prepare", "submit", "capture", "stop", "close"}, Pages!TimeOut(j, op)
  PROVE  Pages!TypeOK' /\ \A i \in Calls : Quiet(i)
<1>1. Pages!Tell(j, op, "failed") /\ op \in Pages!Op
  BY Ops DEF Pages!TimeOut
<1>2. "failed" \in {"none", "waiting"} \cup Pages!Outcome
  BY Ops DEF Pages!Failure
<1>3. /\ answer' \in [Calls -> AnswerRow]
      /\ \A i \in Calls, p \in Pages!Op :
           answer'[i][p] = IF i = j /\ p = op THEN "failed" ELSE answer[i][p]
  BY <1>1, <1>2, AnswerSet
<1>4. \A i \in Calls : answer'[i]["prepare"] = "ok" => answer[i]["prepare"] = "ok"
  BY <1>3, Ops
<1>. QED
  BY <1>3, <1>4, Typed, QuietStep DEF Pages!TimeOut

---------------------------------------------------------------------------
(* One turn per job *)

Fresh(i) == sent[i] = 0 /\ page[i].submission = "none"

\* The executor has not called submit yet.
Early(i) == task[i] \in {"none", "spawned"} \/ executor[i] \in {"starting", "preparing", "unsent"}

Turn(i) ==
  /\ sent[i] <= 1
  /\ page[i].submission = "pending" => sent[i] = 0
  /\ handler[i]["reattach"] = "idle"
  /\ handler[i]["prepare"] # "idle" => Fresh(i)
  /\ Early(i) => Fresh(i)
  /\ executor[i] = "preparing" /\ answer[i]["prepare"] = "ok" => handler[i]["prepare"] = "idle"
  /\ executor[i] = "unsent" => handler[i]["prepare"] = "idle"
  /\ executor[i] # "none" => task[i] = "executing"

\* The positions of execute.
Executor == {"none", "starting", "discard", "unsent", "accepted", "captured"} \cup DOMAIN Waiting

TurnInv == Pages!TypeOK /\ executor \in [Calls -> Executor] /\ \A i \in Calls : Turn(i)

\* What may happen to the executor of i while nothing is sent.
Settles(i) ==
  /\ Early(i)' => Early(i)
  /\ executor'[i] = "preparing" => executor[i] = "preparing"
  /\ executor'[i] = "unsent" =>
       \/ executor[i] = "unsent"
       \/ executor[i] = "preparing" /\ answer[i]["prepare"] = "ok"
  /\ executor'[i] # "none" => task'[i] = "executing"

Kept(i) == executor'[i] = executor[i] /\ task'[i] = task[i]

TurnStep(i) ==
  \/ Quiet(i) /\ Settles(i)
  \/ Submits(i) /\ Kept(i)
  \/ Opens(i) /\ task'[i] = task[i] /\ executor[i] = "starting" /\ executor'[i] = "preparing"
  \/ Sends(i) /\ task'[i] = task[i] /\ executor[i] = "unsent" /\ executor'[i] = "submitting"

LEMMA TurnKept ==
  ASSUME Pages!TypeOK, Pages!TypeOK', NEW i \in Calls, Turn(i), TurnStep(i)
  PROVE  Turn(i)'
<1>1. sent[i] \in Nat
  BY Typed
<1>2. CASE Quiet(i) /\ Settles(i)
  BY <1>1, <1>2 DEF Quiet, Settles, Turn, Fresh
<1>3. CASE Submits(i) /\ Kept(i)
  BY <1>1, <1>3 DEF Submits, Kept, Turn, Fresh, Early
<1>4. CASE Opens(i) /\ task'[i] = task[i] /\ executor[i] = "starting" /\ executor'[i] = "preparing"
  BY <1>1, <1>4 DEF Opens, Turn, Fresh, Early
<1>5. CASE Sends(i) /\ task'[i] = task[i] /\ executor[i] = "unsent" /\ executor'[i] = "submitting"
  BY <1>1, <1>5 DEF Sends, Turn, Fresh, Early
<1>. QED
  BY <1>2, <1>3, <1>4, <1>5 DEF TurnStep

LEMMA ExecutorStates ==
  /\ Executor = {"none", "starting", "discard", "unsent", "accepted", "captured", "preparing",
                 "discarding", "submitting", "capturing", "stopping", "settling", "closing"}
  /\ DOMAIN Waiting = {"preparing", "discarding", "submitting", "capturing", "stopping",
                       "settling", "closing"}
  /\ Waiting["preparing"] = "prepare" /\ Waiting["discarding"] = "close"
  /\ Waiting["submitting"] = "submit" /\ Waiting["capturing"] = "capture"
  /\ Waiting["stopping"] = "stop" /\ Waiting["settling"] = "capture"
  /\ Waiting["closing"] = "close"
BY DEF Executor, Waiting

TurnEffect ==
  /\ Pages!TypeOK' /\ executor' \in [Calls -> Executor]
  /\ \A i \in Calls : TurnStep(i)

LEMMA MovesTo ==
  ASSUME TurnInv, NEW j \in Calls, NEW pc \in Executor, To(j, pc)
  PROVE  /\ executor' \in [Calls -> Executor]
         /\ \A i \in Calls : executor'[i] = IF i = j THEN pc ELSE executor[i]
BY DEF TurnInv, To

\* Another executor's move, or a step that moves none.
LEMMA Unmoved ==
  ASSUME TurnInv, NEW i \in Calls, Kept(i)
  PROVE  Settles(i)
<1>1. Turn(i)
  BY DEF TurnInv
<1>. QED
  BY <1>1 DEF Turn, Kept, Settles, Early

LEMMA TakesOn ==
  ASSUME TurnInv, NEW j \in Calls, NEW pc \in Executor, Take(j), To(j, pc), task' = task,
         pc \notin {"starting", "preparing", "none"}, executor[j] # "none",
         pc = "unsent" => executor[j] = "preparing" /\ answer[j]["prepare"] = "ok"
  PROVE  TurnEffect
<1>1. /\ executor' \in [Calls -> Executor]
      /\ \A i \in Calls : executor'[i] = IF i = j THEN pc ELSE executor[i]
  BY MovesTo
<1>2. Pages!TypeOK' /\ \A i \in Calls : Quiet(i)
  BY Taking DEF TurnInv
<1>3. ASSUME NEW i \in Calls PROVE Settles(i)
  <2>1. CASE i = j
    <3>1. Turn(j)
      BY DEF TurnInv
    <3>2. task[j] = "executing"
      BY <3>1 DEF Turn
    <3>. QED
      BY <1>1, <2>1, <3>2 DEF Settles, Early
  <2>2. CASE i # j
    BY <1>1, <2>2, Unmoved DEF Kept
  <2>. QED
    BY <2>1, <2>2
<1>. QED
  BY <1>1, <1>2, <1>3 DEF TurnEffect, TurnStep

LEMMA EndsTurn ==
  ASSUME TypeOK, TurnInv, NEW j \in Calls, NEW result, Ends(j, result)
  PROVE  TurnEffect
<1>1. /\ executor' \in [Calls -> Executor]
      /\ \A i \in Calls : executor'[i] = IF i = j THEN "none" ELSE executor[i]
  <2>1. "none" \in Executor
    BY ExecutorStates
  <2>. QED
    BY <2>1, MovesTo DEF Ends
<1>2. Pages!TypeOK' /\ \A i \in Calls : Quiet(i)
  BY Taking DEF TurnInv, Ends
<1>3. /\ task'[j] \in {"packaging", "finishing"}
      /\ \A i \in Calls \ {j} : task'[i] = task[i]
  BY DEF TypeOK, Ends, Executed
<1>4. ASSUME NEW i \in Calls PROVE Settles(i)
  <2>1. CASE i = j
    BY <1>1, <1>3, <2>1 DEF Settles, Early
  <2>2. CASE i # j
    BY <1>1, <1>3, <2>2, Unmoved DEF Kept
  <2>. QED
    BY <2>1, <2>2
<1>. QED
  BY <1>1, <1>2, <1>4 DEF TurnEffect, TurnStep

LEMMA CallsOn ==
  ASSUME TurnInv, NEW j \in Calls, NEW pc \in Executor,
         NEW op \in {"prepare", "submit", "capture", "stop", "close"},
         Pages!Call(j, op), To(j, pc), task' = task, executor[j] # "none",
         pc \notin {"starting", "unsent", "none"},
         op = "prepare" <=> pc = "preparing",
         op = "prepare" => executor[j] = "starting",
         op = "submit" => executor[j] = "unsent" /\ pc = "submitting"
  PROVE  TurnEffect
<1>1. /\ executor' \in [Calls -> Executor]
      /\ \A i \in Calls : executor'[i] = IF i = j THEN pc ELSE executor[i]
  BY MovesTo
<1>2. /\ Pages!TypeOK'
      /\ \A i \in Calls : \/ Quiet(i)
                          \/ i = j /\ op = "prepare" /\ Opens(i)
                          \/ i = j /\ op = "submit" /\ Sends(i)
  BY Calling DEF TurnInv
<1>3. task[j] = "executing"
  <2>1. Turn(j)
    BY DEF TurnInv
  <2>. QED
    BY <2>1 DEF Turn
<1>4. ASSUME NEW i \in Calls PROVE TurnStep(i)
  <2>1. CASE i # j
    <3>1. Settles(i)
      BY <1>1, <2>1, Unmoved DEF Kept
    <3>. QED
      BY <1>2, <2>1, <3>1 DEF TurnStep
  <2>2. CASE i = j /\ op = "prepare" /\ Opens(i)
    BY <1>1, <2>2 DEF TurnStep
  <2>3. CASE i = j /\ op = "submit" /\ Sends(i)
    BY <1>1, <2>3 DEF TurnStep
  <2>4. CASE i = j /\ Quiet(i)
    <3>1. CASE op # "prepare"
      <4>1. Settles(i)
        BY <1>1, <1>3, <2>4, <3>1 DEF Settles, Early
      <4>. QED
        BY <2>4, <4>1 DEF TurnStep
    <3>2. CASE op = "prepare"
      <4>1. answer'[i]["prepare"] # "ok" /\ page'[i].submission = page[i].submission
        <5>1. PICK o \in {"waiting", "failed"} : Pages!Tell(j, op, o)
          BY <3>2, CallTold
        <5>2. o \in {"none", "waiting"} \cup Pages!Outcome
          BY Ops DEF Pages!Failure
        <5>3. \A k \in Calls, p \in Pages!Op :
                answer'[k][p] = IF k = j /\ p = op THEN o ELSE answer[k][p]
          BY <3>2, <5>1, <5>2, AnswerSet, Ops DEF TurnInv
        <5>4. answer'[i]["prepare"] # "ok"
          BY <2>4, <3>2, <5>3, Ops
        <5>5. page'[i].submission = page[i].submission
          BY <3>2, CallPage DEF TurnInv
        <5>. QED
          BY <5>4, <5>5
      <4>2. Opens(i)
        BY <2>4, <4>1 DEF Quiet, Opens
      <4>. QED
        BY <1>1, <2>4, <3>2, <4>2 DEF TurnStep
    <3>. QED
      BY <3>1, <3>2
  <2>. QED
    BY <1>2, <2>1, <2>2, <2>3, <2>4
<1>. QED
  BY <1>1, <1>2, <1>4 DEF TurnEffect

---------------------------------------------------------------------------
LEMMA StartTurn ==
  ASSUME TypeOK, TurnInv, NEW j \in Calls, StartExecutor(j)
  PROVE  TurnEffect
<1>1. /\ executor' \in [Calls -> Executor]
      /\ \A i \in Calls : executor'[i] = IF i = j THEN "starting" ELSE executor[i]
  BY MovesTo, ExecutorStates DEF StartExecutor
<1>2. /\ UNCHANGED pageVars /\ task[j] = "spawned" /\ task'[j] = "executing"
      /\ \A i \in Calls \ {j} : task'[i] = task[i]
  BY DEF TypeOK, StartExecutor, Start
<1>3. Pages!TypeOK' /\ \A i \in Calls : Quiet(i)
  BY <1>2 DEF pageVars, Quiet, TurnInv, Pages!TypeOK
<1>4. ASSUME NEW i \in Calls PROVE Settles(i)
  <2>1. CASE i = j
    BY <1>1, <1>2, <2>1 DEF Settles, Early
  <2>2. CASE i # j
    BY <1>1, <1>2, <2>2, Unmoved DEF Kept
  <2>. QED
    BY <2>1, <2>2
<1>. QED
  BY <1>1, <1>3, <1>4 DEF TurnEffect, TurnStep

LEMMA ExecutorTurns ==
  ASSUME TypeOK, TurnInv, NEW j \in Calls, ExecutorStep(j)
  PROVE  TurnEffect
<1>1. CASE StartExecutor(j)
  BY <1>1, StartTurn
<1>2. CASE \E result : Ends(j, result)
  BY <1>2, EndsTurn
<1>3. CASE PrepareFailed(j)
  BY <1>3, TakesOn, ExecutorStates DEF PrepareFailed, Told, vars
<1>4. CASE Prepared(j)
  <2>1. PICK pc \in {"discard", "unsent"} : To(j, pc)
    BY <1>4 DEF Prepared
  <2>2. Take(j) /\ task' = task /\ executor[j] = "preparing" /\ answer[j]["prepare"] = "ok"
    BY <1>4, ExecutorStates DEF Prepared, Told, vars
  <2>. QED
    BY <2>1, <2>2, TakesOn, ExecutorStates
<1>5. CASE PromptAccepted(j)
  BY <1>5, TakesOn, ExecutorStates DEF PromptAccepted, Told, vars
<1>6. CASE Captured(j)
  BY <1>6, TakesOn, ExecutorStates DEF Captured, Told, vars
<1>7. CASE Prepare(j)
  BY <1>7, CallsOn, ExecutorStates DEF Prepare, Asks, vars
<1>8. CASE Discard(j)
  BY <1>8, CallsOn, ExecutorStates DEF Discard, Asks, vars
<1>9. CASE SubmitPrompt(j)
  BY <1>9, CallsOn, ExecutorStates DEF SubmitPrompt, Asks, vars
<1>10. CASE CaptureAnswer(j)
  BY <1>10, CallsOn, ExecutorStates DEF CaptureAnswer, Asks, vars
<1>11. CASE ClosePage(j)
  BY <1>11, CallsOn, ExecutorStates DEF ClosePage, Asks, vars
<1>12. CASE Cancelled(j) \/ DeadlinePasses(j)
  BY <1>12, CallsOn, ExecutorStates DEF Cancelled, DeadlinePasses, StopFor, vars
<1>13. CASE Stopped(j)
  <2>1. executor[j] = "stopping" /\ To(j, "settling") /\ task' = task
    BY <1>13 DEF Stopped, Told, vars
  <2>2. CASE Pages!Call(j, "capture")
    BY <2>1, <2>2, CallsOn, ExecutorStates
  <2>3. CASE UNCHANGED pageVars
    <3>1. /\ executor' \in [Calls -> Executor]
          /\ \A i \in Calls : executor'[i] = IF i = j THEN "settling" ELSE executor[i]
      BY <2>1, MovesTo, ExecutorStates
    <3>2. Pages!TypeOK' /\ \A i \in Calls : Quiet(i)
      BY <2>3 DEF pageVars, Quiet, TurnInv, Pages!TypeOK
    <3>3. ASSUME NEW i \in Calls PROVE Settles(i)
      BY <2>1, <3>1 DEF TurnInv, Turn, Settles, Early
    <3>. QED
      BY <3>1, <3>2, <3>3 DEF TurnEffect, TurnStep
  <2>. QED
    BY <1>13, <2>2, <2>3 DEF Stopped
<1>14. CASE CallTimesOut(j)
  <2>1. UNCHANGED <<executor, task>>
    BY <1>14 DEF CallTimesOut, vars
  <2>2. executor[j] \in {"preparing", "discarding", "submitting", "stopping", "closing"}
    BY <1>14, ExecutorStates DEF CallTimesOut
  <2>3. PICK op \in {"prepare", "submit", "capture", "stop", "close"} : Pages!TimeOut(j, op)
    BY <1>14, <2>2, ExecutorStates DEF CallTimesOut
  <2>4. Pages!TypeOK' /\ \A i \in Calls : Quiet(i)
    BY <2>3, TimingOut DEF TurnInv
  <2>5. ASSUME NEW i \in Calls PROVE Settles(i)
    BY <2>1, Unmoved DEF Kept
  <2>. QED
    BY <2>1, <2>4, <2>5 DEF TurnEffect, TurnStep, TurnInv
<1>. QED
  BY <1>1, <1>2, <1>3, <1>4, <1>5, <1>6, <1>7, <1>8, <1>9, <1>10, <1>11, <1>12, <1>13, <1>14
     DEF ExecutorStep, NoBridge, Discarded, SubmissionFailed, NotSettled, CaptureFailed,
         WriteFails, CloseFailed, Closed, RunTimesOut

LEMMA BridgeTurns ==
  ASSUME TurnInv, NEW j \in Calls, BridgeStep(j)
  PROVE  TurnEffect
<1>1. handler[j]["reattach"] = "idle"
  BY DEF TurnInv, Turn
<1>2. BridgeEffect
  BY <1>1, BridgeSteps DEF BridgeStep, TurnInv
<1>3. UNCHANGED <<executor, task>>
  BY DEF BridgeStep, vars
<1>4. ASSUME NEW i \in Calls PROVE Settles(i) /\ Kept(i)
  BY <1>3, Unmoved DEF Kept
<1>. QED
  BY <1>2, <1>3, <1>4 DEF BridgeEffect, TurnEffect, TurnStep, TurnInv

\* What the rest of the service does to the tasks of jobs.
LEMMA ServiceTasks ==
  ASSUME TypeOK, Stages, ServiceStep, NEW i \in Calls
  PROVE  /\ task'[i] \in {"none", "spawned"} => task[i] \in {"none", "spawned"}
         /\ task[i] = "executing" => task'[i] = "executing"
<1>1. CASE UNCHANGED task
  BY <1>1
<1>2. CASE \E c \in Calls : Register(c)
  <2>1. PICK c \in Calls : Register(c)
    BY <1>2
  <2>2. task[c] = "none"
    BY <2>1 DEF Register, Stages
  <2>. QED
    BY <2>1, <2>2 DEF Register, TypeOK
<1>3. CASE \E c \in Calls : JobStep(c)
  BY <1>3 DEF JobStep, Package, Finish, Unregister, TypeOK
<1>. QED
  BY <1>1, <1>2, <1>3
     DEF ServiceStep, ClientStep, SubmissionStep, StopperStep, jobVars, OpenTab, TabOpened, Submit,
         CancelJob, CloseTab, Accept, OpeningFails, OpenImplicitTab, ReservationRefused, Reserve,
         Record, CheckJob, SignalJob, MarkCancelling, TabCloses

LEMMA ServiceTurns ==
  ASSUME TypeOK, Stages, TurnInv, ServiceStep
  PROVE  TurnEffect
<1>1. UNCHANGED <<pageVars, executor>>
  BY DEF ServiceStep
<1>2. Pages!TypeOK' /\ executor' \in [Calls -> Executor] /\ \A i \in Calls : Quiet(i)
  BY <1>1 DEF pageVars, Quiet, TurnInv, Pages!TypeOK
<1>3. ASSUME NEW i \in Calls PROVE Settles(i)
  BY <1>1, ServiceTasks DEF TurnInv, Turn, Settles, Early
<1>. QED
  BY <1>2, <1>3 DEF TurnEffect, TurnStep

---------------------------------------------------------------------------
(* The executor is one of WorkerJobs *)

\* Where the executor has decided what to return.
Deciding == {"discard", "discarding", "stopping", "settling", "captured", "closing"}

DecidedInv ==
  /\ executor \in [Calls -> Executor]
  /\ verdict \in [Calls -> Outcome \cup {"none"}]
  /\ \A i \in Calls : executor[i] \in Deciding => verdict[i] \in Outcome

LEMMA DecidedMove ==
  ASSUME DecidedInv, NEW j \in Calls, NEW pc \in Executor, To(j, pc),
         \/ \E v \in Outcome : Decide(j, v)
         \/ UNCHANGED verdict /\ (pc \in Deciding => executor[j] \in Deciding)
  PROVE  DecidedInv'
<1>1. /\ executor' \in [Calls -> Executor]
      /\ \A i \in Calls : executor'[i] = IF i = j THEN pc ELSE executor[i]
  BY DEF DecidedInv, To
<1>2. CASE UNCHANGED verdict /\ (pc \in Deciding => executor[j] \in Deciding)
  BY <1>1, <1>2 DEF DecidedInv
<1>3. ASSUME NEW v \in Outcome, Decide(j, v) PROVE DecidedInv'
  <2>1. /\ verdict' \in [Calls -> Outcome \cup {"none"}]
        /\ \A i \in Calls : verdict'[i] = IF i = j THEN v ELSE verdict[i]
    BY <1>3 DEF DecidedInv, Decide
  <2>. QED
    BY <1>1, <2>1 DEF DecidedInv
<1>. QED
  BY <1>2, <1>3

LEMMA DecidedKept == DecidedInv /\ WorkerNext => DecidedInv'
<1>. SUFFICES ASSUME DecidedInv, WorkerNext PROVE DecidedInv'
  OBVIOUS
<1>1. CASE UNCHANGED <<executor, verdict>>
  BY <1>1 DEF DecidedInv
<1>2. ASSUME NEW j \in Calls, ExecutorStep(j) PROVE DecidedInv'
  <2>1. CASE StartExecutor(j)
    BY <2>1, DecidedMove, ExecutorStates DEF StartExecutor, Deciding
  <2>2. CASE \E result : Ends(j, result)
    BY <2>2, DecidedMove, ExecutorStates DEF Ends, Deciding
  <2>3. CASE PrepareFailed(j)
    BY <2>3, DecidedMove, ExecutorStates DEF PrepareFailed, Outcome
  <2>4. CASE Prepared(j)
    <3>1. CASE To(j, "discard") /\ Decide(j, "cancelled")
      BY <3>1, DecidedMove, ExecutorStates DEF Outcome
    <3>2. CASE To(j, "unsent") /\ UNCHANGED verdict
      BY <3>2, DecidedMove, ExecutorStates DEF Deciding
    <3>. QED
      BY <2>4, <3>1, <3>2 DEF Prepared
  <2>5. CASE PromptAccepted(j) \/ Prepare(j) \/ SubmitPrompt(j) \/ CaptureAnswer(j)
    BY <2>5, DecidedMove, ExecutorStates
       DEF PromptAccepted, Prepare, SubmitPrompt, CaptureAnswer, Asks, Deciding
  <2>6. CASE Discard(j) \/ ClosePage(j)
    BY <2>6, DecidedMove, ExecutorStates DEF Discard, ClosePage, Asks, Deciding
  <2>7. CASE Cancelled(j) \/ DeadlinePasses(j)
    BY <2>7, DecidedMove, ExecutorStates DEF Cancelled, DeadlinePasses, StopFor, Outcome
  <2>8. CASE Stopped(j)
    BY <2>8, DecidedMove, ExecutorStates DEF Stopped, Told, Deciding
  <2>9. CASE Captured(j)
    <3>1. Judged(answer[j]["capture"]) \in Outcome
      BY DEF Judged, Outcome
    <3>2. PICK v \in Outcome : Decide(j, v)
      BY <2>9, <3>1 DEF Captured, DecidedInv
    <3>. QED
      BY <2>9, <3>2, DecidedMove, ExecutorStates DEF Captured
  <2>10. CASE CallTimesOut(j)
    BY <1>1, <2>10 DEF CallTimesOut
  <2>. QED
    BY <1>2, <2>1, <2>2, <2>3, <2>4, <2>5, <2>6, <2>7, <2>8, <2>9, <2>10
       DEF ExecutorStep, NoBridge, Discarded, SubmissionFailed, NotSettled, CaptureFailed,
           WriteFails, CloseFailed, Closed, RunTimesOut
<1>. QED
  BY <1>1, <1>2 DEF WorkerNext, ServiceStep, BridgeStep

LEMMA WorkerRefines == DecidedInv /\ WorkerNext => [Next]_vars
<1>. SUFFICES ASSUME DecidedInv, WorkerNext PROVE [Next]_vars
  OBVIOUS
<1>1. CASE ServiceStep
  BY <1>1 DEF ServiceStep, Next
<1>2. ASSUME NEW j \in Calls, BridgeStep(j) PROVE [Next]_vars
  BY <1>2 DEF BridgeStep
<1>3. ASSUME NEW j \in Calls, ExecutorStep(j) PROVE [Next]_vars
  <2>1. CASE StartExecutor(j)
    BY <2>1 DEF StartExecutor, Next
  <2>2. ASSUME NEW result \in Outcome, Ends(j, result) PROVE [Next]_vars
    BY <2>2 DEF Ends, Next
  <2>3. CASE \/ NoBridge(j) \/ SubmissionFailed(j) \/ CaptureFailed(j)
             \/ WriteFails(j) \/ CloseFailed(j) \/ RunTimesOut(j)
    <3>1. {"failed", "timed-out"} \subseteq Outcome
      BY DEF Outcome
    <3>. QED
      BY <2>2, <2>3, <3>1
         DEF NoBridge, SubmissionFailed, CaptureFailed, WriteFails, CloseFailed, RunTimesOut
  <2>4. CASE Discarded(j) \/ NotSettled(j) \/ Closed(j)
    <3>1. executor[j] \in Deciding /\ Ends(j, verdict[j])
      BY <2>4 DEF Discarded, NotSettled, Closed, Told, Deciding
    <3>. QED
      BY <2>2, <3>1 DEF DecidedInv
  <2>5. CASE UNCHANGED vars
    BY <2>5
  <2>. QED
    BY <1>3, <2>1, <2>3, <2>4, <2>5
       DEF ExecutorStep, Prepare, PrepareFailed, Prepared, Discard, SubmitPrompt, PromptAccepted,
           CaptureAnswer, Cancelled, DeadlinePasses, StopFor, Stopped, Captured, ClosePage,
           CallTimesOut, Asks
<1>. QED
  BY <1>1, <1>2, <1>3 DEF WorkerNext

WorkerInv == JobsInv /\ DecidedInv /\ TurnInv

LEMMA WorkerInit_Inv == WorkerInit => WorkerInv
<1>. SUFFICES ASSUME WorkerInit PROVE WorkerInv
  OBVIOUS
<1>1. JobsInv
  BY JobsInit DEF WorkerInit
<1>2. DecidedInv
  BY ExecutorStates DEF WorkerInit, DecidedInv, Deciding
<1>3. Pages!TypeOK
  BY DEF WorkerInit, Pages!Init, Pages!TypeOK, Pages!NoPage, Pages!Phase, Pages!Stopping,
         Pages!Submission
<1>4. ASSUME NEW i \in Calls PROVE Turn(i)
  <2>1. handler[i]["reattach"] = "idle" /\ handler[i]["prepare"] = "idle"
    BY Ops DEF WorkerInit, Pages!Init
  <2>2. sent[i] = 0 /\ page[i].submission = "none" /\ executor[i] = "none"
    BY DEF WorkerInit, Pages!Init, Pages!NoPage
  <2>. QED
    BY <2>1, <2>2 DEF Turn, Fresh, Early
<1>. QED
  BY <1>1, <1>2, <1>3, <1>4 DEF WorkerInv, TurnInv, DecidedInv

LEMMA TurnNext == WorkerInv /\ WorkerNext => TurnInv'
<1>. SUFFICES ASSUME WorkerInv, WorkerNext PROVE TurnInv'
  OBVIOUS
<1>1. TypeOK /\ Stages /\ TurnInv
  BY DEF WorkerInv, JobsInv
<1>2. TurnEffect
  BY <1>1, ServiceTurns, ExecutorTurns, BridgeTurns DEF WorkerNext
<1>3. ASSUME NEW i \in Calls PROVE Turn(i)'
  BY <1>1, <1>2, TurnKept DEF TurnEffect, TurnInv
<1>. QED
  BY <1>2, <1>3 DEF TurnEffect, TurnInv

LEMMA WorkerInvariant == WorkerSpec => []WorkerInv
<1>1. WorkerInv /\ [WorkerNext]_workerVars => WorkerInv'
  <2>. SUFFICES ASSUME WorkerInv, [WorkerNext]_workerVars PROVE WorkerInv'
    OBVIOUS
  <2>1. CASE WorkerNext
    <3>1. [Next]_vars /\ DecidedInv'
      BY <2>1, WorkerRefines, DecidedKept DEF WorkerInv
    <3>2. JobsInv'
      BY <3>1, JobsStep DEF WorkerInv
    <3>3. TurnInv'
      BY <2>1, TurnNext
    <3>. QED
      BY <3>1, <3>2, <3>3 DEF WorkerInv
  <2>2. CASE UNCHANGED workerVars
    <3>1. UNCHANGED vars /\ UNCHANGED <<page, handler, answer, sent, conversation, executor, verdict>>
      BY <2>2 DEF workerVars, pageVars
    <3>2. JobsInv'
      BY <3>1, JobsStep DEF WorkerInv
    <3>3. DecidedInv'
      BY <3>1 DEF WorkerInv, DecidedInv
    <3>4. TurnInv'
      BY <3>1 DEF WorkerInv, TurnInv, Turn, Fresh, Early, vars, Pages!TypeOK
    <3>. QED
      BY <3>2, <3>3, <3>4 DEF WorkerInv
  <2>. QED
    BY <2>1, <2>2
<1>. QED
  BY <1>1, WorkerInit_Inv, PTL DEF WorkerSpec

\* The browser executor is an executor of WorkerJobs: every step of it, of the
\* bridge and of the provider is a step of the jobs or leaves them alone, so
\* every theorem about Spec holds of the worker (run_job and execute).
THEOREM ExecutorImplementsJobs == WorkerSpec => Spec
<1>1. WorkerInv /\ [WorkerNext]_workerVars => [Next]_vars
  BY WorkerRefines DEF WorkerInv, workerVars
<1>2. WorkerInit => Init
  BY DEF WorkerInit
<1>. QED
  BY <1>1, <1>2, WorkerInvariant, PTL DEF WorkerSpec, Spec

\* The prompt of one key is sent at most once, for any number of submissions,
\* whatever the browser, its timeouts and cancellations do (submit_job and
\* execute).
THEOREM OneTurn == WorkerSpec => []OneTurnPerKey
<1>1. WorkerInv => OneTurnPerKey
  <2>. SUFFICES ASSUME WorkerInv, NEW i \in Calls, NEW j \in Calls
                PROVE  /\ sent[i] <= 1
                       /\ sent[i] > 0 /\ sent[j] > 0 /\ call[i].request.key = call[j].request.key
                            => i = j
    BY DEF OneTurnPerKey
  <2>1. ASSUME NEW k \in Calls, sent[k] > 0 PROVE status[k] # "absent"
    <3>1. Turn(k) /\ Stages /\ sent[k] \in Nat
      BY Typed DEF WorkerInv, TurnInv, JobsInv
    <3>2. task[k] # "none"
      BY <2>1, <3>1 DEF Turn, Early, Fresh
    <3>. QED
      BY <3>1, <3>2 DEF Stages
  <2>2. sent[i] <= 1
    BY DEF WorkerInv, TurnInv, Turn
  <2>3. ASSUME sent[i] > 0, sent[j] > 0, call[i].request.key = call[j].request.key PROVE i = j
    BY <2>1, <2>3 DEF WorkerInv, JobsInv, Keyed
  <2>. QED
    BY <2>2, <2>3
<1>. QED
  BY <1>1, WorkerInvariant, PTL
---------------------------------------------------------------------------
(* A completed job has the whole answer *)

\* The task of the job has what the executor returned.
Reported == {"packaging", "finishing", "finished", "done"}

\* The executor has been told that its page is prepared.
Later == {"unsent", "submitting", "accepted", "capturing", "stopping", "settling", "captured",
          "closing"}

\* A job is only decided to be completed once its conversation is over, and
\* only ends so when close has answered, after which nothing opens its page.
Whole(i) ==
  /\ conversation[i] # "none" => sent[i] > 0
  /\ page[i].submission \in {"clicked", "resolved"} => sent[i] > 0
  /\ page[i].submission # "reattached"
  /\ executor[i] \in Later => handler[i]["prepare"] = "idle"
  /\ answer[i]["capture"] = "complete" => conversation[i] = "over"
  /\ executor[i] = "closing" /\ answer[i]["close"] = "ok" => page[i] = Pages!NoPage
  /\ verdict[i] = "completed" =>
       /\ conversation[i] = "over"
       /\ executor[i] \in {"captured", "closing"} \/ task[i] \in Reported
  /\ outcome[i] = "completed" =>
       task[i] \in Reported /\ conversation[i] = "over" /\ page[i] = Pages!NoPage
  /\ task[i] = "packaging" => outcome[i] = "completed"

\* What a step does to what the bridge says of a conversation.
Answers(i) ==
  /\ answer'[i]["capture"] = "complete" =>
       answer[i]["capture"] = "complete" \/ conversation[i] = "over"
  /\ answer'[i]["close"] = "ok" => answer[i]["close"] = "ok" \/ page'[i] = Pages!NoPage

\* The prompt is not sent, a page that was closed stays closed, and a
\* conversation that changes is over.
Steady(i) ==
  /\ Answers(i)
  /\ sent'[i] = sent[i]
  /\ conversation'[i] = conversation[i] \/ (conversation'[i] = "over" /\ sent[i] > 0)
  /\ \/ page'[i].submission \in {page[i].submission, "none", "rejected", "pending"}
     \/ page'[i].submission = "resolved" /\ page[i].submission = "clicked"
  /\ page[i] = Pages!NoPage /\ handler[i]["prepare"] = "idle" => page'[i] = Pages!NoPage

Clicked(i) ==
  /\ page[i].submission = "pending" /\ page'[i].submission = "clicked"
  /\ sent'[i] = sent[i] + 1 /\ conversation'[i] = "generating" /\ answer'[i] = answer[i]

\* What a step does to what the executor and the job's task have decided.
Judges(i) ==
  /\ executor'[i] \in Later =>
       executor[i] \in Later \/ (executor[i] = "preparing" /\ answer[i]["prepare"] = "ok")
  /\ executor'[i] = "closing" => executor[i] = "closing" \/ answer'[i]["close"] # "ok"
  /\ verdict'[i] = "completed" =>
       /\ verdict[i] = "completed" \/ answer[i]["capture"] = "complete"
       /\ executor'[i] \in {"captured", "closing"} \/ task'[i] \in Reported
  /\ outcome'[i] = "completed" =>
       /\ \/ outcome[i] = "completed"
          \/ executor[i] = "closing" /\ answer[i]["close"] = "ok" /\ verdict[i] = "completed"
       /\ task'[i] \in Reported
  /\ task'[i] = "packaging" => outcome'[i] = "completed"

LEMMA NoPageRow == /\ Pages!NoPage.phase = "none" /\ Pages!NoPage.stopping = "none"
                   /\ Pages!NoPage.submission = "none"
BY DEF Pages!NoPage

LEMMA WholeKept ==
  ASSUME Pages!TypeOK, NEW i \in Calls, Turn(i), TurnStep(i), Whole(i),
         Steady(i) \/ Clicked(i), Judges(i)
  PROVE  Whole(i)'
<1>1. sent[i] \in Nat /\ ~(page[i] = Pages!NoPage /\ page[i].submission = "pending")
  BY Typed, NoPageRow
<1>2. executor'[i] \in Later => handler'[i]["prepare"] = "idle"
  <2>1. "preparing" \notin Later
    BY DEF Later
  <2>2. executor[i] \in Later \/ (executor[i] = "preparing" /\ answer[i]["prepare"] = "ok")
          => handler[i]["prepare"] = "idle"
    BY DEF Whole, Turn
  <2>3. handler[i]["prepare"] = "idle" => handler'[i]["prepare"] = "idle" \/ executor'[i] = "preparing"
    BY DEF TurnStep, Quiet, Submits, Opens, Sends
  <2>. QED
    BY <2>1, <2>2, <2>3 DEF Judges
<1>3. CASE Clicked(i)
  <2>1. sent[i] = 0 /\ conversation[i] = "none"
    BY <1>1, <1>3 DEF Clicked, Turn, Whole
  <2>2. /\ answer[i]["capture"] # "complete" /\ verdict[i] # "completed" /\ outcome[i] # "completed"
    BY <2>1 DEF Whole
  <2>3. ~(executor[i] = "closing" /\ answer[i]["close"] = "ok")
    BY <1>1, <1>3 DEF Clicked, Whole
  <2>. QED
    BY <1>1, <1>2, <1>3, <2>1, <2>2, <2>3 DEF Clicked, Whole, Judges
<1>4. CASE Steady(i)
  <2>1. conversation[i] = "over" => conversation'[i] = "over"
    BY <1>4 DEF Steady
  <2>2. handler[i]["prepare"] = "idle" \/ sent[i] = 0
    BY DEF Turn, Fresh
  <2>3. /\ conversation'[i] # "none" => sent'[i] > 0
        /\ page'[i].submission \in {"clicked", "resolved"} => sent'[i] > 0
        /\ page'[i].submission # "reattached"
    BY <1>4 DEF Steady, Whole
  <2>4. answer'[i]["capture"] = "complete" => conversation'[i] = "over"
    BY <1>4, <2>1 DEF Steady, Answers, Whole
  <2>5. executor'[i] = "closing" /\ answer'[i]["close"] = "ok" => page'[i] = Pages!NoPage
    <3>1. executor[i] = "closing" => handler[i]["prepare"] = "idle"
      BY DEF Whole, Later
    <3>. QED
      BY <1>4, <3>1 DEF Steady, Answers, Judges, Whole
  <2>6. verdict'[i] = "completed" =>
          /\ conversation'[i] = "over"
          /\ executor'[i] \in {"captured", "closing"} \/ task'[i] \in Reported
    BY <2>1 DEF Judges, Whole
  <2>7. outcome'[i] = "completed" => conversation[i] = "over" /\ page[i] = Pages!NoPage
    BY DEF Judges, Whole
  <2>8. outcome'[i] = "completed" =>
          task'[i] \in Reported /\ conversation'[i] = "over" /\ page'[i] = Pages!NoPage
    BY <1>1, <1>4, <2>1, <2>2, <2>7 DEF Steady, Judges, Whole
  <2>9. task'[i] = "packaging" => outcome'[i] = "completed"
    BY DEF Judges
  <2>. QED
    BY <1>2, <2>3, <2>4, <2>5, <2>6, <2>8, <2>9 DEF Whole
<1>. QED
  BY <1>3, <1>4

\* The bridge's answers that do not say that a capture is complete or a page closed.
LEMMA ReplyAnswers ==
  ASSUME Pages!TypeOK, NEW j \in Calls, NEW op \in Pages!Op, NEW o \in Pages!Outcome,
         Pages!Reply(j, op, o),
         op = "capture" /\ o = "complete" => conversation[j] = "over",
         op = "close" => o # "ok"
  PROVE  \A i \in Calls : Answers(i)
<1>1. \A i \in Calls, p \in Pages!Op :
        answer'[i][p] = answer[i][p] \/ (i = j /\ p = op /\ answer'[i][p] = o)
  BY Replies
<1>. QED
  BY <1>1, Ops DEF Answers

LEMMA TellAnswers ==
  ASSUME Pages!TypeOK, NEW j \in Calls, NEW op \in Pages!Op,
         NEW o \in {"none", "waiting"} \cup Pages!Outcome, Pages!Tell(j, op, o),
         op = "capture" => o # "complete",
         op = "close" => o # "ok"
  PROVE  /\ \A i \in Calls : Answers(i)
         /\ op = "close" => answer'[j]["close"] # "ok"
<1>1. \A i \in Calls, p \in Pages!Op :
        answer'[i][p] = IF i = j /\ p = op THEN o ELSE answer[i][p]
  BY AnswerSet
<1>2. op = "close" => answer'[j]["close"] # "ok"
  BY <1>1, Ops
<1>3. ASSUME NEW i \in Calls PROVE Answers(i)
  <2>1. answer'[i]["capture"] = "complete" => answer[i]["capture"] = "complete"
    BY <1>1, Ops
  <2>2. answer'[i]["close"] = "ok" => answer[i]["close"] = "ok"
    BY <1>1, Ops
  <2>. QED
    BY <2>1, <2>2 DEF Answers
<1>. QED
  BY <1>2, <1>3

LEMMA StopAnswers ==
  ASSUME Pages!TypeOK, NEW j \in Calls, NEW o, Pages!ReplyStops(j, o)
  PROVE  \A i \in Calls : Answers(i)
<1>. DEFINE row == [op \in Pages!Op |->
                     IF op \in Pages!Stops /\ answer[j][op] = "waiting" THEN o ELSE answer[j][op]]
<1>1. row["capture"] = answer[j]["capture"] /\ row["close"] = answer[j]["close"]
  BY Ops DEF Pages!Stops
<1>2. answer' = [answer EXCEPT ![j] = row]
  BY DEF Pages!ReplyStops
<1>. HIDE DEF row
<1>3. \A i \in Calls : answer'[i] = IF i = j THEN row ELSE answer[i]
  BY <1>2, Typed
<1>. QED
  BY <1>1, <1>3 DEF Answers

LEMMA AnswersSame ==
  ASSUME answer' = answer
  PROVE  \A i \in Calls : Answers(i)
BY DEF Answers

\* A step that changes the page of j at most.
LEMMA PageSteady ==
  ASSUME Pages!TypeOK, NEW j \in Calls, NEW row, page' = [page EXCEPT ![j] = row],
         \A i \in Calls : Answers(i),
         \/ row.submission \in {page[j].submission, "none", "rejected", "pending"}
         \/ row.submission = "resolved" /\ page[j].submission = "clicked",
         page[j] = Pages!NoPage /\ handler[j]["prepare"] = "idle" => row = Pages!NoPage,
         UNCHANGED <<sent, conversation>>
  PROVE  \A i \in Calls : Steady(i)
<1>1. \A i \in Calls : page'[i] = IF i = j THEN row ELSE page[i]
  BY Typed
<1>. QED
  BY <1>1 DEF Steady

LEMMA PagesSame ==
  ASSUME page' = page, \A i \in Calls : Answers(i), UNCHANGED <<sent, conversation>>
  PROVE  \A i \in Calls : Steady(i)
BY DEF Steady

\* The fields of a page, one at a time.
LEMMA PhaseSteady ==
  ASSUME Pages!TypeOK, NEW j \in Calls, NEW phase, page' = [page EXCEPT ![j].phase = phase],
         page[j].phase # "none" \/ handler[j]["prepare"] # "idle",
         \A i \in Calls : Answers(i), UNCHANGED <<sent, conversation>>
  PROVE  \A i \in Calls : Steady(i)
<1>. DEFINE row == [page[j] EXCEPT !.phase = phase]
<1>1. row.submission = page[j].submission
  BY Typed DEF PageRow
<1>2. page' = [page EXCEPT ![j] = row]
  OBVIOUS
<1>3. page[j] = Pages!NoPage => handler[j]["prepare"] # "idle"
  BY NoPageRow
<1>. HIDE DEF row
<1>. QED
  BY <1>1, <1>2, <1>3, PageSteady

LEMMA OpeningSteady ==
  ASSUME Pages!TypeOK, NEW j \in Calls, handler[j]["reattach"] = "idle",
         \/ \E op \in {"prepare", "reattach"} : Pages!PageOpens(j, op) \/ Pages!OpeningFails(j, op)
         \/ Pages!Prepared(j)
  PROVE  \A i \in Calls : Steady(i)
<1>1. ASSUME NEW op \in {"prepare", "reattach"}, Pages!PageOpens(j, op)
      PROVE  \A i \in Calls : Steady(i)
  <2>. DEFINE row == [Pages!NoPage EXCEPT !.phase = "preparing"]
  <2>1. row.submission = "none"
    BY DEF Pages!NoPage
  <2>2. page' = [page EXCEPT ![j] = row] /\ UNCHANGED <<answer, sent, conversation>>
    BY <1>1 DEF Pages!PageOpens
  <2>3. handler[j]["prepare"] # "idle"
    BY <1>1 DEF Pages!PageOpens
  <2>4. \A i \in Calls : Answers(i)
    BY <2>2, AnswersSame
  <2>. HIDE DEF row
  <2>. QED
    BY <2>1, <2>2, <2>3, <2>4, PageSteady
<1>2. ASSUME NEW op \in {"prepare", "reattach"}, Pages!OpeningFails(j, op)
      PROVE  \A i \in Calls : Steady(i)
  <2>1. PICK f \in Failures \ {"not-accepted"} : Pages!Reply(j, op, f)
    BY <1>2 DEF Pages!OpeningFails
  <2>2. f \in Pages!Outcome
    BY Ops, FailuresAssumption
  <2>3. \A i \in Calls : Answers(i)
    BY <2>1, <2>2, Ops, ReplyAnswers
  <2>. QED
    BY <1>2, <2>3, PagesSame DEF Pages!OpeningFails
<1>3. CASE Pages!Prepared(j)
  <2>1. /\ handler[j]["prepare"] = "running" /\ Pages!Reply(j, "prepare", "ok")
        /\ page' = [page EXCEPT ![j].phase = "prepared"] /\ UNCHANGED <<sent, conversation>>
    BY <1>3 DEF Pages!Prepared
  <2>2. \A i \in Calls : Answers(i)
    BY <2>1, Ops, ReplyAnswers
  <2>. QED
    BY <2>1, <2>2, PhaseSteady
<1>. QED
  BY <1>1, <1>2, <1>3

LEMMA SendingSteady ==
  ASSUME Pages!TypeOK, NEW j \in Calls,
         Pages!SubmissionAccepted(j) \/ Pages!SubmissionFails(j) \/ Pages!CaptureEnds(j)
  PROVE  \A i \in Calls : Steady(i)
<1>1. CASE Pages!SubmissionAccepted(j)
  <2>. DEFINE row == [page[j] EXCEPT !.phase = "accepted", !.submission = "resolved"]
  <2>1. row.submission = "resolved"
    BY Typed DEF PageRow
  <2>2. page' = [page EXCEPT ![j] = row] /\ page[j].submission = "clicked"
    BY <1>1 DEF Pages!SubmissionAccepted
  <2>3. Pages!Reply(j, "submit", "ok") /\ UNCHANGED <<sent, conversation>>
    BY <1>1 DEF Pages!SubmissionAccepted
  <2>4. \A i \in Calls : Answers(i)
    BY <2>3, Ops, ReplyAnswers
  <2>. HIDE DEF row
  <2>. QED
    BY <2>1, <2>2, <2>3, <2>4, PageSteady, NoPageRow
<1>2. CASE Pages!SubmissionFails(j)
  <2>. DEFINE row == [page[j] EXCEPT !.submission = "rejected"]
  <2>1. row.submission = "rejected"
    BY Typed DEF PageRow
  <2>2. /\ page' = [page EXCEPT ![j] = row] /\ page[j].submission \in {"pending", "clicked"}
        /\ UNCHANGED <<sent, conversation>>
    BY <1>2 DEF Pages!SubmissionFails, Pages!Submitting
  <2>3. PICK f \in Failures \ {"model"} : Pages!Reply(j, "submit", f)
    BY <1>2 DEF Pages!SubmissionFails
  <2>4. f \in Pages!Outcome
    BY Ops, FailuresAssumption
  <2>5. \A i \in Calls : Answers(i)
    BY <2>3, <2>4, Ops, ReplyAnswers
  <2>. HIDE DEF row
  <2>. QED
    BY <2>1, <2>2, <2>5, PageSteady, NoPageRow
<1>3. CASE Pages!CaptureEnds(j)
  <2>. DEFINE row == [page[j] EXCEPT !.phase = "captured", !.aborted = FALSE]
  <2>1. /\ page' = [page EXCEPT ![j] = row] /\ page[j].phase = "capturing"
        /\ UNCHANGED <<sent, conversation>>
    BY <1>3 DEF Pages!CaptureEnds
  <2>5. row.submission = page[j].submission
    BY Typed DEF PageRow
  <2>6. page[j] # Pages!NoPage
    BY <2>1, NoPageRow
  <2>2. PICK v \in {"complete", "incomplete"} \cup (Failures \cap {"expired", "limited"}) :
          (v = "complete" => conversation[j] = "over") /\ Pages!Reply(j, "capture", v)
    BY <1>3 DEF Pages!CaptureEnds
  <2>3. v \in Pages!Outcome
    BY Ops, FailuresAssumption
  <2>4. \A i \in Calls : Answers(i)
    BY <2>2, <2>3, Ops, ReplyAnswers
  <2>. HIDE DEF row
  <2>. QED
    BY <2>1, <2>4, <2>5, <2>6, PageSteady
<1>. QED
  BY <1>1, <1>2, <1>3

LEMMA StoppingSteady ==
  ASSUME Pages!TypeOK, NEW j \in Calls, Whole(j),
         Pages!StopConfirmed(j) \/ Pages!StopFails(j) \/ Pages!GenerationEnds(j)
  PROVE  \A i \in Calls : Steady(i)
<1>1. ASSUME NEW s, page' = [page EXCEPT ![j].stopping = s], page[j].stopping = "running"
      PROVE  \A i \in Calls : /\ page'[i].submission = page[i].submission
                              /\ page[i] = Pages!NoPage => page'[i] = Pages!NoPage
  <2>. DEFINE row == [page[j] EXCEPT !.stopping = s]
  <2>1. row.submission = page[j].submission
    BY Typed DEF PageRow
  <2>2. page' = [page EXCEPT ![j] = row]
    BY <1>1
  <2>. HIDE DEF row
  <2>3. \A i \in Calls : page'[i] = IF i = j THEN row ELSE page[i]
    BY <2>2, Typed
  <2>. QED
    BY <1>1, <2>1, <2>3, NoPageRow
<1>2. CASE Pages!StopConfirmed(j)
  <2>1. /\ page' = [page EXCEPT ![j].stopping = "done"] /\ page[j].stopping = "running"
        /\ conversation' = [conversation EXCEPT ![j] = "over"]
        /\ page[j].submission \in {"resolved", "reattached"}
        /\ Pages!ReplyStops(j, "ok") /\ sent' = sent
    BY <1>2 DEF Pages!StopConfirmed, Pages!Known
  <2>2. sent[j] > 0
    BY <2>1 DEF Whole
  <2>3. \A i \in Calls : conversation'[i] = IF i = j THEN "over" ELSE conversation[i]
    BY <2>1, Typed
  <2>4. \A i \in Calls : Answers(i)
    BY <2>1, StopAnswers
  <2>. QED
    BY <1>1, <2>1, <2>2, <2>3, <2>4 DEF Steady
<1>3. CASE Pages!StopFails(j)
  <2>1. /\ page' = [page EXCEPT ![j].stopping = "none"] /\ page[j].stopping = "running"
        /\ Pages!ReplyStops(j, "failed") /\ UNCHANGED <<sent, conversation>>
    BY <1>3 DEF Pages!StopFails
  <2>2. \A i \in Calls : Answers(i)
    BY <2>1, StopAnswers
  <2>. QED
    BY <1>1, <2>1, <2>2 DEF Steady
<1>4. CASE Pages!GenerationEnds(j)
  <2>1. /\ conversation[j] = "generating" /\ conversation' = [conversation EXCEPT ![j] = "over"]
        /\ UNCHANGED <<page, answer, sent>>
    BY <1>4 DEF Pages!GenerationEnds
  <2>2. sent[j] > 0
    BY <2>1 DEF Whole
  <2>3. \A i \in Calls : conversation'[i] = IF i = j THEN "over" ELSE conversation[i]
    BY <2>1, Typed
  <2>. QED
    BY <2>1, <2>2, <2>3, AnswersSame DEF Steady
<1>. QED
  BY <1>2, <1>3, <1>4

LEMMA ClosingSteady ==
  ASSUME Pages!TypeOK, NEW j \in Calls, Pages!PageCloses(j) \/ Pages!ClosingFails(j)
  PROVE  \A i \in Calls : Steady(i)
<1>1. CASE Pages!ClosingFails(j)
  <2>1. Pages!Reply(j, "close", "failed") /\ UNCHANGED <<page, sent, conversation>>
    BY <1>1 DEF Pages!ClosingFails
  <2>2. "failed" \in Pages!Outcome
    BY Ops DEF Pages!Failure
  <2>3. \A i \in Calls : Answers(i)
    BY <2>1, <2>2, Ops, ReplyAnswers
  <2>. QED
    BY <2>1, <2>3, PagesSame
<1>2. CASE Pages!PageCloses(j)
  <2>. DEFINE row == [op \in Pages!Op |->
                       IF answer[j][op] # "waiting" THEN answer[j][op]
                       ELSE IF op = "close" THEN "ok"
                       ELSE IF op \in Pages!Stops THEN "failed" ELSE "waiting"]
  <2>1. row["capture"] = answer[j]["capture"]
    BY Ops DEF Pages!Stops
  <2>2. answer' = [answer EXCEPT ![j] = row]
    BY <1>2 DEF Pages!PageCloses
  <2>. HIDE DEF row
  <2>3. \A i \in Calls : answer'[i] = IF i = j THEN row ELSE answer[i]
    BY <2>2, Typed
  <2>4. page' = [page EXCEPT ![j] = Pages!NoPage] /\ UNCHANGED <<sent, conversation>>
    BY <1>2 DEF Pages!PageCloses
  <2>5. page'[j] = Pages!NoPage
    BY <2>4, Typed
  <2>6. \A i \in Calls : Answers(i)
    BY <2>1, <2>3, <2>5 DEF Answers
  <2>. QED
    BY <2>4, <2>6, PageSteady, NoPageRow
<1>. QED
  BY <1>1, <1>2

LEMMA ClickedKept ==
  ASSUME Pages!TypeOK, NEW j \in Calls, Pages!SendClicked(j)
  PROVE  \A i \in Calls : Steady(i) \/ Clicked(i)
<1>. DEFINE row == [page[j] EXCEPT !.submission = "clicked"]
<1>1. row.submission = "clicked"
  BY Typed DEF PageRow
<1>2. page' = [page EXCEPT ![j] = row]
  BY DEF Pages!SendClicked
<1>. HIDE DEF row
<1>3. /\ \A i \in Calls : page'[i] = IF i = j THEN row ELSE page[i]
      /\ \A i \in Calls : sent'[i] = IF i = j THEN sent[i] + 1 ELSE sent[i]
      /\ \A i \in Calls : conversation'[i] = IF i = j THEN "generating" ELSE conversation[i]
      /\ answer' = answer /\ page[j].submission = "pending"
  BY <1>2, Typed DEF Pages!SendClicked
<1>4. Clicked(j)
  BY <1>1, <1>3 DEF Clicked
<1>5. \A i \in Calls \ {j} : Steady(i)
  BY <1>3, AnswersSame DEF Steady
<1>. QED
  BY <1>4, <1>5

LEMMA BridgeSteady ==
  ASSUME Pages!TypeOK, NEW j \in Calls, Whole(j), handler[j]["reattach"] = "idle",
         Pages!HandlerStep(j) \/ Pages!ProviderStep(j)
  PROVE  \A i \in Calls : Steady(i) \/ Clicked(i)
<1>1. ~Pages!Reattached(j)
  BY DEF Pages!Reattached
<1>. QED
  BY <1>1, OpeningSteady, SendingSteady, StoppingSteady, ClosingSteady, ClickedKept
     DEF Pages!HandlerStep, Pages!ProviderStep
---------------------------------------------------------------------------
LEMMA CallAnswers ==
  ASSUME Pages!TypeOK, NEW j \in Calls,
         NEW op \in {"prepare", "submit", "capture", "stop", "close"}, Pages!Call(j, op)
  PROVE  /\ \A i \in Calls : Answers(i)
         /\ op = "close" => answer'[j]["close"] # "ok"
<1>1. PICK o \in {"waiting", "failed", "ok"} : Pages!Tell(j, op, o)
  BY CallTold
<1>2. op \in Pages!Op /\ o \in {"none", "waiting"} \cup Pages!Outcome
  BY Ops DEF Pages!Failure
<1>3. CASE op # "close"
  BY <1>1, <1>2, <1>3, TellAnswers
<1>4. CASE op = "close"
  <2>1. Pages!Tell(j, op, "failed") \/ Pages!Tell(j, op, "waiting")
    BY <1>4 DEF Pages!Call, Pages!Unreachable, Pages!Close, Pages!Stops
  <2>2. {"failed", "waiting"} \subseteq {"none", "waiting"} \cup Pages!Outcome
    BY Ops DEF Pages!Failure
  <2>. QED
    BY <1>2, <1>4, <2>1, <2>2, TellAnswers
<1>. QED
  BY <1>3, <1>4

LEMMA CallSteady ==
  ASSUME Pages!TypeOK, NEW j \in Calls,
         NEW op \in {"prepare", "submit", "capture", "stop", "close"}, Pages!Call(j, op)
  PROVE  \A i \in Calls : Steady(i)
<1>1. (\A i \in Calls : Answers(i)) /\ UNCHANGED <<sent, conversation>>
  BY CallAnswers, CallTold
<1>2. CASE page' = page
  BY <1>1, <1>2, PagesSame
<1>3. CASE /\ page[j].phase = "prepared"
           /\ page' = [page EXCEPT ![j].phase = "submitting", ![j].submission = "pending"]
  <2>. DEFINE row == [page[j] EXCEPT !.phase = "submitting", !.submission = "pending"]
  <2>1. row.submission = "pending"
    BY Typed DEF PageRow
  <2>2. page' = [page EXCEPT ![j] = row]
    BY <1>3
  <2>. HIDE DEF row
  <2>. QED
    BY <1>1, <1>3, <2>1, <2>2, PageSteady, NoPageRow
<1>4. CASE page[j].phase = "accepted" /\ page' = [page EXCEPT ![j].phase = "capturing"]
  BY <1>1, <1>4, PhaseSteady
<1>5. ASSUME NEW s, NEW w, page[j].phase # "none",
             page' = [page EXCEPT ![j].aborted = w, ![j].stopping = s]
      PROVE  \A i \in Calls : Steady(i)
  <2>. DEFINE row == [page[j] EXCEPT !.aborted = w, !.stopping = s]
  <2>1. row.submission = page[j].submission
    BY Typed DEF PageRow
  <2>2. page' = [page EXCEPT ![j] = row]
    BY <1>5
  <2>. HIDE DEF row
  <2>. QED
    BY <1>1, <1>5, <2>1, <2>2, PageSteady, NoPageRow
<1>6. CASE op = "stop" /\ Pages!Stop(j, op)
  <2>1. CASE page' # page
    <3>1. /\ page[j].phase # "none"
          /\ page' = [page EXCEPT ![j].aborted = page[j].aborted \/ Pages!LooksAgain(j),
                       ![j].stopping = IF page[j].submission = "none" THEN "done" ELSE "running"]
      BY <1>6, <2>1 DEF Pages!Stop, Pages!Owned
    <3>. QED
      BY <1>5, <3>1
  <2>. QED
    BY <1>2, <2>1
<1>7. CASE op = "submit" /\ Pages!Submit(j)
  BY <1>2, <1>3, <1>7 DEF Pages!Submit
<1>8. CASE op = "capture" /\ Pages!Capture(j)
  BY <1>2, <1>4, <1>8 DEF Pages!Capture
<1>9. CASE \/ Pages!Unreachable(j, op)
           \/ op = "prepare" /\ Pages!OpenPage(j, op)
           \/ op = "close" /\ Pages!Close(j)
  BY <1>2, <1>9 DEF Pages!Unreachable, Pages!OpenPage, Pages!Close
<1>. QED
  BY <1>6, <1>7, <1>8, <1>9 DEF Pages!Call, Pages!Stops

LEMMA TakeSteady ==
  ASSUME Pages!TypeOK, NEW j \in Calls, Take(j)
  PROVE  \A i \in Calls : Steady(i)
<1>. DEFINE row == [op \in Pages!Op |-> "none"]
<1>1. row["capture"] = "none" /\ row["close"] = "none"
  BY Ops
<1>2. answer' = [answer EXCEPT ![j] = row] /\ UNCHANGED <<page, sent, conversation>>
  BY DEF Take
<1>. HIDE DEF row
<1>3. \A i \in Calls : answer'[i] = IF i = j THEN row ELSE answer[i]
  BY <1>2, Typed
<1>4. \A i \in Calls : Answers(i)
  BY <1>1, <1>3 DEF Answers
<1>. QED
  BY <1>2, <1>4, PagesSame

LEMMA TimeOutSteady ==
  ASSUME Pages!TypeOK, NEW j \in Calls,
         NEW op \in {"prepare", "submit", "capture", "stop", "close"}, Pages!TimeOut(j, op)
  PROVE  \A i \in Calls : Steady(i)
<1>1. Pages!Tell(j, op, "failed") /\ UNCHANGED <<page, sent, conversation>>
  BY DEF Pages!TimeOut
<1>2. op \in Pages!Op /\ "failed" \in {"none", "waiting"} \cup Pages!Outcome
  BY Ops DEF Pages!Failure
<1>3. \A i \in Calls : Answers(i)
  BY <1>1, <1>2, TellAnswers
<1>. QED
  BY <1>1, <1>3, PagesSame

\* What an executor's step does to the bridge.
LEMMA ExecutorSteady ==
  ASSUME Pages!TypeOK, NEW j \in Calls, ExecutorStep(j)
  PROVE  \A i \in Calls : Steady(i)
<1>1. CASE UNCHANGED pageVars
  BY <1>1, AnswersSame, PagesSame DEF pageVars
<1>2. CASE Take(j)
  BY <1>2, TakeSteady
<1>3. CASE \E op \in {"prepare", "submit", "capture", "stop", "close"} :
             Pages!Call(j, op) \/ Pages!TimeOut(j, op)
  BY <1>3, CallSteady, TimeOutSteady
<1>4. CASE Prepare(j) \/ Discard(j) \/ SubmitPrompt(j) \/ CaptureAnswer(j) \/ ClosePage(j)
  BY <1>3, <1>4, ExecutorStates
     DEF Prepare, Discard, SubmitPrompt, CaptureAnswer, ClosePage, Asks
<1>5. CASE Cancelled(j) \/ DeadlinePasses(j) \/ Stopped(j)
  BY <1>1, <1>3, <1>5 DEF Cancelled, DeadlinePasses, StopFor, Stopped
<1>6. CASE CallTimesOut(j)
  <2>1. executor[j] \in {"preparing", "discarding", "submitting", "stopping", "closing"}
    BY <1>6, ExecutorStates DEF CallTimesOut
  <2>2. Waiting[executor[j]] \in {"prepare", "submit", "capture", "stop", "close"}
    BY <2>1, ExecutorStates
  <2>. QED
    BY <1>3, <1>6, <2>2 DEF CallTimesOut
<1>. QED
  BY <1>1, <1>2, <1>4, <1>5, <1>6
     DEF ExecutorStep, StartExecutor, NoBridge, PrepareFailed, Prepared, Discarded, SubmissionFailed,
         PromptAccepted, NotSettled, CaptureFailed, Captured, WriteFails, CloseFailed, Closed,
         RunTimesOut, Ends

---------------------------------------------------------------------------
\* The job of i goes on as it was.
Undecided(i) ==
  /\ executor'[i] = executor[i] /\ verdict'[i] = verdict[i]
  /\ task'[i] = task[i] /\ outcome'[i] = outcome[i]

LEMMA UndecidedJudges ==
  ASSUME NEW i \in Calls, Whole(i), Undecided(i)
  PROVE  Judges(i)
BY DEF Undecided, Whole, Judges

LEMMA MoveJudges ==
  ASSUME WorkerInv, NEW j \in Calls, \A i \in Calls : Whole(i), NEW pc \in Executor, To(j, pc),
         UNCHANGED <<task, outcome>>, executor[j] # "none",
         pc \in Later =>
           executor[j] \in Later \/ (executor[j] = "preparing" /\ answer[j]["prepare"] = "ok"),
         pc = "closing" => answer'[j]["close"] # "ok",
         \/ UNCHANGED verdict /\ (executor[j] \in {"captured", "closing"} => pc = "closing")
         \/ \E v : /\ Decide(j, v)
                   /\ v = "completed" => /\ pc = "captured"
                                         /\ verdict[j] = "completed" \/ answer[j]["capture"] = "complete"
  PROVE  \A i \in Calls : Judges(i)
<1>1. \A i \in Calls : executor'[i] = IF i = j THEN pc ELSE executor[i]
  BY MovesTo DEF WorkerInv
<1>2. task[j] = "executing" /\ task[j] \notin Reported
  BY DEF WorkerInv, TurnInv, Turn, Reported
<1>3. verdict \in [Calls -> Outcome \cup {"none"}]
  BY DEF WorkerInv, DecidedInv
<1>4. ASSUME NEW i \in Calls \ {j} PROVE Judges(i)
  <2>1. verdict'[i] = verdict[i]
    BY <1>3 DEF Decide
  <2>. QED
    BY <1>1, <2>1, UndecidedJudges DEF Undecided
<1>5. Judges(j)
  <2>1. verdict'[j] = "completed" =>
          /\ verdict[j] = "completed" \/ answer[j]["capture"] = "complete"
          /\ pc \in {"captured", "closing"}
    <3>1. CASE UNCHANGED verdict /\ (executor[j] \in {"captured", "closing"} => pc = "closing")
      BY <1>2, <3>1 DEF Whole
    <3>2. ASSUME NEW v, Decide(j, v),
                 v = "completed" => /\ pc = "captured"
                                    /\ verdict[j] = "completed" \/ answer[j]["capture"] = "complete"
          PROVE  verdict'[j] = "completed" =>
                   /\ verdict[j] = "completed" \/ answer[j]["capture"] = "complete"
                   /\ pc \in {"captured", "closing"}
      BY <1>3, <3>2 DEF Decide
    <3>. QED
      BY <3>1, <3>2
  <2>. QED
    BY <1>1, <1>2, <2>1 DEF Judges, Whole
<1>. QED
  BY <1>4, <1>5

LEMMA EndJudges ==
  ASSUME WorkerInv, NEW j \in Calls, \A i \in Calls : Whole(i), NEW result, Ends(j, result),
         result = "completed" =>
           executor[j] = "closing" /\ answer[j]["close"] = "ok" /\ verdict[j] = "completed"
  PROVE  \A i \in Calls : Judges(i)
<1>1. \A i \in Calls : executor'[i] = IF i = j THEN "none" ELSE executor[i]
  BY MovesTo, ExecutorStates DEF WorkerInv, Ends
<1>2. task \in [Calls -> {"none", "spawned", "executing", "packaging", "finishing", "finished", "done"}]
      /\ outcome \in [Calls -> Outcome]
  BY DEF WorkerInv, JobsInv, TypeOK
<1>3. /\ \A i \in Calls : task'[i] = IF i # j THEN task[i]
                                     ELSE IF result = "completed" THEN "packaging" ELSE "finishing"
      /\ \A i \in Calls : outcome'[i] = IF i = j THEN result ELSE outcome[i]
      /\ UNCHANGED verdict
  BY <1>2 DEF Ends, Executed
<1>4. \A i \in Calls \ {j} : Judges(i)
  BY <1>1, <1>3, UndecidedJudges DEF Undecided
<1>5. Judges(j)
  BY <1>1, <1>3 DEF Judges, Reported, Later
<1>. QED
  BY <1>4, <1>5
LEMMA ExecutorJudges ==
  ASSUME WorkerInv, NEW j \in Calls, \A i \in Calls : Whole(i), ExecutorStep(j)
  PROVE  \A i \in Calls : Judges(i)
<1>1. CASE StartExecutor(j)
  <2>1. \A i \in Calls : executor'[i] = IF i = j THEN "starting" ELSE executor[i]
    BY <1>1, MovesTo, ExecutorStates DEF StartExecutor, WorkerInv
  <2>2. task[j] = "spawned" /\ UNCHANGED <<verdict, outcome>>
    BY <1>1 DEF StartExecutor, Start
  <2>3. task \in [Calls -> {"none", "spawned", "executing", "packaging", "finishing", "finished", "done"}]
    BY DEF WorkerInv, JobsInv, TypeOK
  <2>4. \A i \in Calls : task'[i] = IF i = j THEN "executing" ELSE task[i]
    BY <1>1, <2>3 DEF StartExecutor, Start
  <2>5. executor[j] = "none" /\ verdict[j] # "completed" /\ outcome[j] # "completed"
    <3>1. executor[j] = "none"
      BY <2>2 DEF WorkerInv, TurnInv, Turn
    <3>. QED
      BY <2>2, <3>1 DEF Whole, Reported
  <2>6. \A i \in Calls \ {j} : Judges(i)
    BY <2>1, <2>2, <2>4, UndecidedJudges DEF Undecided
  <2>7. Judges(j)
    BY <2>1, <2>2, <2>4, <2>5 DEF Judges, Later
  <2>. QED
    BY <2>6, <2>7
<1>2. ASSUME executor[j] # "none" PROVE task[j] \notin Reported
  BY <1>2 DEF WorkerInv, TurnInv, Turn, Reported
<1>3. CASE \/ NoBridge(j) \/ SubmissionFailed(j) \/ CaptureFailed(j)
           \/ WriteFails(j) \/ CloseFailed(j) \/ RunTimesOut(j)
  BY <1>3, EndJudges
     DEF NoBridge, SubmissionFailed, CaptureFailed, WriteFails, CloseFailed, RunTimesOut
<1>4. CASE Discarded(j) \/ NotSettled(j)
  <2>1. executor[j] \in {"discarding", "settling"} /\ Ends(j, verdict[j])
    BY <1>4 DEF Discarded, NotSettled, Told
  <2>2. verdict[j] # "completed"
    BY <1>2, <2>1 DEF Whole
  <2>. QED
    BY <2>1, <2>2, EndJudges
<1>5. CASE Closed(j)
  BY <1>5, EndJudges, ExecutorStates DEF Closed, Told
<1>6. CASE PrepareFailed(j)
  BY <1>6, MoveJudges, ExecutorStates DEF PrepareFailed, Told, vars, Later
<1>7. CASE Prepared(j)
  <2>1. /\ executor[j] = "preparing" /\ answer[j]["prepare"] = "ok" /\ UNCHANGED <<task, outcome>>
    BY <1>7, ExecutorStates DEF Prepared, Told, vars
  <2>2. CASE To(j, "discard") /\ Decide(j, "cancelled")
    BY <2>1, <2>2, MoveJudges, ExecutorStates DEF Later
  <2>3. CASE To(j, "unsent") /\ UNCHANGED verdict
    BY <2>1, <2>3, MoveJudges, ExecutorStates DEF Later
  <2>. QED
    BY <1>7, <2>2, <2>3 DEF Prepared
<1>8. CASE PromptAccepted(j)
  BY <1>8, MoveJudges, ExecutorStates DEF PromptAccepted, Told, vars, Later
<1>9. CASE Captured(j)
  <2>1. /\ executor[j] \in {"capturing", "settling"} /\ To(j, "captured")
        /\ UNCHANGED <<task, outcome>>
    BY <1>9 DEF Captured, Told, vars
  <2>. DEFINE v == IF verdict[j] = "none" THEN Judged(answer[j]["capture"]) ELSE verdict[j]
  <2>2. Decide(j, v)
    BY <1>9 DEF Captured
  <2>3. v = "completed" => verdict[j] = "completed" \/ answer[j]["capture"] = "complete"
    BY DEF Judged
  <2>. HIDE DEF v
  <2>. QED
    BY <2>1, <2>2, <2>3, MoveJudges, ExecutorStates DEF Later
<1>10. CASE Prepare(j) \/ Discard(j) \/ SubmitPrompt(j) \/ CaptureAnswer(j)
  BY <1>10, MoveJudges, ExecutorStates
     DEF Prepare, Discard, SubmitPrompt, CaptureAnswer, Asks, vars, Later
<1>11. CASE ClosePage(j)
  <2>1. /\ executor[j] = "captured" /\ Pages!Call(j, "close") /\ To(j, "closing")
        /\ UNCHANGED <<task, outcome, verdict>>
    BY <1>11, ExecutorStates DEF ClosePage, Asks, vars
  <2>2. answer'[j]["close"] # "ok"
    BY <2>1, CallAnswers DEF WorkerInv, TurnInv
  <2>. QED
    BY <2>1, <2>2, MoveJudges, ExecutorStates DEF Later
<1>12. CASE Cancelled(j) \/ DeadlinePasses(j)
  BY <1>12, MoveJudges, ExecutorStates DEF Cancelled, DeadlinePasses, StopFor, vars, Later
<1>13. CASE Stopped(j)
  BY <1>13, MoveJudges, ExecutorStates DEF Stopped, Told, vars, Later
<1>14. CASE CallTimesOut(j)
  BY <1>14, UndecidedJudges DEF CallTimesOut, Undecided, vars
<1>. QED
  BY <1>1, <1>3, <1>4, <1>5, <1>6, <1>7, <1>8, <1>9, <1>10, <1>11, <1>12, <1>13, <1>14
     DEF ExecutorStep

LEMMA ServiceJudges ==
  ASSUME WorkerInv, \A i \in Calls : Whole(i), ServiceStep
  PROVE  \A i \in Calls : Judges(i)
<1>1. UNCHANGED <<executor, verdict>>
  BY DEF ServiceStep
<1>2. /\ task \in [Calls -> {"none", "spawned", "executing", "packaging", "finishing", "finished", "done"}]
      /\ outcome \in [Calls -> Outcome]
  BY DEF WorkerInv, JobsInv, TypeOK
<1>3. CASE UNCHANGED <<task, outcome>>
  BY <1>1, <1>3, UndecidedJudges DEF Undecided
<1>4. ASSUME NEW c \in Calls, Register(c) PROVE \A i \in Calls : Judges(i)
  <2>1. task[c] = "none" /\ outcome' = outcome
    BY <1>4 DEF Register, Stages, WorkerInv, JobsInv
  <2>2. \A i \in Calls : task'[i] = IF i = c THEN "spawned" ELSE task[i]
    BY <1>2, <1>4 DEF Register
  <2>3. executor[c] = "none" /\ verdict[c] # "completed" /\ outcome[c] # "completed"
    <3>1. executor[c] = "none"
      BY <2>1 DEF WorkerInv, TurnInv, Turn
    <3>. QED
      BY <2>1, <3>1 DEF Whole, Reported
  <2>4. \A i \in Calls \ {c} : Judges(i)
    BY <1>1, <2>1, <2>2, UndecidedJudges DEF Undecided
  <2>5. Judges(c)
    BY <1>1, <2>1, <2>2, <2>3 DEF Judges, Later
  <2>. QED
    BY <2>4, <2>5
<1>5. ASSUME NEW j \in Calls, JobStep(j) PROVE \A i \in Calls : Judges(i)
  <2>1. /\ task[j] \in Reported /\ task'[j] \in Reported \ {"packaging"}
        /\ \A i \in Calls \ {j} : task'[i] = task[i] /\ outcome'[i] = outcome[i]
        /\ outcome'[j] = outcome[j] \/ task[j] = "packaging"
    BY <1>2, <1>5 DEF JobStep, Package, Finish, Unregister, Reported
  <2>2. \A i \in Calls \ {j} : Judges(i)
    BY <1>1, <2>1, UndecidedJudges DEF Undecided
  <2>3. executor[j] = "none"
    BY <2>1 DEF WorkerInv, TurnInv, Turn, Reported
  <2>4. Judges(j)
    BY <1>1, <2>1, <2>3 DEF Judges, Later, Whole
  <2>. QED
    BY <2>2, <2>4
<1>. QED
  BY <1>3, <1>4, <1>5
     DEF ServiceStep, ClientStep, SubmissionStep, StopperStep, jobVars, OpenTab, TabOpened, Submit,
         CancelJob, CloseTab, Accept, OpeningFails, OpenImplicitTab, ReservationRefused, Reserve,
         Record, CheckJob, SignalJob, MarkCancelling, TabCloses

WholeInv == WorkerInv /\ \A i \in Calls : Whole(i)

LEMMA WholeNext == WholeInv /\ WorkerNext => \A i \in Calls : Whole(i)'
<1>. SUFFICES ASSUME WholeInv, WorkerNext PROVE \A i \in Calls : Whole(i)'
  OBVIOUS
<1>1. /\ WorkerInv /\ Pages!TypeOK /\ TypeOK /\ Stages /\ TurnInv
      /\ \A i \in Calls : Whole(i)
  BY DEF WholeInv, WorkerInv, JobsInv, TurnInv
<1>2. \A i \in Calls : TurnStep(i)
  BY <1>1, ServiceTurns, ExecutorTurns, BridgeTurns DEF WorkerNext, TurnEffect
<1>3. \A i \in Calls : (Steady(i) \/ Clicked(i)) /\ Judges(i)
  <2>1. CASE ServiceStep
    <3>1. UNCHANGED pageVars
      BY <2>1 DEF ServiceStep
    <3>2. \A i \in Calls : Steady(i)
      BY <3>1, AnswersSame, PagesSame DEF pageVars
    <3>. QED
      BY <1>1, <2>1, <3>2, ServiceJudges
  <2>2. ASSUME NEW j \in Calls, ExecutorStep(j)
        PROVE  \A i \in Calls : (Steady(i) \/ Clicked(i)) /\ Judges(i)
    BY <1>1, <2>2, ExecutorSteady, ExecutorJudges
  <2>3. ASSUME NEW j \in Calls, BridgeStep(j)
        PROVE  \A i \in Calls : (Steady(i) \/ Clicked(i)) /\ Judges(i)
    <3>1. handler[j]["reattach"] = "idle"
      BY <1>1 DEF TurnInv, Turn
    <3>2. \A i \in Calls : Steady(i) \/ Clicked(i)
      BY <1>1, <2>3, <3>1, BridgeSteady DEF BridgeStep
    <3>3. \A i \in Calls : Judges(i)
      BY <1>1, <2>3, UndecidedJudges DEF BridgeStep, Undecided, vars
    <3>. QED
      BY <3>2, <3>3
  <2>. QED
    BY <2>1, <2>2, <2>3 DEF WorkerNext
<1>. QED
  BY <1>1, <1>2, <1>3, WholeKept DEF TurnInv

LEMMA WholeInvariant == WorkerSpec => []WholeInv
<1>1. WorkerInit => \A i \in Calls : Whole(i)
  <2>. SUFFICES ASSUME WorkerInit, NEW i \in Calls PROVE Whole(i)
    OBVIOUS
  <2>1. /\ answer[i]["capture"] = "none" /\ answer[i]["close"] = "none"
        /\ conversation[i] = "none" /\ page[i].submission = "none" /\ handler[i]["prepare"] = "idle"
    BY Ops DEF WorkerInit, Pages!Init, Pages!NoPage
  <2>2. executor[i] = "none" /\ verdict[i] = "none" /\ outcome[i] = "failed" /\ task[i] = "none"
    BY DEF WorkerInit, Init
  <2>. QED
    BY <2>1, <2>2 DEF Whole, Later
<1>2. WholeInv /\ WorkerInv' /\ [WorkerNext]_workerVars => WholeInv'
  <2>1. CASE UNCHANGED workerVars
    BY <2>1 DEF WholeInv, Whole, workerVars, pageVars, vars
  <2>2. CASE WorkerNext
    BY <2>2, WholeNext DEF WholeInv
  <2>. QED
    BY <2>1, <2>2
<1>3. WorkerInit /\ WorkerInv => WholeInv
  BY <1>1 DEF WholeInv
<1>. QED
  BY <1>2, <1>3, WorkerInvariant, PTL DEF WorkerSpec

\* A job that reports completed has the provider's whole answer and has given
\* its page back, for any number of jobs, whatever fails, times out, or is
\* cancelled (execute, from the capture to close).
THEOREM CompletedHasAnswer == WorkerSpec => []CompletedIsWhole
<1>1. WholeInv => CompletedIsWhole
  BY DEF WholeInv, Whole, CompletedIsWhole
<1>. QED
  BY <1>1, WholeInvariant, PTL

---------------------------------------------------------------------------
(* Cancelled in time *)

\* A job that was told to stop in time: until its page is prepared, the
\* cancellation is there to be seen, and afterwards the page is discarded.
Withheld(i) ==
  /\ task[i] # "none"
  /\ executor[i] \in {"none", "starting", "preparing", "discard", "discarding"}
  /\ Unprepared(i) => signal[i] = "sent"
  /\ Fresh(i)

\* Nothing the executor of i does or the service does with its job loses the
\* cancellation: all but where the executor is between prepare and submit.
Heeds(i) ==
  /\ task'[i] # "none"
  /\ executor'[i] \in {"none", "starting", "preparing", "discard", "discarding"}
  /\ Unprepared(i)' => signal'[i] = "sent"

LEMMA SameHeeds ==
  ASSUME NEW i \in Calls, Withheld(i), executor'[i] = executor[i], task'[i] = task[i],
         signal'[i] = signal[i]
  PROVE  Heeds(i)
BY DEF Withheld, Heeds, Unprepared

\* Where an executor that heeds a cancellation can go.
LEMMA MoveHeeds ==
  ASSUME WorkerInv, NEW j \in Calls, NEW pc \in Executor, To(j, pc), UNCHANGED <<task, signal>>,
         Withheld(j) => pc \in {"preparing", "discard", "discarding"},
         pc = "preparing" => executor[j] = "starting"
  PROVE  \A i \in Calls : Withheld(i) => Heeds(i)
<1>1. \A i \in Calls : executor'[i] = IF i = j THEN pc ELSE executor[i]
  BY MovesTo DEF WorkerInv
<1>2. \A i \in Calls \ {j} : Withheld(i) => Heeds(i)
  BY <1>1, SameHeeds
<1>3. task[j] = "spawned" => executor[j] = "none"
  BY DEF WorkerInv, TurnInv, Turn
<1>4. ASSUME Withheld(j) PROVE Heeds(j)
  BY <1>1, <1>3, <1>4 DEF Withheld, Heeds, Unprepared
<1>. QED
  BY <1>2, <1>4

LEMMA EndHeeds ==
  ASSUME WorkerInv, NEW j \in Calls, NEW result, Ends(j, result)
  PROVE  \A i \in Calls : Withheld(i) => Heeds(i)
<1>1. \A i \in Calls : executor'[i] = IF i = j THEN "none" ELSE executor[i]
  BY MovesTo, ExecutorStates DEF Ends, WorkerInv
<1>2. /\ task \in [Calls -> {"none", "spawned", "executing", "packaging", "finishing", "finished",
                             "done"}]
      /\ signal' = signal
  BY DEF WorkerInv, JobsInv, TypeOK, Ends, Executed
<1>3. /\ task'[j] \in {"packaging", "finishing"}
      /\ \A i \in Calls \ {j} : task'[i] = task[i]
  BY <1>2 DEF Ends, Executed
<1>4. \A i \in Calls \ {j} : Withheld(i) => Heeds(i)
  BY <1>1, <1>2, <1>3, SameHeeds
<1>5. Heeds(j)
  BY <1>1, <1>3 DEF Heeds, Unprepared
<1>. QED
  BY <1>4, <1>5

LEMMA ExecutorHeeds ==
  ASSUME WorkerInv, NEW j \in Calls, ExecutorStep(j)
  PROVE  \A i \in Calls : Withheld(i) => Heeds(i)
<1>1. CASE StartExecutor(j)
  <2>1. \A i \in Calls : executor'[i] = IF i = j THEN "starting" ELSE executor[i]
    BY <1>1, MovesTo, ExecutorStates DEF StartExecutor, WorkerInv
  <2>2. /\ task \in [Calls -> {"none", "spawned", "executing", "packaging", "finishing",
                               "finished", "done"}]
        /\ signal' = signal /\ task[j] = "spawned"
    BY <1>1 DEF StartExecutor, Start, WorkerInv, JobsInv, TypeOK
  <2>3. \A i \in Calls : task'[i] = IF i = j THEN "executing" ELSE task[i]
    BY <1>1, <2>2 DEF StartExecutor, Start
  <2>4. \A i \in Calls \ {j} : Withheld(i) => Heeds(i)
    BY <2>1, <2>2, <2>3, SameHeeds
  <2>5. ASSUME Withheld(j) PROVE Heeds(j)
    BY <2>1, <2>2, <2>3, <2>5 DEF Withheld, Heeds, Unprepared
  <2>. QED
    BY <2>4, <2>5
<1>2. CASE \E result : Ends(j, result)
  BY <1>2, EndHeeds
<1>3. CASE PrepareFailed(j)
  BY <1>3, MoveHeeds, ExecutorStates DEF PrepareFailed, Told, vars
<1>4. CASE Prepared(j)
  <2>1. executor[j] = "preparing" /\ UNCHANGED <<task, signal>>
    BY <1>4 DEF Prepared, Told, vars
  <2>2. CASE To(j, "discard")
    BY <2>1, <2>2, MoveHeeds, ExecutorStates
  <2>3. CASE signal[j] # "sent" /\ To(j, "unsent")
    <3>1. ~Withheld(j)
      BY <2>1, <2>3 DEF Withheld, Unprepared
    <3>. QED
      BY <2>1, <2>3, <3>1, MoveHeeds, ExecutorStates
  <2>. QED
    BY <1>4, <2>2, <2>3 DEF Prepared
<1>5. CASE Prepare(j)
  BY <1>5, MoveHeeds, ExecutorStates DEF Prepare, Asks, vars
<1>6. CASE Discard(j)
  BY <1>6, MoveHeeds, ExecutorStates DEF Discard, Asks, vars
<1>7. CASE CallTimesOut(j)
  BY <1>7, SameHeeds DEF CallTimesOut, vars
<1>8. ASSUME NEW pc \in Executor, To(j, pc), UNCHANGED <<task, signal>>, pc # "preparing",
             executor[j] \notin {"none", "starting", "preparing", "discard", "discarding"}
      PROVE  \A i \in Calls : Withheld(i) => Heeds(i)
  <2>1. ~Withheld(j)
    BY <1>8 DEF Withheld
  <2>. QED
    BY <1>8, <2>1, MoveHeeds
<1>9. CASE PromptAccepted(j) \/ Captured(j)
  BY <1>8, <1>9, ExecutorStates DEF PromptAccepted, Captured, Told, vars
<1>10. CASE SubmitPrompt(j) \/ CaptureAnswer(j) \/ ClosePage(j)
  BY <1>8, <1>10, ExecutorStates DEF SubmitPrompt, CaptureAnswer, ClosePage, Asks, vars
<1>11. CASE Cancelled(j) \/ DeadlinePasses(j)
  BY <1>8, <1>11, ExecutorStates DEF Cancelled, DeadlinePasses, StopFor, vars
<1>12. CASE Stopped(j)
  BY <1>8, <1>12, ExecutorStates DEF Stopped, Told, vars
<1>. QED
  BY <1>1, <1>2, <1>3, <1>4, <1>5, <1>6, <1>7, <1>9, <1>10, <1>11, <1>12
     DEF ExecutorStep, NoBridge, Discarded, SubmissionFailed, NotSettled, CaptureFailed,
         WriteFails, CloseFailed, Closed, RunTimesOut

LEMMA ServiceHeeds ==
  ASSUME WorkerInv, ServiceStep
  PROVE  \A i \in Calls : Withheld(i) => Heeds(i)
<1>1. UNCHANGED executor
  BY DEF ServiceStep
<1>2. /\ task \in [Calls -> {"none", "spawned", "executing", "packaging", "finishing", "finished",
                             "done"}]
      /\ signal \in [Calls -> {"unregistered", "registered", "sent"}]
  BY DEF WorkerInv, JobsInv, TypeOK
<1>3. CASE UNCHANGED <<task, signal>>
  BY <1>1, <1>3, SameHeeds
<1>4. ASSUME NEW c \in Calls, Register(c) PROVE \A i \in Calls : Withheld(i) => Heeds(i)
  <2>1. task[c] = "none"
    BY <1>4 DEF Register, Stages, WorkerInv, JobsInv
  <2>2. \A i \in Calls \ {c} : task'[i] = task[i] /\ signal'[i] = signal[i]
    BY <1>2, <1>4 DEF Register
  <2>3. ~Withheld(c)
    BY <2>1 DEF Withheld
  <2>. QED
    BY <1>1, <2>2, <2>3, SameHeeds
<1>5. ASSUME NEW j \in Calls, JobStep(j) PROVE \A i \in Calls : Withheld(i) => Heeds(i)
  <2>1. /\ task[j] \in Reported /\ task'[j] \in Reported
        /\ \A i \in Calls \ {j} : task'[i] = task[i] /\ signal'[i] = signal[i]
    BY <1>2, <1>5 DEF JobStep, Package, Finish, Unregister, Reported
  <2>2. executor[j] = "none"
    BY <2>1 DEF WorkerInv, TurnInv, Turn, Reported
  <2>3. Heeds(j)
    BY <1>1, <2>1, <2>2 DEF Heeds, Unprepared, Reported
  <2>. QED
    BY <1>1, <2>1, <2>3, SameHeeds
<1>6. ASSUME NEW x \in Stoppers, SignalJob(x) PROVE \A i \in Calls : Withheld(i) => Heeds(i)
  <2>1. task' = task /\ \A i \in Calls : signal'[i] \in {signal[i], "sent"}
    BY <1>2, <1>6 DEF SignalJob
  <2>. QED
    BY <1>1, <2>1 DEF Withheld, Heeds, Unprepared
<1>. QED
  BY <1>3, <1>4, <1>5, <1>6
     DEF ServiceStep, ClientStep, SubmissionStep, StopperStep, jobVars, OpenTab, TabOpened, Submit,
         CancelJob, CloseTab, Accept, OpeningFails, OpenImplicitTab, ReservationRefused, Reserve,
         Record, CheckJob, MarkCancelling, TabCloses

\* Nothing is sent for a job that does not get to submit.
LEMMA NothingSent ==
  ASSUME Pages!TypeOK, NEW i \in Calls, Withheld(i), TurnStep(i)
  PROVE  Fresh(i)'
<1>1. CASE Quiet(i)
  BY <1>1 DEF Quiet, Withheld, Fresh
<1>2. CASE Opens(i)
  BY <1>2 DEF Opens, Withheld, Fresh
<1>3. ~Submits(i)
  BY DEF Submits, Withheld, Fresh
<1>4. executor[i] # "unsent"
  BY DEF Withheld
<1>. QED
  BY <1>1, <1>2, <1>3, <1>4 DEF TurnStep

CancellationInv == WorkerInv /\ \A i \in inTime : i \in Calls /\ Withheld(i)

LEMMA CancellationKept == CancellationInv /\ WorkerInv' /\ CancellationNext => CancellationInv'
<1>. SUFFICES ASSUME CancellationInv, WorkerInv', CancellationNext,
                     NEW i \in inTime'
              PROVE  i \in Calls /\ Withheld(i)'
  BY DEF CancellationInv
<1>1. WorkerInv /\ WorkerNext
  BY DEF CancellationInv, CancellationNext
<1>2. CASE i \in inTime
  <2>1. i \in Calls /\ Withheld(i)
    BY <1>2 DEF CancellationInv
  <2>2. Heeds(i)
    <3>1. CASE ServiceStep
      BY <1>1, <2>1, <3>1, ServiceHeeds
    <3>2. ASSUME NEW j \in Calls, ExecutorStep(j) PROVE Heeds(i)
      BY <1>1, <2>1, <3>2, ExecutorHeeds
    <3>3. ASSUME NEW j \in Calls, BridgeStep(j) PROVE Heeds(i)
      BY <2>1, <3>3, SameHeeds DEF BridgeStep, vars
    <3>. QED
      BY <1>1, <3>1, <3>2, <3>3 DEF WorkerNext
  <2>3. Fresh(i)'
    <3>1. TypeOK /\ Stages /\ TurnInv /\ Pages!TypeOK
      BY <1>1 DEF WorkerInv, JobsInv, TurnInv
    <3>2. TurnEffect
      BY <1>1, <3>1, ServiceTurns, ExecutorTurns, BridgeTurns DEF WorkerNext
    <3>. QED
      BY <2>1, <3>1, <3>2, NothingSent DEF TurnEffect
  <2>. QED
    BY <2>1, <2>2, <2>3 DEF Heeds, Withheld
<1>3. CASE i \notin inTime
  <2>1. i \in Calls /\ signal'[i] = "sent" /\ Unprepared(i)'
    BY <1>3 DEF CancellationNext
  <2>2. Turn(i)'
    BY <2>1 DEF WorkerInv, TurnInv
  <2>. QED
    BY <2>1, <2>2 DEF Turn, Withheld, Unprepared, Early
<1>. QED
  BY <1>2, <1>3

\* A job whose cancellation is signalled before its page is prepared never sends
\* its prompt, for any number of jobs, however prepare ends or times out and
\* whoever else cancels it or closes its tab (execute's check between prepare
\* and submit, the watch channel of cancel_job).
THEOREM CancelledUnsent == CancellationSpec => []CancelledInTime
<1>1. CancellationInit /\ WorkerInv => CancellationInv
  BY DEF CancellationInit, CancellationInv
<1>2. CancellationInv /\ WorkerInv' /\ [CancellationNext]_<<workerVars, inTime>> => CancellationInv'
  <2>1. CASE UNCHANGED <<workerVars, inTime>>
    BY <2>1 DEF CancellationInv, Withheld, Unprepared, Fresh, workerVars, pageVars, vars
  <2>2. CASE CancellationNext
    BY <2>2, CancellationKept
  <2>. QED
    BY <2>1, <2>2
<1>3. CancellationInit => WorkerInit
  BY DEF CancellationInit
<1>4. [CancellationNext]_<<workerVars, inTime>> => [WorkerNext]_workerVars
  BY DEF CancellationNext
<1>5. CancellationInv => CancelledInTime
  BY DEF CancellationInv, CancelledInTime, Withheld, Fresh
<1>6. CancellationSpec => WorkerSpec
  BY <1>3, <1>4, PTL DEF CancellationSpec, WorkerSpec
<1>. QED
  BY <1>1, <1>2, <1>5, <1>6, WorkerInvariant, PTL DEF CancellationSpec
=============================================================================

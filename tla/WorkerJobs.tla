----------------------------- MODULE WorkerJobs -----------------------------
(***************************************************************************)
(* Jobs and logical tabs of the MCP worker (server/src/worker): jobs.rs    *)
(* and tabs.rs, for any executor.                                          *)
(*                                                                         *)
(* Every tool call is a task, and so is every job.  They share one state   *)
(* behind a read-write lock, which each holds only for the accesses        *)
(* between two awaits: one such section is one step.  Only submissions     *)
(* exclude each other from the key check to the start of the job.          *)
(*                                                                         *)
(* All of this is in memory: a restart begins with nothing.  A job and an  *)
(* implicitly opened tab get fresh random names; here both are named after *)
(* the submission that makes them.                                         *)
(*                                                                         *)
(* An operator whose comment starts with "Variant" is a plausible mistake  *)
(* in the definition below it.                                             *)
(***************************************************************************)
CONSTANTS
  Calls,     \* submissions, and the jobs they make
  Keys,      \* idempotency keys
  TabNames,  \* names clients give to tabs
  Requests,  \* what submissions may ask for
  Stoppers   \* calls of job_cancel and tab_close in flight at once

VARIABLES
  call,     \* each submission: how far it is, its request, its answer
  keys,     \* idempotency: the job recorded for each key
  tabs,     \* status and active job of each tab
  status,   \* status of each job as clients see it
  task,     \* how far the task of each job is
  outcome,  \* what the task of each job will report
  signal,   \* cancellations: whether a job can be, or was, told to stop
  stopper   \* each job_cancel or tab_close: how far it is, its job and tab

vars == <<call, keys, tabs, status, task, outcome, signal, stopper>>

NoJob == "no job"
NoTab == "no tab"
Implicit == "implicit"
Tabs == TabNames \cup Calls
Request == [key : Keys, tab : Tabs \cup {Implicit}]

ASSUME RequestsAssumption == Requests \subseteq Request
ASSUME NamesAssumption ==
  /\ NoJob \notin Calls /\ "error" \notin Calls
  /\ NoTab \notin Tabs
  /\ Implicit \notin Tabs
  /\ Calls \cap TabNames = {}

Outcome == {"completed", "failed", "cancelled", "timed-out"}
Terminal == Outcome

\* The submissions lock is held in these stages.
Submitting == {"opening", "reserving", "recording", "registering"}

TabOf(j) == IF call[j].request.tab = Implicit THEN j ELSE call[j].request.tab

TypeOK ==
  /\ call \in [Calls -> [at : {"idle", "waiting", "done"} \cup Submitting,
                         request : Request, answer : Calls \cup {NoJob, "error"}]]
  /\ keys \in [Keys -> Calls \cup {NoJob}]
  /\ tabs \in [Tabs -> [status : {"absent", "opening", "lost", "open", "closed"},
                        active : Calls \cup {NoJob}]]
  /\ status \in [Calls -> {"absent", "queued", "running", "cancelling"} \cup Outcome]
  /\ task \in [Calls -> {"none", "spawned", "executing", "packaging", "finishing", "finished",
                         "done"}]
  /\ outcome \in [Calls -> Outcome]
  /\ signal \in [Calls -> {"unregistered", "registered", "sent"}]
  /\ stopper \in [Stoppers -> [at : {"idle", "checking", "signalling", "marking", "closing"},
                               job : Calls \cup {NoJob}, tab : Tabs \cup {NoTab}]]

NotStopping == [at |-> "idle", job |-> NoJob, tab |-> NoTab]

Init ==
  /\ call \in [Calls -> [at : {"idle"}, request : Requests, answer : {NoJob}]]
  /\ keys = [k \in Keys |-> NoJob]
  /\ tabs = [t \in Tabs |-> [status |-> "absent", active |-> NoJob]]
  /\ status = [j \in Calls |-> "absent"]
  /\ task = [j \in Calls |-> "none"]
  /\ outcome = [j \in Calls |-> "failed"]
  /\ signal = [j \in Calls |-> "unregistered"]
  /\ stopper = [x \in Stoppers |-> NotStopping]

jobVars == <<status, task, outcome, signal>>

---------------------------------------------------------------------------
(* tabs.rs: opening a tab *)

\* The name is taken by creating the workspace, and the tab is listed later.
OpenTab(t) ==
  /\ t \in TabNames
  /\ tabs[t].status = "absent"
  /\ tabs' = [tabs EXCEPT ![t].status = "opening"]
  /\ UNCHANGED <<call, keys, jobVars, stopper>>

\* A workspace whose object cannot be found is left behind, and its name with
\* it; one whose archive cannot be extracted is removed.
TabOpened(t) ==
  /\ tabs[t].status = "opening"
  /\ \E s \in {"open", "absent", "lost"} : tabs' = [tabs EXCEPT ![t].status = s]
  /\ UNCHANGED <<call, keys, jobVars, stopper>>

---------------------------------------------------------------------------
(* jobs.rs, submit_job *)

At(c, stage) == call' = [call EXCEPT ![c].at = stage]
Answer(c, answer) == call' = [call EXCEPT ![c].at = "done", ![c].answer = answer]

SubmissionsFree == \A c \in Calls : call[c].at \notin Submitting

Submit(c) ==
  /\ call[c].at = "idle"
  /\ At(c, "waiting")
  /\ UNCHANGED <<keys, tabs, jobVars, stopper>>

\* Variant: the lock is taken after the key check.
AcceptAtOnce(c) ==
  /\ call[c].at = "waiting"
  /\ IF keys[call[c].request.key] = NoJob
     THEN At(c, IF call[c].request.tab = Implicit THEN "opening" ELSE "reserving")
     ELSE Answer(c, IF call[keys[call[c].request.key]].request = call[c].request
                    THEN keys[call[c].request.key]
                    ELSE "error")
  /\ UNCHANGED <<keys, tabs, jobVars, stopper>>

\* Keys only change under the lock, so taking it and reading them is one step.
\* A repeated request is answered with its job, another one with a conflict.
Accept(c) ==
  LET request == call[c].request
      known == keys[request.key]
  IN  /\ call[c].at = "waiting"
      /\ SubmissionsFree
      /\ IF known = NoJob
         THEN At(c, IF request.tab = Implicit THEN "opening" ELSE "reserving")
         ELSE Answer(c, IF call[known].request = request THEN known ELSE "error")
      /\ UNCHANGED <<keys, tabs, jobVars, stopper>>

\* No account is ready, or the input object cannot be used.
OpeningFails(c) ==
  /\ call[c].at = "opening"
  /\ Answer(c, "error")
  /\ UNCHANGED <<keys, tabs, jobVars, stopper>>

OpenImplicitTab(c) ==
  /\ call[c].at = "opening"
  /\ tabs[c].status = "absent"
  /\ tabs' = [tabs EXCEPT ![c].status = "open"]
  /\ At(c, "reserving")
  /\ UNCHANGED <<keys, jobVars, stopper>>

IdleAndOpen(t) == tabs[t].status = "open" /\ tabs[t].active = NoJob

\* The tab is busy or not open, or the request names another account or a
\* model that does not exist.
ReservationRefused(c) ==
  /\ call[c].at = "reserving"
  /\ Answer(c, "error")
  /\ UNCHANGED <<keys, tabs, jobVars, stopper>>

Reserve(c) ==
  /\ call[c].at = "reserving"
  /\ IdleAndOpen(TabOf(c))
  /\ tabs' = [tabs EXCEPT ![TabOf(c)].active = c]
  /\ At(c, "recording")
  /\ UNCHANGED <<keys, jobVars, stopper>>

Record(c) ==
  /\ call[c].at = "recording"
  /\ keys' = [keys EXCEPT ![call[c].request.key] = c]
  /\ status' = [status EXCEPT ![c] = "queued"]
  /\ At(c, "registering")
  /\ UNCHANGED <<tabs, task, outcome, signal, stopper>>

Register(c) ==
  /\ call[c].at = "registering"
  /\ signal' = [signal EXCEPT ![c] = "registered"]
  /\ task' = [task EXCEPT ![c] = "spawned"]
  /\ Answer(c, c)
  /\ UNCHANGED <<keys, tabs, status, outcome, stopper>>

---------------------------------------------------------------------------
(* jobs.rs, cancel_job; tabs.rs, close_tab *)

StopperAt(x, stage) == stopper' = [stopper EXCEPT ![x].at = stage]
Stops(x, stage, j, t) == stopper' = [stopper EXCEPT ![x] = [at |-> stage, job |-> j, tab |-> t]]
Returns(x) == stopper' = [stopper EXCEPT ![x] = NotStopping]

\* What follows once the job is dealt with: close_tab goes on.
AfterJob(x) ==
  IF stopper[x].tab = NoTab THEN Returns(x) ELSE Stops(x, "closing", NoJob, stopper[x].tab)

CancelJob(x, j) ==
  /\ stopper[x].at = "idle"
  /\ status[j] # "absent"
  /\ Stops(x, "checking", j, NoTab)
  /\ UNCHANGED <<call, keys, tabs, jobVars>>

\* Only force closes a tab that is seen to be busy.
CloseTab(x, t, force) ==
  /\ stopper[x].at = "idle"
  /\ tabs[t].status \in {"open", "closed"}
  /\ IF tabs[t].active = NoJob
     THEN Stops(x, "closing", NoJob, t)
     ELSE force /\ Stops(x, "checking", tabs[t].active, t)
  /\ UNCHANGED <<call, keys, tabs, jobVars>>

\* A job that is reserved and not recorded yet is not found.
CheckJob(x) ==
  /\ stopper[x].at = "checking"
  /\ IF status[stopper[x].job] = "absent" THEN Returns(x)
     ELSE IF status[stopper[x].job] \in Terminal THEN AfterJob(x)
     ELSE StopperAt(x, "signalling")
  /\ UNCHANGED <<call, keys, tabs, jobVars>>

SignalJob(x) ==
  /\ stopper[x].at = "signalling"
  /\ signal' = [signal EXCEPT ![stopper[x].job] =
       IF signal[stopper[x].job] = "registered" THEN "sent" ELSE signal[stopper[x].job]]
  /\ StopperAt(x, "marking")
  /\ UNCHANGED <<call, keys, tabs, status, task, outcome>>

\* Whatever the status has become by now.
MarkCancelling(x) ==
  /\ stopper[x].at = "marking"
  /\ status' = [status EXCEPT ![stopper[x].job] = "cancelling"]
  /\ AfterJob(x)
  /\ UNCHANGED <<call, keys, tabs, task, outcome, signal>>

\* Variant: closing a tab detaches its job.
CloseAndDetach(x) ==
  /\ stopper[x].at = "closing"
  /\ tabs' = [tabs EXCEPT ![stopper[x].tab] = [status |-> "closed", active |-> NoJob]]
  /\ Returns(x)
  /\ UNCHANGED <<call, keys, jobVars>>

TabCloses(x) ==
  /\ stopper[x].at = "closing"
  /\ tabs' = [tabs EXCEPT ![stopper[x].tab].status = "closed"]
  /\ Returns(x)
  /\ UNCHANGED <<call, keys, jobVars>>

---------------------------------------------------------------------------
(* jobs.rs, run_job *)

\* Variant: a job that was cancelled before it started is left alone.
StartUnlessCancelling(j) ==
  /\ task[j] = "spawned"
  /\ status[j] # "cancelling"
  /\ task' = [task EXCEPT ![j] = "executing"]
  /\ status' = [status EXCEPT ![j] = "running"]
  /\ UNCHANGED <<call, keys, tabs, outcome, signal, stopper>>

\* Also over a cancellation that arrived before.
Start(j) ==
  /\ task[j] = "spawned"
  /\ task' = [task EXCEPT ![j] = "executing"]
  /\ status' = [status EXCEPT ![j] = "running"]
  /\ UNCHANGED <<call, keys, tabs, outcome, signal, stopper>>

\* What the executor returns, or the limit on its time.
Executed(j, result) ==
  /\ task[j] = "executing"
  /\ task' = [task EXCEPT ![j] = IF result = "completed" THEN "packaging" ELSE "finishing"]
  /\ outcome' = [outcome EXCEPT ![j] = result]
  /\ UNCHANGED <<call, keys, tabs, status, signal, stopper>>

\* A job without its output archive has failed.
Package(j) ==
  /\ task[j] = "packaging"
  /\ task' = [task EXCEPT ![j] = "finishing"]
  /\ \E result \in {"completed", "failed"} : outcome' = [outcome EXCEPT ![j] = result]
  /\ UNCHANGED <<call, keys, tabs, status, signal, stopper>>

\* The tab is released with the same lock that makes the job terminal.
Finish(j) ==
  /\ task[j] = "finishing"
  /\ task' = [task EXCEPT ![j] = "finished"]
  /\ status' = [status EXCEPT ![j] = outcome[j]]
  /\ tabs' = [tabs EXCEPT ![TabOf(j)].active =
       IF tabs[TabOf(j)].active = j THEN NoJob ELSE tabs[TabOf(j)].active]
  /\ UNCHANGED <<call, keys, outcome, signal, stopper>>

Unregister(j) ==
  /\ task[j] = "finished"
  /\ task' = [task EXCEPT ![j] = "done"]
  /\ signal' = [signal EXCEPT ![j] = "unregistered"]
  /\ UNCHANGED <<call, keys, tabs, status, outcome, stopper>>

---------------------------------------------------------------------------
SubmissionStep(c) ==
  \/ Accept(c) \/ OpeningFails(c) \/ OpenImplicitTab(c) \/ ReservationRefused(c)
  \/ Reserve(c) \/ Record(c) \/ Register(c)

StopperStep(x) == CheckJob(x) \/ SignalJob(x) \/ MarkCancelling(x) \/ TabCloses(x)

ClientStep ==
  \/ \E t \in TabNames : OpenTab(t) \/ TabOpened(t)
  \/ \E c \in Calls : Submit(c)
  \/ \E x \in Stoppers, j \in Calls : CancelJob(x, j)
  \/ \E x \in Stoppers, t \in Tabs, force \in BOOLEAN : CloseTab(x, t, force)

\* The part of run_job around the executor.
JobStep(j) == Package(j) \/ Finish(j) \/ Unregister(j)

Next ==
  \/ ClientStep
  \/ \E c \in Calls : SubmissionStep(c)
  \/ \E x \in Stoppers : StopperStep(x)
  \/ \E j \in Calls : Start(j) \/ JobStep(j) \/ \E result \in Outcome : Executed(j, result)

Spec == Init /\ [][Next]_vars

---------------------------------------------------------------------------
(* Properties *)

\* The job has its tab, from the reservation until its task reports.
Holds(j) ==
  \/ call[j].at \in {"recording", "registering"}
  \/ task[j] \in {"spawned", "executing", "packaging", "finishing"}

\* A tab is busy with a job exactly while that job is underway: a logical tab
\* has at most one job at a time, and no end of a job, close or cancellation
\* leaves a tab busy for ever (the two-way meaning of active_job_id).
TabsFollowJobs ==
  \A j \in Calls, t \in Tabs : tabs[t].active = j <=> Holds(j) /\ TabOf(j) = t

\* Idempotency: no two jobs are made for one key, however submissions
\* overlap, and whoever is answered with a job is answered with the job that
\* was made for the very request it repeats (submit_job's key check).
OneJobPerKey ==
  /\ \A i, j \in Calls :
       /\ status[i] # "absent" /\ status[j] # "absent"
       /\ call[i].request.key = call[j].request.key
       => i = j
  /\ \A c \in Calls :
       call[c].answer \in Calls => call[call[c].answer].request = call[c].request

\* Closing is final: a closed tab is never open again and never gets another
\* job, though a submission may have chosen it before (submit_job's check of
\* the tab under the lock that reserves it).
ClosedTabsRetire ==
  [][\A t \in Tabs : tabs[t].status = "closed" =>
       /\ tabs'[t].status = "closed"
       /\ tabs'[t].active \in {tabs[t].active, NoJob}]_vars
=============================================================================

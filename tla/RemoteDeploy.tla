---------------------------- MODULE RemoteDeploy ----------------------------
(***************************************************************************)
(* Deploying downloaded archives to one remote checkout                    *)
(* (crates/jailgun-deploy).  A deploy runs on the operator's machine: it   *)
(* cleans the checkout up (cleanup.rs), stages an archive and a launcher   *)
(* script in the job's directory, starts the launcher and polls its        *)
(* status file (deploy.rs).  The launcher runs on the remote host by       *)
(* itself, so it outlives the ssh session and the deploy that started it.  *)
(* Cleanup's reset and the launcher write to the checkout under one lock,  *)
(* a directory in .git.                                                    *)
(*                                                                         *)
(* Work is a set of pieces.  A commit is the set of pieces its history     *)
(* contains; the working tree's uncommitted pieces are "tree".             *)
(***************************************************************************)
EXTENDS Naturals, FiniteSets

CONSTANTS
  Deploys,         \* calls of deploy_download
  Jobs, JobOf,     \* the job (run and tab) each deploy belongs to
  Settings,        \* cleanup policy, dry_run, ci_tracker_enabled, and whether HEAD is ahead of origin/main
  MaxErrors,       \* consecutive failed status fetches that end the polling
  MaxKills,        \* bound: processes of the remote host that die
  MaxAdvances      \* bound: commits others push to origin/main

ASSUME DeployAssumption ==
  /\ JobOf \in [Deploys -> Jobs]
  /\ MaxErrors \in Nat \ {0} /\ MaxKills \in Nat /\ MaxAdvances \in Nat

VARIABLES
  repo,       \* the remote checkout: HEAD, origin/main, tree, refs, stashes
  upstream,   \* main of the origin itself
  lock,       \* jailgun-mutation.lock: the process that made the directory
  jobs,       \* each job's directory: status.json, deploy.failed, the archive
  deploy,     \* the deploys
  launcher,   \* the launchers, named after the deploy that starts them
  setting,    \* the configuration
  kills, advances

vars == <<repo, upstream, lock, jobs, deploy, launcher, setting, kills, advances>>

Free == <<"free">>
Resetter(d) == <<"reset", d>>
Launcher(d) == <<"launcher", d>>

Base == {<<"base">>}
Pieces == Base \cup {<<"local">>} \cup ({"upstream"} \X (1 .. MaxAdvances))
               \cup ({"archive", "commit", "leftover"} \X Deploys)
RefNames == ({"preserved"} \X Deploys) \cup ({"failed", "failed-stash"} \X Jobs)
NoCommit == {}

NoStatus == [phase |-> "missing-status", moved |-> FALSE, ref |-> NoCommit, stashed |-> NoCommit]

NewDeploy == [pc |-> "cleanup", head |-> NoCommit, target |-> NoCommit,
              errors |-> 0, script |-> "none", report |-> "none"]
NewLauncher == [pc |-> "absent", pre |-> NoCommit, post |-> NoCommit, ref |-> NoCommit,
                stashed |-> NoCommit, owns |-> FALSE, ok |-> FALSE]

Dirty == repo.tree # {}
Diverged == repo.head # repo.origin

\* The dedicated checkout of a team that may have committed to it without pushing.
Init ==
  /\ setting \in Settings
  /\ repo = [head |-> Base \cup (IF setting.ahead THEN {<<"local">>} ELSE {}), origin |-> Base,
             tree |-> {}, refs |-> [n \in RefNames |-> NoCommit], stashes |-> {}]
  /\ upstream = Base
  /\ lock = Free
  /\ jobs = [j \in Jobs |-> [status |-> NoStatus, marker |-> FALSE, archive |-> "none"]]
  /\ deploy = [d \in Deploys |-> NewDeploy]
  /\ launcher = [d \in Deploys |-> NewLauncher]
  /\ kills = 0 /\ advances = 0

(***************************************************************************)
(* Steps of a deploy.  Each remote command fails without effect            *)
(* (CallFails), or takes effect and its answer arrives or is lost          *)
(* (Answered): a lost answer is an error, which ends the deploy.           *)
(***************************************************************************)
Job(d) == jobs[JobOf[d]]
At(d, pc) == deploy[d].pc = pc
Advance(d, pc) == deploy' = [deploy EXCEPT ![d].pc = pc]

\* deploy_download returns Ok or an error: what is left of the deploy is its report,
\* and the reset script it may have left running, with its arguments.
Running(d) == deploy[d].script \in {"owning", "refused", "reset"}
Returned(d, report) ==
  IF Running(d) THEN [deploy[d] EXCEPT !.pc = "returned", !.report = report]
  ELSE [NewDeploy EXCEPT !.pc = "returned", !.report = report, !.script = deploy[d].script]
Return(d, report) == deploy' = [deploy EXCEPT ![d] = Returned(d, report)]
Answered(d, row) == \E next \in {row, Returned(d, "error")} : deploy' = [deploy EXCEPT ![d] = next]

Calls == {"cleanup", "preserve", "fetch", "recheck", "reset", "verify", "upload", "compare", "start"}
CallFails(d) ==
  /\ deploy[d].pc \in Calls
  /\ Return(d, "error")
  /\ UNCHANGED <<repo, upstream, lock, jobs, launcher, setting, kills, advances>>

\* cleanup_remote_checkout: what the first snapshot decides.
Cleanup(d) ==
  /\ At(d, "cleanup")
  /\ \/ /\ Dirty \/ (Diverged /\ setting.policy = "block")
        /\ Return(d, "error")
     \/ /\ ~Dirty /\ (~Diverged \/ setting.policy = "adopt")
        /\ Advance(d, "upload")
     \/ /\ ~Dirty /\ Diverged /\ setting.policy = "preserve-reset"
        /\ deploy' = [deploy EXCEPT ![d].pc = "preserve", ![d].head = repo.head]
  /\ UNCHANGED <<repo, upstream, lock, jobs, launcher, setting, kills, advances>>

\* git update-ref NAME SHA '': the ref must not exist.
CreateRef(name, commit) ==
  /\ repo.refs[name] = NoCommit
  /\ repo' = [repo EXCEPT !.refs[name] = commit]

PreserveRef(d) ==
  /\ At(d, "preserve")
  /\ CreateRef(<<"preserved", d>>, deploy[d].head)
  /\ Answered(d, [deploy[d] EXCEPT !.pc = "fetch"])
  /\ UNCHANGED <<upstream, lock, jobs, launcher, setting, kills, advances>>

\* The receipt that names the ref, a file of the operator's machine, is on disk
\* before the fetch; the fetched target is added to it before the reset.
FetchOrigin(d) ==
  /\ At(d, "fetch")
  /\ repo' = [repo EXCEPT !.origin = upstream]
  /\ Answered(d, [deploy[d] EXCEPT !.pc = "recheck"])
  /\ UNCHANGED <<upstream, lock, jobs, launcher, setting, kills, advances>>

Recheck(d) ==
  /\ At(d, "recheck")
  /\ IF Dirty \/ repo.head # deploy[d].head
     THEN Return(d, "error")
     ELSE deploy' = [deploy EXCEPT ![d].pc = "reset", ![d].target = repo.origin]
  /\ UNCHANGED <<repo, upstream, lock, jobs, launcher, setting, kills, advances>>

(***************************************************************************)
(* guarded_reset_script, a process of the remote host: it makes the lock,  *)
(* tests what the deploy saw, resets, and removes the lock as it exits.    *)
(***************************************************************************)
ResetOwn(d) ==
  /\ At(d, "reset") /\ deploy[d].script = "none"
  /\ IF lock = Free
     THEN /\ lock' = Resetter(d)
          /\ deploy' = [deploy EXCEPT ![d].script = "owning"]
     ELSE /\ Return(d, "error")
          /\ UNCHANGED lock
  /\ UNCHANGED <<repo, upstream, jobs, launcher, setting, kills, advances>>

\* Variant: the script trusts the checks the deploy made before it had the lock.
CheckedBefore(d) == repo.origin = deploy[d].target

AsExpected(d) ==
  /\ repo.head = deploy[d].head
  /\ repo.refs[<<"preserved", d>>] = deploy[d].head
  /\ repo.origin = deploy[d].target
  /\ ~Dirty

\* git reset --hard: HEAD and the tracked files become the target's.
HardReset(commit) == repo' = [repo EXCEPT !.head = commit, !.tree = {}]

ResetChecked(d) ==
  /\ deploy[d].script = "owning"
  /\ IF AsExpected(d)
     THEN HardReset(deploy[d].target) /\ deploy' = [deploy EXCEPT ![d].script = "reset"]
     ELSE UNCHANGED repo /\ deploy' = [deploy EXCEPT ![d].script = "refused"]
  /\ UNCHANGED <<upstream, lock, jobs, launcher, setting, kills, advances>>

ResetExits(d) ==
  /\ deploy[d].script \in {"refused", "reset"}
  /\ lock' = Free
  /\ IF At(d, "reset") /\ deploy[d].script = "reset"
     THEN deploy' = [deploy EXCEPT ![d] = [deploy[d] EXCEPT !.pc = "verify", !.script = "ended"]]
     ELSE deploy' = [deploy EXCEPT ![d] = [NewDeploy EXCEPT !.pc = "returned", !.report = "error", !.script = "ended"]]
  /\ UNCHANGED <<repo, upstream, jobs, launcher, setting, kills, advances>>

\* The last snapshot, and the final receipt.
VerifyReset(d) ==
  /\ At(d, "verify")
  /\ IF Dirty \/ repo.head # deploy[d].target
     THEN Return(d, "error")
     ELSE Advance(d, "upload")
  /\ UNCHANGED <<repo, upstream, lock, jobs, launcher, setting, kills, advances>>

(***************************************************************************)
(* deploy_remote.  The job directory is the run's and the tab's: nothing   *)
(* in it is removed first, so a status file, a failure marker or a         *)
(* launcher of an earlier deploy of the same tab is still there.           *)
(***************************************************************************)
Succeeded == {"succeeded", "succeeded-ci-skipped", "dry-run-staged"}
\* The receipt is written last, and deploy_download turns its outcome into its
\* result; when it cannot be written, deploy_remote fails.
Finish(d, outcome) ==
  \E report \in {"error", IF outcome \in Succeeded THEN "ok" ELSE "error"} : Return(d, report)

UploadArchive(d) ==
  /\ At(d, "upload")
  /\ \/ /\ jobs' = [jobs EXCEPT ![JobOf[d]].archive = d]
        /\ Answered(d, [deploy[d] EXCEPT !.pc = "compare"])
     \/ /\ jobs' = [jobs EXCEPT ![JobOf[d]].archive = "partial"]
        /\ Return(d, "error")
  /\ UNCHANGED <<repo, upstream, lock, launcher, setting, kills, advances>>

\* The archive is the one that was sent, and the launcher script, the same for
\* every deploy of the job up to the archive's name, is installed.  A dry run ends here.
CompareSha(d) ==
  /\ At(d, "compare")
  /\ IF Job(d).archive = d
     THEN /\ IF setting.dryRun THEN Finish(d, "dry-run-staged") ELSE Advance(d, "start")
          /\ UNCHANGED jobs
     ELSE /\ Return(d, "error")
          /\ jobs' \in {jobs, [jobs EXCEPT ![JobOf[d]].archive = "none"]}
  /\ UNCHANGED <<repo, upstream, lock, launcher, setting, kills, advances>>

\* nohup LAUNCHER &: the shell answers at once, whatever becomes of the launcher.
StartJob(d) ==
  /\ At(d, "start")
  /\ launcher' = [launcher EXCEPT ![d].pc = "queue"]
  /\ Answered(d, [deploy[d] EXCEPT !.pc = "polling"])
  /\ UNCHANGED <<repo, upstream, lock, jobs, setting, kills, advances>>

Ended == {"done", "failed", "failed-preserved"}
\* Variant: the launcher exits with 0 after a preserving reset, so it has succeeded.
OutcomeOfExit(phase) ==
  CASE phase \in {"done", "failed-preserved"} -> "succeeded-ci-skipped"
    [] OTHER -> "failed-hard"

Outcome(phase) ==
  CASE phase = "done" -> "succeeded-ci-skipped"
    [] phase = "failed-preserved" -> "failed-preserved"
    [] OTHER -> "failed-hard"

\* A terminal status decides, once the CI of a new commit has been followed.
FetchStatus(d) ==
  /\ At(d, "polling")
  /\ LET status == Job(d).status IN
     IF status.phase \notin Ended THEN deploy' = [deploy EXCEPT ![d].errors = 0]
     ELSE IF status.phase = "done" /\ setting.ci /\ status.moved THEN Advance(d, "ci")
     ELSE Finish(d, Outcome(status.phase))
  /\ UNCHANGED <<repo, upstream, lock, jobs, launcher, setting, kills, advances>>

FetchFails(d) ==
  /\ At(d, "polling")
  /\ IF deploy[d].errors + 1 >= MaxErrors
     THEN Return(d, "error")
     ELSE deploy' = [deploy EXCEPT ![d].errors = @ + 1]
  /\ UNCHANGED <<repo, upstream, lock, jobs, launcher, setting, kills, advances>>

\* status_max_minutes pass: the deploy returns, the launcher goes on.
PollDeadline(d) ==
  /\ At(d, "polling")
  /\ Return(d, "error")
  /\ UNCHANGED <<repo, upstream, lock, jobs, launcher, setting, kills, advances>>

\* ci_max_attempts looks at the new commit's CI run: it passes or stays unknown
\* (pending, or gh fails), it fails, or gh is not installed.
TrackCi(d) ==
  /\ At(d, "ci")
  /\ \E ci \in {"succeeded", "succeeded-ci-failed", "succeeded-ci-skipped"} : Finish(d, ci)
  /\ UNCHANGED <<repo, upstream, lock, jobs, launcher, setting, kills, advances>>

(***************************************************************************)
(* The launcher, a bash script under set -e: an error, a status that       *)
(* cannot be written among them, ends in fail_now ("abort").  From the     *)
(* start of preserve_and_reset on, -e is off, and fail_now ("fail") is     *)
(* called where the script tests what it did.                              *)
(***************************************************************************)
Runs(d, pc) == launcher[d].pc = pc
Step(d, pc) == launcher' = [launcher EXCEPT ![d].pc = pc]

\* write_status: one rename; the record holds the script's variables.
StatusOf(row, phase) ==
  [phase |-> phase, moved |-> row.post # NoCommit /\ row.pre # row.post,
   ref |-> row.ref, stashed |-> row.stashed]
WriteStatus(d, row, phase) == jobs' = [jobs EXCEPT ![JobOf[d]].status = StatusOf(row, phase)]

Queue(d) ==
  /\ Runs(d, "queue")
  /\ \/ WriteStatus(d, launcher[d], "queued") /\ \E next \in {"own", "abort"} : Step(d, next)
     \/ Step(d, "abort") /\ UNCHANGED jobs
  /\ UNCHANGED <<repo, upstream, lock, deploy, setting, kills, advances>>

TakeLock(d) ==
  /\ lock = Free
  /\ lock' = Launcher(d)
  /\ launcher' = [launcher EXCEPT ![d].pc = "enter", ![d].owns = TRUE]

\* Variant: the trap that removes the lock is set before the lock is made.
OwnTrapFirst(d) ==
  /\ Runs(d, "own")
  /\ \/ TakeLock(d)
     \/ launcher' = [launcher EXCEPT ![d].pc = "abort", ![d].owns = TRUE] /\ UNCHANGED lock
  /\ UNCHANGED <<repo, upstream, jobs, deploy, setting, kills, advances>>

\* mkdir of the lock, or fail_now 47; the EXIT trap is set once it is made.
Own(d) ==
  /\ Runs(d, "own")
  /\ TakeLock(d) \/ (Step(d, "abort") /\ UNCHANGED lock)
  /\ UNCHANGED <<repo, upstream, jobs, deploy, setting, kills, advances>>

\* PRE_HEAD, then the refusals: no HEAD (48), a failure marker (45), a dirty checkout
\* (46), which a git that fails counts as; each of the two statuses may fail as well.
Refuses(d, row) ==
  /\ launcher' = [launcher EXCEPT ![d] = [row EXCEPT !.pc = "abort"]]
  /\ WriteStatus(d, row, "running") \/ UNCHANGED jobs

\* Variant: a failed deploy has left its marker, so the checkout is not looked at again.
EnterUnlessMarked(d) ==
  /\ Runs(d, "enter")
  /\ LET row == [launcher[d] EXCEPT !.pre = repo.head] IN
     \/ /\ ~Job(d).marker
        /\ launcher' = [launcher EXCEPT ![d] = [row EXCEPT !.pc = "unpack"]]
        /\ WriteStatus(d, row, "unpacking")
     \/ Refuses(d, row)
  /\ UNCHANGED <<repo, upstream, lock, deploy, setting, kills, advances>>

Enter(d) ==
  /\ Runs(d, "enter")
  /\ LET row == [launcher[d] EXCEPT !.pre = repo.head] IN
     \/ /\ ~Job(d).marker /\ ~Dirty
        /\ launcher' = [launcher EXCEPT ![d] = [row EXCEPT !.pc = "unpack"]]
        /\ WriteStatus(d, row, "unpacking")
     \/ Refuses(d, row)
  /\ UNCHANGED <<repo, upstream, lock, deploy, setting, kills, advances>>

\* tar fails on a missing or partial archive, perhaps having written some files;
\* what it extracts may also be what the checkout already holds.  rm of the archive,
\* or the status that follows it, may fail with everything extracted.
Unpack(d) ==
  /\ Runs(d, "unpack")
  /\ \E extracted \in {{}, {<<"archive", d>>}} :
       /\ extracted # {} => Job(d).archive # "none"
       /\ repo' = [repo EXCEPT !.tree = @ \cup extracted]
  /\ \/ /\ Job(d).archive \in Deploys
        /\ Step(d, "command")
        /\ jobs' = [jobs EXCEPT ![JobOf[d]].archive = "none",
                                ![JobOf[d]].status = StatusOf(launcher[d], "command-running")]
     \/ /\ Step(d, "abort")
        /\ jobs' \in {jobs, [jobs EXCEPT ![JobOf[d]].archive = IF @ \in Deploys THEN "none" ELSE @]}
  /\ UNCHANGED <<upstream, lock, deploy, setting, kills, advances>>

Produces(d, head, tree, pushes, ok) ==
  /\ ok => tree = {}
  /\ pushes => upstream \subseteq head
  /\ upstream' = IF pushes THEN head ELSE upstream
  /\ repo' = [repo EXCEPT !.head = head, !.tree = tree, !.origin = IF pushes THEN head ELSE @]
  /\ launcher' = [launcher EXCEPT ![d].post = head, ![d].ok = ok,
                                  ![d].pc = IF ok THEN "done" ELSE "preserve"]

\* The remote command, any program that keeps the work it is given: it may commit
\* the tree, push the commit, leave files of its own, and exit with any code.  It
\* is "ok" when the code is 0 and the checkout is clean (otherwise the code is 23).
Command(d) ==
  /\ Runs(d, "command")
  /\ \E leaves \in SUBSET {<<"leftover", d>>}, pushes \in BOOLEAN, ok \in BOOLEAN :
       \/ Produces(d, repo.head, repo.tree \cup leaves, FALSE, ok)
       \/ Produces(d, repo.head \cup repo.tree \cup {<<"commit", d>>}, leaves, pushes, ok)
  /\ UNCHANGED <<lock, jobs, deploy, setting, kills, advances>>

\* What is left of a launcher that is about to exit, or has died.
Left(d, pc) ==
  launcher' = [launcher EXCEPT ![d] = [NewLauncher EXCEPT !.pc = pc, !.owns = launcher[d].owns,
                                                          !.ok = launcher[d].ok]]

WriteDone(d) ==
  /\ Runs(d, "done")
  /\ \/ WriteStatus(d, launcher[d], "done") /\ Left(d, "exit")
     \/ Step(d, "abort") /\ UNCHANGED jobs
  /\ UNCHANGED <<repo, upstream, lock, deploy, setting, kills, advances>>

(***************************************************************************)
(* preserve_and_reset: each failure, git's among them, ends in fail_now,   *)
(* with the checkout as it is.                                             *)
(***************************************************************************)
PreserveHead(d) ==
  /\ Runs(d, "preserve")
  /\ LET row == launcher[d] IN
     \/ /\ row.post = row.pre
        /\ Step(d, "stash")
        /\ UNCHANGED repo
     \/ /\ row.post # row.pre
        /\ CreateRef(<<"failed", JobOf[d]>>, row.post)
        /\ launcher' = [launcher EXCEPT ![d].pc = "stash", ![d].ref = row.post]
     \/ Step(d, "fail") /\ UNCHANGED repo
  /\ UNCHANGED <<upstream, lock, jobs, deploy, setting, kills, advances>>

\* git stash push -u: the whole tree becomes a commit of the stash.
Stash(d) ==
  /\ Runs(d, "stash")
  /\ LET stashed == repo.head \cup repo.tree IN
     \/ ~Dirty /\ Step(d, "record") /\ UNCHANGED repo
     \/ /\ Dirty
        /\ repo' = [repo EXCEPT !.tree = {}, !.stashes = @ \cup {stashed}]
        /\ launcher' = [launcher EXCEPT ![d].pc = "stash-ref", ![d].stashed = stashed]
     \/ Dirty /\ Step(d, "fail") /\ UNCHANGED repo
  /\ UNCHANGED <<upstream, lock, jobs, deploy, setting, kills, advances>>

\* Variant: the answer of update-ref is ignored.
PreserveStashUnchecked(d) ==
  /\ Runs(d, "stash-ref")
  /\ \/ /\ CreateRef(<<"failed-stash", JobOf[d]>>, launcher[d].stashed)
        /\ Step(d, "record")
     \/ Step(d, "record") /\ UNCHANGED repo
  /\ UNCHANGED <<upstream, lock, jobs, deploy, setting, kills, advances>>

PreserveStash(d) ==
  /\ Runs(d, "stash-ref")
  /\ \/ /\ CreateRef(<<"failed-stash", JobOf[d]>>, launcher[d].stashed)
        /\ Step(d, "record")
     \/ Step(d, "fail") /\ UNCHANGED repo
  /\ UNCHANGED <<upstream, lock, jobs, deploy, setting, kills, advances>>

\* write_status and sync, before the reset.
Record(d) ==
  /\ Runs(d, "record")
  /\ \/ WriteStatus(d, launcher[d], "running") /\ Step(d, "reset")
     \/ Step(d, "fail") /\ UNCHANGED jobs
  /\ UNCHANGED <<repo, upstream, lock, deploy, setting, kills, advances>>

Unchanged(d) == repo.head = launcher[d].post /\ ~Dirty

\* The last checks and git reset --hard PRE_HEAD, which may itself fail.
Reset(d) ==
  /\ Runs(d, "reset")
  /\ \/ /\ Unchanged(d)
        /\ HardReset(launcher[d].pre)
        /\ launcher' = [launcher EXCEPT ![d].pc = "preserved", ![d].post = launcher[d].pre]
     \/ Step(d, "fail") /\ UNCHANGED repo
  /\ UNCHANGED <<upstream, lock, jobs, deploy, setting, kills, advances>>

\* fail_now under -e: when the status cannot be written, the marker is not reached.
Abort(d) ==
  /\ Runs(d, "abort")
  /\ \/ WriteStatus(d, launcher[d], "failed") /\ Left(d, "mark")
     \/ Left(d, "exit") /\ UNCHANGED jobs
  /\ UNCHANGED <<repo, upstream, lock, deploy, setting, kills, advances>>

\* fail_now and the end of preserve_and_reset, where -e is off: the status, if it can be
\* written, then the marker.
WriteFailed(d) ==
  /\ launcher[d].pc \in {"fail", "preserved"}
  /\ \/ WriteStatus(d, launcher[d], IF Runs(d, "fail") THEN "failed" ELSE "failed-preserved")
     \/ UNCHANGED jobs
  /\ Left(d, "mark")
  /\ UNCHANGED <<repo, upstream, lock, deploy, setting, kills, advances>>

WriteMarker(d) ==
  /\ Runs(d, "mark")
  /\ jobs' \in {jobs, [jobs EXCEPT ![JobOf[d]].marker = TRUE]}
  /\ Step(d, "exit")
  /\ UNCHANGED <<repo, upstream, lock, deploy, setting, kills, advances>>

\* exit: the trap removes the lock, when it was set.
Exit(d) ==
  /\ Runs(d, "exit")
  /\ lock' = IF launcher[d].owns THEN Free ELSE lock
  /\ launcher' = [launcher EXCEPT ![d].pc = "ended", ![d].owns = FALSE]
  /\ UNCHANGED <<repo, upstream, jobs, deploy, setting, kills, advances>>

(***************************************************************************)
(* The world: a process of the remote host dies without its traps, and     *)
(* others push to the origin.                                              *)
(***************************************************************************)
Live(d) == launcher[d].pc \notin {"absent", "ended", "killed"}
KillLauncher(d) ==
  /\ Live(d) /\ kills < MaxKills
  /\ Left(d, "killed")
  /\ kills' = kills + 1
  /\ UNCHANGED <<repo, upstream, lock, jobs, deploy, setting, advances>>

KillScript(d) ==
  /\ Running(d) /\ kills < MaxKills
  /\ deploy' = [deploy EXCEPT ![d].script = "killed"]
  /\ kills' = kills + 1
  /\ UNCHANGED <<repo, upstream, lock, jobs, launcher, setting, advances>>

OriginAdvances ==
  /\ advances < MaxAdvances
  /\ advances' = advances + 1
  /\ upstream' = upstream \cup {<<"upstream", advances'>>}
  /\ UNCHANGED <<repo, lock, jobs, deploy, launcher, setting, kills>>

\* What the operator's machine does for a deploy.
DeployNext(d) ==
  \/ Cleanup(d) \/ PreserveRef(d) \/ FetchOrigin(d) \/ Recheck(d)
  \/ ResetOwn(d) \/ VerifyReset(d) \/ UploadArchive(d) \/ CompareSha(d)
  \/ StartJob(d) \/ FetchStatus(d) \/ FetchFails(d) \/ TrackCi(d)
ScriptNext(d) == ResetChecked(d) \/ ResetExits(d)
LauncherNext(d) ==
  \/ Queue(d) \/ Own(d) \/ Enter(d) \/ Unpack(d) \/ Command(d) \/ WriteDone(d)
  \/ PreserveHead(d) \/ Stash(d) \/ PreserveStash(d) \/ Record(d) \/ Reset(d)
  \/ Abort(d) \/ WriteFailed(d) \/ WriteMarker(d) \/ Exit(d)

Next ==
  \/ \E d \in Deploys :
       \/ DeployNext(d) \/ CallFails(d) \/ PollDeadline(d)
       \/ ScriptNext(d) \/ LauncherNext(d) \/ KillLauncher(d) \/ KillScript(d)
  \/ OriginAdvances

Spec == Init /\ [][Next]_vars

(***************************************************************************)
(* Properties                                                              *)
(***************************************************************************)
Commits == SUBSET Pieces
Repos == [head : Commits, origin : Commits, tree : SUBSET Pieces, refs : [RefNames -> Commits],
          stashes : SUBSET Commits]
Phases == {"missing-status", "queued", "running", "unpacking", "command-running"} \cup Ended
Statuses == [phase : Phases, moved : BOOLEAN, ref : Commits, stashed : Commits]
JobRows == [status : Statuses, marker : BOOLEAN, archive : {"none", "partial"} \cup Deploys]
DeployRows == [pc : Calls \cup {"polling", "ci", "returned"}, head : Commits, target : Commits,
               errors : Nat, script : {"none", "owning", "refused", "reset", "ended", "killed"},
               report : {"none", "ok", "error"}]
Early == {"absent", "queue", "own", "enter", "unpack", "command", "done", "preserve"}
Preserved == {"stash", "stash-ref", "record", "reset"}
Late == {"preserved", "abort", "fail", "mark", "exit", "ended", "killed"}
LauncherRows == [pc : Early \cup Preserved \cup Late, pre : Commits, post : Commits,
                 ref : Commits, stashed : Commits, owns : BOOLEAN, ok : BOOLEAN]

\* The type invariant.
TypeOK ==
  /\ repo \in Repos /\ upstream \in Commits
  /\ jobs \in [Jobs -> JobRows]
  /\ deploy \in [Deploys -> DeployRows]
  /\ launcher \in [Deploys -> LauncherRows]
  /\ advances \in 0 .. MaxAdvances

\* Every piece of work some commit, ref, stash, the tree or the origin holds.
WorkOf(r, u) ==
  UNION {r.head, r.tree, r.origin, u, UNION r.stashes, UNION {r.refs[n] : n \in RefNames}}
Work == WorkOf(repo, upstream)

\* No step of cleanup or of a launcher loses work, committed or not, whatever
\* fails, is killed or overlaps: both reset --hard, and stash, come after the
\* refs that keep what they take away.
WorkPreserved == [][Work \subseteq Work']_vars

\* The processes that may be writing to the checkout.
Mutators ==
  {Launcher(d) : d \in {e \in Deploys : launcher[e].owns}}
    \cup {Resetter(d) : d \in {e \in Deploys : Running(e)}}

\* One process at a time writes to the checkout, and the lock is its own: a
\* launcher that is refused, and a deploy whose ssh is lost, remove no one's lock.
OneMutator == \A p \in Mutators : lock = p

\* The launchers that write to the checkout, and what one of them brings.
Writing == {"unpack", "command", "done", "preserve"} \cup Preserved
OwnWork(d) == {"archive", "commit", "leftover"} \X {d}

\* The work of two deploys is never mixed: from its PRE_HEAD to its reset, a launcher
\* finds no commit, file or stash but its own, so that what it pushes or preserves
\* under its job's name is what it brought.  A deploy may fail with its files in the
\* checkout, the lock free, and neither a status nor a marker that says so.
WorkIsNotMixed ==
  \A d \in Deploys : launcher[d].pc \in Writing =>
    /\ repo.tree \subseteq OwnWork(d)
    /\ repo.head \cup launcher[d].stashed \subseteq launcher[d].pre \cup OwnWork(d)

\* A deploy reported as successful is one whose job's command exited with 0 and
\* left a clean checkout, in some launcher of the job.
SuccessIsEarned ==
  \A d \in Deploys : deploy[d].report = "ok" /\ ~setting.dryRun =>
    \E e \in Deploys : JobOf[e] = JobOf[d] /\ launcher[e].ok

\* What failed-preserved promises: the commits and the files the launcher took
\* out of the checkout are in refs that the status names.
PreservedIsNamed ==
  \A j \in Jobs : LET s == jobs[j].status IN s.phase = "failed-preserved" =>
    /\ s.ref # NoCommit => repo.refs[<<"failed", j>>] = s.ref
    /\ s.stashed # NoCommit => repo.refs[<<"failed-stash", j>>] = s.stashed
=============================================================================

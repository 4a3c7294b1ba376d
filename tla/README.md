# Jailgun: a TLA+ verification

Jailgun drives chat conversations in managed browsers. A *concept run* explores
a question with several conversations in parallel (candidates), then compares,
synthesizes, critiques and revises their answers in four more conversations.
Submissions cost the account's budget and cannot be taken back, conversations go
on in the browser when the daemon dies, and accounts are shared between runs.
The part of the program that keeps all this consistent is a ledger in SQLite
(`crates/jailgun-workflow`); around it stand an asynchronous engine, one browser
bridge per account, and an older scheduler of archive runs.

This directory holds TLA+ models of that code, model-checked with TLC and proved
about with TLAPS: of the ledger and the engine around it, of the browser bridge, of the MCP
worker, of archive runs with the browsers they share, the leases they take, and the deploys they end in.
`PROJECT.json` maps every modelled definition to source lines.

## 1. Inventory

| Component | State it keeps | Operations | What makes it correct |
|---|---|---|---|
| **Workflow store** `jailgun-workflow/src/{scheduler,runs,recovery,accounts,artifacts}.rs` | SQLite: accounts, runs, tasks, attempts, reservations, events, artifacts | submit, suspend, resume, cancel, claim, begin_submission, accepted, fail_attempt, acknowledge_cancel, capture, preserve_partial, recover, resume_reattached, account_expired, rate_limited, verify_account, confirm_account | capacity is exact and respected; one live attempt per task; stages in order; budget charged before the provider is called; pacing, cooldown and deadline hold; a pause holds through recovery; a finished run is final |
| **Login sessions** `account_sessions.rs` | one login row per account | login_state, observe_account, confirm_account | a cancelled or mismatched login is not overridden by a late probe |
| **Store thread** `store.rs` | a queue of 64 commands, one writer | enqueue, execute in one transaction | operations are atomic; a full queue refuses |
| **Concept engine** `concept/engine.rs`, `engine/worker.rs` | map of active workers; one task per attempt | tick (reap, stop, claim), execute, capture, recover, quiesce | every reservation has a worker or a reason not to; nothing is submitted twice; slots are eventually freed |
| **Bridge RPC and page ownership** `concept/rpc.rs`, `apps/chrome-bridge/bin/concept-bridge.mjs` | pending calls; owned pages with a phase | prepare, reattach, submit, capture, stop, close | a page is submitted once, and closed only when its answer is durable or it never submitted |
| **Account supervisor** `concept/supervisor.rs`, `supervisor/observe.rs` | watcher task, bridge and control lock per account | start, reconnect, confirm, cancel_login, refresh, watch | an account is ready only for an identity that was observed; cancelled logins stay cancelled |
| **Browser leases** `browser_registry/leases.rs` | a JSON file of leases under an interprocess lock | try_acquire, release, purge_stale, claim_workflow_profiles | tabs handed out never exceed an account's maximum; archive and workflow use of a profile exclude each other |
| **Worker service** `jailgun-server/src/worker/` | jobs, tabs, objects, uploads, cancellations in separate locks | open/close tab, submit/cancel/run job, put/get object | a key makes one job and one turn; a tab runs one job; every job reports; uploads commit once |
| **Archive runs** `jailgun-orchestrator/src/run/` | launch scheduler, tracker, deploy queue | launches, bridge messages, downloads, deploys, completion, cancellation | prompts are submitted one after the other; the run ends, and only when every tab has |
| **Chrome bridge of archive runs** `apps/chrome-bridge/bin/chrome-bridge.mjs` | the managed Chrome of a profile and its lock files; each tab's command, page, target file and evidence | join, start, restart and stop Chrome; open, upload, submit, monitor, download, recover, close | every tab reports once what became of it; no artifact is left behind; the Chrome a bridge started is stopped |
| **Remote deploy and cleanup** `jailgun-deploy/src/` | remote checkout, refs, lock directory, receipts, job status files | cleanup_remote_checkout, deploy_remote, launcher script | no work of the checkout is lost; one writer at a time; success is only reported of a job that succeeded |
| **Agent runs** `agent/`, `jailgun-server/src/runs/` | the run's snapshot, its lease, its summary | submit, acquire, start, collect, summarize | a failure that was shown is not retracted; the lease comes back |
| **HTTP, MCP, dashboard API** `jailgun-server/src/` | pairing codes, sessions, event bus | pair, authorize, handlers over the store | codes work once and expire |
| **Installation** `jailgun-core/src/{installation,managed_installation}.rs` | files, ownership records | install, update, remove | a failed step leaves an owned, recoverable tree |
| Notifications, CLI, dashboard UI, DOM adapter, fixtures | none that others rely on | | not modelled |

How they interact: the engine's tick calls the store and spawns a worker per
claimed attempt; a worker calls the store (atomic, durable) and the bridge
(asynchronous, may time out while the page goes on) in turn; the supervisor's
watchers verify accounts, which makes runs claimable, attach bridges to the
engine and trigger recovery; HTTP and MCP handlers call the store directly, at
any moment between two steps of a worker. A restart kills every worker and
bridge and keeps the database.

The hard behaviours are therefore: operations that arrive late (a capture after a
cancellation, a failure after a restart); a restart between charging a
submission and learning whether it was accepted; two statuses of a run
overlaid (paused and being reconciled); capacity shared by runs whose own state
changes; time passing between a check and its use. `PROJECT.json` lists them as
hazards, each at its line.

## 2. Plan

The most important behaviour first: the ledger, then what runs around it.

1. **WorkflowStore**, the ledger and scheduler (section 3). Done.
2. **BrowserPages** and **ConceptEngine**: the bridge's owned pages; workers, tick,
   recovery and restarts, composed with the store and the bridge (section 4). Done,
   except a bridge that dies while the daemon goes on.
3. **WorkerJobs** and **WorkerExecutor**: jobs and tabs of the worker service, one
   action per stretch of code under one lock, composed with `BrowserPages` (a second
   use of the same bridge; section 5). Done. **WorkerObjects**: an upload is committed once. Next.
4. **BrowserLeases**: the lease file under its interprocess lock, with owners that die and
   workflow profiles. Done.
5. **TabProtocol**, **ArchiveRun** and **AgentRun**: what the bridge promises about a tab; the loop of an
   archive run, its bridge and its deploys; the server's run around it, composed with the leases
   (section 7). Done. **ManagedChrome** and **BridgeTab**: the bridge that keeps that promise (section 8). Done.
6. **RemoteDeploy**: preservation and reset of a shared checkout, as remote steps between
   which a process may die or commit (section 6). Done.
7. **AccountSupervisor**: watchers, login sessions, probes whose answer is used after other
   operations ran, and the death of a bridge; composed with WorkflowStore's account operations.
8. **WorkflowSchema**: what the database below the store accepts, and which calls of its handlers
   it refuses (section 3). Done.
9. Proofs (section 9). Done: every safety property a passing run checks, of the ledger, the engine, the
   worker service, the deploys, the bridge, archive and agent runs and their leases; which calls the
   database refuses; the implementations of the store by the engine, of the jobs by the executor, and of `TabProtocol` by the bridge. Liveness stays with TLC.

## 3. WorkflowStore

### Correspondence

Every `Store` method is a closure run by one thread in one transaction
(`store.rs`), so it is one atomic action; a method that returns an error leaves
the database as it was and is a stuttering step, so an action's guard is the
conjunction of the checks that lead to success. Where a method commits several
statuses at once (claim pauses expired runs, verification requeues waiting runs)
the action does too.

| Variable | Table and column |
|---|---|
| `account` | `accounts`: readiness, next_submit_ms, submit_allowed_ms, cooldown_until_ms, rate_limit_count |
| `runStatus`, `recovery`, `deadline`, `submissions`, `subset` | `runs`: status, recovery_status, deadline_ms, submissions, allow_incomplete |
| `turn` | the order of the runs' latest `attempt-prepared` events, which claim sorts by; renumbered densely so that it is bounded |
| `taskStatus`, `attempts` | `tasks`: status, attempts |
| `attemptState`, `acceptedAt` | `attempts`: state, accepted_ms, by task and number |
| `reservations` | `reservations`: attempt and spacing |
| `now` | the clock argument every method takes |

Abstracted: texts, digests, artifacts and events (except the one that orders
claims); a response is one of four verdicts of `validate_capture`; the four
reduction stages are a chain of `Reductions` tasks, the candidates `1..Candidates`;
a run stands for its idempotency key. The CHECK constraints are the type invariant, so a step that would violate one
shows as a violation of `TypeOK`. The guards are the handlers' own, with one
exception: `fail_attempt` (`FailCall`) does not exclude a prepared attempt that is
called uncertain, and the trigger `checked_attempt_transition` aborts it (`Aborted`).

The database has rules of its own: triggers for the transitions of an attempt, for the capacity
of an account, for what a run never changes, and checks on rows. `WorkflowSchema` states them, a transaction
as one step, without a word on who writes: an abstract specification of which WorkflowStore has an instance (`Schema`).
`OneCallRefused` (proved) says which calls of the handlers, with no other guards than their own, the database turns into an
error: that failure of a prepared attempt as uncertain, and no other call of any handler. The engine makes that call, which is
finding 3. That what is committed keeps the schema (`CommitsKeepSchema`) is a consequence.

Callers are unconstrained: any lease ever handed out can be presented again, in
any order, with any verdict, before and after restarts. Everything that holds
here holds whatever the engine does.

### Runs and bounds

| Run | Instance | Shows |
|---|---|---|
| WorkflowExplore | 1 run, 2 parallel candidates, 2 reductions, up to 2 attempts per task, 2 attempts beyond one per task; time stands still | exact reservations, one live attempt, stage order, final answers, the charged budget, and that a pause holds through reconciliation |
| WorkflowSharing | 2 runs on one account of capacity 1, 3 attempts in all | capacity, no missed verification, runs take turns |
| WorkflowClock | 2 parallel candidates, clock 0..2, spacing 1 with jitter 0..1, cooldown 1, deadline 2, response timeout 1 | pacing, cooldowns, deadlines |
| WorkflowUncertainResume (violation) | as WorkflowExplore | finding 1 |

Why the bounds are enough: two parallel candidates are the fewest in which one
attempt of a run is settled while another is still uncertain; an extra attempt
is the fewest that gives a retry, and two let two tasks have one; two reductions give the
first and the last stage of the chain (the proofs are for any number); two runs of one slot
give contention, and three attempts an overtaking.
Time is only let pass where a property is about time; elsewhere it would multiply
the same states. `ExploredReadiness` and the attempt totals are state constraints
(bounds on what is explored, not on what may happen), `MaxNow` and `MaxLimits` are
guards. Every property is a safety property, so constraints are sound.

What several steps must remember is kept in history variables, not in the model. Each group has a module that
extends WorkflowStore with them, so that the runs check and the proofs prove the same formula: `WorkflowPause` (`held`: paused
and not resumed since), `WorkflowTurns` (`overtaken`), `WorkflowClock` (`submittedAt`, `announced`). The
variables only record what the store's step did: every behaviour of `Spec` has its history.

No fairness is assumed of the ledger: it is passive, and what must eventually
happen is shown of the engine.

### Findings

1. `artifacts.rs:86`: a capture whose model differs from the requested one writes
   `paused` over the status that `settle_reconciliation` left. If another attempt of
   the run is uncertain the run is out of `reconciliation-required`, and the
   operator's resume queues it with that submission unresolved, which
   `docs/concept-workflows.md:93-94` and `recovery.rs:13-14` rule out. Nothing else does: without that one step
   the property holds (`OnlyMismatchUnblocks`, section 9).

A limit that no run is spent on: `account_expired` (`accounts.rs:100`), called for every account at
start-up, overwrites the readiness `paused`; once the cooldown is over the automatic probe verifies the
account, although `docs/concept-workflows.md:74` says repeated limits require operator attention.

## 4. ConceptEngine and BrowserPages

### Correspondence

`BrowserPages` is one bridge process and the provider behind it, per attempt. A command
is an asynchronous handler (`concept-bridge.mjs`, `handle`), so a page may have several in
progress, and its caller may have stopped waiting.

| Variable | Code |
|---|---|
| `page` | the entry of `owned`: its phase, whether a capture of it finds its signal raised when it looks, its cached stop, and the provider's record of the submission (`active`) |
| `handler` | commands in progress whose own state nothing else shows: opening or navigating a page, closing it |
| `answer` | `pending` in `rpc.rs`: what each caller waits for or was told; a late reply is dropped |
| `sent`, `conversation` | what the provider has: prompts received, and whether it still generates |

`ConceptEngine` extends `WorkflowStore` with the tasks of the daemon.

| Variable | Code |
|---|---|
| `worker` | the position of the task of each attempt in `active`: one value per await of `execute` and `capture`, and `done` or `error` for a task that ended |
| `stopRequested` | the flag of the same name |
| `engine`, `visit`, `reattached` | what the holder of the engine's mutex is doing: the loops of `tick` and `recover`, and what they have yet to look at |
| `attached`, `toRestore` | the engine's map of bridges, and the accounts `restore_accounts` has yet to check |

Steps are split at every await that lets something else run: each call of the bridge is
a step that calls and a step that acts on the answer, each store operation is one step
with what the task does around it, and each iteration of a loop under the engine's mutex
that awaits is a step. The store itself is only changed through WorkflowStore's operations,
one per step: the actions are built that way, and `EngineImplementsStore` only makes the theorems of the store
available to the engine's. What the engine must do for the store is stated of its own: when recovery gives a run back
to the scheduler, each conversation the run holds has a worker again (`ResumedIsAttended`).

Not split: a read of the run followed by `begin_submission`, because the second
transaction checks everything again and a refusal starts the loop over. Also one step:
a verification together with the attachment of the bridge and the choice of what to
recover, which `probe_account` does under the engine's lock.

Abstracted: texts and pages of the provider; a browser operation ends with an outcome that
the worker tells apart (`ok`, `failed`, `model`, `expired`, `limited`, `not-accepted`), and
an unreadable reply is `failed` (an unreadable capture ends its worker with an error, and the next tick records the same); a full or closed command queue (64) is `Unreachable`; two
openings of a page for the same attempt and operation count as one; jitter is WorkflowStore's.

Not modelled here: a bridge that dies while the daemon lives (the supervisor detaches
it); `quiesce`, which is a restart to the store.

### Runs and bounds

| Run | Instance | Shows |
|---|---|---|
| EngineAttempt | 1 run, 1 attempt, every status of the run, a restart at any point, every failure and timeout of an operation, clock 0..1 with the deadline and the response timeout at 1, **fair** | `ClosedOnlyWhenStored`, `EveryConversationEnds` |
| EngineTwoAttempts | 2 candidates or a retry, capacity 1, 1 restart | `SentAgainOnlyAfterSettled`, `ProviderLoadBounded`, `ResumedIsAttended` |
| EngineStopRace (violation) | 1 attempt of a run that may be cancelled | finding 2 |
| EngineFailedClose (violation) | as EngineStopRace | finding 3 |

One attempt is enough where the property is about one attempt and everything that may
happen to it: workers of different attempts meet only in the store (whose own runs have
several runs, candidates and attempts) and in the account's capacity, for which EngineTwoAttempts
has two. One restart is enough because a restart leaves of the past only the store and what the
provider received, and the runs reach all of those before it. `MaxRestarts`, `MaxNow` and
`MaxLimits` are guards; everything else is bounded by the constraint `Bounded`, which ends the exploration

- in every run, when an attempt beyond `MaxTotal` is claimed, so that the leads-to of EngineAttempt is about the first attempt, and
  when nothing is left to happen: every attempt is used, none has a worker or can have one again, no page is being
  closed and no prompt is on its way (`AllEnded`), which loses nothing;
- in EngineAttempt, when the run is paused or waits for a login after a restart *and* after its deadline (`ExploredLate`).
  Pauses and waits are explored before the deadline with and without a restart, and after it without one, with a worker at every
  point of its way; with the rest included the run also passes, in a little under the five minutes it may take.
  An account with a worker is ready or expired: a mismatch or a pending login is to the engine what an expiry is, and
  without limits (`MaxLimits` 0) there is no cooldown;
- in EngineTwoAttempts, when the run is cancelled, paused, waiting for a login or over
  (`ExploredStatus`), an account with a worker is not ready, or has met a limit twice (`ExploredLimits`): two attempts with
  all of these are beyond five minutes. There `ResumedIsAttended` is checked with one conversation at a time, which may be reattached and
  fail before the run goes on; for several at once it is the theorem `ResumedRunsAttended`. `EngineStopRace` and `EngineFailedClose` need no restart and no failed run.

What is checked with the cuts of the third kind, and `ClosedOnlyWhenStored`, are theorems as well (section 9), without any bound;
`EveryConversationEnds` is checked with the first two only.

### Fairness

- Weak fairness of each worker's step: the task is spawned on the runtime, the store answers, and
  every call of the bridge is answered or times out (`rpc.rs:132`).
- Weak fairness of the steps under the engine's lock, for the same reason.
- Strong fairness of `TickBegins`: the scheduler ticks in a loop and tokio's mutex is a FIFO
  queue, so recoveries cannot keep the tick out for ever although they keep taking the lock.
- Weak fairness of restoring accounts: `restore_accounts` is a loop that is awaited.
- Nothing of the bridge, the provider, the accounts or the operator: they may
  never answer, and the result holds all the same.

`EveryConversationEnds` needs the call timeouts: with a wait that never ends it fails (its
mutant). It is stated for workers that passed `begin_submission` or whose run is
cancelled: before that a worker waits for its account as long as the run allows, by design.

### Findings

2. `concept-bridge.mjs:152`: a stop is cached as a promise, and succeeds at once while no submission
   has begun. When the tick stops a cancelled run's page between the worker's `begin_submission` and its
   `concept.submit`, the prompt is still sent; the worker's own stop later gets the cached success
   and the capture releases the reservation while the provider generates.
   `db/constraints/README.md:18-20` says capacity is kept until the conversation has stopped.
   This order of stop and submit is the only cause (`OnlyLateSubmitsEscape`, section 9).
3. `engine.rs:77`: a cancelled run whose prepared page cannot be closed leaves a worker with an
   error; the reaper fails the attempt as uncertain, which the transition trigger refuses for a
   prepared attempt (`OneCallRefused`), so the tick fails and the daemon ends with every browser. `rpc.rs:141` says that
   an individual run never restarts the shared browser.
   The scheduler fails in no other way (`OnlyCancelledFails`, section 9).

Limits of the design that no document contradicts: an uncertain attempt whose worker has ended
keeps its slot, and so does an accepted one that could not be reattached, until the account verifies
again and a page can be reattached, because nothing but a worker releases a reservation
(`acknowledge_cancel` is only called for a prepared page); a page that opens after
its `prepare` timed out stays owned and counts against the ten pages.

## 5. WorkerJobs and WorkerExecutor

### Correspondence

The MCP worker (`jailgun-server/src/worker`) runs one prompt per job in a logical tab. Every tool
call is a task, and every job is one; they share `WorkerState` behind a read-write lock that each takes
for one access at a time, so one such access is one step and everything may happen between
two. `WorkerJobs` models `jobs.rs` and `tabs.rs` for any executor.

| Variable | Code |
|---|---|
| `call` | `submit_job`: how far it is, the request, the answer (a job, or an error); the `submissions` mutex is held in the stages `Submitting` |
| `keys` | `idempotency`: the job of each key; the digest is the job's request |
| `tabs` | `tabs`: status and `active_job_id`; `opening` and `lost` is a workspace directory without a listed tab |
| `status` | `jobs`: the status clients read |
| `task`, `outcome` | `run_job`: how far it is, and what it will report |
| `signal` | `cancellations`: the watch channel of a job |
| `stopper` | `cancel_job` and `close_tab` in flight |

`WorkerExecutor` puts `executor.rs` between them and `BrowserPages`, with the job's id as attempt.

| Variable | Code |
|---|---|
| `executor` | the await at which `execute` of each job waits, `none` outside it |
| `verdict` | `terminal_kind`, or what `execute` is about to return after closing the page |

Steps are split at each call of the bridge: one that calls, one that acts on the answer. `run_job` limits
the whole execution; when the limit passes the future is dropped wherever it waits, its answers go
nowhere and the bridge goes on (`RunTimesOut`). `select!` may see a cancellation that is already there
before the capture is first polled, so a stop may precede its capture.

Abstracted: a job and an implicitly opened tab have random names and are named after the submission
that makes them; errors of a submission are one answer; `failed` stands for every browser
failure, since authentication failures only change the account's status; the jobs' time limits are
nondeterministic, with what their order rules out left out (a capture may take longer than
the job's timeout and the stop after it, so it never reaches a limit of its own). A restart forgets
everything (`docs/worker-mcp.md`), which is a new behaviour of the specification.

Not modelled: a tab's model settings, the account's counter of active tabs (recomputed from the tabs
whenever accounts are refreshed), the account's status, uploads and objects (planned).

### Runs and bounds

| Run | Instance | Shows |
|---|---|---|
| WorkerExecutor | 2 submissions, 2 keys, a named tab and implicit tabs, 1 cancellation or close at a time, 1 page, **fair** | `TabsFollowJobs`, `OneJobPerKey`, `OneTurnPerKey`, `CompletedIsWhole`, `CancelledInTime`, `EveryTaskEnds` |

Two submissions are the fewest that repeat or contradict each other or compete for a tab, and with one key the
second one meets the first one's job in every stage of it. How they compete does not depend on what the
browser does, so the run goes through the browser only where one request is repeated and opens a tab of its own;
the other pairs (`Instances`) end with the start of their executors (`Focus`). The leads-to of such a pair is cut
there too: `EveryTaskEnds` is about the repeated request. One stopper at a time is enough to find it
between any two steps of the others; it may act again and again. The theorems of section 9 hold
for any number of each. Once every submission is answered and every job has reported nothing need
happen, so deadlock is not checked.
The history variable `inTime` of `WorkerCancellation`, which extends WorkerExecutor, remembers the jobs that were told to stop
before their page was prepared.

### Fairness

Weak fairness of each submission that waits for the mutex or holds it, of `run_job` around the executor, and of the
executor: they are tasks on the runtime, and every wait of the executor ends with an answer, the call's
timeout or `run_job`'s limit. Weak fairness of a waiting submission is justified because tokio's mutex is
fair and its holder always goes on. Nothing is assumed of clients, the browser or the provider.

`EveryTaskEnds` is about the task of a job and what it holds, not about what clients are shown of it.

### A disagreement with the documentation

`cancel_job` reads the status, waits for two locks and writes `cancelling` over what it has become, also over a
terminal status (`MarkCancelling`, `jobs.rs:142`); such a job is shown as cancelling for ever. `docs/worker-mcp.md:388` says that
cancelling a terminal job is safe and returns its current state, and :226-227 that `cancelling` is an intermediate state.
The model has this step, and the invariants are stated on what the task reported (`outcome`), which it does not touch. No run
is spent on it: whatever one says of the shown status of a finished job fails by that step alone.

Limits that no document contradicts: a submission that fails, or whose caller is dropped by `run_job`'s limit, leaves its page
owned, and a conversation that may be generating is not asked to stop; and an unforced close
that raced a reservation closes a tab whose job goes on (the job still reports, and releases the tab).

## 6. RemoteDeploy

### Correspondence

`deploy_download` runs on the operator's machine: `cleanup.rs` brings the remote checkout to a known commit, then
`deploy.rs` uploads the archive and a launcher script (`launcher/script.rs`), starts it and polls its status file.
The launcher is a process of the remote host that outlives the ssh session. Each ssh command is a step, and each command of
a script that another process can interleave with; a command that takes effect may lose its answer.

| Variable | Code |
|---|---|
| `repo` | the checkout: HEAD, origin/main, uncommitted work, the refs jailgun makes, stash commits |
| `upstream` | main of the origin, which others push to |
| `lock` | the directory `.git/jailgun-mutation.lock`, by the process that made it |
| `jobs` | each job's directory: status.json, deploy.failed, the archive |
| `deploy` | `cleanup_remote_checkout` and `deploy_remote`, with the guarded reset script they start |
| `launcher` | the launcher script: position and its shell variables |

Work is a set of pieces, a commit the set of pieces its history contains, and the tree the uncommitted ones.
The remote command of the configuration is any program that keeps the work it is given: it
may commit, push, leave files, and exit with any code.

Abstracted: contents and names (a piece is all that can be lost), the receipt's and the status's display fields. Not modelled: the stages
of the tracker of CI runs (its verdict is a choice), the log tail, and the display events of a deploy.

### Run and bounds

| Run | Instance | Shows |
|---|---|---|
| RemoteDeploy | 2 deploys of one job, 4 settings (policy, dry run, CI, HEAD ahead of the origin), 1 death, 1 push by others, polling gives up at the first error | `WorkPreserved`, `OneMutator`, `WorkIsNotMixed`, `SuccessIsEarned`, `PreservedIsNamed` |

Two deploys of one job are the fewest that compete for the lock and share a job directory, and the second finds
what the first one left, at any point of it. They differ only in their archives, so their symmetry is sound (no
property is temporal beyond one step). One push is the fewest that makes a fetched target stale. Any of the processes
may stop for ever, so deadlock is not checked, and nothing is assumed to be fair. A deploy that gives up polling is the
same after any number of errors, and an error before that changes only the count, so one is enough here (the theorems of section 9
hold for every `MaxErrors`).

Every status and marker of the launcher may fail to be written (a full disk is enough). Where `set -e` is on (`Abort`), `fail_now` then exits
at its own status and never reaches the marker; inside `preserve_and_reset`, which turns `-e` off (`WriteFailed`), it goes on to a
marker that may fail too. The EXIT trap removes the lock in every case. So a limit of the code, which no document contradicts:
**a checkout may be dirty, its lock free, and no job's status or marker say so** (the archive is extracted, the disk full, and
neither `command-running` nor `failed` can be written). The marker is therefore not what keeps deploys apart, and no property says it is.
What does is the look at the checkout that each launcher takes once it has the lock. `WorkIsNotMixed`
states the result: from there to its reset, a launcher has no commit and no file but its own before it, so that what it pushes,
or preserves under its job's name, is what it brought. A launcher that looked at the marker alone
breaks it (the mutant `EnterUnlessMarked`).

A limit no document contradicts: nothing in the job's directory is removed before a new deploy of the same tab,
so the first poll may find the status `done` of the earlier one and return its success (`shell/job.rs:100`).
`SuccessIsEarned` is therefore about the launchers of the job and not of the deploy.

## 7. BrowserLeases, ArchiveRun and AgentRun

### Correspondence

`BrowserLeases` is the account registry and the lease file: each operation rewrites one file under its file lock, and
is one step; a record of a holder whose process died is purged by a later operation (or kept, when its process id is in use again).
`ArchiveRun` is one run's loop (every branch of the `select!` of `drive_run`) with the bridge it starts. `AgentRun`
composes both with the server's run, and with runs of other processes.

| Variable | Code |
|---|---|
| `status`, `claimed`, `leases` | the registry's accounts, the profiles' owner markers, the lease records |
| `phase`, `shutdown` | where `drive_run` is, and what its handle was told |
| `nextTab`, `waiting`, `scheduled`, `timers` | `LaunchScheduler` and its sleeping launches |
| `downloaded`, `deployed`, `terminal`, `expired`, `failures` | `RunTracker` and the summary's failures |
| `job`, `results` | the deploy of each tab and results not received yet |
| `tab`, `pipe`, `reports`, `bridge` | the command each tab of `chrome-bridge.mjs` is at, its output (as `TabProtocol` has it), its process |
| `published`, `shown` | status events not received yet, and the status of the server's snapshot |
| `agent`, `requested`, `outcome` | where `execute_agent_run` is, its accounts, its summary's status |

What a page shows (an acceptance, an artifact, an expired session, an error) is the environment's choice. A deploy
is one task; section 6 says what it does. A lease lasts ten minutes more than the run's maximal runtime, so
it does not expire under its holder.

Not modelled: the display state of tabs and of the deploy queue (`tab.rs`, `deploy_queue.rs`), sign-in and
GitHub prompts inside a page, the review before a run, and runs of the command line.

### Run and bounds

| Run | Instance | Shows |
|---|---|---|
| AgentRun | 2 accounts of 2 and 1 tabs, this run and one of another process, 2 tabs, 1 deploy at a time, one fault per run (a damaged message, a dead bridge or a lagging collector), **fair** | `LeasedWithinLimit`, `ClaimedIsNotLeased`, `LaunchedOneAtATime`, `SucceededIsWhole`, `FailureIsNotRetracted`, `EveryRunEnds` |

Different limits make the allocation choose, and 3 tabs for two runs of 2 make them compete. Two tabs are the fewest
in which one is launched after another. Others act on registry and leases until the bridge is ready
(`OthersDuring`), and beyond that point only states in which every account is ready and nothing is
claimed, leased elsewhere or left by a dead process are explored (`Focus`), with one mishap per run and
at most two messages of the bridge unread: the archive run reads none of the rest, so
its behaviours are the same from any of the others, and what the others do to each other is explored before it.
Finished runs do nothing more, so deadlock is not checked.

### Fairness

Weak fairness of the run's loop, of each tab of the bridge and each deploy (all of their waits have limits of their own), and of
taking and returning the summary. The deadlines of the run and of the agent are *not* assumed to come, since `EveryRunEnds`
is about runs that end without them. It leaves out runs whose session expired and messages that were
damaged; both may leave the loop with a tab nothing more is heard of until its deadline.

### Limits of the design that no document contradicts

- A session that expires when the next launch is already scheduled clears the schedule (`launch.rs:89`).
- The bridge is given five seconds to drain and is killed after five (`run/mod.rs:240`), while its shutdown may take longer.
- The lease is returned while the bridge may still be closing its pages.
- An error after a tab's download completes the run while the deploy still runs (`bridge_events.rs:147`).
- Two submissions of one run id may both pass the check that it is new (`runs/mod.rs:91`).
- Events that arrive after the summary was taken are missing from the event file (`execute.rs:149`).

## 8. ManagedChrome and BridgeTab

### Correspondence

Section 7 takes the messages of a tab from `TabProtocol`. `BridgeTab` is that tab in the program that sends them,
and `ManagedChrome` the Chrome it drives, which bridges of other processes may join, restart and close.

| Variable | Code |
|---|---|
| `chrome`, `locks` | the process that has the profile, and the profile's singleton files |
| `recorded` | `managed-browser.json` |
| `bridge` | one process of `chrome-bridge.mjs`: where `ensureBrowser` or `shutdown` is, the process it started, the one it is connected to, the one it is stopping |
| `cmd` | the command of the tab's queue, or the part of `monitorTab` |
| `page`, `answer`, `offer` | the page of the tab; what the provider shows on it: the state of the answer, a link to the artifact |
| `seen`, `from`, `links`, `why`, `tried`, `unread` | what the tab found out: candidates at its last look, where it takes the artifact from, conversations left to look through, the reason it gives up |
| `target`, `evidence`, `full` | the file it downloads to; receipt and failure bundle; a disk that takes no more |

Each call of the page is a step that may fail where the page is lost or its Chrome is gone. Attempts
to fill the target file (the browser's own, the copy from its temporary file, the copy from the Downloads
directory) are one step whose outcome is any file the sequence of attempts may leave: the next is only made where the one
before left nothing. `TabProtocol` abstracts all this to the order of messages, and the run checks that it does.

Abstracted: selectors and texts; waiting times (a deadline may come at any look); dismissals other than an expired session.
Not modelled: displays and Xvfb, ports of other profiles, the page that is left by a failed `goto`, signing in, a
shutdown that arrives during start-up, and an evaluation in the page that never returns (Playwright has no limit for it).

### Run and bounds

| Run | Instance | Shows |
|---|---|---|
| ChromeBridge | 2 bridges of one profile, 3 Chrome processes, one tab, 1 conversation to recover from, **fair** | `FollowsProtocol`, `NoArtifactLeftBehind`, `EvidenceBeforeClose`, `DeliveredIsKept`, `StartedChromeIsStopped`, `EveryTabSettles` |

Two bridges are the fewest that join, restart and close each other's Chrome, and three processes let each restart
once what it found or started. Their interplay is explored in every combination without a tab; a tab only sees whether its
Chrome answers, so it is explored with its bridge alone, whose Chrome may crash or be closed at any step (`Focus`).
One conversation to recover from is the fewest that lets a download from another page fail or find an expired session.
Bridges that have ended do nothing more, so deadlock is not checked. Fairness is that the tab's task goes on (its browser
calls have limits of their own) and that its deadline comes.

### Limits of the design that no document contradicts

- A bridge that restarts or closes the Chrome it shares closes the pages another bridge works on.
- A Chrome killed at the end of its three seconds leaves its lock files, and the next start refuses the profile
  (`docs/worker-mcp.md:418-419` tells the operator what to do).
- The recorded process id may belong to another process by the time a restart signals it.
- A file of the right kind in the Downloads directory is taken for the tab's own (`foreign`).

## 9. Proofs

| Theorem | Module | Statement |
|---|---|---|
| `TypeCorrect` | WorkflowStoreProofs | `Spec => []TypeOK` |
| `ReservationsExact` | WorkflowStoreProofs | `Spec => []ReservedExactlyWhileLive` |
| `LatestAttemptOnly` | WorkflowStoreProofs | `Spec => []OnlyLatestAttemptLive` |
| `AnswersFinal` | WorkflowPipelineProofs | `Spec => []CompletedAnswerIsFinal` |
| `SubsetFrozen` | WorkflowPipelineProofs | `Spec => []SubsetIsFrozen` |
| `StagesInOrder` | WorkflowPipelineProofs | `Spec => []PipelineOrder` |
| `CompletedRunsWhole` | WorkflowPipelineProofs | `Spec => []CompletedRunIsWhole` |
| `TerminalRunsFinal` | WorkflowPipelineProofs | `Spec => TerminalIsFinal` |
| `BudgetCharged` | WorkflowPipelineProofs | `Spec => []SubmissionsCharged` |
| `CapacityKept` | WorkflowPipelineProofs | `Spec => []CapacityRespected` |
| `LoginsNotMissed` | WorkflowPipelineProofs | `Spec => []NoMissedVerification` |
| `OneCallRefused` | WorkflowPipelineProofs | `RowsHeld /\ Call => (Schema!Transaction <=> ~FailsPrepared)`, and `Spec => []RowsHeld` |
| `CommitsKeepSchema` | WorkflowPipelineProofs | `Spec => Schema!SchemaSpec` |
| `OnlyMismatchUnblocks` | WorkflowPipelineProofs | `MatchingSpec => []UncertaintyBlocksResume` |
| `TurnsTaken` | WorkflowHistoryProofs | `TurnSpec => TurnsAlternate` |
| `PausesHold` | WorkflowHistoryProofs | `PauseSpec => PauseHolds` |
| `SubmissionsPaced` | WorkflowHistoryProofs | `ClockSpec => SubmissionsSpaced` |
| `CooldownsKept` | WorkflowHistoryProofs | `ClockSpec => CooldownBlocksSubmissions` |
| `DeadlinesHold` | WorkflowHistoryProofs | `ClockSpec => DeadlineHolds` |
| `EngineImplementsStore` | ConceptEngineProofs | `EngineSpec => Spec` |
| `ResumedRunsAttended` | ConceptEngineProofs | `EngineSpec => ResumedIsAttended` |
| `ReadyAccountsAttached` | ConceptEngineProofs | `EngineSpec => []ReadyIsAttached` |
| `WorkersOwn` | ConceptEngineProofs | `EngineSpec => []WorkerOwns` |
| `UnacceptedHaveWorkers` | ConceptEngineProofs | `EngineSpec => []UnacceptedHasWorker` |
| `NeverSentTwice` | ConceptEngineProofs | `EngineSpec => []SentAgainOnlyAfterSettled` |
| `PagesClosedWhenStored` | ConceptEngineProofs | `EngineSpec => ClosedOnlyWhenStored` |
| `ProviderLoadKept` | ConceptEngineProofs | `EngineSpec => []ProviderLoadBounded` |
| `OnlyLateSubmitsEscape` | ConceptEngineProofs | `StoppedStaySpec => []CancelledKeepsCapacity` |
| `OnlyCancelledFails` | ConceptEngineProofs | `EngineSpec => FailsOnCancelled` |
| `TabsKept` | WorkerProofs | `Spec => []TabsFollowJobs` |
| `KeysKept` | WorkerProofs | `Spec => []OneJobPerKey` |
| `ClosedTabsStayClosed` | WorkerProofs | `Spec => ClosedTabsRetire` |
| `ExecutorImplementsJobs` | WorkerProofs | `WorkerSpec => Spec` |
| `OneTurn` | WorkerProofs | `WorkerSpec => []OneTurnPerKey` |
| `CompletedHasAnswer` | WorkerProofs | `WorkerSpec => []CompletedIsWhole` |
| `CancelledUnsent` | WorkerProofs | `CancellationSpec => []CancelledInTime` |
| `DeployTypes` | RemoteDeployProofs | `Spec => []TypeOK` |
| `LockIsTheWriters` | RemoteDeployProofs | `Spec => []OneMutator` |
| `NoWorkLost` | RemoteDeployProofs | `Spec => WorkPreserved` |
| `WorkNotMixed` | RemoteDeployProofs | `Spec => []WorkIsNotMixed` |
| `SuccessesEarned` | RemoteDeployProofs | `Spec => []SuccessIsEarned` |
| `PreservedNamed` | RemoteDeployProofs | `Spec => []PreservedIsNamed` |
| `ChromeStopped` | BridgeTabProofs | `Spec => []StartedChromeIsStopped` |
| `EvidenceFirst` | BridgeTabProofs | `Spec => []EvidenceBeforeClose` |
| `ArtifactsTried` | BridgeTabProofs | `Spec => []NoArtifactLeftBehind` |
| `ArchivesKept` | BridgeTabProofs | `Spec => []DeliveredIsKept` |
| `TabImplementsProtocol` | BridgeTabProofs | `Spec => FollowsProtocol` |
| `OneAtATime` | AgentRunProofs | `Spec => []LaunchedOneAtATime` |
| `SuccessIsWhole` | AgentRunProofs | `Spec => []SucceededIsWhole` |
| `FailureStays` | AgentRunProofs | `Spec => FailureIsNotRetracted` |
| `LimitsKept` | AgentRunProofs | `Spec => []LeasedWithinLimit` |
| `ClaimsExclusive` | AgentRunProofs | `Spec => []ClaimedIsNotLeased` |

They hold for every set of runs and accounts, any capacity, number of candidates
and stages, attempts, times, failures and restarts, any submissions, tabs and keys, any
deploys, jobs and deaths, any bridges, Chrome processes and conversations to recover from, and any
tabs, limits and holders of leases, from the assumptions stated with the
constants. By `EngineImplementsStore` every theorem about `Spec` is one about the engine.

`SubsetIsFrozen`, `CompletedRunIsWhole`, `TerminalIsFinal`, `UnacceptedHasWorker`, `WorkerOwns` and
`ClosedTabsRetire` are proved and no run checks them any more: what TLC could add to a proof, the runs spend elsewhere.

*Types.* `TypeOK` alone is not inductive: recovery remembers the status of each
run that has a reservation, and an unsubmitted run's status could not be
remembered. `TypeInv` adds `OwnersSubmitted`: a run with a reservation was submitted.

*Ledger.* The two ledger properties are inductive together (`Ledger`): that a
claim's new attempt is not already reserved needs that rows above `attempts` do not
exist; that a release frees exactly one live attempt needs that a reservation's
attempt is live; that a queued task can be claimed safely needs that a queued task
has no live attempt. The proof abstracts the steps: a lease step *ends* one
attempt (it leaves the live states and its reservation goes) or *advances* one (it stays
live and keeps it), and claim, resume and recovery are treated on their own.

*Pipeline.* The invariant `Pipeline` adds to `Ledger` that completed answers are final, that the
subset is frozen, the chain order and what a run's end means. Again the steps are abstracted
first (`Moves`): what may change of a task, of the candidates and of an attempt, and
separately what may change of a run's status (`RunMoves`); each conjunct of the invariant is
then shown to survive any such move. A completed run is whole because only the last stage's
capture completes it, and order makes the rest of the chain complete at that point.

*Budget, capacity, logins.* `SubmissionsCharged` counts the attempts a provider may have received, so its
invariant `Budget` adds that this set is finite and that an acceptance is recorded by the step that makes the attempt
accepted and by no other. Steps are again abstracted to those that submit nothing (`Unsubmitted`: the
set does not grow and the charge stays) and the one that submits, which charges first. `CapacityRespected` needs only that reservations stay a
finite set: a claim finds the account below its capacity, and every other step releases. `NoMissedVerification` is
inductive by itself, once every step is reduced to what it does to one run and its account (`LoginMove`).

*The database.* `Call` is a step of the store in which `fail_attempt` has only the checks it makes itself. From rows that are as the
invariants say (`RowsHeld`, which every reachable state satisfies) such a call is one of the store's steps or fails a prepared attempt as
uncertain. The second is what `checked_attempt_transition` refuses (`PreparedNotUncertain`). The first is a transaction: an attempt only
moves along the transitions the trigger lets through (`Follows`), a final run stays (`RunMoves`), a reservation has an attempt,
and one only (`Ledger`), a spacing lies in its range, nothing but `Submit` sets a deadline, and the row a claim inserts finds its account
below capacity, which is what the trigger counts, because no other step inserts (`OnlyClaimReserves`).

*Uncertain submissions.* `UncertaintyBlocksResume` is violated (finding 1). `MatchingSpec` is `Spec` without the one step of that
finding: a capture of the wrong model in a run that is being reconciled. Its invariant `UncertaintyHeld` says that a run with an
uncertain attempt is being reconciled or has ended. Reconciliation ends when the run has no reservation left
(`SettleReconciliation`), and every uncertain attempt has one, or when all its reservations are of accepted attempts that were
reattached (`ResumeReattached`); an expired login, a pause or a resume leaves such a run alone. So whoever repairs `artifacts.rs:86` has nothing else to repair.

*Turns.* The order of claims numbers the claimed runs densely (`Numbered`); a claim moves its run to the end and leaves the order of
the others as it is (`ClaimedLast`). So a run that was overtaken comes before who overtook it (`OvertakenFirst`), and a claim of
an account takes the first of its runs that wants one (`FirstGoesFirst`).

*Pauses.* A held run is paused, or being reconciled with `paused` remembered, or over (`Resting`). Each step is
shown to keep that of each run but the operator's resume (`OperatorResumes`): what settles a reconciliation
restores what is remembered, and a login only wakes runs that wait for one.

*Pacing, cooldowns and deadlines.* `ClockInv`: an account's next submission is at least the spacing after its last (`PacedAhead`), which needs
that every reservation carries at least that spacing, also across restarts; and a cooldown that was announced is still known
to the account or over before the account is ready again (`AnnouncedKnown`). Deadlines
need no invariant beyond `Ledger`: every way back into the schedule looks at the clock.

*Engine.* The implementation proof goes action by action (`WorkerRefines`, `LockRefines`); the only step
that needs an invariant is the resumption of reattached runs, because the store's own
specification lets any issued attempt be called reattached. `EngineSteps` also separates the steps
that can make an account ready, from which `ReadyIsAttached` is inductive with the types.

*Workers.* `WorkersFit` says what each position of a worker says of its attempt (`Fits`), that an
attempt not yet accepted has a worker, and, of the two loops that start and forget workers,
that recovery only visits accepted attempts without a worker and the tick only ended ones.
All of it is needed at once: a worker that is reattached must find its attempt accepted when the loop gets to it,
so nothing may have moved the attempt meanwhile, so it had no worker; and a tick may
forget a worker because an ended one has left its attempt beyond `submitting`. With `Ledger`
(a live attempt has a reservation) it is inductive, and both properties follow.

*Recovery.* `ResumedIsAttended` is about loops that read and write at different times: between the reattachment of one attempt and the
resumption of its run, workers end and operators act. What is reattached keeps a worker as long as the lock is held (`Attended`), because only
the tick forgets one; a worker that has ended has left its attempt in another state than accepted (`PlaceTold`); and the run
is resumed only when every attempt that has a reservation is both reattached and accepted.

*Pages and conversations.* `PagesInv` follows a prompt from the worker to the page, the provider and back. For each
attempt it says what the worker's position means for its row and page (`PlaceTold`), that only who
asked is told (`AnswerTold`), what a handler that outlives its caller may still find (`HandlerTold`), that what is clicked, known or accepted was sent, and
once (`SentTold`), and that a conversation may go on after its attempt ended only
when its run was cancelled or its deadline has passed (`EndTold`), which no later step takes back. Every
step is reduced to one of a few moves of the row and the page (`CallMakes`, `AskTold`, `OnwardTold`); the
tick, recovery, supervisor and restart are treated on their own. Three facts about the store complete it: an attempt that another one
follows was given up (`EarlierGivenUp`); reservations are a finite set within capacity (`Capped`);
and the tick stops only conversations whose attempt has a worker (`Looking`). That nothing is sent
again too early, and that a page closes only when nothing on it can be lost, then follow from the positions; for
`ProviderLoadBounded` each conversation that counts is mapped to the reservation of its live attempt, one to one.

*A conversation that escapes.* `CancelledKeepsCapacity` is violated (finding 2). `StoppedStaySpec` is `EngineSpec` without the one
step of that finding: submit begins on a page whose stop is remembered as a success. Its invariant `Held` takes the
exempt runs out of `EndTold`: a confirmed stop either came before there was anything to stop, and then the attempt is not yet accepted,
or has ended the conversation; and a conversation that generates belongs to a live attempt, which has a reservation. Only the worker can leave
the first of these, by submitting. It rests on `PagesInv`, which holds of the restricted engine as well.

*A tick that fails.* `SchedulingGoesOn` is violated (finding 3). A worker with an error has left an attempt that is final, and so holds
no reservation any more, or one that is still prepared, because its page could not be closed (`PlaceTold`). The second is only tried for a
cancelled run (`WorkersErr`), which stays cancelled, and no attempt becomes prepared again (`ErrorsCancelled`).

*Worker jobs.* `JobsInv` relates the stages of a submission, of its record and of its task: at most one
submission is past the key check (`OneSubmitting`), so none is recorded for a key between its check and its
record (`Keyed`); a job holds its tab from the reservation on, and only its own task gives it back. All
conjuncts are needed at once: that a reservation finds the tab idle says that no other job holds
it, and that a finishing job still finds itself in the tab is why the guard in `Finish` never matters.

*One turn.* `ExecutorImplementsJobs` needs that an executor that ends has decided what to return
(`DecidedInv`). `TurnInv` says what each position of an executor means for its page: before `submit` is called
nothing is sent and no submission is begun (`Fresh`); an opening handler whose caller gave up still
finds its page fresh, because a prepared page is only submitted once its handler has ended; and
a pending submission has not been sent. The proof abstracts every step of bridge and executor to four kinds
(`TurnStep`): nothing of the submission moves, it goes on, a page is opened, submit is called. With
`OneJobPerKey` a key has at most one turn.

*Whole answers.* `WholeInv` follows a decision from the bridge to the record: a page that was clicked was sent, so a
conversation is only over after that; an answer of `capture` that says complete was given of a conversation that is over;
an executor that closes has a verdict, and when close has answered there is no page left, which nothing opens
again because the handler that would is idle (`Later`). It rests on `WorkerInv`, all the invariants before it together.

*Cancellations.* `CancellationInv`: a job in `inTime` has sent nothing, its executor is not past `preparing` but to discard the page, and until the page is
prepared the signal is still there (`Withheld`). The executor looks at the signal between prepare and submit and nowhere earlier, so every step
before is shown to keep the signal (`Heeds`), the ones that other cancellations, closes and the time limit take included.

*Deploys.* `OneMutator` needs no more than itself and the types: whoever makes the lock finds it free, and whoever removes
it owned it. `NoWorkLost` is shown step by step. Only three steps take something away: the stash
moves the tree into a commit of its own; the guarded reset leaves HEAD for the fetched target, and has just seen
that the preserving ref holds HEAD; the launcher leaves HEAD for `PRE_HEAD`, and what HEAD has more is in
the ref of the job or was there before (`HeadKept`). A fetch replaces origin/main, which loses nothing because
the origin's main only grows and origin/main is behind it (`OriginBehind`). These two facts, which say of each
position of a launcher what the refs already hold, are the invariant `DeployInvariant`.

*How a deploy ends.* What a launcher finds and the two reports are inductive together with `DeployInvariant` (`EndInv`): a launcher in the
stages of `Writing` owns the lock and has only its own work before it (`Unmixed`), which a step of anyone else that changes HEAD or the tree
would need the lock to disturb; a status `done`, and so a report of success, was
written by a launcher whose command exited with 0, which no other launcher of the same job can undo (`StatusTold`,
`DeployTold`); and the refs a status names were written before it and, like all refs, never move again.

*The bridge's tab.* Four invariants. `ChromeInv`: the process a bridge stops on its way out is the one it started, which needs that
every process id anybody holds was launched before (`KnownWereLaunched`), or a new Chrome might be one that is already
being stopped. `PageInv`: what is on the disk at each position (`RecordedFirst`, `InspectedFirst`), and that
an offer seen while the conversations are looked through was there when the answer was found finished
(`LookedAgain`), so that giving up means it was tried. `MessageInv`: a delivery is the last message but for an
error of a page that would not close, and the expirations a tab may still send are bounded by the conversations it has left.
From the last two every step of the tab is one of `TabProtocol` or a stutter (`StepFollows`), with the
position of the command as its stage and the number of expirations sent as its counter, so that section 7 may rely on it.

*Archive runs.* `LineInv` says that the tab that uploads or submits is the one the scheduler waits for, and that who
has sent a message no longer submits: a message received, or a deadline, can therefore only release
the next launch when nobody is in line. It includes that a tab delivers once (`DeliversOnce`), without which a second
delivery would start a second deploy. `TellInv` adds what the run has published and what the agent made of it: an error that is
published is among the failures, failures are never taken back (`Tells`), and the agent reports success only of a run that ended
complete and without any. `SucceededIsWhole` and `FailureIsNotRetracted` follow.

*Leases.* The hard part of `LeaseInv` is not the invariant but the allocation, a loop that gives one tab after the other to the account
with the smallest share (`Allocation`, a recursive function). That a plan exists, never gives an account more than it has free and gives
away exactly what was asked is an induction over the tabs given. The library's induction theorems cannot be used here
(see section 10); instead the least number of tabs for which the claim fails is taken (`LeastNatural`, from `WFMin`) and refuted
by the step before it (`PlanExists`, `AllocationFits`). The load of an account is the number of
its leased tabs (`Leased`), which is finite because the records are and which only grows with them.

## 10. Only model-checked, and not modelled

Model-checked only: `EveryConversationEnds`, `EveryTaskEnds`, `EveryRunEnds` and `EveryTabSettles`, which are liveness
under fairness and (with ENABLED) out of the prover's reach. Every other property of a passing run is a theorem. Out of reach is also
induction by the library's theorems, which take the induction hypothesis as an operator; section 9 says how the allocation
of tabs is reasoned about without them. No module has a RECURSIVE operator. The three violations are, by their nature, TLC's.

The components marked not_modelled in `PROJECT.json` are not modelled yet, or, for
text processing, formatting, file copying and user interfaces, not worth it.

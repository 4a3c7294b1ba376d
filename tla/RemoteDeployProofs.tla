------------------------- MODULE RemoteDeployProofs -------------------------
(***************************************************************************)
(* One process at a time writes to the remote checkout, no step loses      *)
(* work, and what a deploy reports and leaves behind is true of the        *)
(* checkout, for any number of deploys, jobs, kills and pushes.            *)
(*                                                                         *)
(* The lock needs no strengthening: every process that may write is the    *)
(* lock's owner, so that the one that finds the lock free finds no other.  *)
(* That no work is lost rests on two more facts: origin/main never holds   *)
(* what the origin does not, and a launcher that gets as far as its reset  *)
(* has its commit under a ref.  How a deploy ends has an invariant of its  *)
(* own, EndInv, in the second half.                                        *)
(***************************************************************************)
EXTENDS RemoteDeploy, TLAPS

LauncherPcs == Early \cup Preserved \cup Late

\* OneMutator, process by process.
Locked ==
  \A d \in Deploys :
    /\ launcher[d].owns => lock = Launcher(d)
    /\ Running(d) => lock = Resetter(d)

FailedRef(d) == repo.refs[<<"failed", JobOf[d]>>]

HeadKept ==
  \A d \in Deploys :
    launcher[d].pc \in Preserved =>
      launcher[d].post = launcher[d].pre \/ launcher[d].post \subseteq FailedRef(d)

OriginBehind == repo.origin \subseteq upstream

IInv == TypeOK /\ Locked /\ HeadKept /\ OriginBehind

(***************************************************************************)
(* Rows.                                                                   *)
(***************************************************************************)
LEMMA NamesTyped ==
  ASSUME NEW d \in Deploys
  PROVE  /\ <<"failed", JobOf[d]>> \in RefNames /\ <<"failed-stash", JobOf[d]>> \in RefNames
         /\ <<"preserved", d>> \in RefNames
         /\ <<"archive", d>> \in Pieces /\ <<"commit", d>> \in Pieces /\ <<"leftover", d>> \in Pieces
  BY DeployAssumption DEF RefNames, Pieces

LEMMA RowTyped ==
  ASSUME TypeOK, NEW d \in Deploys
  PROVE  deploy[d] \in DeployRows /\ launcher[d] \in LauncherRows
  BY DEF TypeOK

LEMMA ReturnedRow ==
  ASSUME TypeOK, NEW d \in Deploys, NEW report \in {"ok", "error"}
  PROVE  Returned(d, report) \in DeployRows /\ Returned(d, report).script = deploy[d].script
<1>1. deploy[d] \in DeployRows
  BY DEF TypeOK
<1>2. CASE Running(d)
  BY <1>1, <1>2 DEF Returned, DeployRows, Calls
<1>3. CASE ~Running(d)
  <2>1. {} \in Commits
    BY DEF Commits
  <2> QED
    BY <1>1, <1>3, <2>1 DEF Returned, DeployRows, NewDeploy, NoCommit, Calls
<1> QED
  BY <1>2, <1>3

\* What a step of a deploy that leaves its script alone does to the rows.
DeployMoved(d) ==
  \E row \in DeployRows : row.script = deploy[d].script /\ deploy' = [deploy EXCEPT ![d] = row]

LEMMA DeployReturns ==
  ASSUME TypeOK, NEW d \in Deploys, NEW report \in {"ok", "error"}, Return(d, report)
  PROVE  DeployMoved(d)
<1> DEFINE row == Returned(d, report)
<1>1. row \in DeployRows /\ row.script = deploy[d].script
  BY ReturnedRow
<1>2. deploy' = [deploy EXCEPT ![d] = row]
  BY DEF Return
<1> HIDE DEF row
<1> QED
  BY <1>1, <1>2 DEF DeployMoved

LEMMA DeployAnswered ==
  ASSUME TypeOK, NEW d \in Deploys, NEW next \in DeployRows, next.script = deploy[d].script,
         Answered(d, next)
  PROVE  DeployMoved(d)
<1>1. PICK row \in {next, Returned(d, "error")} : deploy' = [deploy EXCEPT ![d] = row]
  BY DEF Answered
<1>2. Returned(d, "error") \in DeployRows /\ Returned(d, "error").script = deploy[d].script
  BY ReturnedRow
<1>3. row \in DeployRows /\ row.script = deploy[d].script
  BY <1>1, <1>2
<1> QED
  BY <1>1, <1>3 DEF DeployMoved

LEMMA DeployAdvanced ==
  ASSUME TypeOK, NEW d \in Deploys, NEW pc \in Calls \cup {"polling", "ci", "returned"}, Advance(d, pc)
  PROVE  DeployMoved(d)
<1> DEFINE row == [deploy[d] EXCEPT !.pc = pc]
<1>1. deploy[d] \in DeployRows
  BY RowTyped
<1>2. row \in DeployRows /\ row.script = deploy[d].script
  BY <1>1 DEF DeployRows
<1>3. deploy' = [deploy EXCEPT ![d] = row]
  BY DEF Advance
<1> HIDE DEF row
<1> QED
  BY <1>2, <1>3 DEF DeployMoved

\* What a step of a launcher that keeps its trap does to the rows.
LauncherMoved(d, row) ==
  row \in LauncherRows /\ row.owns = launcher[d].owns /\ launcher' = [launcher EXCEPT ![d] = row]

LEMMA LauncherSteps ==
  ASSUME TypeOK, NEW d \in Deploys, NEW pc \in LauncherPcs, Step(d, pc)
  PROVE  LauncherMoved(d, [launcher[d] EXCEPT !.pc = pc])
<1> DEFINE row == [launcher[d] EXCEPT !.pc = pc]
<1>1. launcher[d] \in LauncherRows
  BY RowTyped
<1>2. row \in LauncherRows /\ row.owns = launcher[d].owns
  BY <1>1 DEF LauncherRows, LauncherPcs
<1>3. launcher' = [launcher EXCEPT ![d] = row]
  BY DEF Step
<1> QED
  BY <1>2, <1>3 DEF LauncherMoved

LEMMA LauncherLeft ==
  ASSUME TypeOK, NEW d \in Deploys, NEW pc \in Late, Left(d, pc)
  PROVE  \E row : LauncherMoved(d, row) /\ row.pc = pc
<1> DEFINE row == [NewLauncher EXCEPT !.pc = pc, !.owns = launcher[d].owns, !.ok = launcher[d].ok]
<1>1. launcher[d] \in LauncherRows /\ {} \in Commits
  BY RowTyped DEF Commits
<1>2. row \in LauncherRows /\ row.owns = launcher[d].owns /\ row.pc = pc
  BY <1>1 DEF LauncherRows, NewLauncher, NoCommit
<1>3. launcher' = [launcher EXCEPT ![d] = row]
  BY DEF Left
<1> HIDE DEF row
<1> QED
  BY <1>2, <1>3 DEF LauncherMoved

(***************************************************************************)
(* The repository.                                                         *)
(***************************************************************************)
RefsKept == \A n \in RefNames : repo.refs[n] \subseteq repo'.refs[n]

\* What every step does to the repository and the origin.
RepoKept ==
  /\ repo' \in Repos /\ upstream' \in Commits
  /\ RefsKept
  /\ OriginBehind'
  /\ Work \subseteq Work'

LEMMA WorkHolds ==
  ASSUME NEW r \in Repos, NEW u
  PROVE  /\ r.head \subseteq WorkOf(r, u) /\ r.tree \subseteq WorkOf(r, u)
         /\ r.origin \subseteq WorkOf(r, u) /\ u \subseteq WorkOf(r, u)
         /\ \A s \in r.stashes : s \subseteq WorkOf(r, u)
         /\ \A n \in RefNames : r.refs[n] \subseteq WorkOf(r, u)
<1>1. \A s \in r.stashes : s \subseteq UNION r.stashes
  OBVIOUS
<1>2. \A n \in RefNames : r.refs[n] \subseteq UNION {r.refs[m] : m \in RefNames}
  OBVIOUS
<1> QED
  BY <1>1, <1>2 DEF WorkOf

LEMMA WorkWithin ==
  ASSUME NEW r, NEW u, NEW W,
         r.head \subseteq W, r.tree \subseteq W, r.origin \subseteq W, u \subseteq W,
         \A s \in r.stashes : s \subseteq W, \A n \in RefNames : r.refs[n] \subseteq W
  PROVE  WorkOf(r, u) \subseteq W
<1>1. UNION r.stashes \subseteq W
  OBVIOUS
<1>2. UNION {r.refs[n] : n \in RefNames} \subseteq W
  OBVIOUS
<1> QED
  BY <1>1, <1>2 DEF WorkOf

\* A step keeps the work if it keeps the refs and the stashes, lets the origin
\* grow, and leaves what HEAD and the tree hold somewhere.
LEMMA WorkKept ==
  ASSUME TypeOK, OriginBehind, repo' \in Repos, RefsKept,
         repo.stashes \subseteq repo'.stashes, upstream \subseteq upstream',
         repo.head \subseteq Work', repo.tree \subseteq Work'
  PROVE  Work \subseteq Work'
<1>1. /\ upstream' \subseteq Work'
      /\ \A s \in repo'.stashes : s \subseteq Work'
      /\ \A n \in RefNames : repo'.refs[n] \subseteq Work'
  BY WorkHolds DEF Work
<1>2. /\ repo.origin \subseteq Work' /\ upstream \subseteq Work'
      /\ \A s \in repo.stashes : s \subseteq Work'
      /\ \A n \in RefNames : repo.refs[n] \subseteq Work'
  BY <1>1 DEF OriginBehind, RefsKept
<1> QED
  BY <1>2, WorkWithin DEF Work

LEMMA RepoSame ==
  ASSUME TypeOK, OriginBehind, UNCHANGED <<repo, upstream>>
  PROVE  RepoKept
  BY DEF RepoKept, RefsKept, OriginBehind, Work, TypeOK

LEMMA RefCreated ==
  ASSUME TypeOK, OriginBehind, NEW name \in RefNames, NEW commit \in Commits,
         CreateRef(name, commit), upstream' = upstream
  PROVE  RepoKept /\ repo'.refs[name] = commit /\ repo'.head = repo.head /\ repo'.tree = repo.tree
<1> DEFINE refs == [repo.refs EXCEPT ![name] = commit]
<1>1. repo \in Repos /\ repo.refs \in [RefNames -> Commits]
  BY DEF TypeOK, Repos
<1>2. /\ refs \in [RefNames -> Commits] /\ refs[name] = commit
      /\ \A n \in RefNames : repo.refs[n] \subseteq refs[n]
  BY <1>1 DEF CreateRef, NoCommit
<1>3. repo' = [repo EXCEPT !.refs = refs]
  BY DEF CreateRef
<1> HIDE DEF refs
<1>4. /\ repo' \in Repos /\ repo'.refs = refs /\ repo'.head = repo.head /\ repo'.tree = repo.tree
      /\ repo'.origin = repo.origin /\ repo'.stashes = repo.stashes
  BY <1>1, <1>2, <1>3 DEF Repos
<1>5. RefsKept
  BY <1>2, <1>4 DEF RefsKept
<1>6. repo.head \subseteq Work' /\ repo.tree \subseteq Work'
  BY <1>4, WorkHolds DEF Work
<1>7. Work \subseteq Work'
  BY <1>4, <1>5, <1>6, WorkKept
<1> QED
  BY <1>2, <1>4, <1>5, <1>7 DEF RepoKept, OriginBehind, TypeOK

\* git reset --hard, when what HEAD held is under a ref or stays, and the tree is clean.
LEMMA ResetKept ==
  ASSUME TypeOK, OriginBehind, NEW commit \in Commits, HardReset(commit), upstream' = upstream,
         ~Dirty, repo.head \subseteq commit \/ \E n \in RefNames : repo.head \subseteq repo.refs[n]
  PROVE  RepoKept
<1>1. repo \in Repos /\ {} \in SUBSET Pieces
  BY DEF TypeOK
<1>2. /\ repo' \in Repos /\ repo'.refs = repo.refs /\ repo'.head = commit
      /\ repo'.origin = repo.origin /\ repo'.stashes = repo.stashes
  BY <1>1 DEF HardReset, Repos
<1>3. RefsKept
  BY <1>2 DEF RefsKept
<1>4. repo.head \subseteq Work'
  BY <1>2, WorkHolds DEF Work
<1>5. repo.tree \subseteq Work'
  BY DEF Dirty
<1>6. Work \subseteq Work'
  BY <1>2, <1>3, <1>4, <1>5, WorkKept
<1> QED
  BY <1>2, <1>3, <1>6 DEF RepoKept, OriginBehind, TypeOK

(***************************************************************************)
(* The lock and the launchers' refs.                                       *)
(***************************************************************************)
Kept == /\ deploy' \in [Deploys -> DeployRows] /\ launcher' \in [Deploys -> LauncherRows]
        /\ Locked' /\ HeadKept'

\* A launcher at its stash or later has its commit under a ref.
Covered(d, row) ==
  row.pc \in Preserved =>
    row.post = row.pre \/ row.post \subseteq repo'.refs[<<"failed", JobOf[d]>>]

LEMMA LauncherKeeps ==
  ASSUME IInv, NEW d \in Deploys, NEW row, LauncherMoved(d, row), Covered(d, row), RefsKept,
         UNCHANGED <<deploy, lock>>
  PROVE  Kept
<1>1. /\ launcher' \in [Deploys -> LauncherRows] /\ launcher'[d] = row
      /\ \A e \in Deploys \ {d} : launcher'[e] = launcher[e]
      /\ \A e \in Deploys : launcher'[e].owns = launcher[e].owns
  BY DEF LauncherMoved, IInv, TypeOK
<1>2. Locked'
  BY <1>1 DEF IInv, Locked, Running
<1>3. HeadKept'
  <2>1. \A e \in Deploys : FailedRef(e) \subseteq FailedRef(e)'
    BY NamesTyped DEF RefsKept, FailedRef
  <2> QED
    BY <1>1, <2>1 DEF IInv, HeadKept, Covered, FailedRef
<1> QED
  BY <1>1, <1>2, <1>3 DEF Kept, IInv, TypeOK

LEMMA DeployKeeps ==
  ASSUME IInv, NEW d \in Deploys, DeployMoved(d), RefsKept, UNCHANGED <<launcher, lock>>
  PROVE  Kept
<1>1. PICK row \in DeployRows : row.script = deploy[d].script /\ deploy' = [deploy EXCEPT ![d] = row]
  BY DEF DeployMoved
<1>2. /\ deploy' \in [Deploys -> DeployRows]
      /\ \A e \in Deploys : deploy'[e].script = deploy[e].script
  BY <1>1 DEF IInv, TypeOK
<1>3. Locked'
  BY <1>2 DEF IInv, Locked, Running
<1>4. \A e \in Deploys : FailedRef(e) \subseteq FailedRef(e)'
  BY NamesTyped DEF RefsKept, FailedRef
<1>5. HeadKept'
  BY <1>4 DEF IInv, HeadKept
<1> QED
  BY <1>2, <1>3, <1>5 DEF Kept, IInv, TypeOK

\* A step that moves only the deploys, the jobs or nothing leaves the launchers' refs.
LEMMA RefsSame ==
  ASSUME IInv, UNCHANGED repo
  PROVE  RefsKept
  BY DEF RefsKept

LEMMA ScriptKeeps ==
  ASSUME IInv, NEW d \in Deploys, NEW row \in DeployRows, deploy' = [deploy EXCEPT ![d] = row],
         RefsKept, UNCHANGED launcher, Locked'
  PROVE  Kept
<1>1. deploy' \in [Deploys -> DeployRows]
  BY DEF IInv, TypeOK
<1>2. \A e \in Deploys : FailedRef(e) \subseteq FailedRef(e)'
  BY NamesTyped DEF RefsKept, FailedRef
<1>3. HeadKept'
  BY <1>2 DEF IInv, HeadKept
<1> QED
  BY <1>1, <1>3 DEF Kept, IInv, TypeOK

(***************************************************************************)
(* Every step of a deploy.                                                 *)
(***************************************************************************)
Good == RepoKept /\ Kept

LEMMA DeployGood ==
  ASSUME IInv, NEW d \in Deploys, DeployMoved(d), UNCHANGED <<repo, upstream, lock, launcher>>
  PROVE  Good
  BY RefsSame, RepoSame, DeployKeeps DEF Good, IInv

LEMMA CallFailsGood ==
  ASSUME IInv, NEW d \in Deploys, CallFails(d) \/ PollDeadline(d)
  PROVE  Good
  BY DeployReturns, DeployGood DEF CallFails, PollDeadline, IInv

LEMMA CleanupGood ==
  ASSUME IInv, NEW d \in Deploys, Cleanup(d)
  PROVE  Good
<1>1. CASE Return(d, "error")
  BY <1>1, DeployReturns, DeployGood DEF Cleanup, IInv
<1>2. CASE Advance(d, "upload")
  BY <1>2, DeployAdvanced, DeployGood DEF Cleanup, IInv, Calls
<1>3. CASE deploy' = [deploy EXCEPT ![d].pc = "preserve", ![d].head = repo.head]
  <2> DEFINE row == [deploy[d] EXCEPT !.pc = "preserve", !.head = repo.head]
  <2>1. deploy[d] \in DeployRows /\ repo.head \in Commits
    BY RowTyped DEF IInv, TypeOK, Repos
  <2>2. row \in DeployRows /\ row.script = deploy[d].script
    BY <2>1 DEF DeployRows, Calls
  <2>3. deploy' = [deploy EXCEPT ![d] = row]
    BY <1>3
  <2> HIDE DEF row
  <2>4. DeployMoved(d)
    BY <2>2, <2>3 DEF DeployMoved
  <2> QED
    BY <2>4, DeployGood DEF Cleanup
<1> QED
  BY <1>1, <1>2, <1>3 DEF Cleanup

LEMMA PreserveRefGood ==
  ASSUME IInv, NEW d \in Deploys, PreserveRef(d)
  PROVE  Good
<1> DEFINE row == [deploy[d] EXCEPT !.pc = "fetch"]
<1>1. deploy[d] \in DeployRows
  BY RowTyped DEF IInv
<1>2. row \in DeployRows /\ row.script = deploy[d].script /\ deploy[d].head \in Commits
  BY <1>1 DEF DeployRows, Calls
<1>3. Answered(d, row) /\ CreateRef(<<"preserved", d>>, deploy[d].head)
  BY DEF PreserveRef
<1> HIDE DEF row
<1>4. DeployMoved(d)
  BY <1>2, <1>3, DeployAnswered DEF IInv
<1>5. RepoKept
  BY <1>2, <1>3, RefCreated, NamesTyped DEF PreserveRef, IInv
<1> QED
  BY <1>4, <1>5, DeployKeeps DEF Good, PreserveRef, RepoKept

LEMMA FetchOriginGood ==
  ASSUME IInv, NEW d \in Deploys, FetchOrigin(d)
  PROVE  Good
<1> DEFINE row == [deploy[d] EXCEPT !.pc = "recheck"]
<1>1. deploy[d] \in DeployRows /\ repo \in Repos /\ upstream \in Commits
  BY RowTyped DEF IInv, TypeOK
<1>2. row \in DeployRows /\ row.script = deploy[d].script
  BY <1>1 DEF DeployRows, Calls
<1>3. Answered(d, row)
  BY DEF FetchOrigin
<1> HIDE DEF row
<1>4. DeployMoved(d)
  BY <1>2, <1>3, DeployAnswered DEF IInv
<1>5. /\ repo' \in Repos /\ repo'.refs = repo.refs /\ repo'.head = repo.head /\ repo'.tree = repo.tree
      /\ repo'.origin = upstream /\ repo'.stashes = repo.stashes /\ upstream' = upstream
  BY <1>1 DEF FetchOrigin, Repos
<1>6. RefsKept
  BY <1>5 DEF RefsKept
<1>7. repo.head \subseteq Work' /\ repo.tree \subseteq Work'
  BY <1>5, WorkHolds DEF Work
<1>8. Work \subseteq Work'
  BY <1>5, <1>6, <1>7, WorkKept DEF IInv
<1>9. RepoKept
  BY <1>1, <1>5, <1>6, <1>8 DEF RepoKept, OriginBehind
<1> QED
  BY <1>4, <1>6, <1>9, DeployKeeps DEF Good, FetchOrigin

LEMMA RecheckGood ==
  ASSUME IInv, NEW d \in Deploys, Recheck(d)
  PROVE  Good
<1>1. CASE Return(d, "error")
  BY <1>1, DeployReturns, DeployGood DEF Recheck, IInv
<1>2. CASE deploy' = [deploy EXCEPT ![d].pc = "reset", ![d].target = repo.origin]
  <2> DEFINE row == [deploy[d] EXCEPT !.pc = "reset", !.target = repo.origin]
  <2>1. deploy[d] \in DeployRows /\ repo.origin \in Commits
    BY RowTyped DEF IInv, TypeOK, Repos
  <2>2. row \in DeployRows /\ row.script = deploy[d].script
    BY <2>1 DEF DeployRows, Calls
  <2>3. deploy' = [deploy EXCEPT ![d] = row]
    BY <1>2
  <2> HIDE DEF row
  <2>4. DeployMoved(d)
    BY <2>2, <2>3 DEF DeployMoved
  <2> QED
    BY <2>4, DeployGood DEF Recheck
<1> QED
  BY <1>1, <1>2 DEF Recheck

\* The script of a deploy moves, with the lock.
LEMMA ScriptMoved ==
  ASSUME TypeOK, NEW d \in Deploys,
         NEW script \in {"none", "owning", "refused", "reset", "ended", "killed"},
         deploy' = [deploy EXCEPT ![d].script = script]
  PROVE  \E row \in DeployRows : row.script = script /\ deploy' = [deploy EXCEPT ![d] = row]
<1> DEFINE row == [deploy[d] EXCEPT !.script = script]
<1>1. deploy[d] \in DeployRows
  BY RowTyped
<1>2. row \in DeployRows /\ row.script = script
  BY <1>1 DEF DeployRows
<1>3. deploy' = [deploy EXCEPT ![d] = row]
  OBVIOUS
<1> HIDE DEF row
<1> QED
  BY <1>2, <1>3

LEMMA ResetOwnGood ==
  ASSUME IInv, NEW d \in Deploys, ResetOwn(d)
  PROVE  Good
<1>1. CASE lock # Free
  BY <1>1, DeployReturns, DeployGood DEF ResetOwn, IInv
<1>2. CASE lock = Free
  <2>1. PICK row \in DeployRows : row.script = "owning" /\ deploy' = [deploy EXCEPT ![d] = row]
    BY <1>2, ScriptMoved DEF ResetOwn, IInv
  <2>2. /\ \A e \in Deploys \ {d} : deploy'[e] = deploy[e]
        /\ launcher' = launcher /\ lock' = Resetter(d)
    BY <1>2, <2>1 DEF ResetOwn, IInv, TypeOK
  <2>3. Locked'
    BY <1>2, <2>2 DEF IInv, Locked, Running, Free, Resetter, Launcher
  <2> QED
    BY <2>1, <2>2, <2>3, RefsSame, RepoSame, ScriptKeeps DEF Good, ResetOwn, IInv
<1> QED
  BY <1>1, <1>2

\* The script resets only what it finds under the deploy's own ref.
LEMMA ResetCheckedGood ==
  ASSUME IInv, NEW d \in Deploys, ResetChecked(d)
  PROVE  Good
<1>1. PICK row \in DeployRows : /\ row.script \in {"reset", "refused"}
                                /\ deploy' = [deploy EXCEPT ![d] = row]
  BY ScriptMoved DEF ResetChecked, IInv
<1>2. \A e \in Deploys : deploy'[e].script = deploy[e].script \/ e = d
  BY <1>1 DEF IInv, TypeOK
<1>3. Locked'
  BY <1>1, <1>2 DEF ResetChecked, IInv, Locked, Running
<1>4. RepoKept
  <2>1. CASE AsExpected(d)
    <3>1. repo.head \subseteq repo.refs[<<"preserved", d>>] /\ ~Dirty /\ HardReset(deploy[d].target)
      BY <2>1 DEF AsExpected, ResetChecked
    <3>2. deploy[d] \in DeployRows
      BY RowTyped DEF IInv
    <3>3. deploy[d].target \in Commits
      BY <3>2 DEF DeployRows
    <3> QED
      BY <3>1, <3>3, NamesTyped, ResetKept DEF ResetChecked, IInv
  <2>2. CASE ~AsExpected(d)
    BY <2>2, RepoSame DEF ResetChecked, IInv
  <2> QED
    BY <2>1, <2>2
<1> QED
  BY <1>1, <1>3, <1>4, ScriptKeeps DEF Good, RepoKept, ResetChecked

LEMMA ResetExitsGood ==
  ASSUME IInv, NEW d \in Deploys, ResetExits(d)
  PROVE  Good
<1>1. PICK row \in DeployRows : row.script = "ended" /\ deploy' = [deploy EXCEPT ![d] = row]
  <2>1. deploy[d] \in DeployRows /\ {} \in Commits
    BY RowTyped DEF IInv, Commits
  <2>2. [deploy[d] EXCEPT !.pc = "verify", !.script = "ended"] \in DeployRows
    BY <2>1 DEF DeployRows, Calls
  <2>3. [NewDeploy EXCEPT !.pc = "returned", !.report = "error", !.script = "ended"] \in DeployRows
    BY <2>1 DEF DeployRows, NewDeploy, NoCommit, Calls
  <2>4. /\ [deploy[d] EXCEPT !.pc = "verify", !.script = "ended"].script = "ended"
        /\ [NewDeploy EXCEPT !.pc = "returned", !.report = "error", !.script = "ended"].script = "ended"
    BY <2>1 DEF DeployRows, NewDeploy
  <2> QED
    BY <2>2, <2>3, <2>4 DEF ResetExits
<1>2. /\ \A e \in Deploys : deploy'[e].script = IF e = d THEN "ended" ELSE deploy[e].script
      /\ launcher' = launcher /\ lock = Resetter(d) /\ lock' = Free
  BY <1>1 DEF ResetExits, IInv, TypeOK, Locked, Running
<1>3. Locked'
  BY <1>2 DEF IInv, Locked, Running, Resetter, Launcher
<1> QED
  BY <1>1, <1>2, <1>3, RefsSame, RepoSame, ScriptKeeps DEF Good, ResetExits, IInv

LEMMA VerifyResetGood ==
  ASSUME IInv, NEW d \in Deploys, VerifyReset(d)
  PROVE  Good
  BY DeployReturns, DeployAdvanced, DeployGood DEF VerifyReset, IInv, Calls

LEMMA Finished ==
  ASSUME IInv, NEW d \in Deploys, NEW outcome, Finish(d, outcome)
  PROVE  DeployMoved(d)
<1>1. PICK report \in {"error", IF outcome \in Succeeded THEN "ok" ELSE "error"} : Return(d, report)
  BY DEF Finish
<1>2. report \in {"ok", "error"}
  BY <1>1
<1> QED
  BY <1>1, <1>2, DeployReturns DEF IInv

LEMMA UploadArchiveGood ==
  ASSUME IInv, NEW d \in Deploys, UploadArchive(d)
  PROVE  Good
<1> DEFINE row == [deploy[d] EXCEPT !.pc = "compare"]
<1>1. deploy[d] \in DeployRows
  BY RowTyped DEF IInv
<1>2. row \in DeployRows /\ row.script = deploy[d].script
  BY <1>1 DEF DeployRows, Calls
<1>3. Answered(d, row) \/ Return(d, "error")
  BY DEF UploadArchive
<1> HIDE DEF row
<1>4. DeployMoved(d)
  BY <1>2, <1>3, DeployAnswered, DeployReturns DEF IInv
<1> QED
  BY <1>4, DeployGood DEF UploadArchive

LEMMA CompareShaGood ==
  ASSUME IInv, NEW d \in Deploys, CompareSha(d)
  PROVE  Good
<1>1. Finish(d, "dry-run-staged") \/ Advance(d, "start") \/ Return(d, "error")
  BY DEF CompareSha
<1>2. DeployMoved(d)
  BY <1>1, Finished, DeployAdvanced, DeployReturns DEF IInv, Calls
<1> QED
  BY <1>2, DeployGood DEF CompareSha

LEMMA StartJobGood ==
  ASSUME IInv, NEW d \in Deploys, StartJob(d)
  PROVE  Good
<1> DEFINE row == [deploy[d] EXCEPT !.pc = "polling"]
<1>1. deploy[d] \in DeployRows /\ launcher[d] \in LauncherRows
  BY RowTyped DEF IInv
<1>2. row \in DeployRows /\ row.script = deploy[d].script
  BY <1>1 DEF DeployRows, Calls
<1>3. Answered(d, row)
  BY DEF StartJob
<1> HIDE DEF row
<1>4. DeployMoved(d)
  BY <1>2, <1>3, DeployAnswered DEF IInv
<1>5. PICK next \in DeployRows : next.script = deploy[d].script /\ deploy' = [deploy EXCEPT ![d] = next]
  BY <1>4 DEF DeployMoved
<1> DEFINE started == [launcher[d] EXCEPT !.pc = "queue"]
<1>6. started \in LauncherRows /\ started.owns = launcher[d].owns /\ started.pc = "queue"
  BY <1>1 DEF LauncherRows, Early
<1>7. launcher' = [launcher EXCEPT ![d] = started]
  BY DEF StartJob
<1> HIDE DEF started
<1>8. /\ deploy' \in [Deploys -> DeployRows] /\ launcher' \in [Deploys -> LauncherRows]
      /\ \A e \in Deploys : deploy'[e].script = deploy[e].script /\ launcher'[e].owns = launcher[e].owns
      /\ \A e \in Deploys : launcher'[e] = launcher[e] \/ launcher'[e].pc = "queue"
  BY <1>5, <1>6, <1>7 DEF IInv, TypeOK
<1>9. Locked' /\ HeadKept'
  BY <1>8 DEF StartJob, IInv, Locked, Running, HeadKept, FailedRef, Preserved
<1> QED
  BY <1>8, <1>9, RepoSame DEF Good, Kept, StartJob, IInv

LEMMA FetchStatusGood ==
  ASSUME IInv, NEW d \in Deploys, FetchStatus(d) \/ FetchFails(d) \/ TrackCi(d)
  PROVE  Good
<1>1. CASE \E n \in Nat : deploy' = [deploy EXCEPT ![d].errors = n]
  <2>1. PICK n \in Nat : deploy' = [deploy EXCEPT ![d].errors = n]
    BY <1>1
  <2> DEFINE row == [deploy[d] EXCEPT !.errors = n]
  <2>2. deploy[d] \in DeployRows
    BY RowTyped DEF IInv
  <2>3. row \in DeployRows /\ row.script = deploy[d].script
    BY <2>2 DEF DeployRows
  <2>4. deploy' = [deploy EXCEPT ![d] = row]
    BY <2>1
  <2> HIDE DEF row
  <2>5. DeployMoved(d)
    BY <2>3, <2>4 DEF DeployMoved
  <2> QED
    BY <2>5, DeployGood DEF FetchStatus, FetchFails, TrackCi
<1>2. CASE (\E outcome : Finish(d, outcome)) \/ Advance(d, "ci") \/ Return(d, "error")
  <2>1. DeployMoved(d)
    BY <1>2, Finished, DeployAdvanced, DeployReturns DEF IInv
  <2> QED
    BY <2>1, DeployGood DEF FetchStatus, FetchFails, TrackCi
<1>3. deploy[d].errors \in Nat
  <2>1. deploy[d] \in DeployRows
    BY RowTyped DEF IInv
  <2> QED
    BY <2>1 DEF DeployRows
<1>4. CASE FetchFails(d)
  <2>1. CASE Return(d, "error")
    BY <2>1, <1>2
  <2>2. CASE deploy' = [deploy EXCEPT ![d].errors = deploy[d].errors + 1]
    <3> DEFINE n == deploy[d].errors + 1
    <3>1. n \in Nat
      BY <1>3
    <3>2. deploy' = [deploy EXCEPT ![d].errors = n]
      BY <2>2
    <3> HIDE DEF n
    <3> QED
      BY <3>1, <3>2, <1>1
  <2> QED
    BY <1>4, <2>1, <2>2 DEF FetchFails
<1>5. CASE FetchStatus(d)
  BY <1>5, <1>1, <1>2 DEF FetchStatus
<1>6. CASE TrackCi(d)
  BY <1>6, <1>2 DEF TrackCi
<1> QED
  BY <1>4, <1>5, <1>6

(***************************************************************************)
(* Every step of a launcher.                                               *)
(***************************************************************************)
LEMMA LauncherGood ==
  ASSUME IInv, NEW d \in Deploys, NEW row, LauncherMoved(d, row), Covered(d, row), RepoKept,
         UNCHANGED <<deploy, lock>>
  PROVE  Good
  BY LauncherKeeps DEF Good, RepoKept

\* A step to a stage before the stash, or after the reset.
LEMMA StepGood ==
  ASSUME IInv, NEW d \in Deploys, NEW pc \in Early \cup Late, Step(d, pc), RepoKept,
         UNCHANGED <<deploy, lock>>
  PROVE  Good
<1> DEFINE row == [launcher[d] EXCEPT !.pc = pc]
<1>1. launcher[d] \in LauncherRows
  BY RowTyped DEF IInv
<1>2. LauncherMoved(d, row)
  BY LauncherSteps DEF LauncherPcs, IInv
<1>3. row.pc \notin Preserved
  BY <1>1 DEF LauncherRows, Early, Late, Preserved
<1> HIDE DEF row
<1>4. Covered(d, row)
  BY <1>3 DEF Covered
<1> QED
  BY <1>2, <1>4, LauncherGood

\* From the stash on, the pieces of the commit stay covered.
LEMMA StageGood ==
  ASSUME IInv, NEW d \in Deploys, NEW pc \in Preserved, Step(d, pc), RepoKept,
         launcher[d].pc \in Preserved \/ launcher[d].post = launcher[d].pre,
         UNCHANGED <<deploy, lock>>
  PROVE  Good
<1> DEFINE row == [launcher[d] EXCEPT !.pc = pc]
<1>1. launcher[d] \in LauncherRows
  BY RowTyped DEF IInv
<1>2. LauncherMoved(d, row)
  BY LauncherSteps DEF LauncherPcs, IInv
<1>3. row.post = launcher[d].post /\ row.pre = launcher[d].pre
  BY <1>1 DEF LauncherRows
<1> HIDE DEF row
<1>4. launcher[d].post = launcher[d].pre \/ launcher[d].post \subseteq repo'.refs[<<"failed", JobOf[d]>>]
  BY NamesTyped DEF IInv, HeadKept, FailedRef, RepoKept, RefsKept
<1>5. Covered(d, row)
  BY <1>3, <1>4 DEF Covered
<1> QED
  BY <1>2, <1>5, LauncherGood

LEMMA LeftGood ==
  ASSUME IInv, NEW d \in Deploys, NEW pc \in Late, Left(d, pc), RepoKept, UNCHANGED <<deploy, lock>>
  PROVE  Good
<1>1. PICK row : LauncherMoved(d, row) /\ row.pc = pc
  BY LauncherLeft DEF IInv
<1>2. Covered(d, row)
  BY <1>1 DEF Covered, Late, Preserved
<1> QED
  BY <1>1, <1>2, LauncherGood

LEMMA SimpleGood ==
  ASSUME IInv, NEW d \in Deploys,
         Queue(d) \/ WriteDone(d) \/ Abort(d) \/ WriteFailed(d) \/ WriteMarker(d) \/ KillLauncher(d)
  PROVE  Good
<1>1. RepoKept
  BY RepoSame DEF Queue, WriteDone, Abort, WriteFailed, WriteMarker, KillLauncher, IInv
<1>2. /\ UNCHANGED <<deploy, lock>>
      /\ \/ \E pc \in {"own", "abort", "exit"} : Step(d, pc)
         \/ \E pc \in {"exit", "mark", "killed"} : Left(d, pc)
  BY DEF Queue, WriteDone, Abort, WriteFailed, WriteMarker, KillLauncher
<1> QED
  BY <1>1, <1>2, StepGood, LeftGood DEF Early, Late

\* A launcher whose trap is set, or taken away, moves with the lock.
LEMMA OwnGood ==
  ASSUME IInv, NEW d \in Deploys, Own(d)
  PROVE  Good
<1>1. RepoKept
  BY RepoSame DEF Own, IInv
<1>2. CASE Step(d, "abort") /\ UNCHANGED lock
  BY <1>1, <1>2, StepGood DEF Own, Late
<1>3. CASE TakeLock(d)
  <2> DEFINE row == [launcher[d] EXCEPT !.pc = "enter", !.owns = TRUE]
  <2>1. launcher[d] \in LauncherRows
    BY RowTyped DEF IInv
  <2>2. row \in LauncherRows /\ row.pc = "enter"
    BY <2>1 DEF LauncherRows, Early
  <2>3. launcher' = [launcher EXCEPT ![d] = row]
    BY <1>3 DEF TakeLock
  <2> HIDE DEF row
  <2>4. /\ launcher' \in [Deploys -> LauncherRows]
        /\ \A e \in Deploys \ {d} : launcher'[e] = launcher[e]
        /\ launcher'[d].pc = "enter" /\ lock' = Launcher(d) /\ deploy' = deploy /\ repo' = repo
    BY <1>3, <2>2, <2>3 DEF IInv, TypeOK, Own, TakeLock
  <2>5. Locked'
    BY <1>3, <2>4 DEF IInv, Locked, TakeLock, Running, Free, Launcher, Resetter
  <2>6. HeadKept'
    BY <2>4 DEF IInv, HeadKept, FailedRef, Preserved
  <2> QED
    BY <1>1, <2>4, <2>5, <2>6 DEF Good, Kept, IInv, TypeOK
<1> QED
  BY <1>2, <1>3 DEF Own

LEMMA ExitGood ==
  ASSUME IInv, NEW d \in Deploys, Exit(d)
  PROVE  Good
<1> DEFINE row == [launcher[d] EXCEPT !.pc = "ended", !.owns = FALSE]
<1>1. launcher[d] \in LauncherRows
  BY RowTyped DEF IInv
<1>2. row \in LauncherRows /\ row.pc = "ended" /\ ~row.owns
  BY <1>1 DEF LauncherRows, Late
<1>3. launcher' = [launcher EXCEPT ![d] = row]
  BY DEF Exit
<1> HIDE DEF row
<1>4. /\ launcher' \in [Deploys -> LauncherRows]
      /\ \A e \in Deploys \ {d} : launcher'[e] = launcher[e]
      /\ launcher'[d].pc = "ended" /\ ~launcher'[d].owns /\ deploy' = deploy /\ repo' = repo
  BY <1>2, <1>3 DEF IInv, TypeOK, Exit
<1>5. Locked'
  BY <1>4 DEF Exit, IInv, Locked, Running, Free, Launcher, Resetter
<1>6. HeadKept'
  BY <1>4 DEF IInv, HeadKept, FailedRef, Preserved
<1>7. RepoKept
  BY RepoSame DEF Exit, IInv
<1> QED
  BY <1>4, <1>5, <1>6, <1>7 DEF Good, Kept, IInv, TypeOK

LEMMA EnterGood ==
  ASSUME IInv, NEW d \in Deploys, Enter(d)
  PROVE  Good
<1>1. PICK pc \in {"abort", "unpack"} :
        launcher' = [launcher EXCEPT ![d] = [[launcher[d] EXCEPT !.pre = repo.head] EXCEPT !.pc = pc]]
  BY DEF Enter, Refuses
<1> DEFINE first == [launcher[d] EXCEPT !.pre = repo.head]
<1> DEFINE row == [first EXCEPT !.pc = pc]
<1>2. launcher[d] \in LauncherRows /\ repo.head \in Commits
  BY RowTyped DEF IInv, TypeOK, Repos
<1>a. first \in LauncherRows /\ first.owns = launcher[d].owns
  BY <1>2 DEF LauncherRows
<1>4. launcher' = [launcher EXCEPT ![d] = row]
  BY <1>1
<1> HIDE DEF first
<1>3. row \in LauncherRows /\ row.owns = launcher[d].owns /\ row.pc \notin Preserved
  BY <1>a DEF LauncherRows, Early, Late, Preserved
<1> HIDE DEF row
<1>5. LauncherMoved(d, row) /\ Covered(d, row)
  BY <1>3, <1>4 DEF LauncherMoved, Covered
<1> QED
  BY <1>5, RepoSame, LauncherGood DEF Enter, IInv

\* The tree grows.
LEMMA UnpackGood ==
  ASSUME IInv, NEW d \in Deploys, Unpack(d)
  PROVE  Good
<1>1. PICK extracted \in {{}, {<<"archive", d>>}} : repo' = [repo EXCEPT !.tree = repo.tree \cup extracted]
  BY DEF Unpack
<1>2. repo \in Repos /\ extracted \subseteq Pieces
  BY NamesTyped DEF IInv, TypeOK
<1>3. /\ repo' \in Repos /\ repo'.refs = repo.refs /\ repo'.head = repo.head
      /\ repo'.tree = repo.tree \cup extracted
      /\ repo'.origin = repo.origin /\ repo'.stashes = repo.stashes /\ upstream' = upstream
  BY <1>1, <1>2 DEF Repos, Unpack
<1>4. RefsKept
  BY <1>3 DEF RefsKept
<1>5. repo.head \subseteq Work' /\ repo.tree \subseteq Work'
  BY <1>3, WorkHolds DEF Work
<1>6. Work \subseteq Work'
  BY <1>3, <1>4, <1>5, WorkKept DEF IInv
<1>7. RepoKept
  BY <1>3, <1>4, <1>6 DEF RepoKept, OriginBehind, IInv, TypeOK
<1>8. Step(d, "command") \/ Step(d, "abort")
  BY DEF Unpack
<1> QED
  BY <1>7, <1>8, StepGood DEF Unpack, Early, Late

\* The command moves work from the tree to a commit, and pushes what contains the origin's.
LEMMA ProducesGood ==
  ASSUME IInv, NEW d \in Deploys, NEW head \in Commits, NEW tree \in SUBSET Pieces,
         NEW pushes \in BOOLEAN, NEW ok \in BOOLEAN, Produces(d, head, tree, pushes, ok),
         repo.head \subseteq head, repo.tree \subseteq head \cup tree, UNCHANGED <<deploy, lock>>
  PROVE  Good
<1> DEFINE origin == IF pushes THEN head ELSE repo.origin
<1> DEFINE pc == IF ok THEN "done" ELSE "preserve"
<1>1. repo \in Repos /\ launcher[d] \in LauncherRows /\ upstream \in Commits
  BY RowTyped DEF IInv, TypeOK
<1>2. /\ repo' = [repo EXCEPT !.head = head, !.tree = tree, !.origin = origin]
      /\ launcher' = [launcher EXCEPT ![d] = [launcher[d] EXCEPT !.post = head, !.ok = ok, !.pc = pc]]
  BY DEF Produces
<1>3. /\ origin \in Commits /\ origin \subseteq upstream' /\ upstream \subseteq upstream'
      /\ upstream' \in Commits /\ pc \in {"done", "preserve"}
  BY <1>1 DEF IInv, OriginBehind, Produces, Repos
<1> HIDE DEF origin, pc
<1>4. /\ repo' \in Repos /\ repo'.refs = repo.refs /\ repo'.head = head /\ repo'.tree = tree
      /\ repo'.origin = origin /\ repo'.stashes = repo.stashes
  BY <1>1, <1>2, <1>3 DEF Repos
<1>5. RefsKept
  BY <1>4 DEF RefsKept
<1>6. head \subseteq Work' /\ tree \subseteq Work'
  BY <1>4, WorkHolds DEF Work
<1>7. Work \subseteq Work'
  BY <1>3, <1>4, <1>5, <1>6, WorkKept DEF IInv
<1>8. RepoKept
  BY <1>3, <1>4, <1>5, <1>7 DEF RepoKept, OriginBehind
<1> DEFINE row == [launcher[d] EXCEPT !.post = head, !.ok = ok, !.pc = pc]
<1>9. row \in LauncherRows /\ row.owns = launcher[d].owns /\ row.pc \notin Preserved
  BY <1>1, <1>3 DEF LauncherRows, Early, Preserved
<1>10. launcher' = [launcher EXCEPT ![d] = row]
  BY <1>2
<1> HIDE DEF row
<1>11. LauncherMoved(d, row) /\ Covered(d, row)
  BY <1>9, <1>10 DEF LauncherMoved, Covered
<1> QED
  BY <1>8, <1>11, LauncherGood

LEMMA CommandGood ==
  ASSUME IInv, NEW d \in Deploys, Command(d)
  PROVE  Good
<1>1. PICK leaves \in SUBSET {<<"leftover", d>>}, pushes \in BOOLEAN, ok \in BOOLEAN :
        \/ Produces(d, repo.head, repo.tree \cup leaves, FALSE, ok)
        \/ Produces(d, repo.head \cup repo.tree \cup {<<"commit", d>>}, leaves, pushes, ok)
  BY DEF Command
<1> DEFINE head == repo.head \cup repo.tree \cup {<<"commit", d>>}
<1> DEFINE tree == repo.tree \cup leaves
<1>2. /\ repo.head \in Commits /\ head \in Commits
      /\ tree \in SUBSET Pieces /\ leaves \in SUBSET Pieces
      /\ repo.head \subseteq head /\ repo.tree \subseteq head \cup leaves
      /\ repo.tree \subseteq repo.head \cup tree
  <2>1. /\ repo.head \in SUBSET Pieces /\ repo.tree \in SUBSET Pieces
    BY DEF IInv, TypeOK, Repos, Commits
  <2>2. {<<"commit", d>>} \in SUBSET Pieces /\ {<<"leftover", d>>} \in SUBSET Pieces
    BY NamesTyped
  <2>3. leaves \in SUBSET Pieces
    BY <1>1, <2>2
  <2>4. head \in SUBSET Pieces /\ tree \in SUBSET Pieces
    BY <2>1, <2>2, <2>3
  <2> QED
    BY <2>1, <2>3, <2>4 DEF Commits
<1>3. Produces(d, repo.head, tree, FALSE, ok) \/ Produces(d, head, leaves, pushes, ok)
  BY <1>1
<1> HIDE DEF head, tree
<1>4. CASE Produces(d, repo.head, tree, FALSE, ok)
  BY <1>2, <1>4, ProducesGood DEF Command
<1>5. CASE Produces(d, head, leaves, pushes, ok)
  BY <1>2, <1>5, ProducesGood DEF Command
<1> QED
  BY <1>3, <1>4, <1>5

LEMMA PreserveHeadGood ==
  ASSUME IInv, NEW d \in Deploys, PreserveHead(d)
  PROVE  Good
<1>1. CASE Step(d, "stash") /\ launcher[d].post = launcher[d].pre /\ UNCHANGED repo
  <2>1. RepoKept
    BY <1>1, RepoSame DEF PreserveHead, IInv
  <2> QED
    BY <1>1, <2>1, StageGood DEF PreserveHead, Preserved
<1>2. CASE /\ CreateRef(<<"failed", JobOf[d]>>, launcher[d].post)
           /\ launcher' = [launcher EXCEPT ![d].pc = "stash", ![d].ref = launcher[d].post]
  <2> DEFINE row == [launcher[d] EXCEPT !.pc = "stash", !.ref = launcher[d].post]
  <2>1. launcher[d] \in LauncherRows
    BY RowTyped DEF IInv
  <2>2. row \in LauncherRows /\ row.owns = launcher[d].owns /\ row.post = launcher[d].post
        /\ launcher[d].post \in Commits
    BY <2>1 DEF LauncherRows, Preserved
  <2>3. launcher' = [launcher EXCEPT ![d] = row]
    BY <1>2
  <2> HIDE DEF row
  <2>4. RepoKept /\ repo'.refs[<<"failed", JobOf[d]>>] = launcher[d].post
    BY <1>2, <2>2, NamesTyped, RefCreated DEF PreserveHead, IInv
  <2>5. LauncherMoved(d, row) /\ Covered(d, row)
    BY <2>2, <2>3, <2>4 DEF LauncherMoved, Covered
  <2> QED
    BY <2>4, <2>5, LauncherGood DEF PreserveHead
<1>3. CASE Step(d, "fail") /\ UNCHANGED repo
  <2>1. RepoKept
    BY <1>3, RepoSame DEF PreserveHead, IInv
  <2> QED
    BY <1>3, <2>1, StepGood DEF PreserveHead, Late
<1> QED
  BY <1>1, <1>2, <1>3 DEF PreserveHead

LEMMA StashGood ==
  ASSUME IInv, NEW d \in Deploys, Stash(d)
  PROVE  Good
<1>1. launcher[d] \in LauncherRows /\ repo \in Repos
  BY RowTyped DEF IInv, TypeOK
<1>2. CASE UNCHANGED repo /\ (Step(d, "record") \/ Step(d, "fail"))
  <2>1. RepoKept
    BY <1>2, RepoSame DEF Stash, IInv
  <2>2. launcher[d].pc \in Preserved
    BY DEF Stash, Runs, Preserved
  <2> QED
    BY <1>2, <2>1, <2>2, StageGood, StepGood DEF Stash, Preserved, Late
<1> DEFINE stashed == repo.head \cup repo.tree
<1> DEFINE stashes == repo.stashes \cup {stashed}
<1>3. CASE /\ repo' = [repo EXCEPT !.tree = {}, !.stashes = stashes]
           /\ launcher' = [launcher EXCEPT ![d].pc = "stash-ref", ![d].stashed = stashed]
  <2>1. stashed \in Commits /\ stashes \in SUBSET Commits /\ {} \in SUBSET Pieces
    BY <1>1 DEF Repos, Commits
  <2>2. repo.head \subseteq stashed /\ repo.tree \subseteq stashed /\ stashed \in stashes
        /\ repo.stashes \subseteq stashes
    OBVIOUS
  <2> DEFINE row == [launcher[d] EXCEPT !.pc = "stash-ref", !.stashed = stashed]
  <2>3. launcher' = [launcher EXCEPT ![d] = row]
    BY <1>3
  <2> HIDE DEF stashed, stashes
  <2>4. /\ repo' \in Repos /\ repo'.refs = repo.refs /\ repo'.stashes = stashes
        /\ repo'.origin = repo.origin /\ upstream' = upstream
    BY <1>1, <1>3, <2>1 DEF Repos, Stash
  <2>5. RefsKept
    BY <2>4 DEF RefsKept
  <2>6. stashed \subseteq Work'
    BY <2>2, <2>4, WorkHolds DEF Work
  <2>7. Work \subseteq Work'
    BY <2>2, <2>4, <2>5, <2>6, WorkKept DEF IInv
  <2>8. RepoKept
    BY <2>4, <2>5, <2>7 DEF RepoKept, OriginBehind, IInv, TypeOK
  <2>9. row \in LauncherRows /\ row.owns = launcher[d].owns
        /\ row.post = launcher[d].post /\ row.pre = launcher[d].pre
    BY <1>1, <2>1 DEF LauncherRows, Preserved
  <2>10. launcher[d].post = launcher[d].pre \/ launcher[d].post \subseteq repo'.refs[<<"failed", JobOf[d]>>]
    BY <2>4 DEF IInv, HeadKept, FailedRef, Stash, Runs, Preserved
  <2> HIDE DEF row
  <2>11. LauncherMoved(d, row) /\ Covered(d, row)
    BY <2>3, <2>9, <2>10 DEF LauncherMoved, Covered
  <2> QED
    BY <2>8, <2>11, LauncherGood DEF Stash
<1> QED
  BY <1>2, <1>3 DEF Stash

LEMMA PreserveStashGood ==
  ASSUME IInv, NEW d \in Deploys, PreserveStash(d)
  PROVE  Good
<1>1. launcher[d] \in LauncherRows
  BY RowTyped DEF IInv
<1>2. launcher[d].stashed \in Commits
  BY <1>1 DEF LauncherRows
<1>3. RepoKept
  BY <1>2, NamesTyped, RefCreated, RepoSame DEF PreserveStash, IInv
<1>4. launcher[d].pc \in Preserved
  BY DEF PreserveStash, Runs, Preserved
<1> QED
  BY <1>3, <1>4, StageGood, StepGood DEF PreserveStash, Preserved, Late

LEMMA RecordGood ==
  ASSUME IInv, NEW d \in Deploys, Record(d)
  PROVE  Good
<1>1. RepoKept
  BY RepoSame DEF Record, IInv
<1>2. launcher[d].pc \in Preserved
  BY DEF Record, Runs, Preserved
<1> QED
  BY <1>1, <1>2, StageGood, StepGood DEF Record, Preserved, Late

\* The launcher resets only what is under its job's ref.
LEMMA ResetGood ==
  ASSUME IInv, NEW d \in Deploys, Reset(d)
  PROVE  Good
<1>1. CASE Step(d, "fail") /\ UNCHANGED repo
  <2>1. RepoKept
    BY <1>1, RepoSame DEF Reset, IInv
  <2> QED
    BY <1>1, <2>1, StepGood DEF Reset, Late
<1>2. CASE /\ Unchanged(d)
           /\ HardReset(launcher[d].pre)
           /\ launcher' = [launcher EXCEPT ![d].pc = "preserved", ![d].post = launcher[d].pre]
  <2> DEFINE row == [launcher[d] EXCEPT !.pc = "preserved", !.post = launcher[d].pre]
  <2>1. launcher[d] \in LauncherRows
    BY RowTyped DEF IInv
  <2>2. launcher[d].pre \in Commits
    BY <2>1 DEF LauncherRows
  <2>3. row \in LauncherRows /\ row.owns = launcher[d].owns /\ row.pc \notin Preserved
    BY <2>1, <2>2 DEF LauncherRows, Late, Preserved
  <2>4. launcher' = [launcher EXCEPT ![d] = row]
    BY <1>2
  <2> HIDE DEF row
  <2>5. repo.head \subseteq launcher[d].pre \/ repo.head \subseteq repo.refs[<<"failed", JobOf[d]>>]
    BY <1>2 DEF IInv, HeadKept, FailedRef, Reset, Runs, Preserved, Unchanged
  <2>6. RepoKept
    BY <1>2, <2>2, <2>5, NamesTyped, ResetKept DEF Unchanged, Reset, IInv
  <2>7. LauncherMoved(d, row) /\ Covered(d, row)
    BY <2>3, <2>4 DEF LauncherMoved, Covered
  <2> QED
    BY <2>6, <2>7, LauncherGood DEF Reset
<1> QED
  BY <1>1, <1>2 DEF Reset

(***************************************************************************)
(* The world, and the job directories.                                     *)
(***************************************************************************)
LEMMA KillScriptGood ==
  ASSUME IInv, NEW d \in Deploys, KillScript(d)
  PROVE  Good
<1>1. PICK row \in DeployRows : row.script = "killed" /\ deploy' = [deploy EXCEPT ![d] = row]
  BY ScriptMoved DEF KillScript, IInv
<1>2. \A e \in Deploys \ {d} : deploy'[e] = deploy[e]
  BY <1>1 DEF IInv, TypeOK
<1>3. deploy'[d].script = "killed"
  BY <1>1 DEF IInv, TypeOK
<1>4. Locked'
  BY <1>2, <1>3 DEF IInv, Locked, Running, KillScript
<1>5. RepoKept /\ RefsKept
  BY RepoSame, RefsSame DEF KillScript, IInv
<1> QED
  BY <1>1, <1>4, <1>5, ScriptKeeps DEF KillScript, Good

LEMMA OriginAdvancesGood ==
  ASSUME IInv, OriginAdvances
  PROVE  Good /\ advances' \in 0 .. MaxAdvances
<1>1. advances' \in 0 .. MaxAdvances /\ advances' \in 1 .. MaxAdvances
  BY DeployAssumption DEF OriginAdvances, IInv, TypeOK
<1>2. <<"upstream", advances'>> \in Pieces
  BY <1>1 DEF Pieces
<1>3. upstream' \in Commits /\ upstream \subseteq upstream'
  BY <1>2 DEF OriginAdvances, IInv, TypeOK, Commits
<1>4. /\ repo' = repo /\ repo' \in Repos /\ RefsKept
  BY RefsSame DEF OriginAdvances, IInv, TypeOK
<1>5. repo.head \subseteq Work' /\ repo.tree \subseteq Work'
  BY <1>4, WorkHolds DEF Work
<1>6. Work \subseteq Work'
  BY <1>3, <1>4, <1>5, WorkKept DEF IInv
<1>7. RepoKept
  BY <1>3, <1>4, <1>6 DEF RepoKept, OriginBehind, IInv
<1>8. \A e \in Deploys : FailedRef(e) \subseteq FailedRef(e)'
  BY <1>4, NamesTyped DEF RefsKept, FailedRef
<1>9. Kept
  BY <1>8 DEF Kept, OriginAdvances, IInv, TypeOK, Locked, Running, HeadKept
<1> QED
  BY <1>1, <1>7, <1>9 DEF Good

LEMMA StatusTyped ==
  ASSUME NEW row \in LauncherRows, NEW phase \in Phases
  PROVE  StatusOf(row, phase) \in Statuses
<1>1. row.ref \in Commits /\ row.stashed \in Commits
  BY DEF LauncherRows
<1>2. (row.post # NoCommit /\ row.pre # row.post) \in BOOLEAN
  OBVIOUS
<1> DEFINE moved == row.post # NoCommit /\ row.pre # row.post
<1> HIDE DEF moved
<1>3. moved \in BOOLEAN => [phase |-> phase, moved |-> moved, ref |-> row.ref, stashed |-> row.stashed] \in Statuses
  BY <1>1 DEF Statuses
<1> USE DEF moved
<1>4. moved \in BOOLEAN
  BY <1>2
<1> QED
  BY <1>3, <1>4, Zenon DEF StatusOf

LEMMA StatusWritten ==
  ASSUME TypeOK, NEW d \in Deploys, NEW row \in LauncherRows, NEW phase \in Phases,
         WriteStatus(d, row, phase)
  PROVE  jobs' \in [Jobs -> JobRows]
<1> DEFINE status == StatusOf(row, phase)
<1>1. status \in Statuses
  BY StatusTyped
<1>2. jobs' = [jobs EXCEPT ![JobOf[d]].status = status]
  BY DEF WriteStatus
<1> HIDE DEF status
<1>3. JobOf[d] \in Jobs /\ jobs[JobOf[d]] \in JobRows
  BY DeployAssumption DEF TypeOK
<1>4. [jobs[JobOf[d]] EXCEPT !.status = status] \in JobRows
  BY <1>1, <1>3 DEF JobRows
<1> QED
  BY <1>2, <1>3, <1>4 DEF TypeOK

LEMMA JobsTyped ==
  ASSUME IInv, NEW d \in Deploys,
         \/ UploadArchive(d) \/ CompareSha(d) \/ Queue(d) \/ Enter(d) \/ Unpack(d) \/ WriteDone(d)
         \/ Record(d) \/ Abort(d) \/ WriteFailed(d) \/ WriteMarker(d)
  PROVE  jobs' \in [Jobs -> JobRows]
<1>1. /\ JobOf[d] \in Jobs /\ jobs[JobOf[d]] \in JobRows /\ jobs \in [Jobs -> JobRows]
      /\ launcher[d] \in LauncherRows
  BY DeployAssumption, RowTyped DEF IInv, TypeOK
<1>2. CASE UploadArchive(d) \/ CompareSha(d)
  <2>1. \A a \in {"none", "partial"} \cup Deploys : [jobs[JobOf[d]] EXCEPT !.archive = a] \in JobRows
    BY <1>1 DEF JobRows
  <2>2. \/ jobs' = jobs
        \/ \E a \in {"none", "partial"} \cup Deploys : jobs' = [jobs EXCEPT ![JobOf[d]].archive = a]
    BY <1>2 DEF UploadArchive, CompareSha
  <2> QED
    BY <1>1, <2>1, <2>2
<1>3. CASE Queue(d) \/ WriteDone(d) \/ Record(d) \/ Abort(d) \/ WriteFailed(d)
  <2>1. /\ "queued" \in Phases /\ "done" \in Phases /\ "running" \in Phases
        /\ "failed" \in Phases /\ "failed-preserved" \in Phases
    BY DEF Phases, Ended
  <2>2. jobs' = jobs \/ \E phase \in Phases : WriteStatus(d, launcher[d], phase)
    BY <1>3, <2>1 DEF Queue, WriteDone, Record, Abort, WriteFailed
  <2> QED
    BY <1>1, <2>2, StatusWritten DEF IInv
<1>4. CASE Enter(d)
  <2> DEFINE row == [launcher[d] EXCEPT !.pre = repo.head]
  <2>1. jobs' = jobs \/ \E phase \in {"running", "unpacking"} : WriteStatus(d, row, phase)
    BY <1>4 DEF Enter, Refuses
  <2>2. repo.head \in Commits /\ "running" \in Phases /\ "unpacking" \in Phases
    BY DEF Phases, IInv, TypeOK, Repos
  <2>3. row \in LauncherRows
    BY <1>1, <2>2 DEF LauncherRows
  <2> HIDE DEF row
  <2> QED
    BY <1>1, <2>1, <2>2, <2>3, StatusWritten DEF IInv
<1>5. CASE Unpack(d)
  <2> DEFINE status == StatusOf(launcher[d], "command-running")
  <2>1. status \in Statuses
    BY <1>1, StatusTyped DEF Phases
  <2> DEFINE archive == IF jobs[JobOf[d]].archive \in Deploys THEN "none" ELSE jobs[JobOf[d]].archive
  <2>2. \/ jobs' = jobs
        \/ jobs' = [jobs EXCEPT ![JobOf[d]].archive = "none", ![JobOf[d]].status = status]
        \/ jobs' = [jobs EXCEPT ![JobOf[d]].archive = archive]
    BY <1>1, <1>5 DEF Unpack
  <2>a. archive \in {"none", "partial"} \cup Deploys
    BY <1>1 DEF JobRows
  <2> HIDE DEF status, archive
  <2>b. [jobs[JobOf[d]] EXCEPT !.archive = archive] \in JobRows
    BY <1>1, <2>a DEF JobRows
  <2>3. [jobs[JobOf[d]] EXCEPT !.archive = "none", !.status = status] \in JobRows
    BY <1>1, <2>1 DEF JobRows
  <2> QED
    BY <1>1, <2>2, <2>3, <2>b
<1>6. CASE WriteMarker(d)
  <2>1. [jobs[JobOf[d]] EXCEPT !.marker = TRUE] \in JobRows
    BY <1>1 DEF JobRows
  <2> QED
    BY <1>1, <1>6, <2>1 DEF WriteMarker
<1> QED
  BY <1>2, <1>3, <1>4, <1>5, <1>6

(***************************************************************************)
(* The theorems.                                                           *)
(***************************************************************************)
LEMMA InitIInv ==
  ASSUME Init
  PROVE  IInv
<1>1. /\ {} \in Commits /\ Base \in Commits /\ {<<"local">>} \in Commits
      /\ Base \cup {<<"local">>} \in Commits
  BY DEF Commits, Pieces
<1>2. NewLauncher \in LauncherRows /\ NewDeploy \in DeployRows
  BY <1>1 DEF NewLauncher, NewDeploy, LauncherRows, DeployRows, Early, Calls, NoCommit
<1>3. NoStatus \in Statuses
  BY <1>1 DEF NoStatus, Statuses, Phases, NoCommit
<1> DEFINE head == Base \cup (IF setting.ahead THEN {<<"local">>} ELSE {})
<1>4. head \in Commits
  BY <1>1
<1> HIDE DEF head
<1>5. [head |-> head, origin |-> Base, tree |-> {}, refs |-> [n \in RefNames |-> {}], stashes |-> {}] \in Repos
  BY <1>1, <1>4 DEF Repos, Commits
<1>6. repo \in Repos /\ repo.origin = Base
  BY <1>5 DEF Init, NoCommit, head
<1>7. [status |-> NoStatus, marker |-> FALSE, archive |-> "none"] \in JobRows
  BY <1>3 DEF JobRows
<1>8. TypeOK
  BY <1>1, <1>2, <1>6, <1>7, DeployAssumption DEF Init, TypeOK
<1>9. Locked /\ HeadKept
  BY DEF Init, Locked, HeadKept, Running, NewDeploy, NewLauncher, Preserved
<1> QED
  BY <1>6, <1>8, <1>9 DEF IInv, OriginBehind, Init

LEMMA NextGood ==
  ASSUME IInv, [Next]_vars
  PROVE  Good
<1>1. CASE UNCHANGED vars
  BY <1>1, RepoSame DEF vars, Good, Kept, IInv, TypeOK, Locked, Running, HeadKept, FailedRef
<1>2. CASE OriginAdvances
  BY <1>2, OriginAdvancesGood
<1>3. ASSUME NEW d \in Deploys, DeployNext(d) \/ CallFails(d) \/ PollDeadline(d)
      PROVE  Good
  BY <1>3, CallFailsGood, CleanupGood, PreserveRefGood, FetchOriginGood, RecheckGood, ResetOwnGood,
     VerifyResetGood, UploadArchiveGood, CompareShaGood, StartJobGood, FetchStatusGood
     DEF DeployNext
<1>4. ASSUME NEW d \in Deploys, ScriptNext(d) \/ KillLauncher(d) \/ KillScript(d)
      PROVE  Good
  BY <1>4, ResetCheckedGood, ResetExitsGood, SimpleGood, KillScriptGood DEF ScriptNext
<1>5. ASSUME NEW d \in Deploys, LauncherNext(d)
      PROVE  Good
  BY <1>5, SimpleGood, OwnGood, EnterGood, UnpackGood, CommandGood, PreserveHeadGood, StashGood,
     PreserveStashGood, RecordGood, ResetGood, ExitGood DEF LauncherNext
<1> QED
  BY <1>1, <1>2, <1>3, <1>4, <1>5 DEF Next

LEMMA NextTyped ==
  ASSUME IInv, [Next]_vars
  PROVE  jobs' \in [Jobs -> JobRows] /\ advances' \in 0 .. MaxAdvances
<1>1. jobs \in [Jobs -> JobRows] /\ advances \in 0 .. MaxAdvances
  BY DEF IInv, TypeOK
<1>2. CASE UNCHANGED vars
  BY <1>1, <1>2 DEF vars
<1>3. CASE OriginAdvances
  BY <1>1, <1>3, OriginAdvancesGood DEF OriginAdvances
<1>4. ASSUME NEW d \in Deploys, DeployNext(d) \/ CallFails(d) \/ PollDeadline(d)
      PROVE  jobs' \in [Jobs -> JobRows] /\ advances' = advances
  BY <1>1, <1>4, JobsTyped
     DEF DeployNext, CallFails, PollDeadline, Cleanup, PreserveRef, FetchOrigin, Recheck, ResetOwn,
         VerifyReset, UploadArchive, CompareSha, StartJob, FetchStatus, FetchFails, TrackCi
<1>5. ASSUME NEW d \in Deploys, ScriptNext(d) \/ KillLauncher(d) \/ KillScript(d)
      PROVE  jobs' \in [Jobs -> JobRows] /\ advances' = advances
  BY <1>1, <1>5 DEF ScriptNext, ResetChecked, ResetExits, KillLauncher, KillScript
<1>6. ASSUME NEW d \in Deploys, LauncherNext(d)
      PROVE  jobs' \in [Jobs -> JobRows] /\ advances' = advances
  BY <1>1, <1>6, JobsTyped
     DEF LauncherNext, Queue, Own, Enter, Unpack, Command, WriteDone, PreserveHead, Stash,
         PreserveStash, Record, Reset, Abort, WriteFailed, WriteMarker, Exit
<1> QED
  BY <1>1, <1>2, <1>3, <1>4, <1>5, <1>6 DEF Next

LEMMA StepIInv ==
  ASSUME IInv, [Next]_vars
  PROVE  IInv' /\ Work \subseteq Work'
<1>1. Good
  BY NextGood
<1>2. TypeOK'
  BY <1>1, NextTyped DEF TypeOK, Good, RepoKept, Kept
<1> QED
  BY <1>1, <1>2 DEF IInv, Good, RepoKept, Kept

\* The strengthened invariant: the types, the lock's owner is whoever may write,
\* a launcher about to reset has its commit under its job's ref, and origin/main
\* holds nothing the origin does not.
THEOREM DeployInvariant == Spec => []IInv
<1>1. Init => IInv
  BY InitIInv
<1>2. IInv /\ [Next]_vars => IInv'
  BY StepIInv
<1> QED
  BY <1>1, <1>2, PTL DEF Spec

\* Every record of the deploys, the launchers and the job directories stays one
\* the code can write.
THEOREM DeployTypes == Spec => []TypeOK
<1>1. IInv => TypeOK
  BY DEF IInv
<1> QED
  BY <1>1, DeployInvariant, PTL

\* One process at a time writes to the checkout: the lock directory is made by
\* the cleanup's reset script or by a launcher, and only its maker removes it.
THEOREM LockIsTheWriters == Spec => []OneMutator
<1>1. IInv => OneMutator
  BY DEF IInv, Locked, OneMutator, Mutators
<1> QED
  BY <1>1, DeployInvariant, PTL

\* No step of a cleanup or of a launcher loses work, for any number of deploys,
\* jobs, processes killed and commits pushed by others.
THEOREM NoWorkLost == Spec => WorkPreserved
<1>1. IInv /\ [Next]_vars => [Work \subseteq Work']_vars
  BY StepIInv
<1> QED
  BY <1>1, DeployInvariant, PTL DEF Spec, WorkPreserved

(***************************************************************************)
(* How a deploy ends: what its job's directory and its report say of the   *)
(* checkout.  A launcher finds only its own work in the checkout it owns;  *)
(* only a command that exited with 0 writes "done"; and what a launcher    *)
(* sets aside is under the refs its status names.                          *)
(***************************************************************************)
StashRef(d) == repo.refs[<<"failed-stash", JobOf[d]>>]

\* The stages a launcher is only in with the lock, those before it looks at the
\* checkout, and those after a command that succeeded.
Holding == {"enter", "preserved"} \cup Writing
Starting == {"absent", "queue", "own", "enter"}
Succeeding == {"done", "abort", "mark", "exit", "ended", "killed"}

Earned(j) == \E e \in Deploys : JobOf[e] = j /\ launcher[e].ok

\* WorkIsNotMixed, launcher by launcher.
Unmixed(d) ==
  launcher[d].pc \in Writing =>
    /\ repo.tree \subseteq OwnWork(d)
    /\ repo.head \cup launcher[d].stashed \subseteq launcher[d].pre \cup OwnWork(d)

RowTold(d) ==
  /\ launcher[d].pc \in Holding => launcher[d].owns
  /\ launcher[d].pc = "done" => launcher[d].ok
  /\ launcher[d].ok => launcher[d].pc \in Succeeding
  /\ launcher[d].pc \in Starting => launcher[d].stashed = NoCommit
  /\ launcher[d].ref # NoCommit => FailedRef(d) = launcher[d].ref
  /\ launcher[d].stashed # NoCommit =>
       launcher[d].pc \in {"stash-ref", "fail"} \/ StashRef(d) = launcher[d].stashed
  /\ deploy[d].pc \in Calls => launcher[d].pc = "absent"

DeployTold(d) ==
  /\ deploy[d].pc = "ci" => Earned(JobOf[d])
  /\ deploy[d].report = "ok" /\ ~setting.dryRun => Earned(JobOf[d])

Named(j) ==
  /\ jobs[j].status.ref # NoCommit => repo.refs[<<"failed", j>>] = jobs[j].status.ref
  /\ jobs[j].status.stashed # NoCommit => repo.refs[<<"failed-stash", j>>] = jobs[j].status.stashed

StatusTold(j) ==
  /\ jobs[j].status.phase = "done" => Earned(j)
  /\ jobs[j].status.phase = "failed-preserved" => Named(j)

EndInv ==
  /\ IInv
  /\ \A d \in Deploys : RowTold(d) /\ Unmixed(d) /\ DeployTold(d)
  /\ \A j \in Jobs : StatusTold(j)

\* What the step of one launcher does.
RefsStable == \A n \in RefNames : repo.refs[n] # NoCommit => repo'.refs[n] = repo.refs[n]

StatusMoves(d) ==
  \A j \in Jobs :
    \/ jobs'[j].status = jobs[j].status
    \/ /\ j = JobOf[d]
       /\ jobs'[j].status.phase = "done" => launcher'[d].ok
       /\ jobs'[j].status.phase = "failed-preserved" => Named(j)'

CheckoutKept == repo'.head = repo.head /\ repo'.tree = repo.tree

Told(d) ==
  /\ \A e \in Deploys \ {d} : launcher'[e] = launcher[e]
  /\ RefsStable /\ StatusMoves(d) /\ (CheckoutKept \/ launcher[d].owns)
  /\ launcher[d].ok => launcher'[d].ok
  /\ RowTold(d)' /\ Unmixed(d)'

\* What a step does to the deploys.
DeployMoves ==
  /\ setting' = setting
  /\ \A e \in Deploys :
       /\ deploy'[e].pc \in Calls => deploy[e].pc \in Calls
       /\ deploy'[e].pc = "ci" => deploy[e].pc = "ci" \/ jobs[JobOf[e]].status.phase = "done"
       /\ deploy'[e].report = "ok" => \/ deploy[e].report = "ok" \/ deploy[e].pc = "ci"
                                      \/ jobs[JobOf[e]].status.phase = "done" \/ setting.dryRun

\* What a step that moves no launcher does.
Quiet ==
  /\ launcher' = launcher /\ RefsStable
  /\ \A j \in Jobs : jobs'[j].status = jobs[j].status
  /\ CheckoutKept \/ \E d \in Deploys : Running(d)

LEMMA NamedKept ==
  ASSUME RefsStable, NEW j \in Jobs, jobs'[j].status = jobs[j].status, Named(j)
  PROVE  Named(j)'
<1>1. <<"failed", j>> \in RefNames /\ <<"failed-stash", j>> \in RefNames
  BY DEF RefNames
<1> QED
  BY <1>1 DEF Named, RefsStable

\* The invariant, from what the steps do.
LEMMA EndKept ==
  ASSUME EndInv, IInv', DeployMoves, Quiet \/ \E d \in Deploys : Told(d)
  PROVE  EndInv'
<1>1. \A e \in Deploys : launcher[e].ok => launcher'[e].ok
  BY DEF Quiet, Told
<1>2. \A j \in Jobs : Earned(j) => Earned(j)'
  BY <1>1 DEF Earned
<1>3. RefsStable
  BY DEF Quiet, Told
<1>4. ASSUME NEW e \in Deploys, launcher'[e] = launcher[e] PROVE RowTold(e)'
  <2>1. /\ FailedRef(e) # NoCommit => FailedRef(e)' = FailedRef(e)
        /\ StashRef(e) # NoCommit => StashRef(e)' = StashRef(e)
    BY <1>3, NamesTyped DEF RefsStable, FailedRef, StashRef
  <2>2. RowTold(e) /\ (deploy'[e].pc \in Calls => deploy[e].pc \in Calls)
    BY DEF EndInv, DeployMoves
  <2> QED
    BY <1>4, <2>1, <2>2 DEF RowTold
<1>5. \A e \in Deploys : RowTold(e)'
  BY <1>4 DEF Quiet, Told
<1>6. ASSUME NEW e \in Deploys PROVE DeployTold(e)'
  <2>1. JobOf[e] \in Jobs
    BY DeployAssumption
  <2>2. DeployTold(e) /\ StatusTold(JobOf[e])
    BY <2>1 DEF EndInv
  <2> QED
    BY <1>2, <2>1, <2>2 DEF DeployMoves, DeployTold, StatusTold
<1>7. ASSUME NEW j \in Jobs PROVE StatusTold(j)'
  <2>1. StatusTold(j)
    BY DEF EndInv
  <2>2. CASE jobs'[j].status = jobs[j].status
    BY <1>2, <1>3, <2>1, <2>2, NamedKept DEF StatusTold
  <2>3. CASE jobs'[j].status # jobs[j].status
    <3>1. PICK d \in Deploys : /\ j = JobOf[d]
                               /\ jobs'[j].status.phase = "done" => launcher'[d].ok
                               /\ jobs'[j].status.phase = "failed-preserved" => Named(j)'
      BY <2>3 DEF Quiet, Told, StatusMoves
    <3> QED
      BY <3>1 DEF StatusTold, Earned
  <2> QED
    BY <2>2, <2>3
<1>8. ASSUME NEW e \in Deploys, launcher'[e] = launcher[e],
             CheckoutKept \/ (\E d \in Deploys \ {e} : launcher[d].owns) \/ \E d \in Deploys : Running(d)
      PROVE  Unmixed(e)'
  <2> SUFFICES ASSUME launcher[e].pc \in Writing PROVE CheckoutKept
    BY <1>8 DEF EndInv, Unmixed, CheckoutKept
  <2>1. lock = Launcher(e)
    BY DEF EndInv, RowTold, Holding, IInv, Locked
  <2>2. \A d \in Deploys : ~Running(d) /\ (launcher[d].owns => d = e)
    BY <2>1 DEF EndInv, IInv, Locked, Launcher, Resetter
  <2> QED
    BY <1>8, <2>2
<1>9. \A e \in Deploys : Unmixed(e)'
  BY <1>8 DEF Quiet, Told
<1> QED
  BY <1>5, <1>6, <1>7, <1>9 DEF EndInv

(***************************************************************************)
(* The launcher's steps, one by one.                                       *)
(***************************************************************************)
LEMMA StepRow ==
  ASSUME TypeOK, NEW d \in Deploys, NEW pc, Step(d, pc)
  PROVE  /\ \A e \in Deploys \ {d} : launcher'[e] = launcher[e]
         /\ launcher'[d].pc = pc /\ launcher'[d].owns = launcher[d].owns
         /\ launcher'[d].ok = launcher[d].ok /\ launcher'[d].ref = launcher[d].ref
         /\ launcher'[d].stashed = launcher[d].stashed /\ launcher'[d].pre = launcher[d].pre
<1>1. launcher[d] \in LauncherRows /\ launcher \in [Deploys -> LauncherRows]
  BY DEF TypeOK
<1> QED
  BY <1>1 DEF Step, LauncherRows

LEMMA LeftRow ==
  ASSUME TypeOK, NEW d \in Deploys, NEW pc, Left(d, pc)
  PROVE  /\ \A e \in Deploys \ {d} : launcher'[e] = launcher[e]
         /\ launcher'[d].pc = pc /\ launcher'[d].owns = launcher[d].owns
         /\ launcher'[d].ok = launcher[d].ok
         /\ launcher'[d].ref = NoCommit /\ launcher'[d].stashed = NoCommit
<1> DEFINE row == [NewLauncher EXCEPT !.pc = pc, !.owns = launcher[d].owns, !.ok = launcher[d].ok]
<1>1. launcher' = [launcher EXCEPT ![d] = row] /\ launcher \in [Deploys -> LauncherRows]
  BY DEF Left, TypeOK
<1>2. /\ row.pc = pc /\ row.owns = launcher[d].owns /\ row.ok = launcher[d].ok
      /\ row.ref = NoCommit /\ row.stashed = NoCommit
  BY DEF NewLauncher
<1> HIDE DEF row
<1> QED
  BY <1>1, <1>2

LEMMA StatusRow ==
  ASSUME TypeOK, NEW d \in Deploys, NEW row, NEW phase, WriteStatus(d, row, phase)
  PROVE  /\ \A j \in Jobs \ {JobOf[d]} : jobs'[j].status = jobs[j].status
         /\ jobs'[JobOf[d]].status.phase = phase
         /\ jobs'[JobOf[d]].status.ref = row.ref
         /\ jobs'[JobOf[d]].status.stashed = row.stashed
<1> DEFINE status == StatusOf(row, phase)
<1>1. status.phase = phase /\ status.ref = row.ref /\ status.stashed = row.stashed
  BY DEF StatusOf
<1>2. jobs' = [jobs EXCEPT ![JobOf[d]].status = status]
  BY DEF WriteStatus
<1> HIDE DEF status
<1>3. jobs \in [Jobs -> JobRows] /\ JobOf[d] \in Jobs /\ jobs[JobOf[d]] \in JobRows
  BY DeployAssumption DEF TypeOK
<1>4. jobs'[JobOf[d]].status = status
  BY <1>2, <1>3 DEF JobRows
<1> QED
  BY <1>1, <1>2, <1>3, <1>4

\* A status of a launcher at work says nothing of an end.
LEMMA StatusTells ==
  ASSUME TypeOK, NEW d \in Deploys, NEW row, NEW phase, WriteStatus(d, row, phase),
         phase \notin {"done", "failed-preserved"}
  PROVE  StatusMoves(d)
BY StatusRow DEF StatusMoves

LEMMA JobsSame ==
  ASSUME NEW d, jobs' = jobs
  PROVE  StatusMoves(d)
BY DEF StatusMoves

LEMMA RefsUnchanged == repo' = repo => RefsStable /\ CheckoutKept
BY DEF RefsStable, CheckoutKept

\* A step that writes neither the checkout nor the launcher's refs.
LEMMA PlainTold ==
  ASSUME EndInv, NEW d \in Deploys, NEW pc, Step(d, pc), UNCHANGED <<repo, deploy>>,
         deploy[d].pc \notin Calls, StatusMoves(d),
         pc \in Holding => launcher[d].owns,
         launcher[d].ok => pc \in Succeeding,
         pc # "done", pc \in Starting => launcher[d].pc \in Starting,
         launcher[d].pc = "stash-ref" => pc \in {"stash-ref", "fail"},
         launcher[d].pc # "fail",
         pc \in Writing => launcher[d].pc \in Writing
  PROVE  Told(d)
<1>1. /\ \A e \in Deploys \ {d} : launcher'[e] = launcher[e]
      /\ launcher'[d].pc = pc /\ launcher'[d].owns = launcher[d].owns
      /\ launcher'[d].ok = launcher[d].ok /\ launcher'[d].ref = launcher[d].ref
      /\ launcher'[d].stashed = launcher[d].stashed /\ launcher'[d].pre = launcher[d].pre
  BY StepRow DEF EndInv, IInv
<1>2. RefsStable /\ CheckoutKept
  BY RefsUnchanged
<1>3. Unmixed(d)'
  BY <1>1 DEF EndInv, Unmixed
<1>4. RowTold(d)
  BY DEF EndInv
<1>5. FailedRef(d)' = FailedRef(d) /\ StashRef(d)' = StashRef(d)
  BY DEF FailedRef, StashRef
<1>6. RowTold(d)'
  BY <1>1, <1>4, <1>5 DEF RowTold
<1> QED
  BY <1>1, <1>2, <1>3, <1>6 DEF Told

\* A launcher that exits or dies.
LEMMA LeftTold ==
  ASSUME EndInv, NEW d \in Deploys, NEW pc \in {"exit", "mark", "killed"}, Left(d, pc),
         UNCHANGED <<repo, deploy>>, deploy[d].pc \notin Calls, StatusMoves(d)
  PROVE  Told(d)
<1>1. /\ \A e \in Deploys \ {d} : launcher'[e] = launcher[e]
      /\ launcher'[d].pc = pc /\ launcher'[d].owns = launcher[d].owns
      /\ launcher'[d].ok = launcher[d].ok
      /\ launcher'[d].ref = NoCommit /\ launcher'[d].stashed = NoCommit
  BY LeftRow DEF EndInv, IInv
<1>2. RefsStable /\ CheckoutKept
  BY RefsUnchanged
<1>3. pc \notin Writing /\ pc \notin Holding /\ pc \notin Starting /\ pc \in Succeeding
  BY DEF Writing, Holding, Preserved, Starting, Succeeding
<1>4. RowTold(d)' /\ Unmixed(d)'
  BY <1>1, <1>3 DEF RowTold, Unmixed
<1> QED
  BY <1>1, <1>2, <1>4 DEF Told

LEMMA CreatedRow ==
  ASSUME TypeOK, NEW name \in RefNames, NEW commit, CreateRef(name, commit)
  PROVE  /\ RefsStable /\ CheckoutKept /\ repo'.refs[name] = commit
         /\ \A n \in RefNames \ {name} : repo'.refs[n] = repo.refs[n]
<1>1. repo \in Repos /\ repo.refs \in [RefNames -> Commits]
  BY DEF TypeOK, Repos
<1> DEFINE refs == [repo.refs EXCEPT ![name] = commit]
<1>2. repo' = [repo EXCEPT !.refs = refs]
  BY DEF CreateRef
<1>3. /\ refs[name] = commit /\ \A n \in RefNames \ {name} : refs[n] = repo.refs[n]
      /\ repo.refs[name] = NoCommit
  BY <1>1 DEF CreateRef
<1> HIDE DEF refs
<1>4. repo'.refs = refs /\ repo'.tree = repo.tree /\ repo'.head = repo.head
  BY <1>1, <1>2 DEF Repos
<1> QED
  BY <1>3, <1>4 DEF RefsStable, CheckoutKept

\* A launcher only runs once its deploy has started it.
LEMMA LauncherStarted ==
  ASSUME EndInv, NEW d \in Deploys, launcher[d].pc # "absent"
  PROVE  deploy[d].pc \notin Calls
BY DEF EndInv, RowTold

LEMMA QueueTold ==
  ASSUME EndInv, NEW d \in Deploys, Queue(d)
  PROVE  Told(d)
<1>1. /\ launcher[d].pc = "queue" /\ UNCHANGED <<repo, deploy>>
      /\ \E pc \in {"own", "abort"} : Step(d, pc)
  BY DEF Queue, Runs
<1>2. StatusMoves(d)
  BY StatusTells, JobsSame DEF Queue, EndInv, IInv
<1>3. RowTold(d) /\ deploy[d].pc \notin Calls
  BY <1>1, LauncherStarted DEF EndInv
<1> QED
  BY <1>1, <1>2, <1>3, PlainTold DEF RowTold, Holding, Writing, Preserved, Starting, Succeeding

LEMMA OwnTold ==
  ASSUME EndInv, NEW d \in Deploys, Own(d)
  PROVE  Told(d)
<1>1. launcher[d].pc = "own" /\ UNCHANGED <<repo, deploy, jobs>>
  BY DEF Own, Runs
<1>2. StatusMoves(d)
  BY <1>1, JobsSame
<1>3. RowTold(d) /\ deploy[d].pc \notin Calls
  BY <1>1, LauncherStarted DEF EndInv
<1>4. CASE Step(d, "abort")
  BY <1>1, <1>2, <1>3, <1>4, PlainTold DEF RowTold, Holding, Writing, Preserved, Starting, Succeeding
<1>5. CASE TakeLock(d)
  <2>1. launcher[d] \in LauncherRows /\ launcher \in [Deploys -> LauncherRows]
    BY DEF EndInv, IInv, TypeOK
  <2>2. /\ \A e \in Deploys \ {d} : launcher'[e] = launcher[e]
        /\ launcher'[d].pc = "enter" /\ launcher'[d].owns
        /\ launcher'[d].ok = launcher[d].ok /\ launcher'[d].ref = launcher[d].ref
        /\ launcher'[d].stashed = launcher[d].stashed
    BY <1>5, <2>1 DEF LauncherRows, TakeLock
  <2>3. RefsStable /\ CheckoutKept
    BY <1>1, RefsUnchanged
  <2>4. FailedRef(d)' = FailedRef(d) /\ StashRef(d)' = StashRef(d)
    BY <1>1 DEF FailedRef, StashRef
  <2>5. RowTold(d)' /\ Unmixed(d)'
    BY <1>1, <1>3, <2>2, <2>4 DEF RowTold, Unmixed, Starting, Succeeding, Writing, Preserved
  <2> QED
    BY <1>2, <2>2, <2>3, <2>5 DEF Told
<1> QED
  BY <1>4, <1>5 DEF Own

LEMMA EnterTold ==
  ASSUME EndInv, NEW d \in Deploys, Enter(d)
  PROVE  Told(d)
<1> DEFINE first == [launcher[d] EXCEPT !.pre = repo.head]
<1>1. PICK pc \in {"abort", "unpack"} :
        /\ launcher' = [launcher EXCEPT ![d] = [first EXCEPT !.pc = pc]]
        /\ pc = "unpack" => repo.tree = {}
  BY DEF Enter, Refuses, Dirty
<1> DEFINE row == [first EXCEPT !.pc = pc]
<1>2. launcher[d].pc = "enter" /\ UNCHANGED <<repo, deploy>>
  BY DEF Enter, Runs
<1>3. launcher[d] \in LauncherRows /\ launcher \in [Deploys -> LauncherRows] /\ RowTold(d)
  BY DEF EndInv, IInv, TypeOK
<1>4. /\ first.owns = launcher[d].owns /\ first.ok = launcher[d].ok
      /\ first.ref = launcher[d].ref /\ first.stashed = launcher[d].stashed
      /\ first.pre = repo.head /\ first = [first EXCEPT !.pre = repo.head]
  BY <1>3 DEF LauncherRows
<1>5. /\ row.pc = pc /\ row.owns = launcher[d].owns /\ row.ok = launcher[d].ok
      /\ row.ref = launcher[d].ref /\ row.stashed = launcher[d].stashed /\ row.pre = repo.head
  BY <1>3, <1>4 DEF LauncherRows
<1>6. jobs' = jobs \/ \E phase \in {"running", "unpacking"} : WriteStatus(d, first, phase)
  BY DEF Enter, Refuses
<1>7. launcher'[d] = row /\ \A e \in Deploys \ {d} : launcher'[e] = launcher[e]
  BY <1>1, <1>3
<1> HIDE DEF first, row
<1>8. StatusMoves(d)
  BY <1>6, StatusTells, JobsSame DEF EndInv, IInv
<1>9. RefsStable /\ CheckoutKept
  BY <1>2, RefsUnchanged
<1>10. FailedRef(d)' = FailedRef(d) /\ StashRef(d)' = StashRef(d)
  BY <1>2 DEF FailedRef, StashRef
<1>11. RowTold(d)'
  BY <1>2, <1>3, <1>5, <1>7, <1>10 DEF RowTold, Holding, Starting, Succeeding
<1>12. Unmixed(d)'
  <2>1. launcher[d].stashed = {}
    BY <1>2, <1>3 DEF RowTold, Starting, NoCommit
  <2>2. pc \in Writing => pc = "unpack"
    BY DEF Writing, Preserved
  <2> QED
    BY <1>1, <1>2, <1>5, <1>7, <2>1, <2>2 DEF Unmixed
<1> QED
  BY <1>5, <1>7, <1>8, <1>9, <1>11, <1>12 DEF Told

LEMMA UnpackTold ==
  ASSUME EndInv, NEW d \in Deploys, Unpack(d)
  PROVE  Told(d)
<1>1. launcher[d].pc = "unpack" /\ deploy' = deploy /\ (Step(d, "command") \/ Step(d, "abort"))
  BY DEF Unpack, Runs
<1>2. RowTold(d) /\ repo \in Repos /\ jobs \in [Jobs -> JobRows]
  BY DEF EndInv, IInv, TypeOK
<1>3. /\ \A e \in Deploys \ {d} : launcher'[e] = launcher[e]
      /\ launcher'[d].pc \in {"command", "abort"} /\ launcher'[d].owns = launcher[d].owns
      /\ launcher'[d].ok = launcher[d].ok /\ launcher'[d].ref = launcher[d].ref
      /\ launcher'[d].stashed = launcher[d].stashed /\ launcher'[d].pre = launcher[d].pre
  BY <1>1, StepRow DEF EndInv, IInv
<1>4. /\ repo'.refs = repo.refs /\ repo'.head = repo.head
      /\ repo'.tree \subseteq repo.tree \cup {<<"archive", d>>}
  BY <1>2 DEF Unpack, Repos
<1>5. RefsStable /\ FailedRef(d)' = FailedRef(d) /\ StashRef(d)' = StashRef(d)
  BY <1>4 DEF RefsStable, FailedRef, StashRef
<1>6. launcher[d].owns
  BY <1>1, <1>2 DEF RowTold, Holding, Writing
<1>7. Unmixed(d)'
  <2>1. repo.tree \subseteq OwnWork(d) /\ repo.head \cup launcher[d].stashed \subseteq launcher[d].pre \cup OwnWork(d)
    BY <1>1 DEF EndInv, Unmixed, Writing
  <2> QED
    BY <1>3, <1>4, <2>1 DEF Unmixed, OwnWork
<1>8. StatusMoves(d)
  <2>1. CASE jobs' = jobs
    BY <2>1, JobsSame
  <2>2. JobOf[d] \in Jobs /\ jobs[JobOf[d]] \in JobRows
    BY <1>2, DeployAssumption
  <2> DEFINE status == StatusOf(launcher[d], "command-running")
             archive == IF jobs[JobOf[d]].archive \in Deploys THEN "none" ELSE jobs[JobOf[d]].archive
  <2>3. CASE jobs' = [jobs EXCEPT ![JobOf[d]].archive = "none", ![JobOf[d]].status = status]
    <3>1. status.phase = "command-running"
      BY DEF StatusOf
    <3> HIDE DEF status
    <3>2. jobs'[JobOf[d]].status = status /\ \A j \in Jobs \ {JobOf[d]} : jobs'[j] = jobs[j]
      BY <1>2, <2>2, <2>3 DEF JobRows
    <3> QED
      BY <3>1, <3>2 DEF StatusMoves
  <2>4. CASE jobs' = [jobs EXCEPT ![JobOf[d]].archive = archive]
    <3> HIDE DEF archive
    <3>1. \A j \in Jobs : jobs'[j].status = jobs[j].status
      BY <1>2, <2>2, <2>4 DEF JobRows
    <3> QED
      BY <3>1 DEF StatusMoves
  <2> QED
    BY <1>2, <2>1, <2>2, <2>3, <2>4 DEF Unpack
<1>9. RowTold(d)'
  BY <1>1, <1>2, <1>3, <1>5, <1>6 DEF RowTold, Starting, Succeeding
<1> QED
  BY <1>3, <1>5, <1>6, <1>7, <1>8, <1>9 DEF Told

LEMMA CommandTold ==
  ASSUME EndInv, NEW d \in Deploys, Command(d)
  PROVE  Told(d)
<1>1. launcher[d].pc = "command" /\ UNCHANGED <<deploy, jobs>>
  BY DEF Command, Runs
<1>2. \E head, tree : \E pushes \in BOOLEAN, ok \in BOOLEAN :
        /\ Produces(d, head, tree, pushes, ok)
        /\ tree \subseteq repo.tree \cup {<<"leftover", d>>}
        /\ head \subseteq repo.head \cup repo.tree \cup {<<"commit", d>>}
  <2>1. PICK leaves \in SUBSET {<<"leftover", d>>}, pushes \in BOOLEAN, ok \in BOOLEAN :
          \/ Produces(d, repo.head, repo.tree \cup leaves, FALSE, ok)
          \/ Produces(d, repo.head \cup repo.tree \cup {<<"commit", d>>}, leaves, pushes, ok)
    BY DEF Command
  <2> QED
    BY <2>1
<1>a. PICK head, tree : \E pushes \in BOOLEAN, ok \in BOOLEAN :
        /\ Produces(d, head, tree, pushes, ok)
        /\ tree \subseteq repo.tree \cup {<<"leftover", d>>}
        /\ head \subseteq repo.head \cup repo.tree \cup {<<"commit", d>>}
  BY <1>2
<1>b. PICK pushes \in BOOLEAN, ok \in BOOLEAN : Produces(d, head, tree, pushes, ok)
  BY <1>a
<1> DEFINE pc == IF ok THEN "done" ELSE "preserve"
<1>3. /\ RowTold(d) /\ repo \in Repos
      /\ launcher[d] \in LauncherRows /\ launcher \in [Deploys -> LauncherRows]
  BY DEF EndInv, IInv, TypeOK
<1>4. launcher[d].owns /\ ~launcher[d].ok
  BY <1>1, <1>3 DEF RowTold, Holding, Writing, Succeeding
<1>5. pc \in {"done", "preserve"} /\ (pc = "done" <=> ok)
  OBVIOUS
<1>6. launcher' = [launcher EXCEPT ![d].post = head, ![d].ok = ok, ![d].pc = pc]
  BY <1>b DEF Produces
<1> HIDE DEF pc
<1>7. /\ \A e \in Deploys \ {d} : launcher'[e] = launcher[e]
      /\ launcher'[d].pc = pc /\ launcher'[d].owns = launcher[d].owns
      /\ launcher'[d].ok = ok /\ launcher'[d].ref = launcher[d].ref
      /\ launcher'[d].stashed = launcher[d].stashed /\ launcher'[d].pre = launcher[d].pre
  BY <1>3, <1>6 DEF LauncherRows
<1>8. repo'.refs = repo.refs /\ repo'.tree = tree /\ repo'.head = head
  BY <1>b, <1>3 DEF Produces, Repos
<1>9. RefsStable /\ FailedRef(d)' = FailedRef(d) /\ StashRef(d)' = StashRef(d)
  BY <1>8 DEF RefsStable, FailedRef, StashRef
<1>10. Unmixed(d)'
  <2>1. repo.tree \subseteq OwnWork(d) /\ repo.head \cup launcher[d].stashed \subseteq launcher[d].pre \cup OwnWork(d)
    BY <1>1 DEF EndInv, Unmixed, Writing
  <2> QED
    BY <1>7, <1>8, <1>a, <2>1 DEF Unmixed, OwnWork
<1>11. RowTold(d)'
  BY <1>1, <1>3, <1>4, <1>5, <1>7, <1>9 DEF RowTold, Starting, Succeeding
<1>12. StatusMoves(d)
  BY <1>1, JobsSame
<1> QED
  BY <1>4, <1>7, <1>9, <1>10, <1>11, <1>12 DEF Told

LEMMA WriteDoneTold ==
  ASSUME EndInv, NEW d \in Deploys, WriteDone(d)
  PROVE  Told(d)
<1>1. launcher[d].pc = "done" /\ UNCHANGED <<repo, deploy>>
  BY DEF WriteDone, Runs
<1>2. RowTold(d) /\ launcher[d].ok /\ deploy[d].pc \notin Calls
  BY <1>1, LauncherStarted DEF EndInv, RowTold
<1>3. CASE Left(d, "exit") /\ WriteStatus(d, launcher[d], "done")
  <2>1. launcher'[d].ok
    BY <1>2, <1>3, LeftRow DEF EndInv, IInv
  <2>2. StatusMoves(d)
    BY <1>3, <2>1, StatusRow DEF StatusMoves, EndInv, IInv
  <2> QED
    BY <1>1, <1>2, <1>3, <2>2, LeftTold
<1>4. CASE Step(d, "abort") /\ jobs' = jobs
  BY <1>1, <1>2, <1>4, JobsSame, PlainTold DEF RowTold, Holding, Writing, Preserved, Starting, Succeeding
<1> QED
  BY <1>3, <1>4 DEF WriteDone

LEMMA PreserveHeadTold ==
  ASSUME EndInv, NEW d \in Deploys, PreserveHead(d)
  PROVE  Told(d)
<1>1. launcher[d].pc = "preserve" /\ UNCHANGED <<deploy, jobs>>
  BY DEF PreserveHead, Runs
<1>2. RowTold(d) /\ deploy[d].pc \notin Calls
  BY <1>1, LauncherStarted DEF EndInv
<1>3. StatusMoves(d)
  BY <1>1, JobsSame
<1>4. CASE UNCHANGED repo /\ (Step(d, "stash") \/ Step(d, "fail"))
  BY <1>1, <1>2, <1>3, <1>4, PlainTold DEF RowTold, Holding, Writing, Preserved, Starting, Succeeding
<1>5. CASE /\ CreateRef(<<"failed", JobOf[d]>>, launcher[d].post)
           /\ launcher' = [launcher EXCEPT ![d].pc = "stash", ![d].ref = launcher[d].post]
  <2>1. launcher[d] \in LauncherRows /\ launcher \in [Deploys -> LauncherRows]
    BY DEF EndInv, IInv, TypeOK
  <2>2. /\ \A e \in Deploys \ {d} : launcher'[e] = launcher[e]
        /\ launcher'[d].pc = "stash" /\ launcher'[d].owns = launcher[d].owns
        /\ launcher'[d].ok = launcher[d].ok /\ launcher'[d].ref = launcher[d].post
        /\ launcher'[d].stashed = launcher[d].stashed /\ launcher'[d].pre = launcher[d].pre
    BY <1>5, <2>1 DEF LauncherRows
  <2>3. /\ RefsStable /\ CheckoutKept
        /\ repo'.refs[<<"failed", JobOf[d]>>] = launcher[d].post
        /\ \A n \in RefNames \ {<<"failed", JobOf[d]>>} : repo'.refs[n] = repo.refs[n]
    BY <1>5, CreatedRow, NamesTyped DEF EndInv, IInv
  <2>4. FailedRef(d)' = launcher[d].post /\ StashRef(d)' = StashRef(d)
    BY <2>3, NamesTyped DEF FailedRef, StashRef
  <2>5. Unmixed(d)'
    BY <1>1, <2>2, <2>3 DEF EndInv, Unmixed, CheckoutKept, Writing
  <2>6. RowTold(d)'
    BY <1>1, <1>2, <2>2, <2>4 DEF RowTold, Holding, Writing, Preserved, Starting, Succeeding
  <2> QED
    BY <1>3, <2>2, <2>3, <2>5, <2>6 DEF Told
<1> QED
  BY <1>4, <1>5 DEF PreserveHead

LEMMA StashTold ==
  ASSUME EndInv, NEW d \in Deploys, Stash(d)
  PROVE  Told(d)
<1>1. launcher[d].pc = "stash" /\ UNCHANGED <<deploy, jobs>>
  BY DEF Stash, Runs
<1>2. RowTold(d) /\ deploy[d].pc \notin Calls
  BY <1>1, LauncherStarted DEF EndInv
<1>3. StatusMoves(d)
  BY <1>1, JobsSame
<1>4. CASE UNCHANGED repo /\ (Step(d, "record") \/ Step(d, "fail"))
  BY <1>1, <1>2, <1>3, <1>4, PlainTold DEF RowTold, Holding, Writing, Preserved, Starting, Succeeding
<1> DEFINE stashed == repo.head \cup repo.tree
<1>5. CASE /\ repo' = [repo EXCEPT !.tree = {}, !.stashes = repo.stashes \cup {stashed}]
           /\ launcher' = [launcher EXCEPT ![d].pc = "stash-ref", ![d].stashed = stashed]
  <2>1. /\ launcher[d] \in LauncherRows /\ launcher \in [Deploys -> LauncherRows]
        /\ repo \in Repos
    BY DEF EndInv, IInv, TypeOK
  <2> HIDE DEF stashed
  <2>2. /\ \A e \in Deploys \ {d} : launcher'[e] = launcher[e]
        /\ launcher'[d].pc = "stash-ref" /\ launcher'[d].owns = launcher[d].owns
        /\ launcher'[d].ok = launcher[d].ok /\ launcher'[d].ref = launcher[d].ref
        /\ launcher'[d].stashed = stashed /\ launcher'[d].pre = launcher[d].pre
    BY <1>5, <2>1 DEF LauncherRows
  <2>3. repo'.refs = repo.refs /\ repo'.tree = {} /\ repo'.head = repo.head
    BY <1>5, <2>1 DEF Repos
  <2>4. RefsStable /\ FailedRef(d)' = FailedRef(d)
    BY <2>3 DEF RefsStable, FailedRef
  <2>5. Unmixed(d)'
    <3>1. /\ repo.tree \subseteq OwnWork(d)
          /\ repo.head \subseteq launcher[d].pre \cup OwnWork(d)
      BY <1>1 DEF EndInv, Unmixed, Writing, Preserved
    <3> QED
      BY <2>2, <2>3, <3>1 DEF Unmixed, stashed
  <2>6. RowTold(d)' /\ launcher[d].owns
    BY <1>1, <1>2, <2>2, <2>4 DEF RowTold, Holding, Writing, Preserved, Starting, Succeeding
  <2> QED
    BY <1>3, <2>2, <2>4, <2>5, <2>6 DEF Told
<1> QED
  BY <1>4, <1>5 DEF Stash

LEMMA PreserveStashTold ==
  ASSUME EndInv, NEW d \in Deploys, PreserveStash(d)
  PROVE  Told(d)
<1>1. launcher[d].pc = "stash-ref" /\ UNCHANGED <<deploy, jobs>>
  BY DEF PreserveStash, Runs
<1>2. RowTold(d) /\ deploy[d].pc \notin Calls
  BY <1>1, LauncherStarted DEF EndInv
<1>3. StatusMoves(d)
  BY <1>1, JobsSame
<1>4. CASE UNCHANGED repo /\ Step(d, "fail")
  BY <1>1, <1>2, <1>3, <1>4, PlainTold DEF RowTold, Holding, Writing, Preserved, Starting, Succeeding
<1>5. CASE /\ CreateRef(<<"failed-stash", JobOf[d]>>, launcher[d].stashed)
           /\ Step(d, "record")
  <2>1. /\ \A e \in Deploys \ {d} : launcher'[e] = launcher[e]
        /\ launcher'[d].pc = "record" /\ launcher'[d].owns = launcher[d].owns
        /\ launcher'[d].ok = launcher[d].ok /\ launcher'[d].ref = launcher[d].ref
        /\ launcher'[d].stashed = launcher[d].stashed /\ launcher'[d].pre = launcher[d].pre
    BY <1>5, StepRow DEF EndInv, IInv
  <2>2. /\ RefsStable /\ CheckoutKept
        /\ repo'.refs[<<"failed-stash", JobOf[d]>>] = launcher[d].stashed
        /\ \A n \in RefNames \ {<<"failed-stash", JobOf[d]>>} : repo'.refs[n] = repo.refs[n]
    BY <1>5, CreatedRow, NamesTyped DEF EndInv, IInv
  <2>3. FailedRef(d)' = FailedRef(d) /\ StashRef(d)' = launcher[d].stashed
    BY <2>2, NamesTyped DEF FailedRef, StashRef
  <2>4. Unmixed(d)'
    BY <1>1, <2>1, <2>2 DEF EndInv, Unmixed, CheckoutKept, Writing, Preserved
  <2>5. RowTold(d)'
    BY <1>1, <1>2, <2>1, <2>3 DEF RowTold, Holding, Writing, Preserved, Starting, Succeeding
  <2> QED
    BY <1>3, <2>1, <2>2, <2>4, <2>5 DEF Told
<1> QED
  BY <1>4, <1>5 DEF PreserveStash

LEMMA RecordTold ==
  ASSUME EndInv, NEW d \in Deploys, Record(d)
  PROVE  Told(d)
<1>1. launcher[d].pc = "record" /\ UNCHANGED <<repo, deploy>>
  BY DEF Record, Runs
<1>2. RowTold(d) /\ deploy[d].pc \notin Calls
  BY <1>1, LauncherStarted DEF EndInv
<1>3. StatusMoves(d)
  BY StatusTells, JobsSame DEF Record, EndInv, IInv
<1>4. Step(d, "reset") \/ Step(d, "fail")
  BY DEF Record
<1> QED
  BY <1>1, <1>2, <1>3, <1>4, PlainTold DEF RowTold, Holding, Writing, Preserved, Starting, Succeeding

LEMMA ResetTold ==
  ASSUME EndInv, NEW d \in Deploys, Reset(d)
  PROVE  Told(d)
<1>1. launcher[d].pc = "reset" /\ UNCHANGED <<deploy, jobs>>
  BY DEF Reset, Runs
<1>2. RowTold(d) /\ deploy[d].pc \notin Calls
  BY <1>1, LauncherStarted DEF EndInv
<1>3. StatusMoves(d)
  BY <1>1, JobsSame
<1>4. CASE UNCHANGED repo /\ Step(d, "fail")
  BY <1>1, <1>2, <1>3, <1>4, PlainTold DEF RowTold, Holding, Writing, Preserved, Starting, Succeeding
<1>5. CASE /\ HardReset(launcher[d].pre)
           /\ launcher' = [launcher EXCEPT ![d].pc = "preserved", ![d].post = launcher[d].pre]
  <2>1. /\ launcher[d] \in LauncherRows /\ launcher \in [Deploys -> LauncherRows]
        /\ repo \in Repos
    BY DEF EndInv, IInv, TypeOK
  <2>2. /\ \A e \in Deploys \ {d} : launcher'[e] = launcher[e]
        /\ launcher'[d].pc = "preserved" /\ launcher'[d].owns = launcher[d].owns
        /\ launcher'[d].ok = launcher[d].ok /\ launcher'[d].ref = launcher[d].ref
        /\ launcher'[d].stashed = launcher[d].stashed
    BY <1>5, <2>1 DEF LauncherRows
  <2>3. repo'.refs = repo.refs /\ repo'.tree = {}
    BY <1>5, <2>1 DEF Repos, HardReset
  <2>4. RefsStable /\ FailedRef(d)' = FailedRef(d) /\ StashRef(d)' = StashRef(d)
    BY <2>3 DEF RefsStable, FailedRef, StashRef
  <2>5. Unmixed(d)'
    BY <2>2 DEF Unmixed, Writing, Preserved
  <2>6. RowTold(d)' /\ launcher[d].owns
    BY <1>1, <1>2, <2>2, <2>4 DEF RowTold, Holding, Writing, Preserved, Starting, Succeeding
  <2> QED
    BY <1>3, <2>2, <2>4, <2>5, <2>6 DEF Told
<1> QED
  BY <1>4, <1>5 DEF Reset

LEMMA AbortTold ==
  ASSUME EndInv, NEW d \in Deploys, Abort(d)
  PROVE  Told(d)
<1>1. /\ launcher[d].pc = "abort" /\ UNCHANGED <<repo, deploy>>
      /\ \E pc \in {"mark", "exit"} : Left(d, pc)
  BY DEF Abort, Runs
<1>2. StatusMoves(d)
  BY StatusTells, JobsSame DEF Abort, EndInv, IInv
<1> QED
  BY <1>1, <1>2, LauncherStarted, LeftTold

\* After its reset, what the launcher set aside is under the job's refs.
LEMMA WriteFailedTold ==
  ASSUME EndInv, NEW d \in Deploys, WriteFailed(d)
  PROVE  Told(d)
<1> DEFINE phase == IF Runs(d, "fail") THEN "failed" ELSE "failed-preserved"
<1>1. /\ launcher[d].pc \in {"fail", "preserved"} /\ Left(d, "mark") /\ UNCHANGED <<repo, deploy>>
      /\ jobs' = jobs \/ WriteStatus(d, launcher[d], phase)
  BY DEF WriteFailed
<1>2. RowTold(d) /\ deploy[d].pc \notin Calls /\ JobOf[d] \in Jobs
  BY <1>1, LauncherStarted, DeployAssumption DEF EndInv
<1>3. phase # "done" /\ (phase = "failed-preserved" => launcher[d].pc = "preserved")
  BY <1>1 DEF Runs
<1> HIDE DEF phase
<1>4. ASSUME WriteStatus(d, launcher[d], phase) PROVE StatusMoves(d)
  <2>1. /\ \A j \in Jobs \ {JobOf[d]} : jobs'[j].status = jobs[j].status
        /\ jobs'[JobOf[d]].status.phase = phase
        /\ jobs'[JobOf[d]].status.ref = launcher[d].ref
        /\ jobs'[JobOf[d]].status.stashed = launcher[d].stashed
    BY <1>4, StatusRow DEF EndInv, IInv
  <2>2. phase = "failed-preserved" => Named(JobOf[d])'
    BY <1>1, <1>2, <1>3, <2>1 DEF Named, RowTold, FailedRef, StashRef
  <2> QED
    BY <1>3, <2>1, <2>2 DEF StatusMoves
<1>5. StatusMoves(d)
  BY <1>1, <1>4, JobsSame
<1> QED
  BY <1>1, <1>2, <1>5, LeftTold

LEMMA WriteMarkerTold ==
  ASSUME EndInv, NEW d \in Deploys, WriteMarker(d)
  PROVE  Told(d)
<1>1. /\ launcher[d].pc = "mark" /\ UNCHANGED <<repo, deploy>> /\ Step(d, "exit")
      /\ jobs' = jobs \/ jobs' = [jobs EXCEPT ![JobOf[d]].marker = TRUE]
  BY DEF WriteMarker, Runs
<1>2. /\ RowTold(d) /\ JobOf[d] \in Jobs /\ jobs \in [Jobs -> JobRows]
      /\ deploy[d].pc \notin Calls
  BY <1>1, LauncherStarted, DeployAssumption DEF EndInv, IInv, TypeOK
<1>3. \A j \in Jobs : jobs'[j].status = jobs[j].status
  BY <1>1, <1>2 DEF JobRows
<1>4. StatusMoves(d)
  BY <1>3 DEF StatusMoves
<1> QED
  BY <1>1, <1>2, <1>4, PlainTold DEF RowTold, Holding, Writing, Preserved, Starting, Succeeding

LEMMA ExitTold ==
  ASSUME EndInv, NEW d \in Deploys, Exit(d)
  PROVE  Told(d)
<1>1. /\ launcher[d].pc = "exit" /\ UNCHANGED <<repo, deploy, jobs>>
      /\ launcher' = [launcher EXCEPT ![d].pc = "ended", ![d].owns = FALSE]
  BY DEF Exit, Runs
<1>2. /\ RowTold(d) /\ deploy[d].pc \notin Calls
      /\ launcher[d] \in LauncherRows /\ launcher \in [Deploys -> LauncherRows]
  BY <1>1, LauncherStarted DEF EndInv, IInv, TypeOK
<1>3. /\ \A e \in Deploys \ {d} : launcher'[e] = launcher[e]
      /\ launcher'[d].pc = "ended"
      /\ launcher'[d].ok = launcher[d].ok /\ launcher'[d].ref = launcher[d].ref
      /\ launcher'[d].stashed = launcher[d].stashed
  BY <1>1, <1>2 DEF LauncherRows
<1>4. RefsStable /\ CheckoutKept
  BY <1>1, RefsUnchanged
<1>5. Unmixed(d)'
  BY <1>3 DEF Unmixed, Writing, Preserved
<1>6. FailedRef(d)' = FailedRef(d) /\ StashRef(d)' = StashRef(d)
  BY <1>1 DEF FailedRef, StashRef
<1>7. RowTold(d)'
  BY <1>1, <1>2, <1>3, <1>6 DEF RowTold, Holding, Writing, Preserved, Starting, Succeeding
<1> QED
  BY <1>1, <1>3, <1>4, <1>5, <1>7, JobsSame DEF Told

LEMMA KillLauncherTold ==
  ASSUME EndInv, NEW d \in Deploys, KillLauncher(d)
  PROVE  Told(d)
<1>1. /\ launcher[d].pc # "absent" /\ Left(d, "killed") /\ UNCHANGED <<repo, deploy, jobs>>
  BY DEF KillLauncher, Live
<1>2. deploy[d].pc \notin Calls
  BY <1>1, LauncherStarted
<1> QED
  BY <1>1, <1>2, JobsSame, LeftTold

LEMMA StartTold ==
  ASSUME EndInv, NEW d \in Deploys, StartJob(d), deploy'[d].pc \notin Calls
  PROVE  Told(d)
<1>1. /\ deploy[d].pc = "start" /\ UNCHANGED <<repo, jobs>>
      /\ launcher' = [launcher EXCEPT ![d].pc = "queue"]
  BY DEF StartJob, At
<1>2. /\ RowTold(d) /\ launcher[d].pc = "absent"
      /\ launcher[d] \in LauncherRows /\ launcher \in [Deploys -> LauncherRows]
  BY <1>1 DEF EndInv, IInv, TypeOK, RowTold, Calls
<1>3. /\ \A e \in Deploys \ {d} : launcher'[e] = launcher[e]
      /\ launcher'[d].pc = "queue"
      /\ launcher'[d].ok = launcher[d].ok /\ launcher'[d].ref = launcher[d].ref
      /\ launcher'[d].stashed = launcher[d].stashed
  BY <1>1, <1>2 DEF LauncherRows
<1>4. RefsStable /\ CheckoutKept
  BY <1>1, RefsUnchanged
<1>5. Unmixed(d)'
  BY <1>3 DEF Unmixed, Writing, Preserved
<1>6. FailedRef(d)' = FailedRef(d) /\ StashRef(d)' = StashRef(d)
  BY <1>1 DEF FailedRef, StashRef
<1>7. RowTold(d)'
  BY <1>2, <1>3, <1>6 DEF RowTold, Holding, Writing, Preserved, Starting, Succeeding
<1> QED
  BY <1>1, <1>3, <1>4, <1>5, <1>7, JobsSame DEF Told
(***************************************************************************)
(* The deploys' steps.                                                     *)
(***************************************************************************)
SaidDone(d) == jobs[JobOf[d]].status.phase = "done"

\* What the row of a deploy may become.
NextRow(d, row) ==
  /\ row.pc \in Calls => deploy[d].pc \in Calls
  /\ row.pc = "ci" => deploy[d].pc = "ci" \/ SaidDone(d)
  /\ row.report = "ok" =>
       deploy[d].report = "ok" \/ deploy[d].pc = "ci" \/ SaidDone(d) \/ setting.dryRun

LEMMA RowMoves ==
  ASSUME EndInv, NEW d \in Deploys, NEW row, NextRow(d, row),
         deploy' = [deploy EXCEPT ![d] = row], setting' = setting
  PROVE  DeployMoves
<1>1. deploy'[d] = row /\ \A e \in Deploys \ {d} : deploy'[e] = deploy[e]
  BY DEF EndInv, IInv, TypeOK
<1> QED
  BY <1>1 DEF DeployMoves, NextRow, SaidDone

LEMMA RowsSame ==
  ASSUME deploy' = deploy, setting' = setting
  PROVE  DeployMoves
BY DEF DeployMoves

LEMMA ReturnedFields ==
  ASSUME TypeOK, NEW d \in Deploys, NEW report
  PROVE  Returned(d, report).pc = "returned" /\ Returned(d, report).report = report
<1>1. deploy[d] \in DeployRows
  BY RowTyped
<1> QED
  BY <1>1 DEF Returned, DeployRows, NewDeploy

\* A deploy that returns reports success only when its job is done, or in a dry run.
LEMMA ReturnMoves ==
  ASSUME EndInv, NEW d \in Deploys, NEW report, Return(d, report), setting' = setting,
         report = "ok" => deploy[d].pc = "ci" \/ SaidDone(d) \/ setting.dryRun
  PROVE  DeployMoves
<1> DEFINE row == Returned(d, report)
<1>1. row.pc = "returned" /\ row.report = report
  BY ReturnedFields DEF EndInv, IInv
<1>2. deploy' = [deploy EXCEPT ![d] = row]
  BY DEF Return
<1> HIDE DEF row
<1>3. NextRow(d, row)
  BY <1>1 DEF NextRow, Calls
<1> QED
  BY <1>2, <1>3, RowMoves

LEMMA AdvancedRow ==
  ASSUME TypeOK, NEW d \in Deploys, NEW pc
  PROVE  /\ [deploy[d] EXCEPT !.pc = pc].pc = pc
         /\ [deploy[d] EXCEPT !.pc = pc].report = deploy[d].report
<1>1. deploy[d] \in DeployRows
  BY RowTyped
<1> QED
  BY <1>1 DEF DeployRows

LEMMA AdvanceMoves ==
  ASSUME EndInv, NEW d \in Deploys, NEW pc, Advance(d, pc), setting' = setting,
         pc \in Calls => deploy[d].pc \in Calls, pc = "ci" => SaidDone(d)
  PROVE  DeployMoves
<1> DEFINE row == [deploy[d] EXCEPT !.pc = pc]
<1>1. row.pc = pc /\ row.report = deploy[d].report
  BY AdvancedRow DEF EndInv, IInv
<1>2. deploy' = [deploy EXCEPT ![d] = row]
  BY DEF Advance
<1> HIDE DEF row
<1>3. NextRow(d, row)
  BY <1>1 DEF NextRow
<1> QED
  BY <1>2, <1>3, RowMoves

LEMMA AnsweredMoves ==
  ASSUME EndInv, NEW d \in Deploys, NEW pc, Answered(d, [deploy[d] EXCEPT !.pc = pc]),
         setting' = setting, deploy[d].pc \in Calls, pc # "ci"
  PROVE  DeployMoves /\ deploy'[d].pc \in {pc, "returned"}
<1> DEFINE next == [deploy[d] EXCEPT !.pc = pc]
<1>1. next.pc = pc /\ next.report = deploy[d].report
  BY AdvancedRow DEF EndInv, IInv
<1>2. Answered(d, next)
  OBVIOUS
<1> HIDE DEF next
<1> DEFINE lost == Returned(d, "error")
<1>3. lost.pc = "returned" /\ lost.report = "error"
  BY ReturnedFields DEF EndInv, IInv
<1>4. Answered(d, next) => \E row \in {next, lost} : deploy' = [deploy EXCEPT ![d] = row]
  BY DEF Answered
<1> HIDE DEF lost
<1>5. PICK row \in {next, lost} : deploy' = [deploy EXCEPT ![d] = row]
  BY <1>2, <1>4
<1>6. NextRow(d, row) /\ row.pc \in {pc, "returned"}
  BY <1>1, <1>3, <1>5 DEF NextRow, Calls
<1>7. deploy'[d] = row
  BY <1>5 DEF EndInv, IInv, TypeOK
<1> QED
  BY <1>5, <1>6, <1>7, RowMoves

LEMMA FinishMoves ==
  ASSUME EndInv, NEW d \in Deploys, NEW outcome, Finish(d, outcome), setting' = setting,
         outcome \in Succeeded => deploy[d].pc = "ci" \/ SaidDone(d) \/ setting.dryRun
  PROVE  DeployMoves
<1>1. PICK report \in {"error", IF outcome \in Succeeded THEN "ok" ELSE "error"} : Return(d, report)
  BY DEF Finish
<1>2. report = "ok" => outcome \in Succeeded
  BY <1>1
<1> QED
  BY <1>1, <1>2, ReturnMoves

LEMMA CleanupMoves ==
  ASSUME EndInv, NEW d \in Deploys, Cleanup(d)
  PROVE  DeployMoves
<1>1. deploy[d].pc \in Calls /\ setting' = setting
  BY DEF Cleanup, At, Calls
<1>2. CASE Return(d, "error")
  BY <1>1, <1>2, ReturnMoves
<1>3. CASE Advance(d, "upload")
  BY <1>1, <1>3, AdvanceMoves
<1>4. CASE deploy' = [deploy EXCEPT ![d].pc = "preserve", ![d].head = repo.head]
  <2> DEFINE row == [deploy[d] EXCEPT !.pc = "preserve", !.head = repo.head]
  <2>1. deploy[d] \in DeployRows
    BY RowTyped DEF EndInv, IInv
  <2>2. row.pc = "preserve" /\ row.report = deploy[d].report
    BY <2>1 DEF DeployRows
  <2>3. deploy' = [deploy EXCEPT ![d] = row]
    BY <1>4
  <2> HIDE DEF row
  <2>4. NextRow(d, row)
    BY <1>1, <2>2 DEF NextRow
  <2> QED
    BY <1>1, <2>3, <2>4, RowMoves
<1> QED
  BY <1>2, <1>3, <1>4 DEF Cleanup

LEMMA RecheckMoves ==
  ASSUME EndInv, NEW d \in Deploys, Recheck(d)
  PROVE  DeployMoves
<1>1. deploy[d].pc \in Calls /\ setting' = setting
  BY DEF Recheck, At, Calls
<1>2. CASE Return(d, "error")
  BY <1>1, <1>2, ReturnMoves
<1>3. CASE deploy' = [deploy EXCEPT ![d].pc = "reset", ![d].target = repo.origin]
  <2> DEFINE row == [deploy[d] EXCEPT !.pc = "reset", !.target = repo.origin]
  <2>1. deploy[d] \in DeployRows
    BY RowTyped DEF EndInv, IInv
  <2>2. row.pc = "reset" /\ row.report = deploy[d].report
    BY <2>1 DEF DeployRows
  <2>3. deploy' = [deploy EXCEPT ![d] = row]
    BY <1>3
  <2> HIDE DEF row
  <2>4. NextRow(d, row)
    BY <1>1, <2>2 DEF NextRow
  <2> QED
    BY <1>1, <2>3, <2>4, RowMoves
<1> QED
  BY <1>2, <1>3 DEF Recheck

\* A step that moves the deploy's reset script, and perhaps ends the deploy.
LEMMA ScriptMoves ==
  ASSUME EndInv, NEW d \in Deploys, NEW script, deploy' = [deploy EXCEPT ![d].script = script],
         setting' = setting
  PROVE  DeployMoves
<1> DEFINE row == [deploy[d] EXCEPT !.script = script]
<1>1. deploy[d] \in DeployRows
  BY RowTyped DEF EndInv, IInv
<1>2. row.pc = deploy[d].pc /\ row.report = deploy[d].report
  BY <1>1 DEF DeployRows
<1>3. deploy' = [deploy EXCEPT ![d] = row]
  OBVIOUS
<1> HIDE DEF row
<1>4. NextRow(d, row)
  BY <1>2 DEF NextRow
<1> QED
  BY <1>3, <1>4, RowMoves

LEMMA ResetExitsMoves ==
  ASSUME EndInv, NEW d \in Deploys, ResetExits(d)
  PROVE  DeployMoves
<1>1. setting' = setting
  BY DEF ResetExits
<1>2. CASE At(d, "reset") /\ deploy' = [deploy EXCEPT ![d] = [deploy[d] EXCEPT !.pc = "verify", !.script = "ended"]]
  <2> DEFINE row == [deploy[d] EXCEPT !.pc = "verify", !.script = "ended"]
  <2>1. deploy[d] \in DeployRows
    BY RowTyped DEF EndInv, IInv
  <2>2. row.pc = "verify" /\ row.report = deploy[d].report
    BY <2>1 DEF DeployRows
  <2>3. deploy' = [deploy EXCEPT ![d] = row]
    BY <1>2
  <2> HIDE DEF row
  <2>4. NextRow(d, row)
    BY <1>2, <2>2 DEF NextRow, At, Calls
  <2> QED
    BY <1>1, <2>3, <2>4, RowMoves
<1>3. CASE deploy' = [deploy EXCEPT ![d] = [NewDeploy EXCEPT !.pc = "returned", !.report = "error", !.script = "ended"]]
  <2> DEFINE row == [NewDeploy EXCEPT !.pc = "returned", !.report = "error", !.script = "ended"]
  <2>1. row.pc = "returned" /\ row.report = "error"
    BY DEF NewDeploy
  <2>2. deploy' = [deploy EXCEPT ![d] = row]
    BY <1>3
  <2> HIDE DEF row
  <2>3. NextRow(d, row)
    BY <2>1 DEF NextRow, Calls
  <2> QED
    BY <1>1, <2>2, <2>3, RowMoves
<1> QED
  BY <1>2, <1>3 DEF ResetExits

LEMMA FetchStatusMoves ==
  ASSUME EndInv, NEW d \in Deploys, FetchStatus(d) \/ FetchFails(d)
  PROVE  DeployMoves
<1>1. setting' = setting
  BY DEF FetchStatus, FetchFails
<1>2. CASE \E n : deploy' = [deploy EXCEPT ![d].errors = n]
  <2>1. PICK n : deploy' = [deploy EXCEPT ![d].errors = n]
    BY <1>2
  <2> DEFINE row == [deploy[d] EXCEPT !.errors = n]
  <2>2. deploy[d] \in DeployRows
    BY RowTyped DEF EndInv, IInv
  <2>3. row.pc = deploy[d].pc /\ row.report = deploy[d].report
    BY <2>2 DEF DeployRows
  <2>4. deploy' = [deploy EXCEPT ![d] = row]
    BY <2>1
  <2> HIDE DEF row
  <2>5. NextRow(d, row)
    BY <2>3 DEF NextRow
  <2> QED
    BY <1>1, <2>4, <2>5, RowMoves
<1>3. CASE SaidDone(d) /\ Advance(d, "ci")
  BY <1>1, <1>3, AdvanceMoves DEF Calls
<1> DEFINE phase == jobs[JobOf[d]].status.phase
<1>4. CASE Finish(d, Outcome(phase))
  <2>1. Outcome(phase) \in Succeeded => SaidDone(d)
    BY DEF Outcome, Succeeded, SaidDone
  <2> HIDE DEF phase
  <2> QED
    BY <1>1, <1>4, <2>1, FinishMoves
<1>5. CASE Return(d, "error")
  BY <1>1, <1>5, ReturnMoves
<1> QED
  BY <1>2, <1>3, <1>4, <1>5 DEF FetchStatus, FetchFails, SaidDone, Job

\* Every step of a deploy and of its reset script.
LEMMA DeployStepMoves ==
  ASSUME EndInv, NEW d \in Deploys,
         DeployNext(d) \/ CallFails(d) \/ PollDeadline(d) \/ ScriptNext(d) \/ KillScript(d)
  PROVE  DeployMoves
<1>1. CASE CallFails(d) \/ PollDeadline(d)
  BY <1>1, ReturnMoves DEF CallFails, PollDeadline
<1>2. CASE PreserveRef(d) \/ FetchOrigin(d)
  BY <1>2, AnsweredMoves DEF PreserveRef, FetchOrigin, At, Calls
<1>3. CASE ResetOwn(d) \/ ResetChecked(d) \/ KillScript(d)
  BY <1>3, ScriptMoves, ReturnMoves DEF ResetOwn, ResetChecked, KillScript
<1>4. CASE VerifyReset(d)
  BY <1>4, ReturnMoves, AdvanceMoves DEF VerifyReset, At, Calls
<1>5. CASE UploadArchive(d)
  BY <1>5, ReturnMoves, AnsweredMoves DEF UploadArchive, At, Calls
<1>6. CASE CompareSha(d)
  BY <1>6, ReturnMoves, AdvanceMoves, FinishMoves DEF CompareSha, At, Calls
<1>7. CASE StartJob(d)
  BY <1>7, AnsweredMoves DEF StartJob, At, Calls
<1>8. CASE TrackCi(d)
  BY <1>8, FinishMoves DEF TrackCi, At
<1> QED
  BY <1>1, <1>2, <1>3, <1>4, <1>5, <1>6, <1>7, <1>8, CleanupMoves, RecheckMoves, ResetExitsMoves,
     FetchStatusMoves DEF DeployNext, ScriptNext
LEMMA CheckoutSame ==
  ASSUME UNCHANGED <<repo, jobs, launcher>>
  PROVE  Quiet
BY DEF Quiet, RefsStable, CheckoutKept

\* The archive of a job says nothing of how it ended.
LEMMA ArchiveRow ==
  ASSUME TypeOK, NEW d \in Deploys, NEW archive,
         jobs' = [jobs EXCEPT ![JobOf[d]].archive = archive], UNCHANGED <<repo, launcher>>
  PROVE  Quiet
<1>1. jobs \in [Jobs -> JobRows] /\ JobOf[d] \in Jobs /\ jobs[JobOf[d]] \in JobRows
  BY DeployAssumption DEF TypeOK
<1>2. \A j \in Jobs : jobs'[j].status = jobs[j].status
  BY <1>1 DEF JobRows
<1> QED
  BY <1>2 DEF Quiet, RefsStable, CheckoutKept

LEMMA FetchedRepo ==
  ASSUME TypeOK, NEW d \in Deploys, FetchOrigin(d)
  PROVE  Quiet
<1>1. repo \in Repos /\ repo' = [repo EXCEPT !.origin = upstream] /\ UNCHANGED <<jobs, launcher>>
  BY DEF FetchOrigin, TypeOK
<1>2. repo'.refs = repo.refs /\ repo'.tree = repo.tree /\ repo'.head = repo.head
  BY <1>1 DEF Repos
<1> QED
  BY <1>1, <1>2 DEF Quiet, RefsStable, CheckoutKept

LEMMA ScriptReset ==
  ASSUME TypeOK, NEW d \in Deploys, ResetChecked(d)
  PROVE  Quiet
<1>1. UNCHANGED <<jobs, launcher>>
  BY DEF ResetChecked
<1>2. CASE HardReset(deploy[d].target)
  <2>1. repo \in Repos
    BY DEF TypeOK
  <2>2. repo'.refs = repo.refs
    BY <1>2, <2>1 DEF HardReset, Repos
  <2>3. Running(d)
    BY DEF ResetChecked, Running
  <2> QED
    BY <1>1, <2>2, <2>3 DEF Quiet, RefsStable
<1>3. CASE UNCHANGED repo
  BY <1>1, <1>3, CheckoutSame
<1> QED
  BY <1>2, <1>3 DEF ResetChecked

LEMMA PreservedRepo ==
  ASSUME TypeOK, NEW d \in Deploys, PreserveRef(d)
  PROVE  Quiet
<1>1. UNCHANGED <<jobs, launcher>> /\ CreateRef(<<"preserved", d>>, deploy[d].head)
  BY DEF PreserveRef
<1>2. RefsStable /\ CheckoutKept
  BY <1>1, CreatedRow, NamesTyped
<1> QED
  BY <1>1, <1>2 DEF Quiet

\* No step of a deploy touches a launcher, a status, the checkout or a ref that
\* exists, but for the launcher it starts and the reset of its script.
LEMMA DeployStepQuiet ==
  ASSUME TypeOK, NEW d \in Deploys,
         DeployNext(d) \/ CallFails(d) \/ PollDeadline(d) \/ ScriptNext(d) \/ KillScript(d),
         ~StartJob(d)
  PROVE  Quiet
<1>1. CASE \/ CallFails(d) \/ PollDeadline(d) \/ Cleanup(d) \/ Recheck(d) \/ ResetOwn(d)
           \/ VerifyReset(d) \/ FetchStatus(d) \/ FetchFails(d) \/ TrackCi(d) \/ ResetExits(d)
           \/ KillScript(d)
  BY <1>1, CheckoutSame
     DEF CallFails, PollDeadline, Cleanup, Recheck, ResetOwn, VerifyReset, FetchStatus, FetchFails,
         TrackCi, ResetExits, KillScript
<1>2. CASE UploadArchive(d)
  BY <1>2, ArchiveRow DEF UploadArchive
<1>3. CASE CompareSha(d)
  BY <1>3, ArchiveRow, CheckoutSame DEF CompareSha
<1> QED
  BY <1>1, <1>2, <1>3, FetchedRepo, ScriptReset, PreservedRepo DEF DeployNext, ScriptNext

(***************************************************************************)
(* The invariant.                                                          *)
(***************************************************************************)
LEMMA LauncherStepTold ==
  ASSUME EndInv, NEW d \in Deploys, LauncherNext(d) \/ KillLauncher(d)
  PROVE  Told(d) /\ DeployMoves
<1>1. Told(d)
  BY QueueTold, OwnTold, EnterTold, UnpackTold, CommandTold, WriteDoneTold, PreserveHeadTold,
     StashTold, PreserveStashTold, RecordTold, ResetTold, AbortTold, WriteFailedTold, WriteMarkerTold, ExitTold,
     KillLauncherTold DEF LauncherNext
<1>2. deploy' = deploy /\ setting' = setting
  BY DEF LauncherNext, KillLauncher, Queue, Own, Enter, Unpack, Command, WriteDone, PreserveHead,
         Stash, PreserveStash, Record, Reset, Abort, WriteFailed, WriteMarker, Exit
<1> QED
  BY <1>1, <1>2, RowsSame

LEMMA StartStepTold ==
  ASSUME EndInv, NEW d \in Deploys, StartJob(d)
  PROVE  Told(d)
<1>1. deploy'[d].pc \in {"polling", "returned"}
  BY AnsweredMoves DEF StartJob, At, Calls
<1> QED
  BY <1>1, StartTold DEF Calls

LEMMA StepEndInv ==
  ASSUME EndInv, [Next]_vars
  PROVE  EndInv'
<1>1. IInv'
  BY StepIInv DEF EndInv
<1>2. CASE UNCHANGED vars \/ OriginAdvances
  BY <1>1, <1>2, CheckoutSame, RowsSame, EndKept DEF vars, OriginAdvances
<1>3. ASSUME NEW d \in Deploys, LauncherNext(d) \/ KillLauncher(d)
      PROVE  EndInv'
  BY <1>1, <1>3, LauncherStepTold, EndKept
<1>4. ASSUME NEW d \in Deploys,
             DeployNext(d) \/ CallFails(d) \/ PollDeadline(d) \/ ScriptNext(d) \/ KillScript(d)
      PROVE  EndInv'
  <2>1. DeployMoves
    BY <1>4, DeployStepMoves
  <2>2. Quiet \/ Told(d)
    BY <1>4, DeployStepQuiet, StartStepTold DEF EndInv, IInv
  <2> QED
    BY <1>1, <2>1, <2>2, EndKept
<1> QED
  BY <1>2, <1>3, <1>4 DEF Next

LEMMA InitEndInv ==
  ASSUME Init
  PROVE  EndInv
<1>1. IInv
  BY InitIInv
<1>2. \A d \in Deploys : RowTold(d) /\ Unmixed(d) /\ DeployTold(d)
  BY DEF Init, RowTold, Unmixed, DeployTold, NewDeploy, NewLauncher, Holding, Writing, Preserved
<1>3. \A j \in Jobs : StatusTold(j)
  BY DEF Init, StatusTold, NoStatus
<1> QED
  BY <1>1, <1>2, <1>3 DEF EndInv

LEMMA EndInvariant == Spec => []EndInv
<1>1. Init => EndInv
  BY InitEndInv
<1>2. EndInv /\ [Next]_vars => EndInv'
  BY StepEndInv
<1> QED
  BY <1>1, <1>2, PTL DEF Spec

\* The work of two deploys is never mixed, although a launcher may fail with its
\* files in the checkout and leave neither a status nor a marker behind: whoever
\* takes the lock next looks at the checkout before it extracts.
THEOREM WorkNotMixed == Spec => []WorkIsNotMixed
<1>1. EndInv => WorkIsNotMixed
  BY DEF EndInv, Unmixed, WorkIsNotMixed
<1> QED
  BY <1>1, EndInvariant, PTL

\* A deploy reports success only if a launcher of its job ran the command to an
\* exit code of 0 and found the checkout clean, however late the status is read.
THEOREM SuccessesEarned == Spec => []SuccessIsEarned
<1>1. EndInv => SuccessIsEarned
  BY DEF EndInv, DeployTold, Earned, SuccessIsEarned
<1> QED
  BY <1>1, EndInvariant, PTL

\* A status "failed-preserved" names refs that hold the commit and the stash the
\* launcher took out of the checkout.
THEOREM PreservedNamed == Spec => []PreservedIsNamed
<1>1. EndInv => PreservedIsNamed
  BY DEF EndInv, StatusTold, Named, PreservedIsNamed
<1> QED
  BY <1>1, EndInvariant, PTL
=============================================================================

--------------------------- MODULE WorkflowClock ---------------------------
(***************************************************************************)
(* Pacing, cooldowns and deadlines of WorkflowStore, stated with what the  *)
(* provider saw and said kept in history variables.                        *)
(***************************************************************************)
EXTENDS WorkflowStore

VARIABLES
  submittedAt,  \* when each account last began a submission, NotAccepted for never
  announced     \* the latest cooldown end a provider announced to each account

clockVars == <<vars, submittedAt, announced>>

Begins(l) == StateOf(l) = "prepared" /\ attemptState'[l.run][l.task][l.number] = "submitting"

BeginsOn(a) == \E l \in Lease : AccountOf[l.run] = a /\ Begins(l)

ClockInit ==
  /\ Init
  /\ submittedAt = [a \in Accounts |-> NotAccepted]
  /\ announced = [a \in Accounts |-> 0]

ClockNext ==
  /\ Next
  /\ submittedAt' = [a \in Accounts |-> IF BeginsOn(a) THEN now ELSE submittedAt[a]]
  /\ announced' = [a \in Accounts |-> IF account'[a].limits > account[a].limits
                                      THEN account'[a].cooldown ELSE announced[a]]

ClockSpec == ClockInit /\ [][ClockNext]_clockVars

\* Two submissions of one account, whatever their runs, are at least the
\* configured spacing apart (docs/concept-workflows.md:64).
SubmissionsSpaced ==
  [][\A a \in Accounts : BeginsOn(a) /\ submittedAt[a] # NotAccepted
                           => now >= submittedAt[a] + Spacing]_clockVars

\* A cooldown pauses submissions across the account until it is over
\* (docs/concept-workflows.md:72-73), also for attempts prepared before it.
CooldownBlocksSubmissions ==
  [][\A a \in Accounts : BeginsOn(a) => now >= announced[a]]_clockVars

\* The deadline applies whatever the run went through (docs/concept-workflows.md:80):
\* nothing is submitted for a run from then on, and no operator or login revives it.
DeadlineHolds ==
  [][\A r \in Runs : runStatus[r] # "absent" /\ now >= deadline[r] =>
       /\ \A l \in Lease : l.run = r => ~Begins(l)
       /\ runStatus[r] \in {"paused", "waiting-for-auth"} => runStatus'[r] \notin Schedulable]_clockVars
===========================================================================

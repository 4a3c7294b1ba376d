--------------------------- MODULE WorkflowSchema ---------------------------
(***************************************************************************)
(* What the database of concept workflows accepts, whoever writes to it:   *)
(* the triggers and checks of db/migrations/0001_workflows.sql, for the    *)
(* columns WorkflowStore keeps.  A transaction is one step, from the rows  *)
(* it finds to the rows it commits; one that would break a check or fire a *)
(* trigger is aborted.                                                     *)
(***************************************************************************)
EXTENDS Integers, FiniteSets

CONSTANTS
  Runs,             \* runs.id
  Task,             \* the tasks of a run
  Number,           \* CHECK(number BETWEEN 1 AND 28)
  AccountOf,        \* runs.account_id
  Capacity,         \* min(10, accounts.capacity)
  SubmissionLimit,  \* runs.submission_limit
  Spacing,          \* CHECK(spacing_ms BETWEEN 30000 AND 35000), from here
  MaxJitter         \* to so much more

VARIABLES
  runStatus,     \* runs.status, "absent" for no row
  deadline,      \* runs.deadline_ms
  submissions,   \* runs.submissions
  attemptState,  \* attempts.state by task and number, "none" for no row
  reservations   \* reservations: the attempt and the spacing_ms of each row

schemaVars == <<runStatus, deadline, submissions, attemptState, reservations>>

Final == {"completed", "cancelled", "failed"}

\* What checked_attempt_transition lets follow each state; no other is ever left.
Successors ==
  [prepared   |-> {"submitting", "failed", "cancelled"},
   submitting |-> {"accepted", "failed", "uncertain", "cancelled"},
   accepted   |-> {"completed", "partial", "failed", "uncertain", "cancelled"},
   uncertain  |-> {"accepted", "completed", "partial", "failed", "cancelled"}]

Of(v) == attemptState[v.lease.run][v.lease.task][v.lease.number]

SameAccount(v, rows) == {w \in rows : AccountOf[w.lease.run] = AccountOf[v.lease.run]}

\* A row may be inserted in any state; nothing in the crate deletes one.
Checked(old, new) ==
  \/ old = "none" \/ new = old
  \/ old \in DOMAIN Successors /\ new \in Successors[old]

\* The checks of the tables, the key of reservations, and their reference to attempts.
RowsChecked ==
  /\ \A r \in Runs : submissions[r] \in 0..SubmissionLimit
  /\ \A v \in reservations : v.spacing \in Spacing..(Spacing + MaxJitter) /\ Of(v) # "none"
  /\ \A v, w \in reservations : v.lease = w.lease => v = w

\* checked_attempt_transition
AttemptsChecked ==
  \A r \in Runs, t \in Task, n \in Number :
    Checked(attemptState[r][t][n], attemptState'[r][t][n])

\* terminal_run_state
FinalRunsKept == \A r \in Runs : runStatus[r] \in Final => runStatus'[r] = runStatus[r]

\* immutable_run_configuration
ConfigurationKept == \A r \in Runs : runStatus[r] # "absent" => deadline'[r] = deadline[r]

\* reservation_capacity, of the row that is inserted last
CapacityLeft ==
  \A v \in reservations' \ reservations :
    Cardinality(SameAccount(v, reservations') \ {v}) < Capacity

Empty ==
  /\ runStatus = [r \in Runs |-> "absent"]
  /\ submissions = [r \in Runs |-> 0]
  /\ attemptState = [r \in Runs |-> [t \in Task |-> [n \in Number |-> "none"]]]
  /\ reservations = {}

Transaction ==
  /\ RowsChecked'
  /\ AttemptsChecked
  /\ FinalRunsKept
  /\ ConfigurationKept
  /\ CapacityLeft

SchemaSpec == Empty /\ [][Transaction]_schemaVars
=============================================================================

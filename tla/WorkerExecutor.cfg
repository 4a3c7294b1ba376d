\* Submissions that repeat, contradict and compete with each other for a tab; one
\* request and its repetition, the job they share through the browser, and a
\* cancellation or a forced close at any point.
CONSTANTS
  Calls = {"c1", "c2"}
  Keys = {"k1", "k2"}
  TabNames = {"t"}
  Requests <- SharedTab
  Stoppers = {"x"}
  MaxPages = 1
  Failures = {"failed"}
SPECIFICATION MCSpec
CONSTRAINT Focus
INVARIANTS TabsFollowJobs OneJobPerKey OneTurnPerKey CompletedIsWhole CancelledInTime
PROPERTY EveryTaskEnds
CHECK_DEADLOCK FALSE

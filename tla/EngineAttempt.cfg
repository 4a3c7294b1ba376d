\* One attempt with fair tasks, failures of the page and of the account, deadlines, and a restart at any point.
CONSTANTS
  Runs = {1}
  Accounts = {"a"}
  AccountOf <- OneAccount
  Capacity = 2
  Candidates = 1
  Reductions = 1
  MinComplete = 1
  MaxAttempts = 1
  Spacing = 0
  MaxJitter = 0
  RunDeadline = 1
  ResponseTimeout = 1
  RetryDelays = {0}
  MaxNow = 1
  MaxLimits = 0
  MaxPages = 10
  Failures = {"failed", "expired", "not-accepted"}
  MaxRestarts = 1
  MaxTotal = 1
  ExploredStatus = {"absent", "queued", "running", "waiting-for-auth", "paused", "reconciliation-required", "completed", "failed", "cancelled"}
  ExploredLate = {"absent", "queued", "running", "reconciliation-required", "completed", "failed", "cancelled"}
  ExploredReadiness = {"ready", "expired"}
  ExploredLimits = 0
SPECIFICATION FairEngineSpec
CONSTRAINT Bounded
PROPERTY ClosedOnlyWhenStored
PROPERTY EveryConversationEnds

\* One attempt of a run that may be cancelled.
CONSTANTS
  Runs = {1}
  Accounts = {"a"}
  AccountOf <- OneAccount
  Capacity = 2
  Candidates = 1
  Reductions = 1
  MinComplete = 1
  MaxAttempts = 1
  Spacing = 0
  MaxJitter = 0
  RunDeadline = 1
  ResponseTimeout = 1
  RetryDelays = {0}
  MaxNow = 0
  MaxLimits = 0
  MaxPages = 10
  Failures = {"failed"}
  MaxRestarts = 0
  MaxTotal = 1
  ExploredStatus = {"absent", "queued", "running", "reconciliation-required", "completed", "cancelled", "paused", "waiting-for-auth"}
  ExploredLate = {"absent", "queued", "running", "reconciliation-required", "completed", "cancelled", "paused", "waiting-for-auth"}
  ExploredReadiness = {"ready"}
  ExploredLimits = 0
SPECIFICATION EngineSpec
CONSTRAINT Bounded
INVARIANT CancelledKeepsCapacity

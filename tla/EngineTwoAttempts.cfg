\* Two attempts, of one candidate or of both, that share one conversation; limits and a restart.
CONSTANTS
  Runs = {1}
  Accounts = {"a"}
  AccountOf <- OneAccount
  Capacity = 1
  Candidates = 2
  Reductions = 1
  MinComplete = 1
  MaxAttempts = 2
  Spacing = 0
  MaxJitter = 0
  RunDeadline = 1
  ResponseTimeout = 1
  RetryDelays = {0}
  MaxNow = 0
  MaxLimits = 1
  MaxPages = 10
  Failures = {"failed","limited"}
  MaxRestarts = 1
  MaxTotal = 2
  ExploredStatus = {"absent","queued","running","reconciliation-required"}
  ExploredLate = {"absent","queued","running","reconciliation-required"}
  ExploredReadiness = {"ready"}
  ExploredLimits = 0
SPECIFICATION EngineSpec
CONSTRAINT Bounded
INVARIANT ProviderLoadBounded
INVARIANT SentAgainOnlyAfterSettled
PROPERTY ResumedIsAttended

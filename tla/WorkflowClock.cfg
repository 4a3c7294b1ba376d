\* Two parallel candidates under pacing, jitter, cooldowns and deadlines.
CONSTANTS
  Runs = {1}
  Accounts = {"a"}
  AccountOf <- OneAccount
  Capacity = 2
  Candidates = 2
  Reductions = 1
  MinComplete = 1
  MaxAttempts = 1
  Spacing = 1
  MaxJitter = 1
  RunDeadline = 2
  ResponseTimeout = 1
  RetryDelays = {1}
  MaxNow = 2
  MaxLimits = 1
  MaxTotalAttempts = 2
  ExploredReadiness = {"ready", "cooldown", "expired"}
SPECIFICATION ClockSpec
CONSTRAINT Bounded
PROPERTY SubmissionsSpaced
PROPERTY CooldownBlocksSubmissions
PROPERTY DeadlineHolds

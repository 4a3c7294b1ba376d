\* Two parallel candidates: one captured from the wrong model, one uncertain.
CONSTANTS
  Runs = {1}
  Accounts = {"a"}
  AccountOf <- OneAccount
  Capacity = 2
  Candidates = 2
  Reductions = 1
  MinComplete = 1
  MaxAttempts = 3
  Spacing = 0
  MaxJitter = 0
  RunDeadline = 1
  ResponseTimeout = 1
  RetryDelays = {0}
  MaxNow = 0
  MaxLimits = 0
  ExtraAttempts = 1
  ExploredReadiness = {"ready"}
SPECIFICATION PauseSpec
CONSTRAINT Bounded
INVARIANT UncertaintyBlocksResume

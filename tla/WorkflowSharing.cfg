\* Two runs sharing one account of capacity one.
CONSTANTS
  Runs = {1, 2}
  Accounts = {"a"}
  AccountOf <- OneAccount
  Capacity = 1
  Candidates = 1
  Reductions = 1
  MinComplete = 1
  MaxAttempts = 2
  Spacing = 0
  MaxJitter = 0
  RunDeadline = 1
  ResponseTimeout = 1
  RetryDelays = {0}
  MaxNow = 0
  MaxLimits = 0
  MaxTotalAttempts = 3
  ExploredReadiness = {"ready", "expired"}
SPECIFICATION TurnSpec
CONSTRAINT Bounded
INVARIANT CapacityRespected
INVARIANT NoMissedVerification
PROPERTY TurnsAlternate

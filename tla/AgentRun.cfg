SPECIFICATION Spec
CONSTANTS
  a1 = a1
  a2 = a2
  r0 = r0
  r1 = r1
  Accounts <- TwoAccounts
  MaxTabs <- SmallLimits
  Holders <- TwoRuns
  Run = r0
  OthersDuring = {"idle", "starting"}
  TotalTabs = 2
  DeployConcurrency = 1
  RecoveryLimit = 1
  Faults = {"died", "garbled", "lagged"}
CONSTRAINT Focus
INVARIANTS SucceededIsWhole LaunchedOneAtATime LeasedWithinLimit ClaimedIsNotLeased
PROPERTIES FailureIsNotRetracted EveryRunEnds
CHECK_DEADLOCK FALSE

\* Two candidates in parallel and the two stages that compare them; time stands still.
CONSTANTS
  Runs = {1}
  Accounts = {"a"}
  AccountOf <- OneAccount
  Capacity = 2
  Candidates = 2
  Reductions = 2
  MinComplete = 1
  MaxAttempts = 2
  Spacing = 0
  MaxJitter = 0
  RunDeadline = 1
  ResponseTimeout = 1
  RetryDelays = {0}
  MaxNow = 0
  MaxLimits = 0
  ExtraAttempts = 2
  ExploredReadiness = {"ready"}
SPECIFICATION PauseSpec
CONSTRAINT Bounded
INVARIANT ReservedExactlyWhileLive
INVARIANT OnlyLatestAttemptLive
INVARIANT CompletedAnswerIsFinal
INVARIANT PipelineOrder
INVARIANT SubmissionsCharged
PROPERTY PauseHolds

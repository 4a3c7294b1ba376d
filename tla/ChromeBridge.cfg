SPECIFICATION Spec
CONSTANTS
  Bridges = {"b0", "b1"}
  Here = "b0"
  MaxLaunches = 3
  RecoveryLimit = 1
CONSTRAINT Focus
INVARIANTS NoArtifactLeftBehind EvidenceBeforeClose DeliveredIsKept StartedChromeIsStopped
PROPERTIES FollowsProtocol EveryTabSettles
CHECK_DEADLOCK FALSE

CONSTANTS
  d1 = d1
  d2 = d2
  Deploys = {d1, d2}
  Jobs = {"job"}
  JobOf <- OneJob
  Settings <- EverySetting
  MaxErrors = 1
  MaxKills = 1
  MaxAdvances = 1
SPECIFICATION Spec
SYMMETRY Symmetry
INVARIANTS OneMutator  SuccessIsEarned PreservedIsNamed
PROPERTIES WorkPreserved
CHECK_DEADLOCK FALSE

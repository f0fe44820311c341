CONSTANTS
  N = 2
  MaxTx = 2
  MaxCrashes = 1
  MaxFaults = 2
  FaultPoints = {"staging", "apply", "marker_sync", "rollback", "removal"}
SPECIFICATION Spec
PROPERTY AnswersAreTrue

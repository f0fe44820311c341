CONSTANTS
  Request = {"a", "b"}
  ModelId = {"m1"}
  MaxTokens = 1
  ChannelSize = 1
  NativeErrors = {"final"}
  Ageing = {"b"}
  Stoppable = {"a"}
  CanHang = TRUE
  SlowPhases = {"queue"}
  ModelOf <- MCOneModel
  GpuPlanned <- MCGpuPlanned
SPECIFICATION FairSpec
PROPERTY CompletedIsWhole
 
PROPERTY OneAttemptAtATime
PROPERTY EveryChatEnds
PROPERTY WorkerExits
CHECK_DEADLOCK FALSE

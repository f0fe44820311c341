CONSTANTS
  Chats = {"a"}
  Preloads = {"p"}
  Readers = {"r"}
  ModelId = {"m1", "m2"}
  Context = {1}
  Want <- MCWant
  Ageing = {"a"}
  Trims = TRUE
  MaxDeaths = 1
  MaxStarts = 1
  MaxStops = 1
SPECIFICATION FairSpec
INVARIANT LeaseCountExact
PROPERTY ImplementsLeasedServer
PROPERTY WaitersKeepTheirLoad
PROPERTY NeverAnotherModel
PROPERTY EveryRequestEnds
CHECK_DEADLOCK FALSE

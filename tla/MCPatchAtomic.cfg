CONSTANTS
  N = 2
  MaxTx = 2
  MaxCrashes = 2
  MaxFaults = 1
  FaultPoints = {"staging", "apply"}
SPECIFICATION FairSpec
INVARIANT AllOrNothing
 
 
PROPERTY ImplementsAtomicPatch
PROPERTY CallReturns

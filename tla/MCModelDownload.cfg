CONSTANTS
  N = 2
  Size = 2
  Resized = {2}
  Digested = {1}
  MaxAttempts = 2
  MaxRevision = 2
  MaxDownloads = 2
  MaxMishaps = 2
SPECIFICATION FairSpec
INVARIANT ResumeIsFaithful
INVARIANT DigestedIsGenuine
PROPERTY PublishedIsWhole
 
PROPERTY EveryDownloadEnds
CHECK_DEADLOCK FALSE

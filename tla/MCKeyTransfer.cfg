CONSTANTS
  MaxKeys = 2
  MaxResults = 2
  MaxRefused = 1
SPECIFICATION FairSpec
INVARIANT MessagesAreTrue
PROPERTIES TransfersComplete
CHECK_DEADLOCK FALSE

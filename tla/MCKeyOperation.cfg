CONSTANTS
  MaxKeys = 3
  MaxFailures = 1
SPECIFICATION FairSpec
INVARIANTS AnswersFitTheirPrompts SuccessMeansSaved ChangesAreAnnounced
PROPERTIES OperationsComplete
CHECK_DEADLOCK FALSE

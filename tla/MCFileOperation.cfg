CONSTANTS
  f1 = f1  f2 = f2
  Fds = {f1, f2}
  MaxFiles = 3
SPECIFICATION FairSpec
INVARIANTS GpgmeWorksOnTheCurrentFile WaitsForThePassphrase
PROPERTIES FailedOutputsAreDeleted KeepsItsPromise OperationsReport
CHECK_DEADLOCK FALSE

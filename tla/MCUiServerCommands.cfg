CONSTANTS
  c1 = c1  c2 = c2  r1 = r1  r2 = r2
  Conns = {c1}
  Recipients = {r1}
  Commands <- EveryCommand
  Patient = {}
  MaxOrphans = 1
SPECIFICATION Spec
INVARIANTS OneOperationPerCommand StreamsLastAsLongAsTheOperation EncryptsToTheRecipientsGiven
PROPERTY KeepsItsPromise
CHECK_DEADLOCK FALSE

CONSTANTS
  c1 = c1  c2 = c2  r1 = r1  r2 = r2
  Conns = {c1}
  Recipients = {r1}
  Commands <- SharedCommands
  Patient = {}
  MaxOrphans = 0
SPECIFICATION FairSpec
PROPERTY DeadClientsAreFinished
CHECK_DEADLOCK FALSE

CONSTANTS
  c1 = c1  c2 = c2  r1 = r1  r2 = r2
  Conns = {c1, c2}
  Recipients = {r1}
  Commands <- SharedCommands
  Patient = {c1}
  MaxOrphans = 1
SPECIFICATION FairSpec
INVARIANTS CallbacksInModalOwnTheirConnection ShutdownIsFriendly
PROPERTIES DeadClientsAreFinished ShutdownCompletes CommandsAreAnswered
CHECK_DEADLOCK FALSE

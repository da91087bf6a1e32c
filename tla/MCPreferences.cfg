SPECIFICATION Spec
CONSTANTS
  Words <- MCWords
  Keys = {"k1", "k2"}
  Option <- MCOption
  FirstConf <- MCFirstConf
  Typed <- MCTyped
  ServersFile <- MCServersFile
  BuiltIn <- MCBuiltIn
  Addresses = {"192.0.2.1"}
  Uri <- MCUri
  Picks = {3, 6}
  MaxEdits = 3
  MaxFailures = 1
  MaxStarts = 2
INVARIANT SettingsSurviveARestart
PROPERTIES UntouchedOptionsAreKept CustomLocateIsKept
CHECK_DEADLOCK FALSE

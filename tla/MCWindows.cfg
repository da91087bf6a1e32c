SPECIFICATION FairSpec
CONSTANTS
  Desks <- MCDesks
  MaxConnections = 1
  MaxClicks = 4
  Keys <- MCKeys
  OpenPGP <- MCKeys
  Private <- MCPrivate
  Signed <- MCSigned
  simplified_ui = TRUE
  Files = {"a", "b"}
INVARIANTS CurrentKeyIsTheSelected EnabledActionsApply
PROPERTIES DetailsFollowTheSelection PasteFollowsTheClipboard
CHECK_DEADLOCK FALSE

SPECIFICATION FairSpec
CONSTANTS
  Cards <- MCCards
  Fields <- MCFields
  Watching = TRUE
  disable_ticker = FALSE
  MaxEvents = 2
  MaxClicks = 3
INVARIANTS QuietMeansFresh ReloadsKeepTheirWidget EditsAreFlagged
PROPERTIES ReloadsEnd WindowFollowsTheCard

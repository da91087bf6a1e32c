CONSTANTS
  a = a  x = x  n = n
  manager = manager  dialog = dialog  who = who  keys = keys
  None = None
  AllKeys = {a, x, n}
  FirstKeys = {a, x}
  CmsKeys = {x}
  SecretKeys = {a, n}
  KeyLists = {manager, dialog}
  PublicOnly = {dialog}
  Selectors = {who, keys}
  SecretSelectors = {who}
  MaxRequests = 3
  MaxFailures = 1
SPECIFICATION FairSpec
INVARIANTS NoListingIsMixed QuitIsForEnsure SecretKeysComeFirst ListShowsItsListing
PROPERTIES CacheHoldsWhatWasAsked FirstListIsFilled
CHECK_DEADLOCK FALSE

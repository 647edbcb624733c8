SPECIFICATION FairSpec
CONSTANTS
  Sizes <- MCSizes
  InitialSize = 1
  MaxRows = 3
  MaxClicks = 4
  MaxFailures = 1
INVARIANTS
  PageWithinTotal
  CaptionTellsTheRows
  EmptyIsTrue
PROPERTY TabCatchesUp
CHECK_DEADLOCK FALSE

SPECIFICATION FairSpec
CONSTANTS
  Intervals <- MCIntervals
  FirstInterval = 3
  FeedInterval = 1
  Limit = 2
  Trades <- MCTrades
  SnapLimit = 1
  Periods <- MCPeriods
  StartTime = 3
  MaxTime = 4
  MaxClicks = 2
  MaxFailures = 1
INVARIANTS
  LastCandleDrawn
  NoLeftovers
  MarkersOnNearest
  LinesFollowData
PROPERTY DataHeals
CHECK_DEADLOCK FALSE

SPECIFICATION Spec
CONSTANTS
  Fills <- MCFills
  DayLength = 2
  ChartLimit = 3
  ProfitLimit = 3
  MaxFills = 4
  Closes = {0, 40}
INVARIANTS
  FifoIsUnitByUnit
  CurvesAgree
  TagsFollowFills
  SummaryMatchesCards
  SummaryIsWorth
CHECK_DEADLOCK FALSE

SPECIFICATION Spec
CONSTANTS
  None = None
  MaxActs = 4
  MaxMade = 2
  MaxFailures = 1
INVARIANT ListsTrueWhenIdle
PROPERTY ExpiryIsTold
CHECK_DEADLOCK FALSE

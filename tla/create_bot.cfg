SPECIFICATION Spec
CONSTANTS
  Strategies <- MCStrategies
  SchemaOf <- MCSchemaOf
  FirstStrategy = "grid2"
  FirstExchange = "binance"
  Exchanges = {"binance", "max"}
  None = None
  Closed = Closed
  Idle = Idle
  Asked = Asked
  MaxEdits = 4
  MaxBots = 2
  MaxFailures = 1
INVARIANTS CreationFits SentIsShown ConfirmIsPending
CHECK_DEADLOCK FALSE

SPECIFICATION Spec
CONSTANTS
  Strategies <- MCStrategies
  SchemaOf <- MCSchemaOf
  FirstStrategy = "grid2"
  FirstExchange = "binance"
  FirstMarket = BTC
  BTC = BTC
  ETH = ETH
  Odd = Odd
  MAX = MAX
  Exchanges = {"binance", "max"}
  MarketsOf <- MCMarketsOf
  ValidPairs = {BTC, ETH, MAX}
  Candles <- MCCandles
  Files <- MCFiles
  None = None
  MaxActs = 3
  MaxJobs = 2
  MaxFailures = 1
INVARIANTS RequestFits ChartTellsTheJob
PROPERTY JobIsFollowed
CHECK_DEADLOCK FALSE

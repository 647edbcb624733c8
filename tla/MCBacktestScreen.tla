-------------------------- MODULE MCBacktestScreen --------------------------
(* Two strategies, one of them with price bounds; two exchanges, the first *)
(* with two markets and one that is no pair; a file with rows out of order,*)
(* at one time, between candles and beyond the last one.                   *)
EXTENDS BacktestScreen

CONSTANTS BTC, ETH, Odd, MAX

MCStrategies == {"grid2", "trend"}

Field(parent, key, type, default, required) ==
    [parent |-> parent, key |-> key, type |-> type, default |-> default, required |-> required]

Row(fields) ==
    [category |-> "grid", fields |-> fields, liveOnly |-> FALSE, crossExchange |-> FALSE,
     requiresFutures |-> FALSE, roles |-> {}]

MCSchemaOf ==
    [s \in MCStrategies |->
       IF s = "grid2" THEN Row({Field("", "upperPrice", "number", "num", TRUE),
                                Field("", "lowerPrice", "number", "num", TRUE)})
       ELSE Row({Field("stop", "price", "number", "empty", FALSE)})]

MCMarketsOf == [x \in {"binance", "max"} |-> IF x = "max" THEN <<MAX>> ELSE <<Odd, BTC, ETH>>]

MCCandles == {{2, 3, 6}, {2}}

Order(time, ok) == [time |-> time, ok |-> ok]

MCFiles == {<<Order(8, TRUE), Order(4, TRUE), Order(4, TRUE), Order(3, FALSE), Order(1, TRUE),
              Order(5, TRUE)>>}
=============================================================================

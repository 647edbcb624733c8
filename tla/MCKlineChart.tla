---------------------------- MODULE MCKlineChart ----------------------------
(* Two intervals, one three times as wide; the relay pushes the narrow one;   *)
(* two candles an answer; one trade inside a wide candle, one at its start.   *)
EXTENDS KlineChart
MCIntervals == {1, 3}
MCTrades == {2, 4}
MCPeriods == {2, 3}
=============================================================================

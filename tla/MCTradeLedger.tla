--------------------------- MODULE MCTradeLedger ---------------------------
(* One bot that trades either way in one or two units, and one in hedge mode  *)
(* that opens both sides of another symbol and closes one.  Prices 60 apart   *)
(* keep the average costs of four fills whole.                                *)
EXTENDS BotSummary
Fill(b, s, side, bucket, q, p, ghost) ==
    [bot |-> b, symbol |-> s, side |-> side, bucket |-> bucket, qty |-> q, price |-> p,
     fee |-> 1, feeIn |-> IF side = "BUY" THEN "base" ELSE "quote", ghost |-> ghost]
MCFills == {Fill("b1", "s1", v[1], "BOTH", 1, v[2], FALSE) :
              v \in {<<"BUY", 1>>, <<"BUY", 61>>, <<"SELL", 61>>}}
           \cup {Fill("b1", "s1", side, "BOTH", 2, 1, TRUE) : side \in {"BUY", "SELL"}}
           \cup {Fill("b2", "s2", v[1], v[2], 1, 61, FALSE) :
              v \in {<<"BUY", "LONG">>, <<"SELL", "LONG">>, <<"SELL", "SHORT">>}}
=============================================================================

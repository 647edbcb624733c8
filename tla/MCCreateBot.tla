----------------------------- MODULE MCCreateBot -----------------------------
(* Four strategies: the first one with a nested parameter; one on futures;  *)
(* one for live trading only, with a quoted default and a required amount;  *)
(* and one across two exchanges.                                            *)
EXTENDS CreateBot

MCStrategies == {"grid2", "futures", "live", "cross"}

Field(parent, key, type, default, required) ==
    [parent |-> parent, key |-> key, type |-> type, default |-> default, required |-> required]

Row(category, fields) ==
    [category |-> category, fields |-> fields, liveOnly |-> FALSE, crossExchange |-> FALSE,
     requiresFutures |-> FALSE, roles |-> {}]

MCSchemaOf ==
    [s \in MCStrategies |->
       CASE s = "grid2" -> Row("grid", {Field("", "symbol", "text", "text", TRUE),
                                        Field("stop", "price", "number", "empty", FALSE)})
         [] s = "futures" -> [Row("trend", {Field("", "leverage", "number", "num", TRUE),
                                            Field("", "hedge", "boolean", "yes", FALSE)})
                              EXCEPT !.requiresFutures = TRUE]
         [] s = "live" -> [Row("utility", {Field("", "dry", "boolean", "quotedNo", FALSE),
                                           Field("", "amount", "number", "empty", TRUE)})
                           EXCEPT !.liveOnly = TRUE]
         [] s = "cross" -> [Row("cross-exchange", {Field("", "side", "select", "typed", FALSE)})
                            EXCEPT !.crossExchange = TRUE,
                                   !.roles = {[name |-> "maker", futures |-> FALSE],
                                              [name |-> "hedge", futures |-> TRUE]}]]
=============================================================================

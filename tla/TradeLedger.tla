----------------------------- MODULE TradeLedger -----------------------------
(***************************************************************************)
(* What the dashboard computes from the rows a user's bots write: realized *)
(* profit matched first in, first out, the profit curves, the aggregate of *)
(* the profits table, the latest position, and the tags of the trades.     *)
(*                                                                         *)
(* The state is the trades table, one fill longer at each step; everything *)
(* else is a function of it.  The rows of positions and profits follow     *)
(* from the fills by the bot's own (external) bookkeeping.  Money and      *)
(* quantities are integers, so no rounding is modelled; a fill's price and *)
(* quantity are parsed decimals in the code.                               *)
(***************************************************************************)
EXTENDS Integers, FiniteSets, SequencesExt

CONSTANTS Fills,       \* what can be filled, records with the fields below
          DayLength,   \* instants in a day
          ChartLimit,  \* trades on the chart (200 in the code)
          ProfitLimit, \* profit rows aggregated (2000 in the code)
          MaxFills     \* bound: fills ever made

Sides == {"BUY", "SELL"}
Buckets == {"BOTH", "LONG", "SHORT"}
Currencies == {"quote", "base"}

ASSUME FillsAssumption ==
    /\ IsFiniteSet(Fills)
    /\ \A f \in Fills :
         /\ f.side \in Sides /\ f.bucket \in Buckets /\ f.feeIn \in Currencies
         /\ f.qty \in Nat \ {0} /\ f.price \in Nat /\ f.fee \in Nat
         /\ f.ghost \in BOOLEAN

ASSUME LedgerAssumption ==
    /\ DayLength \in Nat \ {0} /\ ChartLimit \in Nat /\ ProfitLimit \in Nat
    /\ MaxFills \in Nat

VARIABLE trades  \* the table, in the order written: a fill and its traded_at

vars == <<trades>>

Bots == {f.bot : f \in Fills}
Symbols == {f.symbol : f \in Fills}
Day(t) == (t - 1) \div DayLength
Abs(x) == IF x < 0 THEN -x ELSE x

\* The members of a finite set in the order of a relation.
InOrder(S, before) ==
    [n \in 1..Cardinality(S) |->
       CHOOSE a \in S : Cardinality({b \in S : <<b, a>> \in before}) = n - 1]

Increasing(S) == {p \in S \X S : p[1] < p[2]}

\* The rows at some of the places, in the order of the rows.
Picked(rows, places) ==
    LET at == InOrder(places, Increasing(places)) IN [k \in DOMAIN at |-> rows[at[k]]]

\* The rows some query asks for, by traded_at; rows of one instant come in the
\* order of the index, forwards or backwards.
SupabaseTrades(rows, ascending, limit) ==
    LET s == IF ascending THEN rows ELSE Reverse(rows)
    IN SubSeq(s, 1, IF Len(s) < limit THEN Len(s) ELSE limit)

\* The trades of a bot, and of a symbol.
Of(bot) == Picked(trades, {i \in DOMAIN trades : trades[i].bot = bot})
OfSymbol(rows, s) == Picked(rows, {i \in DOMAIN rows : rows[i].symbol = s})

\* What a fill adds to its position.
Signed(r) == IF r.side = "BUY" THEN r.qty ELSE -r.qty

-----------------------------------------------------------------------------
(* First in, first out. *)

Push(queue, r) == Append(queue, [price |-> r.price, qty |-> r.qty])

Unmatched(qty) == [left |-> <<>>, cost |-> 0, remaining |-> qty]

\* Mutant: an item used in part is dropped.
MatchDroppingRest(queue, qty) ==
    FoldLeft(LAMBDA m, item :
                IF m.remaining = 0 THEN [m EXCEPT !.left = Append(@, item)]
                ELSE IF item.qty <= m.remaining
                THEN [m EXCEPT !.cost = @ + item.qty * item.price,
                               !.remaining = @ - item.qty]
                ELSE [m EXCEPT !.cost = @ + m.remaining * item.price,
                               !.remaining = 0],
             Unmatched(qty), queue)

\* One turn of FifoQueue.match: a whole item while it fits, then a part of one.
MatchItem(m, item) ==
    IF m.remaining = 0 THEN [m EXCEPT !.left = Append(@, item)]
    ELSE IF item.qty <= m.remaining
    THEN [m EXCEPT !.cost = @ + item.qty * item.price, !.remaining = @ - item.qty]
    ELSE [left |-> <<[item EXCEPT !.qty = @ - m.remaining]>>,
          cost |-> m.cost + m.remaining * item.price,
          remaining |-> 0]

Match(queue, qty) == FoldLeft(MatchItem, Unmatched(qty), queue)

\* What a sell costs: the queue's share, and its own price for the rest.
MatchedCost(m, r) == m.cost + m.remaining * r.price

FeeInQuote(r) == IF r.feeIn = "quote" THEN r.fee ELSE r.fee * r.price

\* Mutant: every trade gets a point of its own.
ExtendAlways(curve, time, value) == Append(curve, [time |-> time, value |-> value])

\* The curve's last point takes over the value of its own second.
Extend(curve, time, value) ==
    IF curve # <<>> /\ Last(curve).time = time
    THEN [curve EXCEPT ![Len(curve)].value = value]
    ELSE Append(curve, [time |-> time, value |-> value])

\* One trade of computePnlCurve.
CurveStep(a, r) ==
    LET m == Match(a.queue, r.qty)
        gain == IF r.side = "BUY" THEN 0 ELSE r.price * r.qty - MatchedCost(m, r)
        sum == a.sum + gain - FeeInQuote(r)
    IN [queue |-> IF r.side = "BUY" THEN Push(a.queue, r) ELSE m.left,
        sum |-> sum,
        points |-> Extend(a.points, r.at, sum)]

\* computePnlCurve, over the trades of one symbol in time order.
CurveWalk(rows) == FoldLeft(CurveStep, [queue |-> <<>>, sum |-> 0, points |-> <<>>], rows)
PnlCurve(rows) == CurveWalk(rows).points

\* One trade of computePnLFromTrades.
SymbolStep(a, r) ==
    LET m == Match(a.queue, r.qty)
        realized == r.price * r.qty - MatchedCost(m, r)
        open == a.open - r.qty
    IN IF r.side = "BUY"
       THEN [a EXCEPT !.queue = Push(@, r), !.open = @ + r.qty,
                      !.openCost = @ + r.qty * r.price, !.fees = @ + r.fee,
                      !.byTrade = Append(@, 0)]
       ELSE [a EXCEPT !.queue = m.left, !.realized = @ + realized,
                      !.fees = @ + r.fee,
                      !.open = IF open < 0 THEN 0 ELSE open,
                      !.openCost = @ - MatchedCost(m, r),
                      !.wins = IF realized > 0 THEN @ + 1 ELSE @,
                      !.losses = IF realized < 0 THEN @ + 1 ELSE @,
                      !.byTrade = Append(@, realized)]

\* One symbol of computePnLFromTrades.
SymbolPnL(rows) ==
    FoldLeft(SymbolStep,
             [queue |-> <<>>, realized |-> 0, fees |-> 0, open |-> 0, openCost |-> 0,
              wins |-> 0, losses |-> 0, byTrade |-> <<>>], rows)

Days(rows) ==
    LET days == {Day(rows[i].at) : i \in DOMAIN rows} IN InOrder(days, Increasing(days))

\* What a symbol's trades of a day realized, and what the fees of a day were.
RealizedOn(rows, s, d) ==
    LET own == OfSymbol(rows, s)
    IN SumFunctionOnSet(SymbolPnL(own).byTrade, {i \in DOMAIN own : Day(own[i].at) = d})
FeesOn(rows, d) == SumFunctionOnSet([i \in DOMAIN rows |-> rows[i].fee],
                                    {i \in DOMAIN rows : Day(rows[i].at) = d})

\* The days' entries, and their running sum as the report's curve.
Entry(rows, d) == SumFunction([s \in Symbols |-> RealizedOn(rows, s, d)]) - FeesOn(rows, d)
DailyBreakdown(rows) ==
    LET days == Days(rows)
    IN [k \in DOMAIN days |-> [time |-> days[k],
                               value |-> SumFunction([j \in 1..k |-> Entry(rows, days[j])])]]

\* computePnLFromTrades, over the trades of any number of symbols.
PnLFromTrades(rows) ==
    [realized |-> SumFunction([s \in Symbols |-> SymbolPnL(OfSymbol(rows, s)).realized]),
     fees |-> SumFunction([s \in Symbols |-> SymbolPnL(OfSymbol(rows, s)).fees]),
     curve |-> DailyBreakdown(rows)]

-----------------------------------------------------------------------------
(* The bot's own rows (external): base and average cost of its position. *)

\* One fill: what is against the position closes it at its average cost first;
\* closing all of it takes all of its cost, whatever the division leaves over.
BookStep(b, r) ==
    LET q == Signed(r)
        held == Abs(b.base)
        grows == b.base * q >= 0
        closed == IF r.qty <= held THEN r.qty ELSE held
        share == IF closed = held THEN b.cost ELSE closed * (b.cost \div held)
    IN [base |-> b.base + q,
        cost |-> IF grows THEN b.cost + r.qty * r.price
                 ELSE b.cost - share + (r.qty - closed) * r.price,
        profit |-> IF grows THEN 0
                   ELSE IF b.base > 0 THEN closed * r.price - share
                   ELSE share - closed * r.price]

Book(rows) == FoldLeft(BookStep, [base |-> 0, cost |-> 0, profit |-> 0], rows)

BookAfter(fills, i) == Book(SubSeq(fills, 1, i))

\* The same for the side of the market the fill belongs to: BOTH, or in hedge
\* mode LONG or SHORT.
BucketAfter(fills, i) ==
    Book(Picked(fills, {k \in 1..i : fills[k].bucket = fills[i].bucket}))

\* One profit row per fill: what it realized less its fee (migration 00052).
ProfitRow(fills, i) == [at |-> fills[i].at,
                        net |-> BucketAfter(fills, i).profit - fills[i].fee]
ProfitRows(fills) == [i \in DOMAIN fills |-> ProfitRow(fills, i)]

\* The position rows of the first n fills: one for each, beside which the paper
\* engine may add an empty one.
PositionRows(fills, n) ==
    FlattenSeq([i \in 1..n |->
        LET row == [base |-> BookAfter(fills, i).base, cost |-> BookAfter(fills, i).cost,
                    at |-> fills[i].at]
        IN IF fills[i].ghost THEN <<row, [row EXCEPT !.base = 0]>> ELSE <<row>>])

-----------------------------------------------------------------------------
(* The profits table: the newest ProfitLimit rows, oldest first. *)

\* One row of aggregateProfits.
ProfitStep(a, r) ==
    [net |-> a.net + r.net,
     grossProfit |-> IF r.net > 0 THEN a.grossProfit + r.net ELSE a.grossProfit,
     grossLoss |-> IF r.net < 0 THEN a.grossLoss + r.net ELSE a.grossLoss,
     profitCount |-> IF r.net > 0 THEN a.profitCount + 1 ELSE a.profitCount,
     lossCount |-> IF r.net < 0 THEN a.lossCount + 1 ELSE a.lossCount,
     totalTrades |-> a.totalTrades + 1,
     curve |-> Extend(a.curve, r.at, a.net + r.net),
     daily |-> Extend(a.daily, Day(r.at), a.net + r.net)]

AggregateProfits(rows) ==
    FoldLeft(ProfitStep,
             [net |-> 0, grossProfit |-> 0, grossLoss |-> 0, profitCount |-> 0,
              lossCount |-> 0, totalTrades |-> 0, curve |-> <<>>, daily |-> <<>>], rows)

PnLFromProfits(fills) ==
    AggregateProfits(Reverse(SupabaseTrades(ProfitRows(fills), FALSE, ProfitLimit)))

\* The cards of the bot page: profits when there are any, else the trades.
HasProfitsData(fills) == PnLFromProfits(fills).totalTrades > 0
NetProfit(fills) == IF HasProfitsData(fills) THEN PnLFromProfits(fills).net
                    ELSE PnLFromTrades(fills).realized

-----------------------------------------------------------------------------
(* The latest position of a bot, from its rows newest first. *)

\* An empty newest row gives way to the first other one of its instant.
Latest(rows) ==
    LET siblings == {i \in DOMAIN rows : rows[i].at = Head(rows).at /\ rows[i].base # 0}
    IN IF Head(rows).base = 0 /\ siblings # {} THEN rows[Min(siblings)] ELSE Head(rows)

-----------------------------------------------------------------------------
(* Tags. *)

\* computePositionTags
SpotTag(prev, net, r) ==
    CASE prev = 0 /\ net # 0 -> "open"
      [] prev # 0 /\ net = 0 -> "close"
      [] prev # 0 /\ net # 0 -> IF r.side = "BUY" THEN "add" ELSE "reduce"
      [] OTHER -> "trade"

\* computeFuturesPositionTags
FuturesTag(prev, net, r) ==
    CASE prev = 0 /\ net > 0 -> "openLong"
      [] prev = 0 /\ net < 0 -> "openShort"
      [] prev > 0 /\ net = 0 -> "closeLong"
      [] prev < 0 /\ net = 0 -> "closeShort"
      [] prev > 0 /\ net < 0 -> "flipLongToShort"
      [] prev < 0 /\ net > 0 -> "flipShortToLong"
      [] prev > 0 /\ net > 0 -> IF r.side = "BUY" THEN "addLong" ELSE "reduceLong"
      [] prev < 0 /\ net < 0 -> IF r.side = "SELL" THEN "addShort" ELSE "reduceShort"
      [] OTHER -> "trade"

TagOf(futures, prev, net, r) == IF futures THEN FuturesTag(prev, net, r) ELSE SpotTag(prev, net, r)

\* Mutant: the rows of an instant are walked as they come.
PrecedesInList(rows, i, j) == rows[i].at < rows[j].at \/ (rows[i].at = rows[j].at /\ i < j)

Precedes(rows, i, j) == rows[i].at < rows[j].at \/ (rows[i].at = rows[j].at /\ i > j)

\* The rows by time, those of an instant from the back; each is tagged by the
\* net position before and after it.
Tags(rows, futures) ==
    LET before == {p \in (DOMAIN rows) \X (DOMAIN rows) : Precedes(rows, p[1], p[2])}
        order == InOrder(DOMAIN rows, before)
        net(k) == SumFunction([j \in 1..k |-> Signed(rows[order[j]])])
        tag(k) == TagOf(futures, net(k - 1), net(k), rows[order[k]])
    IN [i \in DOMAIN rows |-> tag(CHOOSE k \in DOMAIN order : order[k] = i)]

\* buildTradeMarkers for rows without an action of the server: the newest
\* ChartLimit, sorted by time (the sort is stable), tagged.
TradeMarkers(fills, futures) ==
    LET rows == SupabaseTrades(fills, FALSE, ChartLimit)
        before == {p \in (DOMAIN rows) \X (DOMAIN rows) : PrecedesInList(rows, p[1], p[2])}
        order == InOrder(DOMAIN rows, before)
        sorted == [k \in DOMAIN rows |-> rows[order[k]]]
        tags == Tags(sorted, futures)
    IN {[n |-> sorted[k].n, tag |-> tags[k]] : k \in DOMAIN sorted}

-----------------------------------------------------------------------------
Init == trades = <<>>

\* A bot's order is filled, now or at the instant of the last fill.
Trade ==
    /\ Len(trades) < MaxFills
    /\ \E f \in Fills, later \in {0, 1} :
          trades' = Append(trades,
            [n |-> Len(trades) + 1,
             at |-> IF trades = <<>> THEN 1 ELSE Last(trades).at + later,
             bot |-> f.bot, symbol |-> f.symbol, side |-> f.side, bucket |-> f.bucket,
             qty |-> f.qty, price |-> f.price, fee |-> f.fee, feeIn |-> f.feeIn,
             ghost |-> f.ghost])

Next == Trade
Spec == Init /\ [][Next]_vars

-----------------------------------------------------------------------------
(* Reference definitions. *)

\* A symbol's fills, one unit at a time: the stock is the price paid for every
\* unit held, and a sale takes its units from the front, as far as there are any.
SellUnits(a, r) ==
    LET sold == IF r.qty <= Len(a.stock) THEN r.qty ELSE Len(a.stock)
    IN [stock |-> SubSeq(a.stock, sold + 1, Len(a.stock)),
        realized |-> a.realized + SumFunction([k \in 1..sold |-> r.price - a.stock[k]])]

BuyUnits(a, r) == [a EXCEPT !.stock = @ \o [k \in 1..r.qty |-> r.price]]

UnitStep(a, r) == IF r.side = "BUY" THEN BuyUnits(a, r) ELSE SellUnits(a, r)

UnitByUnit(rows) == FoldLeft(UnitStep, [stock |-> <<>>, realized |-> 0], rows)

NetAfter(rows, i) == SumFunction([j \in 1..i |-> Signed(rows[j])])

Ascending(curve) == \A i \in 1..(Len(curve) - 1) : curve[i].time < curve[i + 1].time
EndOf(curve) == IF curve = <<>> THEN 0 ELSE Last(curve).value

-----------------------------------------------------------------------------
(* Properties *)

\* The queue with its partly used items realizes what matching unit by unit
\* realizes, and leaves as much open, also after sales of more than was held
\* (fifo-pnl.ts, supabase-queries.ts:557-606).
FifoIsUnitByUnit ==
    \A s \in Symbols :
      LET rows == OfSymbol(SupabaseTrades(trades, TRUE, MaxFills), s)
          pnl == SymbolPnL(rows)
      IN /\ pnl.realized = UnitByUnit(rows).realized
         /\ pnl.open = Len(UnitByUnit(rows).stock)

\* The three curves end at the totals shown beside them, the two computed from
\* trades differ by the conversion of fees only, and times ascend strictly,
\* which the chart library insists on.
CurvesAgree ==
    LET report == PnLFromTrades(trades)
    IN /\ EndOf(report.curve) = report.realized - report.fees
       /\ Ascending(report.curve)
       /\ \A s \in Symbols :
            LET rows == OfSymbol(trades, s)
            IN /\ EndOf(PnlCurve(rows)) + SumFunction([i \in DOMAIN rows |-> FeeInQuote(rows[i])])
                    = SymbolPnL(rows).realized
               /\ Ascending(PnlCurve(rows))
       /\ \A b \in Bots :
            LET p == PnLFromProfits(Of(b))
            IN /\ EndOf(p.curve) = p.net /\ EndOf(p.daily) = p.net
               /\ Ascending(p.curve) /\ Ascending(p.daily)
               /\ p.grossProfit + p.grossLoss = p.net

\* Every marker carries the tag its fill earned, although the rows come newest
\* first, are sorted stably and walked backwards within an instant
\* (position-tags.ts:15-20), as long as the chart holds the whole history.
TagsFollowFills ==
    \A b \in Bots :
      LET rows == Of(b)
      IN Len(rows) <= ChartLimit =>
           \A futures \in BOOLEAN :
              TradeMarkers(rows, futures)
                = {[n |-> rows[i].n,
                    tag |-> TagOf(futures, NetAfter(rows, i - 1), NetAfter(rows, i), rows[i])] :
                     i \in DOMAIN rows}
=============================================================================

----------------------------- MODULE BotSummary -----------------------------
(***************************************************************************)
(* The figures at the head of a bot's page: the position cards and the     *)
(* summary above them.  They come from four queries that answer and go     *)
(* stale on their own, over the rows TradeLedger's fills leave behind, and *)
(* from the newest candle's close.  A bot on futures has its positions in  *)
(* the snapshots of futures_position_risks, one per side of the market;    *)
(* the page finds out that it is on futures from those and from its        *)
(* orders.                                                                 *)
(*                                                                         *)
(* An average cost is kept as the cost of the whole position, so that no   *)
(* rounding is modelled.  A view holds what the queries last answered; a   *)
(* query without an answer counts as an empty one, as in the code.         *)
(***************************************************************************)
EXTENDS TradeLedger

CONSTANT Closes  \* closes of the newest candle; 0 stands for no candle

ASSUME ClosesAssumption == Closes \subseteq Nat

-----------------------------------------------------------------------------
(* The rows. *)

\* The snapshot the bot's sync takes after a fill (external).
FuturesRow(fills, i) ==
    LET bucket == BucketAfter(fills, i)
    IN [side |-> fills[i].bucket, amount |-> bucket.base, cost |-> bucket.cost,
        mark |-> fills[i].price]

\* Mutant: one snapshot is kept for a bot, not one for each side.
LatestRiskPerBot(fills, n) == IF n = 0 THEN {} ELSE {FuturesRow(fills, n)}

\* useSupabaseFuturesPositions: of the rows newest first, the first per side.
LatestRisks(fills, n) ==
    LET side(i) == fills[i].bucket
    IN {FuturesRow(fills, i) : i \in {j \in 1..n : \A k \in (j + 1)..n : side(k) # side(j)}}

OpenRisks(fills, n) == {r \in LatestRisks(fills, n) : r.amount # 0}

\* useSupabaseLatestPositions, over the rows of the first n fills.
OpenPositions(fills, n) ==
    IF n = 0 THEN {} ELSE {p \in {Latest(Reverse(PositionRows(fills, n)))} : p.base # 0}

-----------------------------------------------------------------------------
(* What the page makes of them. *)

\* What a position has gained at a price, either way round.
Gain(amount, cost, price) ==
    IF amount > 0 THEN amount * price - cost ELSE cost - Abs(amount) * price

\* computeFuturesRealtime: at the snapshot's own mark while there is no candle.
FuturesRealtime(risk, price) ==
    Gain(risk.amount, risk.cost, IF price > 0 THEN price ELSE risk.mark)

\* useUnrealizedPnL: nothing without a price.
UnrealizedPnL(positions, price) ==
    IF price = 0 THEN 0
    ELSE SumFunction([p \in positions |-> Gain(p.base, p.cost, price)])

\* The page takes the bot for one on futures by an open position or an order.
IsFutures(seen) == seen.risks # {} \/ seen.futuresOrder

\* Mutant: the summary reads the positions table, whatever the bot is on.
SummaryFromPositions(seen, price) == UnrealizedPnL(seen.positions, price)

\* futuresUnrealized ?? unrealized
Summary(seen, price) ==
    IF seen.risks # {} THEN SumFunction([r \in seen.risks |-> FuturesRealtime(r, price)])
    ELSE UnrealizedPnL(seen.positions, price)

FuturesCards(seen, price) ==
    {[of |-> r, gain |-> FuturesRealtime(r, price)] : r \in seen.risks}

\* Every card of a spot position tells the gain of all of them.
SpotCards(seen, price) ==
    {[of |-> p, gain |-> UnrealizedPnL(seen.positions, price)] : p \in seen.positions}

\* PositionCard: the cards shown, each with the gain it tells.
Cards(seen, price) == IF IsFutures(seen) THEN FuturesCards(seen, price) ELSE SpotCards(seen, price)

\* The position the page hands to the chart, a futures one too, and the strip
\* above the chart, with the summary's gain beside the position's holding.
SupabasePosition(seen) == seen.positions
Strip(seen, price) ==
    IF price = 0 THEN {}
    ELSE {[of |-> p, gain |-> Summary(seen, price)] : p \in SupabasePosition(seen)}

\* The six summary cards are left out when there is nothing to tell.
SummaryShown(fills, seen, price) == HasProfitsData(fills) \/ Summary(seen, price) # 0

-----------------------------------------------------------------------------
(* The answers a page can hold. *)

\* In hedge mode a bot is on futures; one without sides may be on either market.
OnSpot(fills) == \A i \in DOMAIN fills : fills[i].bucket = "BOTH"

\* The queries about positions have answered before or after each of the fills,
\* one of them at least after the last: two older answers make a page that was
\* there before the fills since.
Views(fills) ==
    LET n == Len(fills)
        newest == <<OpenRisks(fills, n), OpenPositions(fills, n)>>
        spot == {[risks |-> {}, positions |-> newest[2], futuresOrder |-> FALSE]}
        futures ==
          {[risks |-> r, positions |-> newest[2], futuresOrder |-> o] :
              r \in {OpenRisks(fills, i) : i \in 0..n}, o \in BOOLEAN}
          \cup
          {[risks |-> newest[1], positions |-> p, futuresOrder |-> o] :
              p \in {OpenPositions(fills, i) : i \in 0..n}, o \in BOOLEAN}
    IN IF OnSpot(fills) THEN spot \cup futures ELSE futures

UpToDate(fills) ==
    LET n == Len(fills)
        spot == {[risks |-> {}, positions |-> OpenPositions(fills, n), futuresOrder |-> FALSE]}
        futures == {[risks |-> OpenRisks(fills, n), positions |-> OpenPositions(fills, n),
                     futuresOrder |-> TRUE]}
    IN IF OnSpot(fills) THEN spot \cup futures ELSE futures

\* Money paid and received so far, and what closing at a price would bring.
Cash(fills) == SumFunction([i \in DOMAIN fills |->
                 -Signed(fills[i]) * fills[i].price - fills[i].fee])
Worth(fills, price) == Cash(fills) + NetAfter(fills, Len(fills)) * price

-----------------------------------------------------------------------------
(* Properties *)

\* The page's comment (page.tsx:250-253) wants "the summary matches the cards":
\* whichever of the queries lag behind and whether or not there is a price, the
\* gains on the cards shown add up to the summary's, and the chart's strip gives
\* a spot position's holding and its own gain.
SummaryMatchesCards ==
    \A b \in Bots : \A seen \in Views(Of(b)), price \in Closes :
      LET cards == Cards(seen, price)
      IN /\ cards # {} => Summary(seen, price) = SumFunction([c \in cards |-> c.gain])
         /\ ~IsFutures(seen) =>
              \A s \in Strip(seen, price) : s.gain = Gain(s.of.base, s.of.cost, price)

\* Once every query is up to date and there is a price, net profit and
\* unrealized profit together are what the bot has really made, were it to close
\* everything now: the two come from different tables, written and cut off
\* apart.  A position closed within the instant of an earlier fill is still
\* taken for open (supabase-queries.ts:427-431).
SummaryIsWorth ==
    \A b \in Bots :
      LET rows == Of(b)
          instant == {i \in DOMAIN rows : rows[i].at = Last(rows).at}
      IN /\ rows # <<>> /\ Len(rows) <= ProfitLimit
         /\ NetAfter(rows, Len(rows)) # 0 \/ Cardinality(instant) = 1
         => \A seen \in UpToDate(rows), price \in Closes \ {0} :
               /\ SummaryShown(rows, seen, price)
               /\ NetProfit(rows) + Summary(seen, price) = Worth(rows, price)
=============================================================================

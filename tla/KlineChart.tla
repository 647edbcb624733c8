----------------------------- MODULE KlineChart -----------------------------
(***************************************************************************)
(* The chart of the bot page: useKlineData keeps the candles of each       *)
(* interval in the query cache, a map and an earliest time beside it in    *)
(* refs that belong to no interval, and merges three writers: the query's  *)
(* answer, a page of earlier candles, and the candles of the WebSocket.    *)
(* CandlestickChart draws them incrementally: all of them only when their  *)
(* number changed, else the last one.                                      *)
(*                                                                         *)
(* Time is counted in bars of width 1.  A candle is known by the number of *)
(* ticks that went into it and the width of its interval; the exchange's   *)
(* candles are a function of the time (the market itself is not state of   *)
(* the program).  Mode, exchange and symbol stay fixed.                    *)
(***************************************************************************)
EXTENDS Integers, FiniteSets, FiniteSetsExt

CONSTANTS Intervals,   \* the widths the buttons offer
          FirstInterval,
          FeedInterval, \* the width of the candles the relay pushes
          Limit,       \* candles in one answer (200 in the code)
          Trades,      \* times of the trades to mark
          SnapLimit,   \* farthest candle a marker snaps to (7200 s in the code)
          Periods,     \* the moving averages on offer, each known by its period
          StartTime,   \* the page is opened then
          MaxTime,     \* bound: the last time
          MaxClicks,   \* bound: interval changes, scrolls and indicator toggles
          MaxFailures  \* bound: requests that fail

ASSUME WidthsAssumption ==
    /\ Intervals \subseteq Nat \ {0} /\ FirstInterval \in Intervals
    /\ FeedInterval \in Nat \ {0} /\ Limit \in Nat \ {0} /\ Periods \subseteq Nat \ {0}
    /\ Trades \subseteq Nat /\ SnapLimit \in Nat
    /\ MaxTime \in Nat /\ StartTime \in 1..MaxTime /\ MaxClicks \in Nat /\ MaxFailures \in Nat

VARIABLES now, news,           \* the market's time; a pushed candle is on its way
          interval,      \* the interval rendered: the query key and the dataKey
          cache, flight, \* the query cache, per interval
          aged,          \* the intervals whose data is older than staleTime (60 s)
          wsCandles, earliest, \* wsCandlesRef, earliestTimeRef (0: null)
          loading,             \* the load of earlier candles in flight
          due,                 \* the chart's effects are due
          drawn, marks,        \* candles and markers on the chart
          enabled, series,     \* indicators switched on; indicatorSeriesRef, id to line
          prevKey, prevCount, hadData, \* the chart's refs
          clicks, failures

hook == <<interval, cache, flight, aged, wsCandles, earliest, loading>>
chart == <<drawn, marks, series, prevKey, prevCount, hadData>>
vars == <<now, news, hook, due, enabled, chart, clicks, failures>>

Idle == 0
Asked == -1
NoLoad == [key |-> 0, before |-> 0]
Times == 1..MaxTime
Empty == [t \in {} |-> 0]

\* The candles of an interval are a function of their start.
Candle == [ticks : 1..MaxTime, width : Intervals \cup {FeedInterval}]
IsSeries(f, S) == DOMAIN f \subseteq Times /\ \A t \in DOMAIN f : f[t] \in S

TypeOK ==
    /\ now \in Times /\ news \in BOOLEAN
    /\ interval \in Intervals
    /\ DOMAIN cache = Intervals /\ \A k \in Intervals : IsSeries(cache[k], Candle)
    /\ flight \in [Intervals -> {Idle, Asked} \cup Times]
    /\ aged \subseteq Intervals
    /\ IsSeries(wsCandles, Candle)
    /\ earliest \in {0} \cup Times
    /\ loading \in {NoLoad} \cup [key : Intervals, before : Times]
    /\ due \in BOOLEAN /\ hadData \in BOOLEAN
    /\ IsSeries(drawn, [c : Candle, key : Intervals])
    /\ marks \subseteq Trades \X (Trades \cup Times)
    /\ enabled \subseteq Periods
    /\ DOMAIN series \subseteq Periods
    /\ \A p \in DOMAIN series : DOMAIN series[p] \subseteq Times
    /\ prevKey \in Intervals /\ prevCount \in 0..MaxTime
    /\ clicks \in 0..MaxClicks /\ failures \in 0..MaxFailures

-----------------------------------------------------------------------------
(* The exchange, behind the manager. *)

\* The bar of width w that covers time t.
Bar(w, t) == t - ((t - 1) % w)

\* That bar as it stands at a time: the ticks that went into it so far.
CandleAt(w, t, at) == [ticks |-> Min({w, at - t + 1}), width |-> w]

\* The newest Limit candles that start at or before upto, as they stand at a time.
Fetch(w, upto, at) ==
    LET starts == {t \in 1..upto : Bar(w, t) = t}
        newest == {t \in starts : Cardinality({u \in starts : u > t}) < Limit}
    IN [t \in newest |-> CandleAt(w, t, at)]

-----------------------------------------------------------------------------
(* The hook. *)

\* An interval without data has no candles (data ?? []); the exchange never
\* answers with none, as its history begins at time 1.
Candles == cache[interval]

With(f, g) == [t \in DOMAIN f \cup DOMAIN g |-> IF t \in DOMAIN g THEN g[t] ELSE f[t]]

EarliestOf(f) == IF DOMAIN f = {} THEN earliest ELSE Min(DOMAIN f)

\* isStale: an interval is asked for when it has no data, or old data.
IsStale(k) == cache[k] = Empty \/ k \in aged

\* An interval comes to be rendered.
Observed(k) == IF flight[k] = Idle /\ IsStale(k) THEN [flight EXCEPT ![k] = Asked] ELSE flight

\* The data of an interval as it is set from now on, by the query or by
\* setQueryData: either makes it new, whatever it holds.
SetData(k, data) ==
    /\ cache' = [cache EXCEPT ![k] = data]
    /\ aged' = aged \ {k}

\* staleTime passes without anyone setting the data; its age matters to no one
\* while a request is on its way.
Ages(k) ==
    /\ ~due /\ flight[k] = Idle /\ cache[k] # Empty /\ k \notin aged
    /\ aged' = aged \cup {k}
    /\ UNCHANGED <<now, news, interval, cache, flight, wsCandles, earliest, loading,
                   due, enabled, chart, clicks, failures>>

\* The manager reads the candles for a query.
ManagerAnswers(k) ==
    /\ ~due /\ flight[k] = Asked
    /\ flight' = [flight EXCEPT ![k] = now]
    /\ UNCHANGED <<now, news, interval, cache, aged, wsCandles, earliest, loading,
                   due, enabled, chart, clicks, failures>>

\* The answer arrives: queryFn starts the map and the earliest time over,
\* whichever interval is rendered now.
QueryAnswers(k) ==
    /\ ~due /\ flight[k] \in Times
    /\ LET klines == Fetch(k, flight[k], flight[k])
       IN /\ wsCandles' = klines
          /\ earliest' = EarliestOf(klines)
          /\ SetData(k, klines)
    /\ flight' = [flight EXCEPT ![k] = Idle]
    /\ due' = (k = interval)
    /\ UNCHANGED <<now, news, interval, loading, enabled, chart, clicks, failures>>

QueryFails(k) ==
    /\ ~due /\ flight[k] # Idle /\ failures < MaxFailures
    /\ flight' = [flight EXCEPT ![k] = Idle]
    /\ failures' = failures + 1
    /\ UNCHANGED <<now, news, interval, cache, aged, wsCandles, earliest, loading,
                   due, enabled, chart, clicks>>

\* The user scrolls the chart to its left edge.
LoadEarlier ==
    /\ ~due /\ clicks < MaxClicks
    /\ DOMAIN Candles # {}
    /\ loading = NoLoad /\ earliest > 1
    /\ loading' = [key |-> interval, before |-> earliest]
    /\ clicks' = clicks + 1
    /\ UNCHANGED <<now, news, interval, cache, flight, aged, wsCandles, earliest,
                   due, enabled, chart, failures>>

\* Mutant: the load's flag is left up when a page has come.
EarlierAnswersKeepingLoad ==
    /\ ~due /\ loading # NoLoad
    /\ LET older == Fetch(loading.key, loading.before - 1, now)
       IN /\ DOMAIN older # {}
          /\ wsCandles' = With(wsCandles, older)
          /\ SetData(loading.key, With(wsCandles, older))
    /\ due' = (loading.key = interval)
    /\ UNCHANGED <<now, news, interval, flight, earliest, loading, enabled, chart,
                   clicks, failures>>

\* The page of earlier candles comes: it goes into the map as it is now, and the
\* whole map becomes the data of the interval the load was started for.
EarlierAnswers ==
    /\ ~due /\ loading # NoLoad
    /\ LET older == Fetch(loading.key, loading.before - 1, now)
           merged == With(wsCandles, older)
       IN IF DOMAIN older = {} THEN UNCHANGED <<wsCandles, earliest, cache, aged, due>>
          ELSE /\ wsCandles' = merged
               /\ earliest' = Min(DOMAIN older)
               /\ SetData(loading.key, merged)
               /\ due' = (loading.key = interval)
    /\ loading' = NoLoad
    /\ UNCHANGED <<now, news, interval, flight, enabled, chart, clicks, failures>>

EarlierFails ==
    /\ ~due /\ loading # NoLoad /\ failures < MaxFailures
    /\ loading' = NoLoad
    /\ failures' = failures + 1
    /\ UNCHANGED <<now, news, interval, cache, flight, aged, wsCandles, earliest,
                   due, enabled, chart, clicks>>

\* A pushed candle: exchange and symbol are compared, the interval is not.  A
\* start the map does not know makes the whole map the rendered data; a known
\* one is replaced where the data holds it, and the data is set again in any case.
HandleWSMessage ==
    /\ ~due /\ news
    /\ news' = FALSE
    /\ LET t == Bar(FeedInterval, now)
           c == CandleAt(FeedInterval, t, now)
           seen == With(wsCandles, [u \in {t} |-> c])
       IN /\ wsCandles' = seen
          /\ IF t \notin DOMAIN wsCandles THEN SetData(interval, seen)
             ELSE IF t \in DOMAIN Candles THEN SetData(interval, [Candles EXCEPT ![t] = c])
             ELSE IF Candles # Empty THEN SetData(interval, Candles)
             ELSE UNCHANGED <<cache, aged>>
    /\ due' = (cache'[interval] # cache[interval])
    /\ UNCHANGED <<now, interval, flight, earliest, loading, enabled, chart, clicks, failures>>

\* The buttons above the chart.
ChangeInterval ==
    /\ ~due /\ clicks < MaxClicks
    /\ \E k \in Intervals \ {interval} : interval' = k /\ flight' = Observed(k)
    /\ due' = TRUE
    /\ clicks' = clicks + 1
    /\ UNCHANGED <<now, news, cache, aged, wsCandles, earliest, loading, enabled, chart,
                   failures>>

\* The user comes back to the window: the query runs again if its data is old.
WindowFocus ==
    /\ ~due /\ flight[interval] = Idle /\ IsStale(interval)
    /\ flight' = [flight EXCEPT ![interval] = Asked]
    /\ UNCHANGED <<now, news, interval, cache, aged, wsCandles, earliest, loading,
                   due, enabled, chart, clicks, failures>>

-----------------------------------------------------------------------------
(* The chart. *)

Indexed(S) == CHOOSE f \in [1..Cardinality(S) -> S] :
                 \A i, j \in 1..Cardinality(S) : i < j => f[i] < f[j]

\* Mutant: the bisection takes the first candle not before the trade.
SnapForward(target, S) ==
    LET later == {t \in S : t >= target}
        t == IF later = {} THEN Max(S) ELSE Min(later)
    IN IF t - target > SnapLimit \/ target - t > SnapLimit THEN -1 ELSE t

\* The bisection of snapToNearestCandle, over the windows of n sorted times: the
\* place of the first that is not before the target, or the last.
Bisect(at, n, target) ==
    LET find[w \in (1..n) \X (1..n)] ==
            LET mid == (w[1] + w[2]) \div 2
            IN IF w[1] >= w[2] THEN w[1]
               ELSE IF at[mid] < target THEN find[<<mid + 1, w[2]>>] ELSE find[<<w[1], mid>>]
    IN find[<<1, n>>]

\* snapToNearestCandle: the candle found or the one before it when that is no
\* farther; -1 when it is not near enough.
Snap(target, S) ==
    LET at == Indexed(S)
        lo == Bisect(at, Cardinality(S), target)
        dist(t) == IF t < target THEN target - t ELSE t - target
        nearest == IF lo > 1 /\ target - at[lo - 1] <= at[lo] - target
                   THEN at[lo - 1] ELSE at[lo]
    IN IF S = {} \/ dist(nearest) > SnapLimit THEN -1 ELSE nearest

\* Trade markers stand on their candle, or on their own time where none is near.
Marks(S) == {<<t, IF Snap(t, S) = -1 THEN t ELSE Snap(t, S)>> : t \in Trades}

\* computeSMA, as sums: one point per candle that has period - 1 before it.
SMA(f, period) ==
    LET upto(t) == {u \in DOMAIN f : u <= t}
        window(t) == {u \in upto(t) : Cardinality({v \in upto(t) : v > u}) < period}
    IN [t \in {u \in DOMAIN f : Cardinality(upto(u)) >= period}
          |-> MapThenSumSet(LAMBDA u : f[u].ticks, window(t))]

\* Mutant: the page hands over the lines without a point, too.
IndicatorLinesAll(f) == [p \in enabled |-> SMA(f, p)]

\* What the page hands the chart: a line for each indicator that is switched on
\* and has a point to show.
IndicatorLines(f) == [p \in {q \in enabled : DOMAIN SMA(f, q) # {}} |-> SMA(f, p)]

\* The chart's series after it was handed these lines: those of other ids are
\* removed, a line without a point is skipped, the others are made or set anew.
SeriesOf(lines) ==
    LET set == {p \in DOMAIN lines : DOMAIN lines[p] # {}}
    IN [p \in set \cup (DOMAIN series \cap DOMAIN lines) |->
          IF p \in set THEN lines[p] ELSE series[p]]

\* The user switches an indicator on or off.
ToggleIndicator ==
    /\ ~due /\ clicks < MaxClicks
    /\ \E p \in Periods : enabled' = IF p \in enabled THEN enabled \ {p} ELSE enabled \cup {p}
    /\ due' = TRUE
    /\ clicks' = clicks + 1
    /\ UNCHANGED <<now, news, hook, chart, failures>>

Stamp(f) == [t \in DOMAIN f |-> [c |-> f[t], key |-> interval]]

\* Mutant: an older last candle is taken as drawn.
DrawCandlesTrusting(had, count) ==
    LET n == Cardinality(DOMAIN Candles)
        last == Max(DOMAIN Candles)
    IN IF ~had \/ count = 0 \/ n # count THEN Stamp(Candles)
       ELSE IF last < Max(DOMAIN drawn) THEN drawn
       ELSE With(drawn, [t \in {last} |-> Stamp(Candles)[t]])

\* All candles are drawn after a change of the key, of nothing to something or
\* of their number; else only the last, which the chart takes when it is not
\* older than its own last (and is given all of them when it refuses).
DrawCandles(had, count) ==
    LET n == Cardinality(DOMAIN Candles)
        last == Max(DOMAIN Candles)
    IN IF ~had \/ count = 0 \/ n # count \/ last < Max(DOMAIN drawn)
       THEN Stamp(Candles)
       ELSE With(drawn, [t \in {last} |-> Stamp(Candles)[t]])

\* Mutant: the new dataKey does not reset the refs.
DrawKeepingKey ==
    /\ due
    /\ due' = FALSE
    /\ prevKey' = interval
    /\ IF DOMAIN Candles = {}
       THEN prevCount' = 0 /\ hadData' = FALSE /\ UNCHANGED <<drawn, marks>>
       ELSE /\ prevCount' = Cardinality(DOMAIN Candles) /\ hadData' = TRUE
            /\ drawn' = DrawCandles(hadData, prevCount)
            /\ marks' = Marks(DOMAIN Candles)
    /\ series' = SeriesOf(IndicatorLines(Candles))
    /\ UNCHANGED <<now, news, hook, enabled, clicks, failures>>

\* The effects of a render: the new dataKey forgets what was drawn, then candles
\* and markers (kept while there is no candle), then the indicator series.  Of
\* candles that did not change there is nothing to draw.
Draw ==
    /\ due
    /\ due' = FALSE
    /\ prevKey' = interval
    /\ LET had == hadData /\ prevKey = interval
           count == IF prevKey = interval THEN prevCount ELSE 0
       IN IF DOMAIN Candles = {}
          THEN prevCount' = 0 /\ hadData' = FALSE /\ UNCHANGED <<drawn, marks>>
          ELSE /\ prevCount' = Cardinality(DOMAIN Candles) /\ hadData' = TRUE
               /\ drawn' = DrawCandles(had, count)
               /\ marks' = Marks(DOMAIN Candles)
    /\ series' = SeriesOf(IndicatorLines(Candles))
    /\ UNCHANGED <<now, news, hook, enabled, clicks, failures>>

-----------------------------------------------------------------------------
\* The market moves.
Tick ==
    /\ ~due /\ now < MaxTime
    /\ now' = now + 1
    /\ UNCHANGED <<news, hook, due, enabled, chart, clicks, failures>>

\* The relay pushes the feed's last candle, as often as it likes.
Push ==
    /\ ~due /\ ~news
    /\ news' = TRUE
    /\ UNCHANGED <<now, hook, due, enabled, chart, clicks, failures>>

Init ==
    /\ now = StartTime /\ news = FALSE
    /\ interval = FirstInterval
    /\ cache = [k \in Intervals |-> Empty]
    /\ flight = [k \in Intervals |-> IF k = FirstInterval THEN Asked ELSE Idle]
    /\ aged = {}
    /\ wsCandles = Empty /\ earliest = 0 /\ loading = NoLoad
    /\ due = FALSE
    /\ drawn = Empty /\ marks = {}
    /\ enabled = {} /\ series = Empty
    /\ prevKey = FirstInterval /\ prevCount = 0 /\ hadData = FALSE
    /\ clicks = 0 /\ failures = 0

Next ==
    \/ \E k \in Intervals : ManagerAnswers(k) \/ QueryAnswers(k) \/ QueryFails(k)
    \/ LoadEarlier \/ EarlierAnswers \/ EarlierFails
    \/ \E k \in Intervals : Ages(k)
    \/ HandleWSMessage \/ ChangeInterval \/ ToggleIndicator \/ WindowFocus
    \/ Draw \/ Tick \/ Push

\* Requests are answered, effects run, messages are handled, data that nobody
\* sets ages (that of a feed that keeps pushing need not), and the user keeps
\* coming back to the window.  Pushes, time and clicks are never owed.
Fairness ==
    /\ WF_vars(Draw) /\ WF_vars(HandleWSMessage) /\ SF_vars(EarlierAnswers)
    /\ \A k \in Intervals : WF_vars(ManagerAnswers(k)) /\ WF_vars(QueryAnswers(k))
    /\ \A k \in Intervals : WF_vars(~news /\ Ages(k))
    /\ SF_vars(WindowFocus)

Spec == Init /\ [][Next]_vars
FairSpec == Spec /\ Fairness

-----------------------------------------------------------------------------
(* Properties *)

\* The last candle on the chart, whose close is the price read off it, is the
\* last candle of the data, although most changes draw one candle only
\* (CandlestickChart.tsx:340-377).
LastCandleDrawn ==
    ~due /\ DOMAIN Candles # {}
      => drawn[Max(DOMAIN drawn)] = Stamp(Candles)[Max(DOMAIN Candles)]

\* No candle drawn for another interval is left among those of the rendered
\* one, also when both have the same number of candles (210-217).
NoLeftovers ==
    ~due /\ DOMAIN Candles # {} => \A t \in DOMAIN drawn : drawn[t].key = interval

\* A marker stands on a nearest candle of the data, or on its own time when
\* every candle is too far: the bisection against its meaning (559-585).
MarkersOnNearest ==
    ~due /\ DOMAIN Candles # {} =>
      \A m \in marks :
        LET dist(t) == IF t < m[1] THEN m[1] - t ELSE t - m[1]
            best == Min({dist(t) : t \in DOMAIN Candles})
        IN IF best > SnapLimit THEN m[2] = m[1]
           ELSE m[2] \in DOMAIN Candles /\ dist(m[2]) = best

\* On the chart are the lines of the indicators that are switched on, each of
\* the candles beside it: none of an indicator switched off, none of another
\* interval's candles, none where there are too few (page.tsx:339-369,
\* CandlestickChart.tsx:463-502).
LinesFollowData ==
    ~due => /\ DOMAIN series \subseteq enabled
            /\ \A p \in enabled :
                 IF Cardinality(DOMAIN Candles) >= p
                 THEN p \in DOMAIN series /\ series[p] = SMA(Candles, p)
                 ELSE p \notin DOMAIN series

\* Whatever mix of intervals the three writers made, once the feed pushes no
\* more the rendered data is in the end the exchange's and no load of earlier
\* candles hangs (the finally of useKlineData.ts:111-114), for a user who keeps
\* coming back to the window.  While it pushes, every candle renews the data
\* (139-147), which never gets old enough to be asked for again.
DataHeals ==
    (<>[]~news) => <>[](loading = NoLoad /\ Candles = Fetch(interval, now, now))
=============================================================================

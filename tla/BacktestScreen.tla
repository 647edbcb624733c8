--------------------------- MODULE BacktestScreen ---------------------------
(***************************************************************************)
(* The backtest panel: its form, the jobs it submits, the polling of the   *)
(* one it shows, and the price chart of a finished one.                    *)
(*                                                                         *)
(* The manager is what JobStatus promises, which BacktestJobs implements.  *)
(* A market is a symbol at an exchange; a price bound computed from a      *)
(* market's last price is known by the market.  The panel writes the       *)
(* chosen exchange and symbol over those of the configuration it sends, so *)
(* the configuration's own are left out, and so are the dates, but for the *)
(* candles asked for with them.                                            *)
(***************************************************************************)
EXTENDS StrategyForms, FiniteSetsExt

CONSTANTS FirstStrategy, FirstExchange, FirstMarket, \* grid2, binance, BTCUSDT there
          Exchanges,
          MarketsOf,    \* exchange -> the markets the manager lists, in order
          ValidPairs,   \* the markets with a known quote currency
          Candles,      \* sets of times the manager may answer with for some dates
          Files,        \* what a file of orders may hold
          None,
          MaxActs,      \* bound: things the user does
          MaxJobs,      \* bound: jobs submitted
          MaxFailures   \* bound: requests that fail, restarts of the manager

BoundKeys == {"upperPrice", "lowerPrice"}
HasGridBounds(s, loaded) == \E f \in Fields(s, loaded) : f.key \in BoundKeys

ASSUME ScreenAssumption ==
    /\ FirstStrategy \in Strategies /\ FirstExchange \in Exchanges
    /\ \A s \in Strategies :
         /\ HasGridBounds(s, TRUE) => BoundKeys \subseteq {f.key : f \in Fields(s, TRUE)}
         /\ \A f \in Fields(s, TRUE) : f.key \in BoundKeys => ~Nested(f) /\ f.type = "number"
    /\ \A x \in Exchanges : MarketsOf[x] \in Seq(Range(MarketsOf[x]))
    /\ \A times \in Candles : IsFiniteSet(times) /\ times \subseteq Nat \ {0}
    /\ Files \subseteq Seq([time : Int, ok : BOOLEAN])
    /\ MaxActs \in Nat /\ MaxJobs \in Nat /\ MaxFailures \in Nat

JobIds == 1..MaxJobs

VARIABLES registry, listed, priced, \* what has been loaded: registry, lists, last prices
          panel,        \* the form
          active,       \* activeJobId; mode is 'active' when there is one
          submitError,
          downloading,  \* the file's job, or None
          answers, refusals, \* accepted jobs and refusals whose answer is on its way
          data, flight, \* the query of the active job: its data, and a request
          chart,        \* the price chart of a completed job
          status, submitted, \* the manager's jobs
          stranded,     \* those a restart put back to "pending"
          acts, failures

known == <<registry, listed, priced>>
jobs == <<status, submitted, stranded>>
poll == <<data, flight>>
sent == <<answers, refusals>>
vars == <<known, panel, active, submitError, downloading, sent, poll, chart, jobs, acts, failures>>

Manager == INSTANCE JobStatus WITH Jobs <- JobIds

\* No data yet is no status.
ASSUME NoneAssumption == None \notin Manager!Statuses

-----------------------------------------------------------------------------
(* Order. *)

\* The members of a finite set in the order of a relation.
InOrder(S, before) ==
    [n \in 1..Cardinality(S) |->
       CHOOSE a \in S : Cardinality({b \in S : <<b, a>> \in before}) = n - 1]

Increasing(S) == {p \in S \X S : p[1] < p[2]}

-----------------------------------------------------------------------------
(* The form. *)

NewPanel == [strategy |-> FirstStrategy, exchange |-> FirstExchange, raw |-> FirstMarket,
             config |-> GetStrategyDefaults(FirstStrategy, FALSE)]

\* filterSymbols of the list, when there is one.
FilteredSymbols ==
    LET all == IF panel.exchange \in listed THEN MarketsOf[panel.exchange] ELSE <<>>
        kept == {i \in DOMAIN all : all[i] \in ValidPairs}
        places == InOrder(kept, Increasing(kept))
    IN [n \in DOMAIN places |-> all[places[n]]]

\* The symbol chosen while it is listed, else the first.
Symbol ==
    LET symbols == Range(FilteredSymbols)
    IN CASE panel.raw \in symbols -> panel.raw
         [] panel.raw \notin symbols /\ symbols # {} -> FilteredSymbols[1]
         [] OTHER -> None

\* The bounds are computed from the last price for as long as it is known.
EffectiveConfig ==
    IF Symbol \in priced /\ HasGridBounds(panel.strategy, registry)
    THEN Put(Put(panel.config, <<"", "upperPrice">>, Symbol), <<"", "lowerPrice">>, Symbol)
    ELSE panel.config

Edit(p) ==
    /\ active = None /\ acts < MaxActs
    /\ panel' = p
    /\ acts' = acts + 1
    /\ UNCHANGED <<known, active, submitError, downloading, sent, poll, chart, jobs, failures>>

HandleStrategyChange ==
    \E s \in Offered(registry, TRUE, TRUE) \ {panel.strategy} :
       Edit([panel EXCEPT !.strategy = s, !.config = GetStrategyDefaults(s, registry)])

\* Mutant: the configuration survives a change of the exchange.
ExchangeChosenKeepingConfig(x) == [panel EXCEPT !.exchange = x, !.raw = None]

\* Another exchange has other symbols and prices: the form starts again.
ExchangeChosen(x) ==
    [panel EXCEPT !.exchange = x, !.raw = None,
                  !.config = GetStrategyDefaults(panel.strategy, registry)]

ChooseExchange == \E x \in Exchanges \ {panel.exchange} : Edit(ExchangeChosen(x))

HandleSymbolChange ==
    \E m \in Range(FilteredSymbols) \ {Symbol} : Edit([panel EXCEPT !.raw = m])

\* The form is given the effective configuration, and what it gives back holds
\* the computed bounds from then on.
EditField ==
    \E f \in {g \in Fields(panel.strategy, registry) : g.key # "symbol"} : \E v \in Entries(f) :
       Edit([panel EXCEPT !.config = HandleChange(EffectiveConfig, f, v)])

-----------------------------------------------------------------------------
(* Submission.  The button is never disabled: several may be on their way. *)

Request ==
    [strategy |-> panel.strategy, exchange |-> panel.exchange, symbol |-> Symbol,
     config |-> EnsureTypes(panel.strategy, registry, EffectiveConfig)]

HandleSubmit ==
    /\ active = None /\ acts < MaxActs
    /\ Submittable(EffectiveConfig, panel.strategy, registry)
    /\ submitError' = FALSE
    /\ acts' = acts + 1
    /\ \/ /\ submitted < MaxJobs
          /\ submitted' = submitted + 1
          /\ Manager!Submit(submitted + 1)
          /\ answers' = answers \cup {submitted + 1}
          /\ UNCHANGED <<stranded, refusals, failures>>
       \/ /\ failures < MaxFailures
          /\ failures' = failures + 1
          /\ refusals' = refusals + 1
          /\ UNCHANGED <<answers, jobs>>
    /\ UNCHANGED <<known, panel, active, downloading, poll, chart>>

\* The answer makes its job the active one, whatever the panel shows by then.
SubmitAnswered ==
    \E j \in answers :
       /\ answers' = answers \ {j}
       /\ active' = j
       /\ data' = None /\ flight' = TRUE
       /\ chart' = [st |-> "off"]
       /\ UNCHANGED <<known, panel, submitError, downloading, refusals, jobs, acts, failures>>

\* A refusal, or an answer that is lost.
SubmitFails ==
    /\ \/ refusals > 0 /\ refusals' = refusals - 1 /\ UNCHANGED <<answers, failures>>
       \/ /\ failures < MaxFailures /\ failures' = failures + 1
          /\ \E j \in answers : answers' = answers \ {j}
          /\ UNCHANGED refusals
    /\ submitError' = TRUE
    /\ UNCHANGED <<known, panel, active, downloading, poll, chart, jobs, acts>>

Idle(error) ==
    /\ active' = None
    /\ submitError' = error
    /\ data' = None /\ flight' = FALSE
    /\ chart' = [st |-> "off"]

HandleRerun ==
    /\ active # None /\ acts < MaxActs
    /\ acts' = acts + 1
    /\ Idle(FALSE)
    /\ UNCHANGED <<known, panel, downloading, sent, jobs, failures>>

\* The panel is left and opened anew: its state is lost, answers reach nothing.
Leave ==
    /\ acts < MaxActs
    /\ Idle(FALSE)
    /\ panel' = NewPanel
    /\ downloading' = None
    /\ answers' = {} /\ refusals' = 0
    /\ acts' = acts + 1
    /\ UNCHANGED <<known, jobs, failures>>

-----------------------------------------------------------------------------
(* Following the active job. *)

\* Mutant: "downloading" is missing from the statuses polled.
RefetchIntervalForgetting(d) == d \in {"pending", "running"}

\* refetchInterval of useBacktestJob: every 2 s, or not at all.
RefetchInterval(d) == d \in {"pending", "downloading", "running"}

PollTick ==
    /\ active # None /\ ~flight /\ RefetchInterval(data)
    /\ flight' = TRUE
    /\ UNCHANGED <<known, panel, active, submitError, downloading, sent, data, chart, jobs, acts,
                   failures>>

\* The one request of the key is answered; the chart is mounted with the result.
PollAnswered ==
    /\ flight /\ status[active] # "absent"
    /\ flight' = FALSE
    /\ data' = status[active]
    /\ chart' = IF data # "completed" /\ data' = "completed" THEN [st |-> "loading"] ELSE chart
    /\ UNCHANGED <<known, panel, active, submitError, downloading, sent, jobs, acts, failures>>

\* An error, also on the second try, or a job that is forgotten; the data stays.
PollFails ==
    /\ flight
    /\ IF status[active] = "absent" THEN UNCHANGED failures
       ELSE failures < MaxFailures /\ failures' = failures + 1
    /\ flight' = FALSE
    /\ UNCHANGED <<known, panel, active, submitError, downloading, sent, data, chart, jobs, acts>>

\* The window comes to the front; data older than a minute is asked for again.
WindowFocus ==
    /\ active # None /\ ~flight
    /\ flight' = TRUE
    /\ UNCHANGED <<known, panel, active, submitError, downloading, sent, data, chart, jobs, acts,
                   failures>>

HandleDownload ==
    /\ data = "completed" /\ downloading = None /\ acts < MaxActs
    /\ acts' = acts + 1
    /\ downloading' = active
    /\ UNCHANGED <<known, panel, active, submitError, sent, poll, chart, jobs, failures>>

\* The failure is told where the submission's is, whatever the panel shows by then.
DownloadEnds ==
    /\ downloading # None
    /\ downloading' = None
    /\ \/ UNCHANGED <<submitError, failures>>
       \/ failures < MaxFailures /\ failures' = failures + 1 /\ submitError' = TRUE
    /\ UNCHANGED <<known, panel, active, sent, poll, chart, jobs, acts>>

-----------------------------------------------------------------------------
(* The price chart. *)

\* parseOrdersTSV: the places of the rows of a side, with numbers and a time.
ParseOrders(file) == {i \in DOMAIN file : file[i].ok}

\* Mutant: the bisection takes the first candle not before the order.
SnapForward(target, times) ==
    IF \E t \in times : t >= target THEN Min({t \in times : t >= target}) ELSE Max(times)

\* The bisection of snapToCandle, over the windows of n sorted times: the place
\* of the first that is not before the target, or the last.
Bisect(at, n, target) ==
    LET find[w \in (1..n) \X (1..n)] ==
            LET mid == (w[1] + w[2]) \div 2
            IN IF w[1] >= w[2] THEN w[1]
               ELSE IF at[mid] < target THEN find[<<mid + 1, w[2]>>] ELSE find[<<w[1], mid>>]
    IN find[<<1, n>>]

\* snapToCandle: the candle found, or the one before it when that is no farther.
Snap(target, times) ==
    LET at == InOrder(times, Increasing(times))
        lo == Bisect(at, Cardinality(times), target)
    IN IF lo > 1 /\ target - at[lo - 1] <= at[lo] - target THEN at[lo - 1] ELSE at[lo]

\* The order a stable sort by time leaves the rows in.
Earlier(file) ==
    {p \in ParseOrders(file) \X ParseOrders(file) :
       \/ file[p[1]].time < file[p[2]].time
       \/ file[p[1]].time = file[p[2]].time /\ p[1] < p[2]}

\* The rows in order of time, each with its candle.
Markers(file, times) ==
    LET places == InOrder(ParseOrders(file), Earlier(file))
    IN [n \in DOMAIN places |-> [row |-> file[places[n]],
                                 at |-> Snap(file[places[n]].time, times)]]

\* Candles of the dates in the form and the job's orders, or else its trades, or
\* neither; without candles there is no chart.
Load ==
    /\ chart.st = "loading"
    /\ \E times \in Candles \cup {{}}, file \in Files \cup {<<>>} :
          chart' = IF times = {} THEN [st |-> "hidden"]
                   ELSE [st |-> "drawn", job |-> active, file |-> file, times |-> times,
                         markers |-> Markers(file, times)]
    /\ UNCHANGED <<known, panel, active, submitError, downloading, sent, poll, jobs, acts, failures>>

-----------------------------------------------------------------------------
(* What else happens. *)

RegistryArrives ==
    /\ ~registry /\ registry' = TRUE
    /\ UNCHANGED <<listed, priced, panel, active, submitError, downloading, sent, poll, chart, jobs,
                   acts, failures>>

SymbolsArrive ==
    /\ panel.exchange \notin listed
    /\ listed' = listed \cup {panel.exchange}
    /\ UNCHANGED <<registry, priced, panel, active, submitError, downloading, sent, poll, chart,
                   jobs, acts, failures>>

TickerArrives ==
    /\ Symbol # None /\ Symbol \notin priced
    /\ priced' = priced \cup {Symbol}
    /\ UNCHANGED <<registry, listed, panel, active, submitError, downloading, sent, poll, chart,
                   jobs, acts, failures>>

\* A submitted job has its executor until it is finished.
JobMoves ==
    /\ \E j \in JobIds \ stranded : Manager!Advance(j) \/ Manager!Fail(j) \/ Manager!Complete(j)
    /\ UNCHANGED <<known, panel, active, submitError, downloading, sent, poll, chart, submitted,
                   stranded, acts, failures>>

\* The executors are gone with the process, and loadPersisted starts none: a job
\* it does not fail is "pending" from then on.
ManagerRestarts ==
    /\ failures < MaxFailures /\ failures' = failures + 1
    /\ Manager!Interrupt
    /\ stranded' = stranded \cup {j \in JobIds : /\ status[j] \in Manager!Unfinished
                                               /\ status'[j] = "pending"}
    /\ UNCHANGED <<known, panel, active, submitError, downloading, sent, poll, chart, submitted, acts>>

JobForgotten ==
    /\ \E j \in JobIds : status[j] # "absent" /\ Manager!Prune({j})
    /\ UNCHANGED <<known, panel, active, submitError, downloading, sent, poll, chart, submitted,
                   stranded, acts, failures>>

Init ==
    /\ registry = FALSE /\ listed = {} /\ priced = {}
    /\ panel = NewPanel
    /\ active = None /\ submitError = FALSE /\ downloading = None
    /\ answers = {} /\ refusals = 0
    /\ data = None /\ flight = FALSE /\ chart = [st |-> "off"]
    /\ Manager!Init /\ submitted = 0 /\ stranded = {}
    /\ acts = 0 /\ failures = 0

Next ==
    \/ HandleStrategyChange \/ ChooseExchange \/ HandleSymbolChange \/ EditField
    \/ HandleSubmit \/ SubmitAnswered \/ SubmitFails \/ HandleRerun \/ Leave
    \/ PollTick \/ PollAnswered \/ PollFails \/ WindowFocus
    \/ HandleDownload \/ DownloadEnds \/ Load
    \/ RegistryArrives \/ SymbolsArrive \/ TickerArrives
    \/ JobMoves \/ ManagerRestarts \/ JobForgotten

\* Timers fire, requests end, and the executors the manager has go on; the user
\* and the window promise nothing, and nobody runs a stranded job.
Fairness ==
    /\ WF_vars(PollTick) /\ WF_vars(PollAnswered \/ PollFails)
    /\ WF_vars(JobMoves) /\ WF_vars(Load)

Spec == Init /\ [][Next]_vars /\ Fairness

-----------------------------------------------------------------------------
(* Properties *)

\* The request the form would send now holds what belongs together: parameters of its own
\* strategy, a symbol its exchange lists, and price bounds computed at that
\* exchange, whatever was chosen before and whatever is still loading.
RequestFits ==
    active = None =>
      LET fields == Fields(panel.strategy, registry)
          listing == Range(MarketsOf[panel.exchange])
      IN /\ DOMAIN Request.config \subseteq {Home(f) : f \in fields} \cup {Flat(f) : f \in fields}
         /\ Request.symbol \in {None} \cup (listing \cap ValidPairs)
         /\ \A p \in DOMAIN Request.config :
               p[2] \in BoundKeys => Request.config[p] \in listing \cup Values

\* The chart belongs to the job shown, which is completed, and tells all its
\* fills: every row once, in order of time, on a candle no other is nearer than.
ChartTellsTheJob ==
    chart.st = "drawn" =>
      LET rows == [i \in DOMAIN chart.markers |-> chart.markers[i].row]
          dist(a, b) == IF a < b THEN b - a ELSE a - b
      IN /\ active = chart.job /\ data = "completed"
         /\ \A row \in Range(chart.file) :
              Cardinality({i \in DOMAIN rows : rows[i] = row}) =
              IF row.ok THEN Cardinality({i \in DOMAIN chart.file : chart.file[i] = row}) ELSE 0
         /\ Range(rows) \subseteq Range(chart.file)
         /\ \A i, k \in DOMAIN rows : i < k => rows[i].time <= rows[k].time
         /\ \A i \in DOMAIN rows : \A t \in chart.times :
              dist(rows[i].time, chart.markers[i].at) <= dist(rows[i].time, t)

\* The job shown is followed to its end, also one that a restart of the manager
\* fails, and through failing polls; unless the first poll of all fails, the job is
\* forgotten first, or a restart has put it back to "pending", where it stays.
JobIsFollowed ==
    []<>(\/ active = None
         \/ data \in Manager!Terminal
         \/ data = None /\ ~flight
         \/ status[active] = "absent"
         \/ active \in stranded)
=============================================================================

---------------------------- MODULE PagedTables ----------------------------
(***************************************************************************)
(* One list tab of the bot page (closed orders, trades, close history):    *)
(* the pager of usePagination, the paged query behind it with its cache,   *)
(* the effect that pushes the answer's count into the pager, and the       *)
(* realtime channel that invalidates the answers.  The three tabs run the  *)
(* same code over their own pager and table, so one stands for all.        *)
(*                                                                         *)
(* A page of an answer is determined by the number of rows the database    *)
(* held when it answered, so an answer is that number.  The pager and the  *)
(* effect run on one JavaScript thread: while the effect is due nothing    *)
(* else happens.                                                           *)
(***************************************************************************)
EXTENDS Integers, FiniteSets

CONSTANTS Sizes,        \* the page sizes offered
          InitialSize,  \* the page size of the first render
          MaxRows,      \* bound: rows the bot ever writes
          MaxClicks,    \* bound: clicks on the pager
          MaxFailures   \* bound: requests that fail

ASSUME SizesAssumption == Sizes \subseteq Nat \ {0} /\ InitialSize \in Sizes
ASSUME BoundsAssumption ==
    MaxRows \in Nat /\ MaxClicks \in Nat /\ MaxFailures \in Nat

VARIABLES rows,      \* rows of the table, in the database
          page, size, total,  \* the pager
          effect,    \* the effect that pushes the count is due
          cache,     \* key -> the answer held for it, or Nothing
          stale,     \* keys whose answer is stale or invalidated
          flight,    \* key -> Idle, Asked, or the count the database answered
          failed,    \* keys whose last request failed
          running,   \* isRunning: the realtime channel is subscribed
          pending,   \* the debounce timer of the channel is set
          clicks, failures

vars == <<rows, page, size, total, effect, cache, stale, flight,
          failed, running, pending, clicks, failures>>
pager == <<page, size, total>>
queries == <<cache, stale, flight, failed>>
channel == <<running, pending>>
budget == <<clicks, failures>>

Nothing == -1
Idle == -1
Asked == -2

Pages == 1..(MaxRows + 1)
Keys == Pages \X Sizes

TypeOK ==
    /\ rows \in 0..MaxRows
    /\ page \in Pages /\ size \in Sizes /\ total \in 0..MaxRows
    /\ effect \in BOOLEAN
    /\ cache \in [Keys -> {Nothing} \cup 0..MaxRows]
    /\ stale \subseteq Keys
    /\ flight \in [Keys -> {Idle, Asked} \cup 0..MaxRows]
    /\ failed \subseteq Keys
    /\ running \in BOOLEAN /\ pending \in BOOLEAN
    /\ clicks \in 0..MaxClicks /\ failures \in 0..MaxFailures

-----------------------------------------------------------------------------
(* The pager's arithmetic. *)

TotalPages(t, s) == IF t > 0 THEN (t + s - 1) \div s ELSE 1

\* Mutant: setTotal does not clamp the page.
ClampPageDropped(t, s, p) == p

ClampPage(t, s, p) == IF p > TotalPages(t, s) THEN TotalPages(t, s) ELSE p

Offset(p, s) == (p - 1) * s

Lower(a, b) == IF a < b THEN a ELSE b

\* The 1-based rows the pager announces: "from-to of total".
DisplayRange == IF total = 0 THEN {}
                ELSE (Offset(page, size) + 1)..Lower(Offset(page, size) + size, total)

\* Mutant: the upper end of range() is taken for exclusive.
QueryRangeOffByOne(t, p, s) == {i \in 1..t : Offset(p, s) < i /\ i < Offset(p, s) + s}

\* The rows a paged query answers with when the table holds t rows: range(from, to).
QueryRange(t, p, s) == {i \in 1..t : Offset(p, s) < i /\ i <= Offset(p, s) + s}

-----------------------------------------------------------------------------
(* The query cache. *)

Active == <<page, size>>

\* data?.total ?? 0 for the key of a render
DataTotal(k) == IF cache[k] = Nothing THEN 0 ELSE cache[k]

\* Mutant: a changed key fetches nothing.
ObservedNever(k) == flight

\* A key comes to be observed: it is fetched unless a fresh answer is held
\* or a request for it is already on its way.
Observed(k) == IF flight[k] = Idle /\ (cache[k] = Nothing \/ k \in stale)
               THEN [flight EXCEPT ![k] = Asked] ELSE flight

\* What the tab shows: rows, or one of two notices.
RowsShown == QueryRange(DataTotal(Active), page, size) # {}

TabNotice == IF RowsShown THEN "rows"
             ELSE IF cache[Active] = Nothing /\ flight[Active] # Idle THEN "loading"
             ELSE "none"

\* The controls stand under rows, are hidden at total 0 and disabled by isFetching.
Clickable == /\ ~effect /\ clicks < MaxClicks
             /\ RowsShown /\ total > 0
             /\ flight[Active] = Idle

\* setPage, and the render with the new key that follows it.
SetPage(next) ==
    LET p == IF Lower(next, TotalPages(total, size)) < 1 THEN 1
             ELSE Lower(next, TotalPages(total, size))
    IN /\ page' = p
       /\ effect' = (DataTotal(<<p, size>>) # total)
       /\ flight' = Observed(<<p, size>>)
       /\ clicks' = clicks + 1
       /\ UNCHANGED <<rows, size, total, cache, stale, failed, running, pending,
                      failures>>

ClickNext == Clickable /\ page < TotalPages(total, size) /\ SetPage(page + 1)
ClickPrev == Clickable /\ page > 1 /\ SetPage(page - 1)

\* setPageSize keeps the page; setTotal gets a new identity, so the effect is due.
SetPageSize ==
    /\ Clickable
    /\ \E s \in Sizes \ {size} :
          /\ size' = s
          /\ flight' = Observed(<<page, s>>)
    /\ effect' = TRUE
    /\ clicks' = clicks + 1
    /\ UNCHANGED <<rows, page, total, cache, stale, failed, running, pending, failures>>

\* Mutant: the count is pushed into the pager the first time only.
PushTotalOnce ==
    /\ effect
    /\ effect' = FALSE
    /\ IF total = 0 THEN total' = DataTotal(Active) /\ page' = ClampPage(total', size, page)
                    ELSE UNCHANGED <<total, page>>
    /\ UNCHANGED <<rows, size, queries, channel, budget>>

\* setTotal(data?.total ?? 0): store the count, clamp the page; a page that
\* moved is rendered with its own key.
PushTotal ==
    /\ effect
    /\ LET t == DataTotal(Active)
           p == ClampPage(t, size, page)
       IN /\ total' = t
          /\ page' = p
          /\ effect' = (DataTotal(<<p, size>>) # t)
          /\ flight' = IF p = page THEN flight ELSE Observed(<<p, size>>)
    /\ UNCHANGED <<rows, size, cache, stale, failed, running, pending,
                   clicks, failures>>

-----------------------------------------------------------------------------
(* Requests. *)

\* The database reads the table for a request.
DatabaseAnswers(k) ==
    /\ ~effect /\ flight[k] = Asked
    /\ flight' = [flight EXCEPT ![k] = rows]
    /\ UNCHANGED <<rows, pager, effect, cache, stale, failed, channel, budget>>

\* The answer reaches the cache: it counts as fresh, whatever was invalidated
\* while it was on its way.  The rendered key's new count makes the effect due.
AnswerArrives(k) ==
    /\ ~effect /\ flight[k] >= 0
    /\ cache' = [cache EXCEPT ![k] = flight[k]]
    /\ stale' = stale \ {k}
    /\ failed' = failed \ {k}
    /\ flight' = [flight EXCEPT ![k] = Idle]
    /\ effect' = (k = Active /\ flight[k] # total)
    /\ UNCHANGED <<rows, pager, channel, budget>>

\* The request fails for good (its retry too).
RequestFails(k) ==
    /\ ~effect /\ flight[k] # Idle /\ failures < MaxFailures
    /\ flight' = [flight EXCEPT ![k] = Idle]
    /\ failed' = failed \cup {k}
    /\ failures' = failures + 1
    /\ UNCHANGED <<rows, pager, effect, cache, stale, channel, clicks>>

\* staleTime (15 s) passes for an answer.
Ages(k) ==
    /\ ~effect /\ cache[k] # Nothing /\ k \notin stale
    /\ stale' = stale \cup {k}
    /\ UNCHANGED <<rows, pager, effect, cache, flight, failed, channel, budget>>

\* The user comes back to the window: a rendered answer that is stale is asked again.
WindowFocus ==
    /\ ~effect
    /\ flight[Active] = Idle
    /\ flight' = [flight EXCEPT ![Active] =
                    IF cache[Active] = Nothing \/ Active \in stale THEN Asked ELSE @]
    /\ UNCHANGED <<rows, pager, effect, cache, stale, failed, channel, budget>>

\* An answer nobody renders is dropped after the cache's garbage time.
Collected(k) ==
    /\ ~effect /\ k # Active /\ cache[k] # Nothing /\ flight[k] = Idle
    /\ cache' = [cache EXCEPT ![k] = Nothing]
    /\ stale' = stale \ {k}
    /\ failed' = failed \ {k}
    /\ UNCHANGED <<rows, pager, effect, flight, channel, budget>>

-----------------------------------------------------------------------------
(* The realtime channel. *)

\* The bot writes a row.  A subscribed channel sets the debounce timer.
InsertRow ==
    /\ ~effect /\ rows < MaxRows
    /\ rows' = rows + 1
    /\ pending' = (pending \/ running)
    /\ UNCHANGED <<pager, effect, queries, running, budget>>

\* The timer fires: every answer is invalidated and the rendered one asked
\* again, a request of it already on its way being abandoned, but for its first.
Flush ==
    /\ ~effect /\ pending
    /\ pending' = FALSE
    /\ stale' = {k \in Keys : cache[k] # Nothing}
    /\ flight' = [flight EXCEPT ![Active] =
                    IF cache[Active] = Nothing /\ @ # Idle THEN @ ELSE Asked]
    /\ UNCHANGED <<rows, pager, effect, cache, failed, running, budget>>

\* The bot's status changes: the effect's cleanup clears a pending timer.
RunningChanges ==
    /\ ~effect /\ clicks < MaxClicks
    /\ running' = ~running
    /\ pending' = FALSE
    /\ clicks' = clicks + 1
    /\ UNCHANGED <<rows, pager, effect, queries, failures>>

Init ==
    /\ rows \in 0..MaxRows
    /\ page = 1 /\ size = InitialSize /\ total = 0
    /\ effect = FALSE
    /\ cache = [k \in Keys |-> Nothing]
    /\ stale = {} /\ failed = {}
    /\ flight = [k \in Keys |-> IF k = <<1, InitialSize>> THEN Asked ELSE Idle]
    /\ running \in BOOLEAN /\ pending = FALSE
    /\ clicks = 0 /\ failures = 0

Next ==
    \/ ClickNext \/ ClickPrev \/ SetPageSize \/ PushTotal
    \/ \E k \in Keys : \/ DatabaseAnswers(k) \/ AnswerArrives(k) \/ RequestFails(k)
                       \/ Ages(k) \/ Collected(k)
    \/ WindowFocus \/ InsertRow \/ Flush \/ RunningChanges

\* The browser and the database go on, and the user keeps coming back to the
\* window; nothing is assumed of clicks, of the bot, or of failures.
Fairness ==
    /\ WF_vars(PushTotal) /\ WF_vars(Flush)
    /\ \A k \in Keys : /\ WF_vars(DatabaseAnswers(k))
                       /\ WF_vars(AnswerArrives(k))
                       /\ WF_vars(Ages(k))
    /\ SF_vars(WindowFocus)

Spec == Init /\ [][Next]_vars
FairSpec == Spec /\ Fairness

-----------------------------------------------------------------------------
(* Properties *)

\* The page rendered is one the total has: usePagination.ts:30-32, "Page is
\* clamped inline so we never render past the last available row".
PageWithinTotal == ~effect => page <= TotalPages(total, size)

\* The rows under the pager are the rows its caption announces: the query's
\* range and the pager's range are computed apart (supabase-queries.ts:839-840
\* and usePagination.ts:91-94), from a count that may be another answer's.
CaptionTellsTheRows ==
    ~effect /\ cache[Active] # Nothing
      => QueryRange(cache[Active], page, size) = DisplayRange

\* A tab says that there is nothing only on an answer that said so, or after a
\* failed request: no render is left without answer and request by a click, a
\* bounce back to page 1, or a dropped answer.
EmptyIsTrue ==
    ~effect /\ TabNotice = "none" => cache[Active] = 0 \/ Active \in failed

\* The rendered answer is in the end the table's, whatever was invalidated,
\* lost or answered late, for a user who keeps coming back to the window.
TabCatchesUp == <>[](cache[Active] = rows /\ total = rows)
=============================================================================

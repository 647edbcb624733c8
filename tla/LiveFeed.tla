------------------------------ MODULE LiveFeed ------------------------------
(***************************************************************************)
(* The browser's end of the WebSocket relay: useMarketData with the route  *)
(* that fetches a ticket for it.  connect() asks for a ticket, makes a     *)
(* socket, and a closed socket or an unreachable server sets a 5 s timer   *)
(* that calls connect() again.  The effect that runs connect() is run anew *)
(* when the mode or the bot's status changes, after a cleanup that clears  *)
(* the last timer and closes the last socket.                              *)
(*                                                                         *)
(* A chain is one of: a ticket request on its way, a socket, a timer.  A   *)
(* ticket request is not looked at again after its answer, so chains of    *)
(* several renders can run side by side.                                   *)
(***************************************************************************)
EXTENDS Integers, FiniteSets

CONSTANTS Modes,
          Conns,     \* identities of requests and sockets
          None,
          MaxRuns,   \* bound: runs of the effect
          MaxCuts    \* bound: network cuts and manager outages

ASSUME FeedAssumption == /\ IsFiniteSet(Conns) /\ None \notin Conns /\ Modes # {}
                         /\ MaxRuns \in Nat \ {0} /\ MaxCuts \in Nat

VARIABLES mode, enabled, mounted,  \* the hook's inputs, mountedRef
          conn,       \* connection -> its state and the mode it was asked for
          wsRef,      \* the socket the cleanup would close
          timers,     \* timers pending
          timerRef,   \* reconnectRef names a pending timer
          connected,  \* the state the page shows
          refused,    \* a ticket was refused since the last run of the effect
          managerUp, runs, cuts

hook == <<conn, wsRef, timers, timerRef, connected, refused>>
props == <<mode, enabled, mounted>>
feedVars == <<props, hook, managerUp, runs, cuts>>

States == {"free", "asking", "connecting", "open", "closing"}
Free == {c \in Conns : conn[c].st = "free"}
In(S) == {c \in Conns : conn[c].st \in S}

FeedTypeOK ==
    /\ mode \in Modes /\ enabled \in BOOLEAN /\ mounted \in BOOLEAN
    /\ conn \in [Conns -> [st : States, mode : Modes]]
    /\ wsRef \in Conns \cup {None}
    /\ timers \in Nat /\ timerRef \in BOOLEAN /\ connected \in BOOLEAN
    /\ timerRef => timers > 0
    /\ refused \in BOOLEAN /\ managerUp \in BOOLEAN
    /\ runs \in 0..MaxRuns /\ cuts \in 0..MaxCuts

-----------------------------------------------------------------------------
\* connect(): nothing unless enabled and mounted; else a ticket is asked for.
Connect(m, en, mt, f) ==
    IF en /\ mt THEN \E c \in {d \in Conns : f[d].st = "free"} :
                       conn' = [f EXCEPT ![c] = [st |-> "asking", mode |-> m]]
    ELSE conn' = f

Release(c) == [conn EXCEPT ![c].st = "free"]

\* setTimeout(connect, 5 s); the ref forgets an earlier timer.
SetTimer == timers' = timers + 1 /\ timerRef' = TRUE

\* The cleanup of the effect: the last socket is told to close, the last timer cleared.
Closing == IF wsRef # None /\ conn[wsRef].st \in {"connecting", "open"}
           THEN [conn EXCEPT ![wsRef].st = "closing"] ELSE conn
ClearTimer == /\ timers' = IF timerRef THEN timers - 1 ELSE timers
              /\ timerRef' = FALSE

\* Mode or status change: cleanup, then connect() with the new inputs.
EffectRuns ==
    /\ mounted /\ runs < MaxRuns
    /\ \E m \in Modes, en \in BOOLEAN :
          /\ <<m, en>> # <<mode, enabled>>
          /\ mode' = m /\ enabled' = en
          /\ Connect(m, en, TRUE, Closing)
    /\ ClearTimer
    /\ refused' = FALSE
    /\ runs' = runs + 1
    /\ UNCHANGED <<mounted, wsRef, connected, managerUp, cuts>>

\* The page is left: cleanup only.
Unmount ==
    /\ mounted
    /\ mounted' = FALSE
    /\ conn' = Closing
    /\ ClearTimer
    /\ UNCHANGED <<mode, enabled, wsRef, connected, refused, managerUp, runs, cuts>>

-----------------------------------------------------------------------------
\* The ticket comes: a socket is made, whatever has happened to the hook.
TicketIssued(c) ==
    /\ conn[c].st = "asking" /\ managerUp
    /\ conn' = [conn EXCEPT ![c].st = "connecting"]
    /\ wsRef' = c
    /\ UNCHANGED <<props, timers, timerRef, connected, refused, managerUp, runs, cuts>>

\* The route answers with an error (the manager is down): connect() returns.
TicketRefused(c) ==
    /\ conn[c].st = "asking" /\ ~managerUp
    /\ conn' = Release(c)
    /\ refused' = TRUE
    /\ UNCHANGED <<props, wsRef, timers, timerRef, connected, managerUp, runs, cuts>>

\* Mutant: the catch sets no timer.
UnreachableForgotten(c) ==
    /\ conn[c].st = "asking" /\ cuts < MaxCuts
    /\ conn' = Release(c)
    /\ cuts' = cuts + 1
    /\ UNCHANGED <<props, wsRef, timers, timerRef, connected, refused, managerUp, runs>>

\* The route cannot be reached: the timer is set.
Unreachable(c) ==
    /\ conn[c].st = "asking" /\ cuts < MaxCuts
    /\ conn' = Release(c)
    /\ SetTimer
    /\ cuts' = cuts + 1
    /\ UNCHANGED <<props, wsRef, connected, refused, managerUp, runs>>

SocketOpens(c) ==
    /\ conn[c].st = "connecting" /\ managerUp
    /\ conn' = [conn EXCEPT ![c].st = "open"]
    /\ connected' = TRUE
    /\ UNCHANGED <<props, wsRef, timers, timerRef, refused, managerUp, runs, cuts>>

\* Mutant: onerror sets a timer besides the one of onclose.
SocketEndsTwice(c) ==
    /\ conn[c].st \in {"connecting", "open", "closing"}
    /\ conn[c].st = "closing" \/ ~managerUp
    /\ conn' = Release(c)
    /\ connected' = FALSE
    /\ wsRef' = None
    /\ timers' = timers + 2 /\ timerRef' = TRUE
    /\ UNCHANGED <<props, refused, managerUp, runs, cuts>>

\* Mutant: onclose leaves the state connected.
SocketEndsStillConnected(c) ==
    /\ conn[c].st \in {"connecting", "open", "closing"}
    /\ conn[c].st = "closing" \/ ~managerUp
    /\ conn' = Release(c)
    /\ wsRef' = None
    /\ SetTimer
    /\ UNCHANGED <<props, connected, refused, managerUp, runs, cuts>>

\* Mutant: onclose sets no timer.
SocketEndsForGood(c) ==
    /\ conn[c].st \in {"connecting", "open", "closing"}
    /\ conn[c].st = "closing" \/ ~managerUp
    /\ conn' = Release(c)
    /\ connected' = FALSE
    /\ wsRef' = None
    /\ UNCHANGED <<props, timers, timerRef, refused, managerUp, runs, cuts>>

\* onclose of a socket, the hook's last one or not: it was told to close, or
\* the manager is gone.
SocketEnds(c) ==
    /\ conn[c].st \in {"connecting", "open", "closing"}
    /\ conn[c].st = "closing" \/ ~managerUp
    /\ conn' = Release(c)
    /\ connected' = FALSE
    /\ wsRef' = None
    /\ SetTimer
    /\ UNCHANGED <<props, refused, managerUp, runs, cuts>>

\* The network drops a socket.
SocketDropped(c) ==
    /\ conn[c].st \in {"connecting", "open"} /\ cuts < MaxCuts
    /\ conn' = Release(c)
    /\ connected' = FALSE
    /\ wsRef' = None
    /\ SetTimer
    /\ cuts' = cuts + 1
    /\ UNCHANGED <<props, refused, managerUp, runs>>

\* A timer, the named one or one the ref forgot, calls the latest connect().
TimerFires ==
    /\ timers > 0
    /\ timers' = timers - 1
    /\ timerRef' \in {r \in {timerRef, FALSE} : r => timers' > 0}
    /\ Connect(mode, enabled, mounted, conn)
    /\ UNCHANGED <<props, wsRef, connected, refused, managerUp, runs, cuts>>

ManagerStops ==
    /\ managerUp /\ cuts < MaxCuts
    /\ managerUp' = FALSE /\ cuts' = cuts + 1
    /\ UNCHANGED <<props, hook, runs>>

ManagerReturns ==
    /\ ~managerUp
    /\ managerUp' = TRUE
    /\ UNCHANGED <<props, hook, runs, cuts>>

FeedInit ==
    /\ mode \in Modes /\ enabled \in BOOLEAN /\ mounted = TRUE
    /\ \E c \in Conns :
         conn = [d \in Conns |-> [st |-> IF enabled /\ d = c THEN "asking" ELSE "free",
                                  mode |-> mode]]
    /\ wsRef = None /\ timers = 0 /\ timerRef = FALSE
    /\ connected = FALSE /\ refused = FALSE
    /\ managerUp = TRUE /\ runs = 1 /\ cuts = 0

FeedNext ==
    \/ EffectRuns \/ Unmount \/ TimerFires \/ ManagerStops \/ ManagerReturns
    \/ \E c \in Conns : \/ TicketIssued(c) \/ TicketRefused(c) \/ Unreachable(c)
                        \/ SocketOpens(c) \/ SocketEnds(c) \/ SocketDropped(c)

\* Requests are answered, sockets open or close, timers fire, and the manager,
\* which docker restarts, comes back.
FeedFairness ==
    /\ WF_feedVars(TimerFires) /\ WF_feedVars(ManagerReturns)
    /\ \A c \in Conns : /\ WF_feedVars(TicketIssued(c) \/ TicketRefused(c))
                        /\ WF_feedVars(SocketOpens(c) \/ SocketEnds(c))

FeedSpec == FeedInit /\ [][FeedNext]_feedVars
FairFeed == FeedSpec /\ FeedFairness

-----------------------------------------------------------------------------
(* Properties *)

Chains == Cardinality(Conns \ Free) + timers

\* An enabled hook is never without a chain unless a ticket was refused: no
\* order of closes, timers and renders loses the reconnect.
KeepsTrying == mounted /\ enabled /\ ~refused => Chains > 0

\* The page says connected only over a socket that has not closed.
ConnectedIsBacked == connected => In({"open", "closing"}) # {}

\* Only a run of the effect starts a chain: a disconnect never makes two
\* connections of one, however sockets, timers and renders interleave.
ChainsNeverFork == [][Chains' > Chains => runs' = runs + 1]_feedVars

\* A steady page whose manager stays up ends connected, or a ticket was refused
\* on the way.
ReconnectsUnlessRefused ==
    <>[](managerUp /\ enabled /\ mounted) => <>[](connected \/ refused)

\* The same without the way out: docs/operations-runbook.md:224, "Users will
\* auto-reconnect - no user action needed", after a restart of the manager.
UsersReconnect == <>[](managerUp /\ enabled /\ mounted) => <>[]connected
=============================================================================

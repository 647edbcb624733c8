--------------------------- MODULE BotPage_proofs ---------------------------
(***************************************************************************)
(* Two parts of the bot page, each by itself: its live feed and its list   *)
(* tabs.                                                                   *)
(*                                                                         *)
(* The chains of the live feed, for any number of modes, connections,      *)
(* renders, cuts and outages.  What is connected has a socket that has not *)
(* closed, what is enabled has a chain, and only a run of the effect makes *)
(* one more.  The first two are inductive together with the types; the     *)
(* third counts the connections before and after each step.                *)
(*                                                                         *)
(* What a list tab shows is true of the answer under it, for any number of *)
(* rows, page sizes, clicks and failures.  None of its three properties is *)
(* inductive.  Two facts carry them: once the effect has run, the pager's  *)
(* total is the rendered answer's count and the page is one of that total  *)
(* (Settled); and a rendered key without an answer has a request on its    *)
(* way or failed (AskedOrFailed).                                          *)
(***************************************************************************)
EXTENDS LiveFeed, PagedTables, FiniteSetTheorems, TLAPS

-----------------------------------------------------------------------------
(* The live feed *)

\* The connections that are part of a chain.
Busy == Conns \ Free

\* KeepsTrying without the count.
HasChain == mounted /\ enabled /\ ~refused => Busy # {} \/ timers > 0

FeedInv == FeedTypeOK /\ HasChain /\ ConnectedIsBacked

-----------------------------------------------------------------------------
(* Steps of one connection *)

LEMMA InBusy ==
    ASSUME NEW c \in Conns
    PROVE  c \in Busy <=> conn[c].st # "free"
BY DEF Busy, Free

\* Another state for one connection keeps the type and leaves the others alone.
LEMMA OneChanges ==
    ASSUME FeedTypeOK, NEW c \in Conns, NEW s \in States, conn' = [conn EXCEPT ![c].st = s]
    PROVE  /\ conn' \in [Conns -> [st : States, mode : Modes]]
           /\ conn'[c].st = s
           /\ \A d \in Conns \ {c} : conn'[d] = conn[d]
BY DEF FeedTypeOK

LEMMA ClosingTyped ==
    ASSUME FeedTypeOK
    PROVE  /\ Closing \in [Conns -> [st : States, mode : Modes]]
           /\ \A d \in Conns : /\ Closing[d].st = "free" <=> conn[d].st = "free"
                               /\ conn[d].st \in {"open", "closing"}
                                    => Closing[d].st \in {"open", "closing"}
                               /\ Closing[d].st = "asking" <=> conn[d].st = "asking"
<1>1. CASE wsRef # None /\ conn[wsRef].st \in {"connecting", "open"}
  <2>1. wsRef \in Conns BY <1>1 DEF FeedTypeOK
  <2>2. Closing = [conn EXCEPT ![wsRef].st = "closing"] BY <1>1 DEF Closing
  <2>3. Closing \in [Conns -> [st : States, mode : Modes]]
    BY <2>1, <2>2 DEF FeedTypeOK, States
  <2>4. Closing[wsRef].st = "closing" BY <2>1, <2>2 DEF FeedTypeOK
  <2>5. \A d \in Conns \ {wsRef} : Closing[d] = conn[d] BY <2>1, <2>2 DEF FeedTypeOK
  <2> QED BY <1>1, <2>1, <2>3, <2>4, <2>5
<1>2. CASE ~(wsRef # None /\ conn[wsRef].st \in {"connecting", "open"})
  <2>1. Closing = conn BY <1>2 DEF Closing
  <2> QED BY <2>1 DEF FeedTypeOK
<1> QED BY <1>1, <1>2

\* connect() leaves the connections alone or asks with a free one.
LEMMA ConnectTyped ==
    ASSUME NEW f \in [Conns -> [st : States, mode : Modes]], NEW m \in Modes,
           NEW en \in BOOLEAN, NEW mt \in BOOLEAN, Connect(m, en, mt, f)
    PROVE  /\ conn' \in [Conns -> [st : States, mode : Modes]]
           /\ \A d \in Conns : f[d].st # "free" => conn'[d] = f[d]
           /\ en /\ mt => \E c \in Conns :
                 /\ f[c].st = "free" /\ conn'[c].st = "asking"
                 /\ \A d \in Conns \ {c} : conn'[d] = f[d]
           /\ ~(en /\ mt) => conn' = f
<1>1. CASE en /\ mt
  <2>1. PICK c \in {d \in Conns : f[d].st = "free"} :
           conn' = [f EXCEPT ![c] = [st |-> "asking", mode |-> m]]
    BY <1>1 DEF Connect
  <2>2. conn' \in [Conns -> [st : States, mode : Modes]] BY <2>1 DEF States
  <2>3. conn'[c].st = "asking" /\ \A d \in Conns \ {c} : conn'[d] = f[d] BY <2>1
  <2> QED BY <1>1, <2>1, <2>2, <2>3
<1>2. CASE ~(en /\ mt) BY <1>2 DEF Connect
<1> QED BY <1>1, <1>2

LEMMA TimersTyped ==
    ASSUME FeedTypeOK, ClearTimer
    PROVE  timers' \in Nat /\ timerRef' = FALSE
BY DEF FeedTypeOK, ClearTimer

LEMMA SetTimerTyped ==
    ASSUME FeedTypeOK, SetTimer
    PROVE  timers' \in Nat /\ timers' = timers + 1 /\ timers' > 0 /\ timerRef' = TRUE
BY DEF FeedTypeOK, SetTimer

-----------------------------------------------------------------------------
(* The invariant *)

LEMMA FeedInitHolds == FeedInit => FeedInv
<1> SUFFICES ASSUME FeedInit PROVE FeedInv OBVIOUS
<1>1. PICK c \in Conns :
         conn = [d \in Conns |-> [st |-> IF enabled /\ d = c THEN "asking" ELSE "free",
                                  mode |-> mode]]
  BY DEF FeedInit
<1>2. mode \in Modes /\ enabled \in BOOLEAN BY DEF FeedInit
<1>3. conn \in [Conns -> [st : States, mode : Modes]] BY <1>1, <1>2 DEF States
<1>4. runs \in 0..MaxRuns /\ cuts \in 0..MaxCuts BY FeedAssumption DEF FeedInit
<1>5. wsRef \in Conns \cup {None} /\ timers \in Nat /\ timerRef = FALSE /\ connected = FALSE
      /\ refused = FALSE /\ managerUp = TRUE /\ mounted = TRUE
  BY DEF FeedInit
<1>6. FeedTypeOK BY <1>2, <1>3, <1>4, <1>5 DEF FeedTypeOK
<1>7. HasChain
  <2>1. enabled => conn[c].st = "asking" BY <1>1
  <2> QED BY <2>1, InBusy DEF HasChain
<1>8. ConnectedIsBacked BY <1>5 DEF ConnectedIsBacked
<1> QED BY <1>6, <1>7, <1>8 DEF FeedInv

\* What each step leaves of the three parts, the chains' set included.
Keeps == FeedTypeOK' /\ HasChain' /\ ConnectedIsBacked'

LEMMA EffectRunsHolds ==
    ASSUME FeedInv, EffectRuns
    PROVE  Keeps
<1>1. FeedTypeOK BY DEF FeedInv
<1>2. PICK m \in Modes, en \in BOOLEAN :
         mode' = m /\ enabled' = en /\ Connect(m, en, TRUE, Closing)
  BY DEF EffectRuns
<1>3. /\ ClearTimer /\ refused' = FALSE /\ mounted /\ runs < MaxRuns /\ runs' = runs + 1
      /\ UNCHANGED <<mounted, wsRef, connected, managerUp, cuts>>
  BY DEF EffectRuns
<1>4. Closing \in [Conns -> [st : States, mode : Modes]] BY <1>1, ClosingTyped
<1>5. /\ conn' \in [Conns -> [st : States, mode : Modes]]
      /\ \A d \in Conns : Closing[d].st # "free" => conn'[d] = Closing[d]
      /\ en => \E c \in Conns : conn'[c].st = "asking"
  BY <1>2, <1>4, ConnectTyped
<1>6. timers' \in Nat /\ timerRef' = FALSE BY <1>1, <1>3, TimersTyped
<1>7. runs' \in 0..MaxRuns BY <1>1, <1>3, FeedAssumption DEF FeedTypeOK
<1>8. FeedTypeOK' BY <1>1, <1>2, <1>3, <1>5, <1>6, <1>7 DEF FeedTypeOK
<1>9. HasChain' BY <1>2, <1>5 DEF HasChain, Busy, Free
<1>10. ConnectedIsBacked'
  <2> SUFFICES ASSUME connected' PROVE In({"open", "closing"})' # {}
    BY DEF ConnectedIsBacked
  <2>1. connected BY <1>3
  <2>2. PICK c \in Conns : conn[c].st \in {"open", "closing"}
    BY <2>1 DEF FeedInv, ConnectedIsBacked, In
  <2>3. Closing[c].st \in {"open", "closing"} BY <1>1, <2>2, ClosingTyped
  <2>4. conn'[c].st \in {"open", "closing"} BY <1>5, <2>3
  <2> QED BY <2>4 DEF In
<1> QED BY <1>8, <1>9, <1>10 DEF Keeps

LEMMA UnmountHolds ==
    ASSUME FeedInv, Unmount
    PROVE  Keeps
<1>1. FeedTypeOK BY DEF FeedInv
<1>2. /\ conn' = Closing /\ mounted' = FALSE /\ ClearTimer
      /\ UNCHANGED <<mode, enabled, wsRef, connected, refused, managerUp, runs, cuts>>
  BY DEF Unmount
<1>3. timers' \in Nat /\ timerRef' = FALSE BY <1>1, <1>2, TimersTyped
<1>4. conn' \in [Conns -> [st : States, mode : Modes]] BY <1>1, <1>2, ClosingTyped
<1>5. FeedTypeOK' BY <1>1, <1>2, <1>3, <1>4 DEF FeedTypeOK
<1>6. HasChain' BY <1>2 DEF HasChain
<1>7. ConnectedIsBacked'
  <2> SUFFICES ASSUME connected' PROVE In({"open", "closing"})' # {}
    BY DEF ConnectedIsBacked
  <2>1. PICK c \in Conns : conn[c].st \in {"open", "closing"}
    BY <1>2 DEF FeedInv, ConnectedIsBacked, In
  <2>2. conn'[c].st \in {"open", "closing"} BY <1>1, <1>2, <2>1, ClosingTyped
  <2> QED BY <2>2 DEF In
<1> QED BY <1>5, <1>6, <1>7 DEF Keeps

LEMMA TimerFiresHolds ==
    ASSUME FeedInv, TimerFires
    PROVE  Keeps
<1>1. FeedTypeOK BY DEF FeedInv
<1>2. /\ timers > 0 /\ timers' = timers - 1
      /\ timerRef' \in {r \in {timerRef, FALSE} : r => timers' > 0}
      /\ Connect(mode, enabled, mounted, conn)
      /\ UNCHANGED <<mode, enabled, mounted, wsRef, connected, refused, managerUp, runs, cuts>>
  BY DEF TimerFires, props
<1>3. conn \in [Conns -> [st : States, mode : Modes]] /\ mode \in Modes
      /\ enabled \in BOOLEAN /\ mounted \in BOOLEAN
  BY <1>1 DEF FeedTypeOK
<1>4. /\ conn' \in [Conns -> [st : States, mode : Modes]]
      /\ \A d \in Conns : conn[d].st # "free" => conn'[d] = conn[d]
      /\ enabled /\ mounted => \E c \in Conns : conn'[c].st = "asking"
  BY <1>2, <1>3, ConnectTyped
<1>5. timers' \in Nat BY <1>1, <1>2 DEF FeedTypeOK
<1>r. timerRef \in BOOLEAN BY <1>1 DEF FeedTypeOK
<1>s. timerRef' \in BOOLEAN /\ (timerRef' => timers' > 0) BY <1>2, <1>r
<1>6. FeedTypeOK' BY <1>1, <1>2, <1>4, <1>5, <1>s DEF FeedTypeOK
<1>7. HasChain' BY <1>2, <1>4 DEF HasChain, Busy, Free
<1>8. ConnectedIsBacked'
  <2> SUFFICES ASSUME connected' PROVE In({"open", "closing"})' # {}
    BY DEF ConnectedIsBacked
  <2>1. PICK c \in Conns : conn[c].st \in {"open", "closing"}
    BY <1>2 DEF FeedInv, ConnectedIsBacked, In
  <2>2. conn'[c].st \in {"open", "closing"} BY <1>4, <2>1
  <2> QED BY <2>2 DEF In
<1> QED BY <1>6, <1>7, <1>8 DEF Keeps

\* A socket that ends, and an unreachable route, leave a timer and nothing connected
\* by them.
LEMMA EndHolds ==
    ASSUME FeedInv, NEW c \in Conns, conn' = Release(c), SetTimer,
           wsRef' \in Conns \cup {None}, connected' \in BOOLEAN,
           connected' => connected /\ conn[c].st = "asking",
           UNCHANGED <<mode, enabled, mounted, refused, managerUp, runs>>,
           cuts' \in 0..MaxCuts
    PROVE  Keeps
<1>1. FeedTypeOK BY DEF FeedInv
<1>2. /\ conn' \in [Conns -> [st : States, mode : Modes]]
      /\ \A d \in Conns \ {c} : conn'[d] = conn[d]
  BY <1>1, OneChanges DEF Release, States
<1>3. timers' \in Nat /\ timers' > 0 /\ timerRef' = TRUE BY <1>1, SetTimerTyped
<1>4. FeedTypeOK' BY <1>1, <1>2, <1>3 DEF FeedTypeOK
<1>5. HasChain' BY <1>3 DEF HasChain
<1>6. ConnectedIsBacked'
  <2> SUFFICES ASSUME connected' PROVE In({"open", "closing"})' # {}
    BY DEF ConnectedIsBacked
  <2>1. PICK d \in Conns : conn[d].st \in {"open", "closing"}
    BY DEF FeedInv, ConnectedIsBacked, In
  <2>2. conn'[d].st \in {"open", "closing"} BY <1>2, <2>1
  <2> QED BY <2>2 DEF In
<1> QED BY <1>4, <1>5, <1>6 DEF Keeps

LEMMA TicketHolds ==
    ASSUME FeedInv, NEW c \in Conns, TicketIssued(c) \/ TicketRefused(c) \/ SocketOpens(c)
    PROVE  Keeps
<1>1. FeedTypeOK BY DEF FeedInv
<1>2. CASE TicketIssued(c)
  <2>1. /\ conn[c].st = "asking" /\ conn' = [conn EXCEPT ![c].st = "connecting"]
        /\ wsRef' = c
        /\ UNCHANGED <<mode, enabled, mounted, timers, timerRef, connected, refused,
                       managerUp, runs, cuts>>
    BY <1>2 DEF TicketIssued, props
  <2>2. /\ conn' \in [Conns -> [st : States, mode : Modes]]
        /\ conn'[c].st = "connecting"
        /\ \A d \in Conns \ {c} : conn'[d] = conn[d]
    BY <1>1, <2>1, OneChanges DEF States
  <2>3. FeedTypeOK' BY <1>1, <2>1, <2>2 DEF FeedTypeOK
  <2>4. HasChain' BY <2>2 DEF HasChain, Busy, Free
  <2>5. ConnectedIsBacked' BY <2>1, <2>2 DEF FeedInv, ConnectedIsBacked, In
  <2> QED BY <2>3, <2>4, <2>5 DEF Keeps
<1>3. CASE TicketRefused(c)
  <2>1. /\ conn[c].st = "asking" /\ conn' = [conn EXCEPT ![c].st = "free"]
        /\ refused' = TRUE
        /\ UNCHANGED <<mode, enabled, mounted, wsRef, timers, timerRef, connected,
                       managerUp, runs, cuts>>
    BY <1>3 DEF TicketRefused, Release, props
  <2>2. /\ conn' \in [Conns -> [st : States, mode : Modes]]
        /\ \A d \in Conns \ {c} : conn'[d] = conn[d]
    BY <1>1, <2>1, OneChanges DEF States
  <2>3. FeedTypeOK' BY <1>1, <2>1, <2>2 DEF FeedTypeOK
  <2>4. HasChain' BY <2>1 DEF HasChain
  <2>5. ConnectedIsBacked' BY <2>1, <2>2 DEF FeedInv, ConnectedIsBacked, In
  <2> QED BY <2>3, <2>4, <2>5 DEF Keeps
<1>4. CASE SocketOpens(c)
  <2>1. /\ conn' = [conn EXCEPT ![c].st = "open"] /\ connected' = TRUE
        /\ UNCHANGED <<mode, enabled, mounted, wsRef, timers, timerRef, refused,
                       managerUp, runs, cuts>>
    BY <1>4 DEF SocketOpens, props
  <2>2. /\ conn' \in [Conns -> [st : States, mode : Modes]]
        /\ conn'[c].st = "open"
    BY <1>1, <2>1, OneChanges DEF States
  <2>3. FeedTypeOK' BY <1>1, <2>1, <2>2 DEF FeedTypeOK
  <2>4. HasChain' BY <2>2 DEF HasChain, Busy, Free
  <2>5. ConnectedIsBacked' BY <2>2 DEF ConnectedIsBacked, In
  <2> QED BY <2>3, <2>4, <2>5 DEF Keeps
<1> QED BY <1>2, <1>3, <1>4

LEMMA FeedStepHolds == FeedInv /\ [FeedNext]_feedVars => FeedInv'
<1> SUFFICES ASSUME FeedInv, [FeedNext]_feedVars PROVE Keeps BY DEF FeedInv, Keeps
<1>t. FeedTypeOK BY DEF FeedInv
<1>1. CASE EffectRuns BY <1>1, EffectRunsHolds
<1>2. CASE Unmount BY <1>2, UnmountHolds
<1>3. CASE TimerFires BY <1>3, TimerFiresHolds
<1>4. CASE ManagerStops
  <2>1. cuts' \in 0..MaxCuts BY <1>t, <1>4, FeedAssumption DEF ManagerStops, FeedTypeOK
  <2>2. managerUp' = FALSE
        /\ UNCHANGED <<mode, enabled, mounted, conn, wsRef, timers, timerRef, connected,
                       refused, runs>>
    BY <1>4 DEF ManagerStops, props, hook
  <2>3. FeedTypeOK' BY <1>t, <2>1, <2>2 DEF FeedTypeOK
  <2> QED BY <2>2, <2>3 DEF Keeps, FeedInv, HasChain, Busy, Free, ConnectedIsBacked, In
<1>5. CASE ManagerReturns
  <2>1. managerUp' = TRUE
        /\ UNCHANGED <<mode, enabled, mounted, conn, wsRef, timers, timerRef, connected,
                       refused, runs, cuts>>
    BY <1>5 DEF ManagerReturns, props, hook
  <2>2. FeedTypeOK' BY <1>t, <2>1 DEF FeedTypeOK
  <2> QED BY <2>1, <2>2 DEF Keeps, FeedInv, HasChain, Busy, Free, ConnectedIsBacked, In
<1>6. ASSUME NEW c \in Conns,
             TicketIssued(c) \/ TicketRefused(c) \/ SocketOpens(c)
      PROVE  Keeps
  BY <1>6, TicketHolds
<1>7. ASSUME NEW c \in Conns, Unreachable(c) PROVE Keeps
  <2>1. cuts' \in 0..MaxCuts BY <1>t, <1>7, FeedAssumption DEF Unreachable, FeedTypeOK
  <2>2. /\ conn[c].st = "asking" /\ conn' = Release(c) /\ SetTimer
        /\ UNCHANGED <<mode, enabled, mounted, wsRef, connected, refused, managerUp, runs>>
    BY <1>7 DEF Unreachable, props
  <2>3. wsRef' \in Conns \cup {None} /\ connected' \in BOOLEAN BY <1>t, <2>2 DEF FeedTypeOK
  <2> QED BY <2>1, <2>2, <2>3, EndHolds
<1>8. ASSUME NEW c \in Conns, SocketEnds(c) PROVE Keeps
  <2>1. cuts' \in 0..MaxCuts BY <1>t, <1>8 DEF SocketEnds, FeedTypeOK
  <2>2. /\ conn' = Release(c) /\ SetTimer /\ wsRef' = None /\ connected' = FALSE
        /\ UNCHANGED <<mode, enabled, mounted, refused, managerUp, runs>>
    BY <1>8 DEF SocketEnds, props
  <2> QED BY <2>1, <2>2, EndHolds
<1>9. ASSUME NEW c \in Conns, SocketDropped(c) PROVE Keeps
  <2>1. cuts' \in 0..MaxCuts BY <1>t, <1>9, FeedAssumption DEF SocketDropped, FeedTypeOK
  <2>2. /\ conn' = Release(c) /\ SetTimer /\ wsRef' = None /\ connected' = FALSE
        /\ UNCHANGED <<mode, enabled, mounted, refused, managerUp, runs>>
    BY <1>9 DEF SocketDropped, props
  <2> QED BY <2>1, <2>2, EndHolds
<1>10. CASE UNCHANGED feedVars
  <2>1. UNCHANGED <<mode, enabled, mounted, conn, wsRef, timers, timerRef, connected,
                    refused, managerUp, runs, cuts>>
    BY <1>10 DEF feedVars, props, hook
  <2>2. FeedTypeOK' BY <1>t, <2>1 DEF FeedTypeOK
  <2> QED BY <2>1, <2>2 DEF Keeps, FeedInv, HasChain, Busy, Free, ConnectedIsBacked, In
<1> QED BY <1>1, <1>2, <1>3, <1>4, <1>5, <1>6, <1>7, <1>8, <1>9, <1>10 DEF FeedNext

LEMMA FeedInvariance == FeedSpec => []FeedInv
BY FeedInitHolds, FeedStepHolds, PTL DEF FeedSpec

-----------------------------------------------------------------------------
(* Counting the chains *)

LEMMA BusyFinite == FeedTypeOK => IsFiniteSet(Busy) /\ Cardinality(Busy) \in Nat
<1>1. Busy \in SUBSET Conns BY DEF Busy
<1>2. IsFiniteSet(Busy) BY <1>1, FeedAssumption, FS_Subset
<1> QED BY <1>2, FS_CardinalityType

\* One chain more: a free connection begins to ask.
LEMMA OneMore ==
    ASSUME FeedTypeOK, NEW f \in [Conns -> [st : States, mode : Modes]],
           \A d \in Conns : f[d].st = "free" <=> conn[d].st = "free",
           NEW m \in Modes, NEW en \in BOOLEAN, NEW mt \in BOOLEAN, Connect(m, en, mt, f)
    PROVE  Cardinality(Busy') \in {Cardinality(Busy), Cardinality(Busy) + 1}
<1>1. CASE en /\ mt
  <2>1. PICK c \in Conns : /\ f[c].st = "free" /\ conn'[c].st = "asking"
                           /\ \A d \in Conns \ {c} : conn'[d] = f[d]
    BY <1>1, ConnectTyped
  <2>2. Busy' = Busy \cup {c} BY <2>1 DEF Busy, Free
  <2> QED BY <2>2, BusyFinite, FS_AddElement
<1>2. CASE ~(en /\ mt)
  <2>1. conn' = f BY <1>2, ConnectTyped
  <2>2. Busy' = Busy BY <2>1 DEF Busy, Free
  <2> QED BY <2>2
<1> QED BY <1>1, <1>2

\* One connection less.
LEMMA OneLess ==
    ASSUME FeedTypeOK, NEW c \in Conns, conn[c].st # "free", conn' = Release(c)
    PROVE  Cardinality(Busy') = Cardinality(Busy) - 1
<1>1. conn'[c].st = "free" /\ \A d \in Conns \ {c} : conn'[d] = conn[d]
  BY OneChanges DEF Release, States
<1>2. Busy' = Busy \ {c} /\ c \in Busy BY <1>1 DEF Busy, Free
<1> QED BY <1>2, BusyFinite, FS_RemoveElement

\* A connection that goes on.
LEMMA SameChains ==
    ASSUME FeedTypeOK, NEW c \in Conns, NEW s \in States \ {"free"}, conn[c].st # "free",
           conn' = [conn EXCEPT ![c].st = s]
    PROVE  Busy' = Busy
<1>1. conn'[c].st = s /\ \A d \in Conns \ {c} : conn'[d] = conn[d] BY OneChanges
<1> QED BY <1>1 DEF Busy, Free

LEMMA StepCounts ==
    ASSUME FeedTypeOK, [FeedNext]_feedVars
    PROVE  Chains' > Chains => runs' = runs + 1
<1> DEFINE n == Cardinality(Busy)
<1>a. n \in Nat BY BusyFinite
<1>b. Chains = n + timers BY DEF Chains, Busy
<1>c. timers \in Nat BY DEF FeedTypeOK
<1> HIDE DEF n
<1>d. Chains' = n' + timers' BY DEF Chains, Busy, n
<1>1. CASE EffectRuns BY <1>1 DEF EffectRuns
<1>2. CASE Unmount
  <2>1. conn' = Closing /\ ClearTimer BY <1>2 DEF Unmount
  <2>2. Busy' = Busy BY <2>1, ClosingTyped DEF Busy, Free
  <2>3. n' = n BY <2>2 DEF n
  <2>4. timers' = timers \/ timers' = timers - 1 BY <2>1 DEF ClearTimer
  <2>5. Chains' = Chains \/ Chains' = Chains - 1 BY <1>a, <1>b, <1>c, <1>d, <2>3, <2>4
  <2>6. Chains \in Nat BY <1>a, <1>b, <1>c
  <2> QED BY <2>5, <2>6
<1>3. CASE TimerFires
  <2>1. timers' = timers - 1 /\ Connect(mode, enabled, mounted, conn)
    BY <1>3 DEF TimerFires
  <2>2. n' = n \/ n' = n + 1 BY <2>1, OneMore DEF FeedTypeOK, n
  <2>3. Chains' <= Chains BY <1>a, <1>b, <1>c, <1>d, <2>1, <2>2
  <2>4. Chains \in Nat /\ Chains' \in Int BY <1>a, <1>b, <1>c, <1>d, <2>1, <2>2
  <2> QED BY <2>3, <2>4
<1>4. CASE ManagerStops \/ ManagerReturns
  <2>1. UNCHANGED <<conn, timers>> BY <1>4 DEF ManagerStops, ManagerReturns, hook
  <2>2. n' = n BY <2>1 DEF Busy, Free, n
  <2> QED BY <1>a, <1>b, <1>c, <1>d, <2>1, <2>2
<1>5. ASSUME NEW c \in Conns, TicketIssued(c) \/ SocketOpens(c)
      PROVE  Chains' > Chains => runs' = runs + 1
  <2>1. timers' = timers BY <1>5 DEF TicketIssued, SocketOpens
  <2>2. Busy' = Busy
    BY <1>5, SameChains DEF TicketIssued, SocketOpens, States
  <2>3. n' = n BY <2>2 DEF n
  <2> QED BY <1>a, <1>b, <1>c, <1>d, <2>1, <2>3
<1>6. ASSUME NEW c \in Conns, TicketRefused(c)
      PROVE  Chains' > Chains => runs' = runs + 1
  <2>1. timers' = timers /\ conn' = Release(c) /\ conn[c].st # "free"
    BY <1>6 DEF TicketRefused
  <2>2. n' = n - 1 BY <2>1, OneLess DEF n
  <2> QED BY <1>a, <1>b, <1>c, <1>d, <2>1, <2>2
<1>7. ASSUME NEW c \in Conns, Unreachable(c) \/ SocketEnds(c) \/ SocketDropped(c)
      PROVE  Chains' > Chains => runs' = runs + 1
  <2>1. timers' = timers + 1 /\ conn' = Release(c) /\ conn[c].st # "free"
    BY <1>7 DEF Unreachable, SocketEnds, SocketDropped, SetTimer
  <2>2. n' = n - 1 BY <2>1, OneLess DEF n
  <2> QED BY <1>a, <1>b, <1>c, <1>d, <2>1, <2>2
<1>8. CASE UNCHANGED feedVars
  <2>1. UNCHANGED <<conn, timers>> BY <1>8 DEF feedVars, hook
  <2>2. n' = n BY <2>1 DEF Busy, Free, n
  <2> QED BY <1>a, <1>b, <1>c, <1>d, <2>1, <2>2
<1> QED BY <1>1, <1>2, <1>3, <1>4, <1>5, <1>6, <1>7, <1>8 DEF FeedNext

-----------------------------------------------------------------------------
(* The theorems *)

\* An enabled feed that was not refused a ticket always has a request, a socket
\* or a timer: no order of closes, cleanups and timers loses the reconnect.
THEOREM NeverGivesUp == FeedSpec => []KeepsTrying
<1>1. FeedInv => KeepsTrying
  <2> SUFFICES ASSUME FeedInv, mounted, enabled, ~refused PROVE Chains > 0
    BY DEF KeepsTrying
  <2>1. FeedTypeOK BY DEF FeedInv
  <2>2. Cardinality(Busy) \in Nat /\ timers \in Nat BY <2>1, BusyFinite DEF FeedTypeOK
  <2>3. Chains = Cardinality(Busy) + timers BY DEF Chains, Busy
  <2>4. Busy # {} => Cardinality(Busy) # 0 BY <2>1, BusyFinite, FS_EmptySet
  <2>5. Busy # {} \/ timers > 0 BY DEF FeedInv, HasChain
  <2> QED BY <2>2, <2>3, <2>4, <2>5
<1> QED BY <1>1, FeedInvariance, PTL

\* The page never says connected when every socket has closed.
THEOREM ConnectedIsTrue == FeedSpec => []ConnectedIsBacked
<1>1. FeedInv => ConnectedIsBacked BY DEF FeedInv
<1> QED BY <1>1, FeedInvariance, PTL

\* No disconnect, timer or answer makes two chains of one, however many sockets
\* are closing: only a run of the effect adds one.
THEOREM NoForks == FeedSpec => ChainsNeverFork
<1>1. FeedInv /\ [FeedNext]_feedVars => [Chains' > Chains => runs' = runs + 1]_feedVars
  BY StepCounts DEF FeedInv
<1> QED BY <1>1, FeedInvariance, PTL DEF FeedSpec, ChainsNeverFork

-----------------------------------------------------------------------------
(* The list tabs *)

\* The pager agrees with the answer it stands under.
Settled == ~effect => total = DataTotal(Active) /\ page <= TotalPages(total, size)

\* No render is left without answer and request, except by a failure.
AskedOrFailed == cache[Active] = Nothing /\ flight[Active] = Idle => Active \in failed

IInv == TypeOK /\ Settled /\ AskedOrFailed

-----------------------------------------------------------------------------
(* The pager's arithmetic *)

\* The number of pages is the quotient, rounded up.
LEMMA Ceiling ==
    ASSUME NEW t \in Nat \ {0}, NEW s \in Nat \ {0}
    PROVE  /\ TotalPages(t, s) \in Int
           /\ s * TotalPages(t, s) <= t + s - 1
           /\ t <= s * TotalPages(t, s)
<1> DEFINE n == t + s - 1
           q == n \div s
<1>1. n \in Nat /\ s \in Nat \ {0} OBVIOUS
<1>2. q \in Int /\ n % s \in 0..(s - 1) /\ n = s * q + (n % s)
  BY <1>1
<1>3. TotalPages(t, s) = q BY DEF TotalPages
<1>4. s * q \in Int BY <1>2
<1> HIDE DEF q
<1> QED BY <1>2, <1>3, <1>4

\* There is at least one page, and no more pages than rows.
LEMMA PagesBounded ==
    ASSUME NEW t \in Nat, NEW s \in Nat \ {0}
    PROVE  /\ TotalPages(t, s) \in Nat \ {0}
           /\ TotalPages(t, s) <= t + 1
<1>1. CASE t = 0 BY <1>1 DEF TotalPages
<1>2. CASE t # 0
  <2> DEFINE q == TotalPages(t, s)
  <2>1. q \in Int /\ s * q <= t + s - 1 /\ t <= s * q
    BY <1>2, Ceiling
  <2> HIDE DEF q
  <2>2. q >= 1
    <3>1. SUFFICES ASSUME q <= 0 PROVE FALSE BY <2>1
    <3>2. s * q <= 0 BY <2>1, <3>1
    <3> QED BY <2>1, <3>2, <1>2
  <2>3. q <= t
    <3>1. SUFFICES ASSUME q >= t + 1 PROVE FALSE BY <2>1
    <3>2. s * q >= s * (t + 1) BY <2>1, <3>1
    <3>3. s * (t + 1) = s * t + s OBVIOUS
    <3>4. s * t >= t OBVIOUS
    <3>5. s * q \in Int /\ s * t \in Int BY <2>1
    <3> QED BY <2>1, <3>2, <3>3, <3>4, <3>5
  <2> QED BY <2>1, <2>2, <2>3 DEF q
<1> QED BY <1>1, <1>2

\* A page of the total is not past its last row.
LEMMA PageHasARow ==
    ASSUME NEW t \in Nat \ {0}, NEW s \in Nat \ {0}, NEW p \in Nat \ {0},
           p <= TotalPages(t, s)
    PROVE  Offset(p, s) \in Nat /\ Offset(p, s) < t
<1> DEFINE q == TotalPages(t, s)
<1>1. q \in Int /\ s * q <= t + s - 1 BY Ceiling
<1> HIDE DEF q
<1>2. p <= q BY DEF q
<1>3. (p - 1) * s \in Nat OBVIOUS
<1>4. (p - 1) * s <= (q - 1) * s BY <1>1, <1>2
<1>5. (q - 1) * s = s * q - s BY <1>1
<1>6. s * q \in Int BY <1>1
<1> QED BY <1>1, <1>3, <1>4, <1>5, <1>6 DEF Offset

\* Clamping gives a page of the new total.
LEMMA Clamped ==
    ASSUME NEW t \in Nat, NEW s \in Nat \ {0}, NEW p \in Nat \ {0}
    PROVE  /\ ClampPage(t, s, p) \in Nat \ {0}
           /\ ClampPage(t, s, p) <= TotalPages(t, s)
<1> DEFINE last == TotalPages(t, s)
<1>1. last \in Nat \ {0} BY PagesBounded
<1>2. ClampPage(t, s, p) = IF p > last THEN last ELSE p BY DEF ClampPage
<1> HIDE DEF last
<1>3. ClampPage(t, s, p) \in Nat \ {0} /\ ClampPage(t, s, p) <= last BY <1>1, <1>2
<1> QED BY <1>3 DEF last

-----------------------------------------------------------------------------
(* What the type invariant says of the operands *)

LEMMA Rendered ==
    ASSUME TypeOK
    PROVE  /\ Active \in Keys /\ size \in Nat \ {0} /\ page \in Nat \ {0}
           /\ total \in Nat
           /\ cache[Active] \in {Nothing} \cup 0..MaxRows
           /\ flight[Active] \in {Idle, Asked} \cup 0..MaxRows
BY SizesAssumption, BoundsAssumption DEF TypeOK, Active, Keys, Pages

LEMMA TotalTyped ==
    ASSUME TypeOK, NEW k \in Keys
    PROVE  DataTotal(k) \in 0..MaxRows
BY BoundsAssumption DEF TypeOK, DataTotal, Nothing

LEMMA ObservedTyped ==
    ASSUME TypeOK, NEW k \in Keys
    PROVE  /\ Observed(k) \in [Keys -> {Idle, Asked} \cup 0..MaxRows]
           /\ cache[k] = Nothing => Observed(k)[k] # Idle
           /\ \A l \in Keys \ {k} : Observed(k)[l] = flight[l]
BY DEF TypeOK, Observed, Asked, Idle

\* Every page of a total the table can have is a page of the model.
LEMMA PageTyped ==
    ASSUME NEW t \in 0..MaxRows, NEW s \in Sizes, NEW p \in Nat \ {0}, p <= TotalPages(t, s)
    PROVE  p \in Pages /\ <<p, s>> \in Keys
<1>1. t \in Nat /\ s \in Nat \ {0} BY SizesAssumption, BoundsAssumption
<1>2. TotalPages(t, s) \in Nat /\ TotalPages(t, s) <= t + 1 BY <1>1, PagesBounded
<1> QED BY <1>1, <1>2, BoundsAssumption DEF Pages, Keys

-----------------------------------------------------------------------------
(* The invariant *)

LEMMA InitHolds == Init => IInv
<1> SUFFICES ASSUME Init PROVE IInv OBVIOUS
<1>1. <<1, InitialSize>> \in Keys
  BY SizesAssumption, BoundsAssumption DEF Keys, Pages
<1>2. TypeOK
  <2>1. cache \in [Keys -> {Nothing} \cup 0..MaxRows] BY DEF Init
  <2>2. flight \in [Keys -> {Idle, Asked} \cup 0..MaxRows] BY DEF Init
  <2>3. page \in Pages /\ size \in Sizes /\ rows \in 0..MaxRows /\ total \in 0..MaxRows
    BY SizesAssumption, BoundsAssumption DEF Init, Pages
  <2>4. clicks \in 0..MaxClicks /\ failures \in 0..MaxFailures
    BY BoundsAssumption DEF Init
  <2>5. effect \in BOOLEAN /\ running \in BOOLEAN /\ pending \in BOOLEAN
        /\ stale \subseteq Keys /\ failed \subseteq Keys
    BY DEF Init
  <2> QED BY <2>1, <2>2, <2>3, <2>4, <2>5 DEF TypeOK
<1>3. Active = <<1, InitialSize>> BY DEF Init, Active
<1>4. Settled
  <2>1. DataTotal(Active) = 0 BY <1>1, <1>3 DEF Init, DataTotal
  <2>2. TotalPages(0, size) = 1 BY DEF TotalPages
  <2> QED BY <2>1, <2>2 DEF Init, Settled
<1>5. AskedOrFailed BY <1>1, <1>3 DEF Init, AskedOrFailed, Asked, Idle
<1> QED BY <1>2, <1>4, <1>5 DEF IInv

\* A render of another key, with the total kept or pushed.
LEMMA RenderHolds ==
    ASSUME IInv, NEW t \in 0..MaxRows, NEW s \in Sizes, NEW p \in Nat \ {0},
           p <= TotalPages(t, s) \/ (p = page /\ effect'),
           page' = p, size' = s, total' = t,
           effect' \in BOOLEAN,
           ~effect' => DataTotal(<<p, s>>) = t,
           \/ flight' = Observed(<<p, s>>)
           \/ flight' = flight /\ <<p, s>> = Active,
           UNCHANGED <<rows, cache, stale, failed, channel, failures>>,
           clicks' \in 0..MaxClicks
    PROVE  IInv'
<1>1. TypeOK BY DEF IInv
<1>2. p \in Pages /\ <<p, s>> \in Keys
  BY <1>1, PageTyped DEF TypeOK, Keys
<1>3. flight' \in [Keys -> {Idle, Asked} \cup 0..MaxRows]
  BY <1>1, <1>2, ObservedTyped DEF TypeOK
<1>4. TypeOK' BY <1>1, <1>2, <1>3 DEF TypeOK, channel
<1>5. Active' = <<p, s>> BY DEF Active
<1>6. Settled' BY <1>5 DEF Settled, DataTotal
<1>7. AskedOrFailed'
  <2>1. CASE flight' = Observed(<<p, s>>)
    BY <1>1, <1>2, <1>5, <2>1, ObservedTyped DEF AskedOrFailed
  <2>2. CASE flight' = flight /\ <<p, s>> = Active
    BY <1>5, <2>2 DEF AskedOrFailed, IInv
  <2> QED BY <2>1, <2>2
<1> QED BY <1>4, <1>6, <1>7 DEF IInv

\* A step that leaves the pager, the effect and the rendered answer's count.
LEMMA BehindHolds ==
    ASSUME IInv, TypeOK', UNCHANGED pager,
           cache'[Active] = cache[Active],
           effect' = effect,
           flight'[Active] = Idle => flight[Active] = Idle \/ Active \in failed',
           failed \subseteq failed' \/ \E k \in Keys : failed' = failed \ {k} /\ k # Active
    PROVE  IInv'
<1>1. Active' = Active BY DEF Active, pager
<1>2. Settled' BY <1>1 DEF IInv, Settled, DataTotal, pager
<1>3. Active \in failed => Active \in failed' OBVIOUS
<1>4. AskedOrFailed' BY <1>1, <1>3 DEF IInv, AskedOrFailed
<1> QED BY <1>2, <1>4 DEF IInv

LEMMA SetPageHolds ==
    ASSUME IInv, Clickable, NEW n \in Int, SetPage(n)
    PROVE  IInv'
<1>1. TypeOK BY DEF IInv
<1>2. size \in Nat \ {0} /\ total \in Nat /\ total \in 0..MaxRows /\ size \in Sizes
  BY <1>1, Rendered DEF TypeOK
<1> DEFINE last == TotalPages(total, size)
           p == IF Lower(n, last) < 1 THEN 1 ELSE Lower(n, last)
<1>3. last \in Nat \ {0} BY <1>2, PagesBounded
<1> HIDE DEF last
<1>4. p \in Nat \ {0} /\ p <= last BY <1>3 DEF Lower
<1>5. /\ page' = p /\ size' = size /\ total' = total
      /\ effect' = (DataTotal(<<p, size>>) # total)
      /\ flight' = Observed(<<p, size>>)
      /\ UNCHANGED <<rows, cache, stale, failed, channel, failures>>
      /\ clicks' = clicks + 1
  BY DEF SetPage, last, channel
<1> HIDE DEF p
<1>6. clicks' \in 0..MaxClicks BY <1>1, <1>5, BoundsAssumption DEF Clickable, TypeOK
<1> QED BY <1>2, <1>4, <1>5, <1>6, RenderHolds DEF last

LEMMA StepHolds == IInv /\ [Next]_vars => IInv'
<1> SUFFICES ASSUME IInv, [Next]_vars PROVE IInv' OBVIOUS
<1>t. TypeOK BY DEF IInv
<1>a. Active \in Keys /\ size \in Nat \ {0} /\ page \in Nat \ {0} /\ total \in Nat
  BY <1>t, Rendered
<1>1. CASE ClickNext
  <2>1. page + 1 \in Int BY <1>a
  <2> QED BY <1>1, <2>1, SetPageHolds DEF ClickNext
<1>2. CASE ClickPrev
  <2>1. page - 1 \in Int BY <1>a
  <2> QED BY <1>2, <2>1, SetPageHolds DEF ClickPrev
<1>3. CASE SetPageSize
  <2>1. PICK s \in Sizes : size' = s /\ flight' = Observed(<<page, s>>)
    BY <1>3 DEF SetPageSize
  <2>2. /\ page' = page /\ total' = total /\ effect' = TRUE
        /\ UNCHANGED <<rows, cache, stale, failed, channel, failures>>
    BY <1>3 DEF SetPageSize, channel
  <2>3. clicks' \in 0..MaxClicks
    BY <1>t, <1>3, BoundsAssumption DEF SetPageSize, Clickable, TypeOK
  <2>4. total \in 0..MaxRows BY <1>t DEF TypeOK
  <2> QED BY <1>a, <2>1, <2>2, <2>3, <2>4, RenderHolds
<1>4. CASE PushTotal
  <2> DEFINE t == DataTotal(Active)
             p == ClampPage(t, size, page)
  <2>1. t \in 0..MaxRows /\ t \in Nat BY <1>t, <1>a, TotalTyped, BoundsAssumption
  <2> HIDE DEF t
  <2>2. p \in Nat \ {0} /\ p <= TotalPages(t, size) BY <1>a, <2>1, Clamped
  <2>3. /\ total' = t /\ page' = p /\ size' = size
        /\ effect' = (DataTotal(<<p, size>>) # t)
        /\ flight' = IF p = page THEN flight ELSE Observed(<<p, size>>)
        /\ UNCHANGED <<rows, cache, stale, failed, channel, failures>>
        /\ clicks' = clicks
    BY <1>4 DEF PushTotal, t, channel
  <2> HIDE DEF p
  <2>4. flight' = Observed(<<p, size>>) \/ (flight' = flight /\ <<p, size>> = Active)
    BY <2>3 DEF Active
  <2>5. size \in Sizes /\ clicks' \in 0..MaxClicks BY <1>t, <2>3 DEF TypeOK
  <2> QED BY <2>1, <2>2, <2>3, <2>4, <2>5, RenderHolds
<1>5. ASSUME NEW k \in Keys, DatabaseAnswers(k) PROVE IInv'
  <2>1. TypeOK' BY <1>t, <1>5 DEF TypeOK, DatabaseAnswers, pager, channel, budget
  <2>2. UNCHANGED pager /\ cache' = cache /\ effect' = effect /\ failed' = failed
    BY <1>5 DEF DatabaseAnswers
  <2>3. flight'[Active] = Idle => flight[Active] = Idle
    BY <1>t, <1>a, <1>5, BoundsAssumption DEF DatabaseAnswers, TypeOK, Idle
  <2> QED BY <2>1, <2>2, <2>3, BehindHolds
<1>6. ASSUME NEW k \in Keys, AnswerArrives(k) PROVE IInv'
  <2>1. flight[k] \in 0..MaxRows
    BY <1>t, <1>6, BoundsAssumption DEF AnswerArrives, TypeOK, Idle, Asked
  <2>2. TypeOK'
    BY <1>t, <1>6, <2>1 DEF TypeOK, AnswerArrives, pager, channel, budget
  <2>3. UNCHANGED pager BY <1>6 DEF AnswerArrives
  <2>4. CASE k # Active
    <3>1. cache'[Active] = cache[Active] /\ flight'[Active] = flight[Active]
      BY <1>t, <1>a, <1>6, <2>4 DEF AnswerArrives, TypeOK
    <3>2. effect' = effect BY <1>t, <1>6, <2>4 DEF AnswerArrives, TypeOK
    <3>3. failed' = failed \ {k} BY <1>6 DEF AnswerArrives
    <3> QED BY <2>2, <2>3, <2>4, <3>1, <3>2, <3>3, BehindHolds
  <2>5. CASE k = Active
    <3>1. Active' = Active BY <2>3 DEF Active, pager
    <3>2. cache'[Active] = flight[Active] /\ cache'[Active] # Nothing
      BY <1>t, <1>a, <1>6, <2>1, <2>5, BoundsAssumption DEF AnswerArrives, TypeOK, Nothing
    <3>3. AskedOrFailed' BY <3>1, <3>2 DEF AskedOrFailed
    <3>4. ~effect' => flight[Active] = total BY <1>6, <2>5 DEF AnswerArrives
    <3>5. ~effect BY <1>6 DEF AnswerArrives
    <3>6. page <= TotalPages(total, size) BY <3>5 DEF IInv, Settled
    <3>7. Settled' BY <2>3, <3>1, <3>2, <3>4, <3>6 DEF Settled, DataTotal, pager
    <3> QED BY <2>2, <3>3, <3>7 DEF IInv
  <2> QED BY <2>4, <2>5
<1>7. ASSUME NEW k \in Keys, RequestFails(k) PROVE IInv'
  <2>1. TypeOK'
    BY <1>t, <1>7, BoundsAssumption DEF TypeOK, RequestFails, pager, channel
  <2>2. UNCHANGED pager /\ cache' = cache /\ effect' = effect /\ failed' = failed \cup {k}
    BY <1>7 DEF RequestFails
  <2>3. flight'[Active] = Idle => flight[Active] = Idle \/ Active \in failed'
    BY <1>t, <1>a, <1>7, <2>2 DEF RequestFails, TypeOK
  <2> QED BY <2>1, <2>2, <2>3, BehindHolds
<1>8. ASSUME NEW k \in Keys, Ages(k) PROVE IInv'
  <2>1. TypeOK' BY <1>t, <1>8 DEF TypeOK, Ages, pager, channel, budget
  <2> QED BY <1>8, <2>1, BehindHolds DEF Ages
<1>9. ASSUME NEW k \in Keys, Collected(k) PROVE IInv'
  <2>1. TypeOK' BY <1>t, <1>9 DEF TypeOK, Collected, pager, channel, budget
  <2>2. cache'[Active] = cache[Active] BY <1>t, <1>a, <1>9 DEF Collected, TypeOK
  <2>3. UNCHANGED pager /\ effect' = effect /\ flight' = flight
        /\ failed' = failed \ {k} /\ k # Active
    BY <1>9 DEF Collected
  <2> QED BY <2>1, <2>2, <2>3, BehindHolds
<1>10. CASE WindowFocus
  <2>1. flight' \in [Keys -> {Idle, Asked} \cup 0..MaxRows]
    BY <1>t, <1>10 DEF TypeOK, WindowFocus
  <2>2. TypeOK' BY <1>t, <1>10, <2>1 DEF TypeOK, WindowFocus, pager, channel, budget
  <2>3. flight[Active] = Idle BY <1>10 DEF WindowFocus
  <2> QED BY <1>10, <2>2, <2>3, BehindHolds DEF WindowFocus
<1>11. CASE InsertRow
  <2>1. TypeOK'
    BY <1>t, <1>11, BoundsAssumption DEF TypeOK, InsertRow, pager, queries, budget
  <2> QED BY <1>11, <2>1, BehindHolds DEF InsertRow, queries
<1>12. CASE Flush
  <2>1. TypeOK' BY <1>t, <1>12 DEF TypeOK, Flush, pager, budget
  <2>2. flight'[Active] # Idle
    BY <1>t, <1>a, <1>12 DEF Flush, TypeOK, Asked, Idle
  <2> QED BY <1>12, <2>1, <2>2, BehindHolds DEF Flush
<1>13. CASE RunningChanges
  <2>1. running' \in BOOLEAN /\ pending' \in BOOLEAN BY <1>13 DEF RunningChanges
  <2>2. clicks' \in 0..MaxClicks
    BY <1>t, <1>13, BoundsAssumption DEF TypeOK, RunningChanges
  <2>3. TypeOK'
    BY <1>t, <1>13, <2>1, <2>2 DEF TypeOK, RunningChanges, pager, queries
  <2> QED BY <1>13, <2>3, BehindHolds DEF RunningChanges, queries
<1>14. CASE UNCHANGED vars
  <2>1. TypeOK' BY <1>t, <1>14 DEF TypeOK, vars
  <2> QED BY <1>14, <2>1, BehindHolds DEF vars, pager
<1> QED
  BY <1>1, <1>2, <1>3, <1>4, <1>5, <1>6, <1>7, <1>8, <1>9, <1>10, <1>11, <1>12, <1>13,
     <1>14 DEF Next

LEMMA Invariance == Spec => []IInv
BY InitHolds, StepHolds, PTL DEF Spec

-----------------------------------------------------------------------------
(* The theorems *)

\* The pager, the cache and the requests are always of their types: no page is
\* beyond the last one a table of MaxRows rows can have, in any page size.
THEOREM TypeCorrect == Spec => []TypeOK
<1>1. IInv => TypeOK BY DEF IInv
<1> QED BY <1>1, Invariance, PTL

\* The rendered page is one the total has (usePagination.ts:30-32), whichever
\* answers arrive late, fail or are dropped and whatever is clicked meanwhile.
THEOREM NoPagePastTheEnd == Spec => []PageWithinTotal
<1>1. IInv => PageWithinTotal BY DEF IInv, Settled, PageWithinTotal
<1> QED BY <1>1, Invariance, PTL

\* The caption's range and the query's range, computed apart, are the same rows.
THEOREM CaptionIsTrue == Spec => []CaptionTellsTheRows
<1>1. IInv => CaptionTellsTheRows
  <2> SUFFICES ASSUME IInv, ~effect, cache[Active] # Nothing
               PROVE  QueryRange(cache[Active], page, size) = DisplayRange
    BY DEF CaptionTellsTheRows
  <2>1. TypeOK BY DEF IInv
  <2>2. cache[Active] = total BY DEF IInv, Settled, DataTotal
  <2>3. size \in Nat \ {0} /\ page \in Nat \ {0} /\ total \in Nat BY <2>1, Rendered
  <2>4. CASE total = 0 BY <2>2, <2>4 DEF QueryRange, DisplayRange
  <2>5. CASE total # 0
    <3>1. Offset(page, size) \in Nat BY <2>3 DEF Offset
    <3>2. DisplayRange = (Offset(page, size) + 1)..Lower(Offset(page, size) + size, total)
      BY <2>5 DEF DisplayRange
    <3> QED BY <2>2, <2>3, <3>1, <3>2 DEF QueryRange, Lower
  <2> QED BY <2>4, <2>5
<1> QED BY <1>1, Invariance, PTL

\* A tab that says there is nothing has an answer that said so, or a failure.
THEOREM EmptyIsHonest == Spec => []EmptyIsTrue
<1>1. IInv => EmptyIsTrue
  <2> SUFFICES ASSUME IInv, ~effect, TabNotice = "none", cache[Active] # 0
               PROVE  Active \in failed
    BY DEF EmptyIsTrue
  <2>1. TypeOK BY DEF IInv
  <2>2. ~RowsShown /\ ~(cache[Active] = Nothing /\ flight[Active] # Idle)
    BY DEF TabNotice
  <2>3. CASE cache[Active] = Nothing BY <2>2, <2>3 DEF IInv, AskedOrFailed
  <2>4. CASE cache[Active] # Nothing
    <3>1. cache[Active] = total /\ page <= TotalPages(total, size)
          /\ DataTotal(Active) = total
      BY <2>4 DEF IInv, Settled, DataTotal
    <3>2. size \in Nat \ {0} /\ page \in Nat \ {0} /\ total \in Nat \ {0}
      BY <2>1, <3>1, Rendered
    <3>3. Offset(page, size) \in Nat /\ Offset(page, size) < total
      BY <3>1, <3>2, PageHasARow
    <3>4. Offset(page, size) + 1 \in QueryRange(total, page, size)
      BY <3>2, <3>3 DEF QueryRange
    <3> QED BY <2>2, <3>1, <3>4 DEF RowsShown
  <2> QED BY <2>3, <2>4
<1> QED BY <1>1, Invariance, PTL
=============================================================================

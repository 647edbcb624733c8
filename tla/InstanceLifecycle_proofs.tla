---------------------- MODULE InstanceLifecycle_proofs ----------------------
(***************************************************************************)
(* Theorems about InstanceLifecycle, for every set of bots, of handlers    *)
(* and of start goroutines, and every combination of requests and faults.  *)
(***************************************************************************)
EXTENDS InstanceLifecycle, TLAPS

-----------------------------------------------------------------------------
(* Types of the records and of the helpers that build them                 *)

HandlersOK == hd \in [Handlers -> HandlerRecord]
WorkersOK ==
    /\ wk \in [Workers -> WorkerRecord]
    /\ \A x \in Workers : wk[x].pc # "idle" => wk[x].bot \in Bots

WorkerPcs  == {"idle", "check", "look", "dstart", "poll", "stop", "rm", "dir",
               "heal", "run", "ping", "mark"}
HandlerPcs == {"idle", "unflag", "stop", "rm", "forget", "write", "remove",
               "loop", "status", "spawn"}

LEMMA RecordTypes ==
    /\ NoSnap \in Snapshot
    /\ IdleH \in HandlerRecord
    /\ IdleW \in WorkerRecord /\ IdleW.pc = "idle"
    /\ IdleSweep \in SweepRecord
BY DEF NoSnap, Snapshot, IdleH, HandlerRecord, IdleW, WorkerRecord, IdleSweep,
       SweepRecord, AllOps

LEMMA ListingType == ASSUME TypeOK, NEW S PROVE Listing(S) \in Snapshot
BY DEF TypeOK, Listing, Snapshot

LEMMA DropType ==
    ASSUME NEW sn \in Snapshot, NEW b PROVE Drop(sn, b) \in Snapshot
BY DEF Drop, Snapshot

LEMMA ServeType ==
    ASSUME NEW o \in AllOps, NEW p \in HandlerPcs,
           NEW sn \in Snapshot
    PROVE  Serve(o, p, sn) \in HandlerRecord
BY RecordTypes DEF Serve, HandlerRecord, HandlerPcs, Listed, AllOps

LEMMA UpdateType ==
    ASSUME HandlersOK, NEW h \in Handlers, NEW r \in HandlerRecord, hd' = [hd EXCEPT ![h] = r]
    PROVE  HandlersOK'
BY DEF HandlersOK

LEMMA StaysType ==
    ASSUME HandlersOK, NEW h \in Handlers, NEW p \in HandlerPcs, Stays(h, p)
    PROVE  HandlersOK'
BY DEF HandlersOK, Stays, HandlerRecord, HandlerPcs

LEMMA ReturnsType ==
    ASSUME HandlersOK, NEW h \in Handlers, Returns(h) PROVE HandlersOK'
BY RecordTypes DEF HandlersOK, Returns

LEMMA DoneType ==
    ASSUME HandlersOK, NEW h \in Handlers, NEW b \in Bots, Done(h, b)
    PROVE  HandlersOK'
<1>1. hd[h] \in HandlerRecord
  BY DEF HandlersOK
<1>2. Drop(hd[h].snap, b) \in Snapshot
  BY <1>1, DropType DEF HandlerRecord
<1>3. [hd[h] EXCEPT !.pc = "loop", !.snap = Drop(hd[h].snap, b), !.cur = {}, !.bad = FALSE]
        \in HandlerRecord
  BY <1>1, <1>2 DEF HandlerRecord
<1> QED
  BY <1>3, RecordTypes DEF HandlersOK, Done

LEMMA TurnType ==
    ASSUME HandlersOK, NEW h \in Handlers, NEW b \in Bots, NEW p \in HandlerPcs, Turn(h, b, p)
    PROVE  HandlersOK'
<1>1. [hd[h] EXCEPT !.pc = p, !.cur = {b}] \in HandlerRecord
  BY DEF HandlersOK, HandlerRecord, HandlerPcs
<1> QED
  BY <1>1 DEF HandlersOK, Turn

LEMMA GoesType ==
    ASSUME WorkersOK, NEW x \in Workers, NEW p \in WorkerPcs, wk[x].pc # "idle", Goes(x, p)
    PROVE  WorkersOK'
BY DEF WorkersOK, Goes, WorkerRecord, WorkerPcs

LEMMA EndsType ==
    ASSUME WorkersOK, NEW x \in Workers, Ends(x) PROVE WorkersOK'
BY RecordTypes DEF WorkersOK, Ends

LEMMA RunFailsType ==
    ASSUME WorkersOK, NEW x \in Workers, wk[x].pc # "idle", RunFails(x) PROVE WorkersOK'
BY GoesType, EndsType DEF RunFails, WorkerPcs

LEMMA LaunchType ==
    ASSUME WorkersOK, NEW b \in Bots, NEW v \in Nat, LaunchOnce(b, v)
    PROVE  WorkersOK' /\ starting' \subseteq starting \cup {Id(b)}
<1>1. CASE Id(b) \in starting
  BY <1>1 DEF LaunchOnce, WorkersOK
<1>2. CASE Id(b) \notin starting
  <2>1. PICK s \in Starters :
          /\ wk[s].pc = "idle"
          /\ wk' = [wk EXCEPT ![s] = [pc |-> "stop", bot |-> b, snap |-> v]]
    BY <1>2 DEF LaunchOnce, Launch
  <2>2. [pc |-> "stop", bot |-> b, snap |-> v] \in WorkerRecord
    BY DEF WorkerRecord
  <2> QED
    BY <1>2, <2>1, <2>2 DEF LaunchOnce, Launch, WorkersOK, Workers
<1> QED
  BY <1>1, <1>2

LEMMA FaultType == ASSUME faults \in Nat, NEW k, Fault(k) PROVE faults' \in Nat
BY DEF Fault

LEMMA UpsertType ==
    ASSUME row \in [Bots -> Nat], faults \in Nat, NEW b \in Bots, NEW v \in Nat, Upsert(b, v)
    PROVE  row' \in [Bots -> Nat] /\ faults' \in Nat
BY FaultType DEF Upsert

LEMMA CliCallType ==
    ASSUME faults \in Nat, NEW S, NEW r, NEW done, CliCall(S, r, done) PROVE faults' \in Nat
BY FaultType DEF CliCall

LEMMA InspectType ==
    ASSUME faults \in Nat, NEW b, NEW r, InspectRunning(b, r) PROVE faults' \in Nat
BY FaultType DEF InspectRunning

LEMMA DockerTypes ==
    ASSUME TypeOK, NEW S
    PROVE  /\ AfterStop(S) \in [Bots -> {"none", "running", "erring", "exited"}]
           /\ AfterRm(S) \in [Bots -> {"none", "running", "erring", "exited"}]
           /\ Unload(S) \in [Bots -> Nat]
BY DEF TypeOK, AfterStop, AfterRm, Unload

LEMMA ErrorTypes ==
    ASSUME lastErr \in [Bots -> BOOLEAN], faults \in Nat
    PROVE  /\ \A b \in Bots : MarkInstanceError(b) => lastErr' \in [Bots -> BOOLEAN] /\ faults' \in Nat
           /\ \A S : ClearInstanceError(S) => lastErr' \in [Bots -> BOOLEAN]
BY FaultType DEF MarkInstanceError, ClearInstanceError

-----------------------------------------------------------------------------
(* Type correctness                                                        *)

LEMMA InitTypeOK == Init => TypeOK
BY RecordTypes, BotsAssumption DEF Init, TypeOK, NoDir, Workers, IdleW

LEMMA RequestTypeOK ==
    ASSUME TypeOK, NEW h \in Handlers, RequestArrives(h) PROVE TypeOK'
<1> USE DEF TypeOK
<1>1. HandlersOK /\ reqs \in Nat /\ \A S : Listing(S) \in Snapshot
  BY ListingType DEF HandlersOK
<1>2. ASSUME NEW r \in HandlerRecord, hd' = [hd EXCEPT ![h] = r]
      PROVE  hd' \in [Handlers -> HandlerRecord]
  BY <1>2
<1>3. CASE CreateStrategy(h)
  <2>1. PICK b \in Bots :
          /\ ver' = ver + 1
          /\ disk' = [disk EXCEPT ![b] = ver + 1]
          /\ Upsert(b, ver + 1)
          /\ hd' = [hd EXCEPT ![h] = Serve("create", "spawn", [NoSnap EXCEPT ![b] = ver + 1])]
    BY <1>3 DEF CreateStrategy
  <2>2. [NoSnap EXCEPT ![b] = ver + 1] \in Snapshot
    BY DEF NoSnap, Snapshot
  <2>3. hd' \in [Handlers -> HandlerRecord]
    BY <1>2, <2>1, <2>2, ServeType DEF HandlerPcs, AllOps
  <2>4. row' \in [Bots -> Nat] /\ faults' \in Nat
    BY <2>1, UpsertType
  <2>5. disk' \in [Bots -> Nat \cup {NoDir}] /\ ver' \in Nat
    BY <2>1
  <2>6. /\ UNCHANGED <<docker, lastErr, starting, wk, sweep, mgr, halted>>
        /\ reqs' \in Nat
    BY <1>3 DEF CreateStrategy, Request
  <2> HIDE <1>3
  <2> QED
    BY <2>3, <2>4, <2>5, <2>6 DEF docker
<1>4. ASSUME /\ hd' \in [Handlers -> HandlerRecord]
             /\ reqs' \in Nat /\ faults' \in Nat
             /\ UNCHANGED <<docker, store, starting, wk, sweep, mgr, halted>>
      PROVE  TypeOK'
  BY <1>4 DEF docker, store
<1>5. \A o : Request(h, o) => reqs' \in Nat
  BY DEF Request
<1>6. CASE StartInstance(h)
  BY <1>1, <1>2, <1>4, <1>5, <1>6, ServeType DEF StartInstance, HandlerPcs, AllOps
<1>7. CASE StopInstance(h)
  BY <1>1, <1>2, <1>4, <1>5, <1>7, ServeType DEF StopInstance, HandlerPcs, AllOps
<1>8. CASE UpdateStrategy(h)
  <2>1. PICK b \in Bots, r \in BOOLEAN, n \in 1..MaxPatches :
          hd' = [hd EXCEPT ![h] =
                    [Serve("update", IF r THEN "unflag" ELSE "write", Listing({b}))
                        EXCEPT !.was = r, !.left = n]]
    BY <1>8 DEF UpdateStrategy
  <2>2. Serve("update", IF r THEN "unflag" ELSE "write", Listing({b})) \in HandlerRecord
    BY <1>1, ServeType DEF HandlerPcs, AllOps
  <2>3. n \in Nat
    BY BoundsAssumption
  <2>4. [Serve("update", IF r THEN "unflag" ELSE "write", Listing({b}))
                        EXCEPT !.was = r, !.left = n] \in HandlerRecord
    BY <2>2, <2>3 DEF HandlerRecord
  <2>5. faults' \in Nat
    BY <1>8, InspectType DEF UpdateStrategy
  <2> QED
    BY <1>2, <1>4, <1>5, <1>8, <2>1, <2>4, <2>5 DEF UpdateStrategy
<1>9. CASE DeleteStrategy(h)
  <2>1. PICK b \in Bots, r \in BOOLEAN :
          hd' = [hd EXCEPT ![h] =
                    Serve("delete", IF r THEN "stop" ELSE "remove", Listing({b}))]
    BY <1>9 DEF DeleteStrategy
  <2>2. Serve("delete", IF r THEN "stop" ELSE "remove", Listing({b})) \in HandlerRecord
    BY <1>1, ServeType DEF HandlerPcs, AllOps
  <2>3. faults' \in Nat
    BY <1>9, InspectType DEF DeleteStrategy
  <2> QED
    BY <1>2, <1>4, <1>5, <1>9, <2>1, <2>2, <2>3 DEF DeleteStrategy
<1>10. \A b : RowsLike(b) \in SUBSET Bots
  BY DEF RowsLike
<1>11. CASE StartUser(h)
  BY <1>1, <1>2, <1>4, <1>5, <1>10, <1>11, ServeType DEF StartUser, ForEachRow, HandlerPcs, AllOps
<1>12. CASE CredentialChange(h)
  BY <1>1, <1>2, <1>4, <1>5, <1>10, <1>12, ServeType
     DEF CredentialChange, ForEachRow, HandlerPcs, AllOps
<1>13. CASE StopUser(h)
  BY <1>1, <1>2, <1>4, <1>5, <1>10, <1>13, ServeType DEF StopUser, HandlerPcs, AllOps
<1>14. CASE ClearAllStrategies(h)
  BY <1>1, <1>2, <1>4, <1>5, <1>10, <1>14, ServeType DEF ClearAllStrategies, HandlerPcs, AllOps
<1> QED
  BY <1>3, <1>6, <1>7, <1>8, <1>9, <1>11, <1>12, <1>13, <1>14 DEF RequestArrives

\* What the steps of handler h after the first leave typed.
LEMMA HandlerStepTypeOK ==
    ASSUME TypeOK, NEW h \in Handlers, HandlerStep(h) PROVE TypeOK'
<1>1. HandlersOK /\ WorkersOK /\ hd[h] \in HandlerRecord
  BY DEF HandlersOK, WorkersOK, TypeOK
<1>2. hd[h].cur \subseteq Bots /\ hd[h].snap \in Snapshot /\ hd[h].left \in Nat
  BY <1>1 DEF HandlerRecord
<1>0. /\ cont \in [Bots -> {"none", "running", "erring", "exited"}]
      /\ loaded \in [Bots -> Nat] /\ disk \in [Bots -> Nat \cup {NoDir}]
      /\ row \in [Bots -> Nat] /\ lastErr \in [Bots -> BOOLEAN]
      /\ halted \subseteq Bots /\ starting \subseteq {Id(b) : b \in Bots}
      /\ ver \in Nat /\ faults \in Nat
  BY DEF TypeOK
<1>3. CASE ClearFlags(h)
  <2>1. HandlersOK'
    BY <1>1, <1>3, StaysType DEF ClearFlags, HandlerPcs
  <2> QED
    BY <1>3, <2>1 DEF ClearFlags, docker, store, HandlersOK, TypeOK
<1>4. CASE HandlerDockerStop(h)
  <2>1. PICK r \in CliResults, done \in SUBSET hd[h].cur :
          /\ CliCall(hd[h].cur, r, done)
          /\ cont' = AfterStop(done)
          /\ hd' = [hd EXCEPT ![h] = [hd[h] EXCEPT !.pc = "rm",
                       !.bad = r # "ok" \/ \E b \in hd[h].cur : cont[b] = "none"]]
    BY <1>4 DEF HandlerDockerStop
  <2>2. [hd[h] EXCEPT !.pc = "rm",
           !.bad = r # "ok" \/ \E b \in hd[h].cur : cont[b] = "none"] \in HandlerRecord
    BY <1>1 DEF HandlerRecord
  <2>3. hd' \in [Handlers -> HandlerRecord]
    BY <1>1, <2>1, <2>2 DEF HandlersOK
  <2>4. cont' \in [Bots -> {"none", "running", "erring", "exited"}] /\ faults' \in Nat
    BY <1>0, <2>1, DockerTypes, CliCallType
  <2>5. UNCHANGED <<loaded, store, starting, wk, sweep, mgr, halted, reqs>>
    BY <1>4 DEF HandlerDockerStop
  <2> QED
    BY <2>3, <2>4, <2>5 DEF store, TypeOK
<1>5. CASE HandlerDockerRm(h)
  <2>1. PICK r \in CliResults, done \in SUBSET hd[h].cur, e \in BOOLEAN :
          /\ CliCall(hd[h].cur, r, done)
          /\ cont' = AfterRm(done) /\ loaded' = Unload(done)
          /\ AfterStopInstance(h, hd[h].bad \/ e)
    BY <1>5 DEF HandlerDockerRm
  <2>2. /\ cont' \in [Bots -> {"none", "running", "erring", "exited"}]
        /\ loaded' \in [Bots -> Nat] /\ faults' \in Nat
    BY <1>0, <2>1, DockerTypes, CliCallType
  <2>3. HandlersOK'
    BY <1>1, <2>1, StaysType, ReturnsType DEF AfterStopInstance, HandlerPcs
  <2>4. lastErr' \in [Bots -> BOOLEAN] /\ halted' \subseteq Bots
    BY <1>0, <1>2, <2>1, ErrorTypes DEF AfterStopInstance
  <2>5. UNCHANGED <<disk, row, ver, starting, wk, sweep, mgr, reqs>>
    BY <1>5 DEF HandlerDockerRm
  <2> QED
    BY <2>2, <2>3, <2>4, <2>5 DEF HandlersOK, TypeOK
<1>6. CASE ForgetStart(h)
  <2>1. HandlersOK'
    BY <1>1, <1>6, ReturnsType DEF ForgetStart
  <2> QED
    BY <1>2, <1>6, <2>1 DEF ForgetStart, docker, store, HandlersOK, TypeOK
<1>7. CASE WriteConfig(h)
  <2>1. /\ HandlersOK' /\ faults' \in Nat /\ ver' \in Nat
        /\ disk' \in [Bots -> Nat \cup {NoDir}] /\ row' \in [Bots -> Nat]
    <3>1. CASE Returns(h) /\ UNCHANGED <<disk, row, ver, faults>>
      BY <1>0, <1>1, <3>1, ReturnsType
    <3>2. CASE ~(Returns(h) /\ UNCHANGED <<disk, row, ver, faults>>)
      <4>1. PICK b \in hd[h].cur :
              /\ ver' = ver + 1
              /\ disk' = [disk EXCEPT ![b] = ver + 1]
              /\ Upsert(b, ver + 1)
              /\ \/ /\ hd[h].left > 1
                    /\ hd' = [hd EXCEPT ![h] = [hd[h] EXCEPT !.left = hd[h].left - 1]]
                 \/ hd' = [hd EXCEPT ![h] = [hd[h] EXCEPT !.pc = "spawn",
                                 !.snap = [NoSnap EXCEPT ![b] = ver + 1]]]
                 \/ Returns(h)
        BY <1>7, <3>2 DEF WriteConfig
      <4>2. row' \in [Bots -> Nat] /\ faults' \in Nat
        BY <1>0, <1>2, <4>1, UpsertType
      <4>3. hd[h].left > 1 => [hd[h] EXCEPT !.left = hd[h].left - 1] \in HandlerRecord
        BY <1>1, <1>2 DEF HandlerRecord
      <4>4. [hd[h] EXCEPT !.pc = "spawn", !.snap = [NoSnap EXCEPT ![b] = ver + 1]]
                \in HandlerRecord
        <5>1. \A v \in Nat : [NoSnap EXCEPT ![b] = v] \in Snapshot
          BY DEF NoSnap, Snapshot
        <5>2. ver + 1 \in Nat
          BY <1>0
        <5> QED
          BY <1>1, <5>1, <5>2 DEF HandlerRecord
      <4>5. HandlersOK'
        <5>1. CASE /\ hd[h].left > 1
                   /\ hd' = [hd EXCEPT ![h] = [hd[h] EXCEPT !.left = hd[h].left - 1]]
          BY <1>1, <4>3, <5>1, UpdateType
        <5>2. CASE hd' = [hd EXCEPT ![h] = [hd[h] EXCEPT !.pc = "spawn",
                                 !.snap = [NoSnap EXCEPT ![b] = ver + 1]]]
          BY <1>1, <4>4, <5>2, UpdateType
        <5> QED
          BY <1>1, <4>1, <5>1, <5>2, ReturnsType
      <4>6. ver' = ver + 1 /\ disk' = [disk EXCEPT ![b] = ver + 1]
        BY <4>1
      <4>7. ver' \in Nat
        BY <1>0, <4>6
      <4>8. disk' \in [Bots -> Nat \cup {NoDir}]
        BY <1>0, <4>6, <4>7
      <4> QED
        BY <4>2, <4>5, <4>7, <4>8
    <3> QED
      BY <3>1, <3>2
  <2>2. UNCHANGED <<docker, lastErr, starting, wk, sweep, mgr, halted, reqs>>
    BY <1>7 DEF WriteConfig
  <2> QED
    BY <2>1, <2>2 DEF docker, HandlersOK, TypeOK
<1>8. CASE RemoveInstance(h)
  <2>1. PICK b \in Bots :
          /\ hd' = [hd EXCEPT ![h] =
                       IF Listed(Drop(hd[h].snap, b)) = {} THEN IdleH
                       ELSE [hd[h] EXCEPT !.snap = Drop(hd[h].snap, b)]]
          /\ \/ disk' = [disk EXCEPT ![b] = NoDir]
             \/ UNCHANGED disk
          /\ \/ /\ row' = [row EXCEPT ![b] = 0]
                /\ lastErr' = [lastErr EXCEPT ![b] = FALSE]
             \/ UNCHANGED <<row, lastErr>>
          /\ faults' \in Nat
    BY <1>0, <1>8, FaultType DEF RemoveInstance, Listed
  <2>2. [hd[h] EXCEPT !.snap = Drop(hd[h].snap, b)] \in HandlerRecord
    BY <1>1, <1>2, DropType DEF HandlerRecord
  <2>3. (IF Listed(Drop(hd[h].snap, b)) = {} THEN IdleH
         ELSE [hd[h] EXCEPT !.snap = Drop(hd[h].snap, b)]) \in HandlerRecord
    BY <2>2, RecordTypes
  <2>4. HandlersOK'
    BY <1>1, <2>1, <2>3, UpdateType
  <2>5. /\ disk' \in [Bots -> Nat \cup {NoDir}] /\ row' \in [Bots -> Nat]
        /\ lastErr' \in [Bots -> BOOLEAN] /\ faults' \in Nat
    <3>1. disk' \in [Bots -> Nat \cup {NoDir}] /\ faults' \in Nat
      BY <1>0, <2>1
    <3>2. \/ row' = [row EXCEPT ![b] = 0] /\ lastErr' = [lastErr EXCEPT ![b] = FALSE]
          \/ row' = row /\ lastErr' = lastErr
      BY <2>1
    <3>3. row' \in [Bots -> Nat]
      BY <1>0, <3>2
    <3>4. lastErr' \in [Bots -> BOOLEAN]
      BY <1>0, <3>2
    <3> QED
      BY <3>1, <3>3, <3>4
  <2>6. UNCHANGED <<docker, ver, starting, wk, sweep, mgr, halted, reqs>>
    BY <1>8 DEF RemoveInstance
  <2> QED
    BY <2>4, <2>5, <2>6 DEF docker, HandlersOK, TypeOK
<1>9. ASSUME HandlersOK', faults' \in Nat,
             UNCHANGED <<docker, store, starting, wk, sweep, mgr, halted, reqs>>
      PROVE  TypeOK'
  BY <1>9 DEF docker, store, HandlersOK, TypeOK
<1>10. CASE StartOne(h)
  <2>1. HandlersOK'
    BY <1>1, <1>10, DoneType, TurnType DEF StartOne, Listed, HandlerPcs
  <2> QED
    BY <1>0, <1>9, <1>10, <2>1 DEF StartOne
<1>11. CASE EffectiveStatus(h)
  <2>1. HandlersOK'
    BY <1>1, <1>2, <1>11, DoneType, StaysType DEF EffectiveStatus, HandlerPcs
  <2>2. faults' \in Nat
    BY <1>0, <1>11, InspectType DEF EffectiveStatus
  <2> QED
    BY <1>9, <1>11, <2>1, <2>2 DEF EffectiveStatus
<1>12. CASE RestartOne(h)
  <2>1. HandlersOK'
    BY <1>1, <1>12, DoneType, TurnType DEF RestartOne, Listed, HandlerPcs
  <2>2. faults' \in Nat
    BY <1>0, <1>12, InspectType DEF RestartOne
  <2> QED
    BY <1>9, <1>12, <2>1, <2>2 DEF RestartOne
<1>13. CASE SpawnStart(h)
  <2>1. PICK b \in hd[h].cur :
          /\ LaunchOnce(b, hd[h].snap[b])
          /\ halted' = halted \ {b}
          /\ Done(h, b)
    BY <1>13 DEF SpawnStart
  <2>2. b \in Bots /\ hd[h].snap[b] \in Nat
    BY <1>2 DEF Snapshot
  <2>3. WorkersOK' /\ starting' \subseteq {Id(c) : c \in Bots}
    BY <1>0, <1>1, <2>1, <2>2, LaunchType
  <2>4. HandlersOK'
    BY <1>1, <2>1, <2>2, DoneType
  <2>5. UNCHANGED <<docker, store, sweep, mgr, reqs, faults>>
    BY <1>13 DEF SpawnStart
  <2> QED
    BY <2>1, <2>3, <2>4, <2>5 DEF docker, store, HandlersOK, WorkersOK, TypeOK
<1> QED
  BY <1>3, <1>4, <1>5, <1>6, <1>7, <1>8, <1>10, <1>11, <1>12, <1>13 DEF HandlerStep

\* CreateAndStartInstance, in whichever goroutine it runs.
LEMMA LaunchStepTypeOK ==
    ASSUME TypeOK, NEW x \in Workers, LaunchStep(x) PROVE TypeOK'
<1>1. WorkersOK /\ wk[x] \in WorkerRecord /\ wk[x].snap \in Nat
  BY DEF WorkersOK, TypeOK, WorkerRecord
<1>2. /\ cont \in [Bots -> {"none", "running", "erring", "exited"}]
      /\ loaded \in [Bots -> Nat] /\ disk \in [Bots -> Nat \cup {NoDir}]
      /\ row \in [Bots -> Nat] /\ lastErr \in [Bots -> BOOLEAN]
      /\ ver \in Nat /\ faults \in Nat
  BY DEF TypeOK
<1>3. CASE WorkerDockerStop(x)
  <2>1. cont' \in [Bots -> {"none", "running", "erring", "exited"}]
    BY <1>3, DockerTypes DEF WorkerDockerStop
  <2>2. faults' \in Nat
    BY <1>2, <1>3, CliCallType DEF WorkerDockerStop
  <2>3. WorkersOK'
    BY <1>1, <1>3, GoesType DEF WorkerDockerStop, WorkerPcs
  <2>4. UNCHANGED <<loaded, store, starting, OtherThanWorkers>>
    BY <1>3 DEF WorkerDockerStop
  <2> QED
    BY <2>1, <2>2, <2>3, <2>4 DEF TypeOK, store, OtherThanWorkers, WorkersOK
<1>4. CASE WorkerDockerRm(x)
  <2>1. cont' \in [Bots -> {"none", "running", "erring", "exited"}]
    BY <1>4, DockerTypes DEF WorkerDockerRm
  <2>2. loaded' \in [Bots -> Nat]
    BY <1>4, DockerTypes DEF WorkerDockerRm
  <2>3. faults' \in Nat
    BY <1>2, <1>4, CliCallType DEF WorkerDockerRm
  <2>4. WorkersOK'
    BY <1>1, <1>4, GoesType DEF WorkerDockerRm, WorkerPcs
  <2>5. UNCHANGED <<store, starting, OtherThanWorkers>>
    BY <1>4 DEF WorkerDockerRm
  <2> QED
    BY <2>1, <2>2, <2>3, <2>4, <2>5 DEF TypeOK, store, OtherThanWorkers, WorkersOK
<1>5. CASE PrepareDir(x)
  <2>1. disk' \in [Bots -> Nat \cup {NoDir}]
    BY <1>2, <1>5 DEF PrepareDir, NoYaml
  <2>2. WorkersOK'
    BY <1>1, <1>5, GoesType DEF PrepareDir, WorkerPcs
  <2>3. UNCHANGED <<docker, row, lastErr, ver, starting, OtherThanWorkers, faults>>
    BY <1>5 DEF PrepareDir
  <2> QED
    BY <2>1, <2>2, <2>3 DEF TypeOK, docker, OtherThanWorkers, WorkersOK
<1>6. CASE RegenerateYaml(x)
  <2>1. wk[x].bot \in Bots
    BY <1>1, <1>6 DEF RegenerateYaml, WorkersOK
  <2>2. disk' \in [Bots -> Nat \cup {NoDir}]
    BY <1>1, <1>2, <1>6 DEF RegenerateYaml
  <2>3. row' \in [Bots -> Nat] /\ faults' \in Nat
    BY <1>1, <1>2, <1>6, <2>1, UpsertType DEF RegenerateYaml
  <2>4. WorkersOK'
    BY <1>1, <1>6, GoesType, RunFailsType DEF RegenerateYaml, WorkerPcs
  <2>5. UNCHANGED <<docker, lastErr, ver, starting, OtherThanWorkers>>
    BY <1>6 DEF RegenerateYaml
  <2> QED
    BY <2>2, <2>3, <2>4, <2>5 DEF TypeOK, docker, OtherThanWorkers, WorkersOK
<1>7. CASE DockerRun(x)
  <2>1. cont' \in [Bots -> {"none", "running", "erring", "exited"}]
    BY <1>2, <1>7 DEF DockerRun, docker
  <2>2. loaded' \in [Bots -> Nat]
    BY <1>2, <1>7 DEF DockerRun, docker, YamlOf, NoDir
  <2>3. disk' \in [Bots -> Nat \cup {NoDir}]
    BY <1>2, <1>7 DEF DockerRun, NoYaml
  <2>4. faults' \in Nat
    BY <1>2, <1>7, FaultType DEF DockerRun
  <2>5. WorkersOK'
    BY <1>1, <1>7, GoesType, EndsType, RunFailsType DEF DockerRun, WorkerPcs
  <2>6. UNCHANGED <<row, lastErr, ver, starting, OtherThanWorkers>>
    BY <1>7 DEF DockerRun
  <2> QED
    BY <2>1, <2>2, <2>3, <2>4, <2>5, <2>6 DEF TypeOK, OtherThanWorkers, WorkersOK
<1> QED
  BY <1>3, <1>4, <1>5, <1>6, <1>7 DEF LaunchStep

LEMMA StarterStepTypeOK ==
    ASSUME TypeOK, NEW s \in Starters, StarterStep(s) PROVE TypeOK'
<1>1. WorkersOK /\ s \in Workers /\ lastErr \in [Bots -> BOOLEAN] /\ faults \in Nat
  BY DEF WorkersOK, TypeOK, Workers
<1>2. ASSUME WorkersOK', starting' \subseteq starting, lastErr' \in [Bots -> BOOLEAN],
             faults' \in Nat, UNCHANGED <<docker, disk, row, ver, OtherThanWorkers>>
      PROVE  TypeOK'
  BY <1>2 DEF TypeOK, docker, OtherThanWorkers, WorkersOK
<1>3. CASE LaunchStep(s)
  BY <1>1, <1>3, LaunchStepTypeOK
<1>4. StarterExits(s) => WorkersOK' /\ starting' \subseteq starting
  BY <1>1, EndsType DEF StarterExits
<1>5. CASE PingAnswered(s)
  <2>1. lastErr' \in [Bots -> BOOLEAN]
    BY <1>1, <1>5, ErrorTypes DEF PingAnswered
  <2> QED
    BY <1>1, <1>2, <1>4, <1>5, <2>1 DEF PingAnswered
<1>6. CASE PingTimeout(s)
  <2>1. WorkersOK'
    BY <1>1, <1>6, GoesType DEF PingTimeout, WorkerPcs
  <2> QED
    BY <1>1, <1>2, <1>6, <2>1 DEF PingTimeout, store
<1>7. CASE PingExpired(s)
  BY <1>1, <1>2, <1>4, <1>7 DEF PingExpired, store
<1>8. CASE MarkStartError(s)
  <2>1. wk[s].bot \in Bots
    BY <1>1, <1>8 DEF MarkStartError, WorkersOK
  <2>2. lastErr' \in [Bots -> BOOLEAN] /\ faults' \in Nat
    BY <1>1, <1>8, <2>1, ErrorTypes DEF MarkStartError
  <2> QED
    BY <1>2, <1>4, <1>8, <2>2 DEF MarkStartError
<1> QED
  BY <1>3, <1>5, <1>6, <1>7, <1>8 DEF StarterStep

LEMMA RecovererStepTypeOK ==
    ASSUME TypeOK, NEW x \in Recoverers, RecovererStep(x) PROVE TypeOK'
<1>1. WorkersOK /\ x \in Workers /\ lastErr \in [Bots -> BOOLEAN] /\ faults \in Nat
      /\ sweep \in SweepRecord /\ cont \in [Bots -> {"none", "running", "erring", "exited"}]
      /\ loaded \in [Bots -> Nat] /\ disk \in [Bots -> Nat \cup {NoDir}]
  BY DEF WorkersOK, TypeOK, Workers
<1>2. CASE TakeTask(x)
  <2>1. PICK b \in Bots :
          /\ wk' = [wk EXCEPT ![x] = [pc |-> "check", bot |-> b, snap |-> sweep.todo[b]]]
          /\ sweep' = [sweep EXCEPT !.todo = Drop(sweep.todo, b)]
    BY <1>2 DEF TakeTask, Listed
  <2>2. sweep.todo \in Snapshot /\ sweep.todo[b] \in Nat
    BY <1>1 DEF SweepRecord, Snapshot
  <2>3. [pc |-> "check", bot |-> b, snap |-> sweep.todo[b]] \in WorkerRecord
    BY <2>2 DEF WorkerRecord
  <2>4. WorkersOK'
    BY <1>1, <2>1, <2>3 DEF WorkersOK
  <2>5. Drop(sweep.todo, b) \in Snapshot
    BY <2>2, DropType
  <2>6. sweep' \in SweepRecord
    BY <1>1, <2>1, <2>5 DEF SweepRecord
  <2>7. UNCHANGED <<docker, store, starting, hd, mgr, halted, reqs, faults>>
    BY <1>2 DEF TakeTask
  <2> QED
    BY <2>4, <2>6, <2>7 DEF TypeOK, docker, store, WorkersOK
<1>3. CASE CheckInstance(x)
  <2>1. wk[x].bot \in Bots
    BY <1>1, <1>3 DEF CheckInstance, WorkersOK
  <2>2. lastErr' \in [Bots -> BOOLEAN] /\ faults' \in Nat
    BY <1>1, <1>3, <2>1, ErrorTypes, FaultType DEF CheckInstance
  <2>3. WorkersOK'
    BY <1>1, <1>3, GoesType, EndsType DEF CheckInstance, WorkerPcs
  <2>4. UNCHANGED <<docker, disk, row, ver, starting, OtherThanWorkers>>
    BY <1>3 DEF CheckInstance
  <2> QED
    BY <2>2, <2>3, <2>4 DEF TypeOK, docker, OtherThanWorkers, WorkersOK
<1>4. ASSUME WorkersOK', faults' \in Nat,
             UNCHANGED <<docker, store, starting, OtherThanWorkers>>
      PROVE  TypeOK'
  BY <1>4 DEF TypeOK, docker, store, OtherThanWorkers, WorkersOK
<1>5. CASE InspectStatus(x)
  <2>1. WorkersOK'
    BY <1>1, <1>5, GoesType, EndsType DEF InspectStatus, WorkerPcs
  <2>2. faults' \in Nat
    BY <1>1, <1>5, FaultType DEF InspectStatus
  <2> QED
    BY <1>4, <1>5, <2>1, <2>2 DEF InspectStatus
<1>6. CASE DockerStart(x)
  <2>1. cont' \in [Bots -> {"none", "running", "erring", "exited"}]
    BY <1>1, <1>6 DEF DockerStart, docker
  <2>2. loaded' \in [Bots -> Nat]
    BY <1>1, <1>6 DEF DockerStart, docker, YamlOf, NoDir
  <2>3. faults' \in Nat
    BY <1>1, <1>6, FaultType DEF DockerStart
  <2>4. WorkersOK'
    BY <1>1, <1>6, GoesType DEF DockerStart, WorkerPcs
  <2>5. UNCHANGED <<store, starting, OtherThanWorkers>>
    BY <1>6 DEF DockerStart
  <2> QED
    BY <2>1, <2>2, <2>3, <2>4, <2>5 DEF TypeOK, store, OtherThanWorkers, WorkersOK
<1>7. CASE PollRunning(x)
  <2>1. WorkersOK'
    BY <1>1, <1>7, GoesType, EndsType DEF PollRunning, WorkerPcs
  <2>2. faults' \in Nat
    BY <1>1, <1>7, InspectType DEF PollRunning
  <2> QED
    BY <1>4, <1>7, <2>1, <2>2 DEF PollRunning
<1>8. CASE LaunchStep(x)
  BY <1>1, <1>8, LaunchStepTypeOK
<1> QED
  BY <1>2, <1>3, <1>5, <1>6, <1>7, <1>8 DEF RecovererStep

LEMMA ManagerStepTypeOK == ASSUME TypeOK, ManagerStep PROVE TypeOK'
<1>1. \A S : Listing(S) \in Snapshot
  BY ListingType
<1>2. \A sn \in Snapshot : BeginSweep(sn) => sweep' \in SweepRecord
  BY DEF BeginSweep, SweepRecord, Listed
<1>3. faults \in Nat
  BY DEF TypeOK
<1>4. CASE SweepTick
  <2>1. sweep' \in SweepRecord
    BY <1>1, <1>2, <1>4, RecordTypes DEF SweepTick
  <2>2. faults' \in Nat
    BY <1>3, <1>4, FaultType DEF SweepTick
  <2>3. UNCHANGED <<docker, store, starting, hd, wk, mgr, halted, reqs>>
    BY <1>4 DEF SweepTick
  <2> QED
    BY <2>1, <2>2, <2>3 DEF TypeOK, docker, store
<1>5. CASE CleanupStopped
  <2>1. cont' \in [Bots -> {"none", "running", "erring", "exited"}]
    BY <1>5, DockerTypes DEF CleanupStopped
  <2>2. loaded' \in [Bots -> Nat]
    BY <1>5, DockerTypes DEF CleanupStopped
  <2>3. faults' \in Nat
    BY <1>3, <1>5, CliCallType DEF CleanupStopped
  <2>4. sweep' \in SweepRecord
    BY <1>5, RecordTypes DEF CleanupStopped
  <2>5. UNCHANGED <<store, starting, hd, wk, mgr, halted, reqs>>
    BY <1>5 DEF CleanupStopped
  <2> QED
    BY <2>1, <2>2, <2>3, <2>4, <2>5 DEF TypeOK, store
<1>6. CASE StopOrphans
  <2>1. cont' \in [Bots -> {"none", "running", "erring", "exited"}]
    BY <1>6, DockerTypes DEF StopOrphans
  <2>2. loaded' \in [Bots -> Nat]
    BY <1>6, DockerTypes DEF StopOrphans
  <2>3. sweep' \in SweepRecord /\ mgr' = "up"
    BY <1>6, RecordTypes DEF StopOrphans
  <2>4. UNCHANGED <<store, starting, hd, wk, halted, reqs, faults>>
    BY <1>6 DEF StopOrphans
  <2> QED
    BY <2>1, <2>2, <2>3, <2>4 DEF TypeOK, store
<1>7. CASE Boot
  <2>1. sweep' \in SweepRecord /\ mgr' = "boot"
    BY <1>1, <1>2, <1>7 DEF Boot
  <2>2. UNCHANGED <<docker, store, starting, hd, wk, halted, reqs, faults>>
    BY <1>7 DEF Boot
  <2> QED
    BY <2>1, <2>2 DEF TypeOK, docker, store
<1> QED
  BY <1>4, <1>5, <1>6, <1>7 DEF ManagerStep

LEMMA EnvironmentTypeOK == ASSUME TypeOK, Environment PROVE TypeOK'
<1>1. faults \in Nat
  BY DEF TypeOK
<1>2. CASE Crash
  <2>1. faults' \in Nat
    BY <1>1, <1>2, FaultType DEF Crash
  <2>2. hd' \in [Handlers -> HandlerRecord]
    BY <1>2, RecordTypes DEF Crash
  <2>3. WorkersOK'
    BY <1>2, RecordTypes DEF Crash, WorkersOK
  <2>4. sweep' \in SweepRecord /\ starting' = {} /\ mgr' = "down"
    BY <1>2, RecordTypes DEF Crash
  <2>5. UNCHANGED <<docker, store, halted, reqs>>
    BY <1>2 DEF Crash
  <2> QED
    BY <2>1, <2>2, <2>3, <2>4, <2>5 DEF TypeOK, docker, store, WorkersOK
<1>3. ASSUME NEW b \in Bots, ProcessFails(b) PROVE TypeOK'
  <2>1. faults' \in Nat
    BY <1>1, <1>3, FaultType DEF ProcessFails
  <2>2. cont' \in [Bots -> {"none", "running", "erring", "exited"}]
    BY <1>3 DEF ProcessFails, TypeOK
  <2> QED
    BY <1>3, <2>1, <2>2 DEF ProcessFails, Bystanders, TypeOK
<1>4. ASSUME NEW b \in Bots, ProcessRecovers(b) PROVE TypeOK'
  <2>1. cont' \in [Bots -> {"none", "running", "erring", "exited"}]
    BY <1>4 DEF ProcessRecovers, TypeOK
  <2>2. YamlOf(b) \in Nat /\ loaded[b] \in Nat
    BY DEF YamlOf, TypeOK, NoDir
  <2>3. loaded' \in [Bots -> Nat]
    BY <1>4, <2>2 DEF ProcessRecovers, TypeOK
  <2> QED
    BY <1>4, <2>1, <2>3 DEF ProcessRecovers, Bystanders, TypeOK
<1>5. ASSUME NEW b \in Bots, ContainerHalts(b) PROVE TypeOK'
  <2>1. cont' \in [Bots -> {"none", "running", "erring", "exited"}]
    BY <1>5, DockerTypes DEF ContainerHalts, TypeOK
  <2>2. loaded' \in [Bots -> Nat]
    BY <1>5, DockerTypes DEF ContainerHalts, TypeOK
  <2>3. faults' \in Nat
    BY <1>1, <1>5, FaultType DEF ContainerHalts
  <2> QED
    BY <1>5, <2>1, <2>2, <2>3 DEF ContainerHalts, Bystanders, TypeOK
<1>6. ASSUME NEW b \in Bots, YamlLost(b) PROVE TypeOK'
  <2>1. disk' \in [Bots -> Nat \cup {NoDir}]
    BY <1>6 DEF YamlLost, TypeOK, NoYaml
  <2>2. faults' \in Nat
    BY <1>1, <1>6, FaultType DEF YamlLost
  <2> QED
    BY <1>6, <2>1, <2>2 DEF YamlLost, Bystanders, TypeOK, docker
<1> QED
  BY <1>2, <1>3, <1>4, <1>5, <1>6 DEF Environment

\* Every variable keeps its type, whatever requests and faults occur: the
\* records of the goroutines always name existing bots, and a snapshot is
\* always a set of rows (api.go, container_recovery.go, instance_store.go).
THEOREM TypeCorrect == Spec => []TypeOK
<1>1. TypeOK /\ [Next]_vars => TypeOK'
  <2>1. CASE UNCHANGED vars
    BY <2>1 DEF vars, TypeOK
  <2>2. CASE Next
    BY <2>2, RequestTypeOK, HandlerStepTypeOK, StarterStepTypeOK, RecovererStepTypeOK,
       ManagerStepTypeOK, EnvironmentTypeOK DEF Next
  <2> QED
    BY <2>1, <2>2
<1> QED
  BY <1>1, InitTypeOK, PTL DEF Spec

-----------------------------------------------------------------------------
(* The starting flags                                                      *)

\* No start goroutine ends, and none changes its bot.
StartersKept ==
    \A s \in Starters : wk[s].pc # "idle" => wk'[s].pc # "idle" /\ wk'[s].bot = wk[s].bot

LEMMA KeptBacked ==
    ASSUME StartingBacked, StartersKept, starting' \subseteq starting PROVE StartingBacked'
BY DEF StartingBacked, StartersKept

\* Only SpawnStart launches a goroutine; requests and the other handler steps
\* leave the goroutines alone and at most clear flags.
LEMMA RequestFrame ==
    ASSUME NEW h \in Handlers, RequestArrives(h)
    PROVE  /\ hd[h].pc = "idle" /\ UNCHANGED <<wk, starting>>
           /\ \E r : hd' = [hd EXCEPT ![h] = r]
BY DEF RequestArrives, Request, CreateStrategy, StartInstance, StopInstance, UpdateStrategy,
       DeleteStrategy, StartUser, CredentialChange, ForEachRow, StopUser, ClearAllStrategies

LEMMA HandlerFrame ==
    ASSUME NEW h \in Handlers, HandlerStep(h), ~SpawnStart(h)
    PROVE  UNCHANGED wk /\ starting' \subseteq starting
BY DEF HandlerStep, ClearFlags, HandlerDockerStop, HandlerDockerRm, ForgetStart, WriteConfig,
       RemoveInstance, StartOne, EffectiveStatus, RestartOne

LEMMA LaunchFrame ==
    ASSUME TypeOK, NEW x \in Workers, LaunchStep(x)
    PROVE  UNCHANGED starting /\ StartersKept
<1>1. wk \in [Workers -> WorkerRecord] /\ Starters \subseteq Workers
  BY DEF TypeOK, Workers
<1>2. ASSUME NEW p \in WorkerPcs \ {"idle"}, Goes(x, p) PROVE StartersKept
  BY <1>1, <1>2 DEF Goes, StartersKept, WorkerRecord
<1>3. ASSUME x \notin Starters, Ends(x) PROVE StartersKept
  BY <1>1, <1>3 DEF Ends, StartersKept
<1>4. UNCHANGED starting
  BY DEF LaunchStep, WorkerDockerStop, WorkerDockerRm, PrepareDir, RegenerateYaml, DockerRun
<1>5. CASE WorkerDockerStop(x) \/ WorkerDockerRm(x) \/ PrepareDir(x)
  BY <1>2, <1>5 DEF WorkerDockerStop, WorkerDockerRm, PrepareDir, WorkerPcs
<1>6. CASE RegenerateYaml(x) \/ DockerRun(x)
  BY <1>2, <1>3, <1>6 DEF RegenerateYaml, DockerRun, RunFails, WorkerPcs
<1> QED
  BY <1>4, <1>5, <1>6 DEF LaunchStep

LEMMA SpawnBacked ==
    ASSUME TypeOK, StartingBacked, NEW h \in Handlers, SpawnStart(h) PROVE StartingBacked'
<1>1. PICK b \in hd[h].cur : LaunchOnce(b, hd[h].snap[b])
  BY DEF SpawnStart
<1>2. CASE Id(b) \in starting
  BY <1>1, <1>2 DEF LaunchOnce, StartingBacked
<1>3. CASE Id(b) \notin starting
  <2>1. PICK s \in Starters :
          /\ wk[s].pc = "idle"
          /\ wk' = [wk EXCEPT ![s] = [pc |-> "stop", bot |-> b, snap |-> hd[h].snap[b]]]
    BY <1>1, <1>3 DEF LaunchOnce, Launch
  <2>2. starting' = starting \cup {Id(b)}
    BY <1>1, <1>3 DEF LaunchOnce, Launch
  <2>3. wk'[s].pc = "stop" /\ wk'[s].bot = b
    BY <2>1 DEF TypeOK, Workers
  <2>4. \A t \in Starters : wk[t].pc # "idle" => wk'[t] = wk[t]
    BY <2>1 DEF TypeOK, Workers
  <2>5. ASSUME NEW i \in starting' PROVE \E t \in Starters : wk'[t].pc # "idle" /\ Id(wk'[t].bot) = i
    <3>1. CASE i \in starting
      BY <2>4, <3>1 DEF StartingBacked
    <3>2. CASE i = Id(b)
      BY <2>3, <3>2
    <3> QED
      BY <2>2, <3>1, <3>2
  <2> QED
    BY <2>5 DEF StartingBacked
<1> QED
  BY <1>2, <1>3

\* A goroutine that ends takes its flag with it.
LEMMA ExitBacked ==
    ASSUME TypeOK, StartingBacked, NEW s \in Starters, StarterExits(s) PROVE StartingBacked'
<1>1. \A t \in Starters \ {s} : wk'[t] = wk[t]
  BY DEF StarterExits, Ends, TypeOK, Workers
<1>2. starting' = starting \ {Id(wk[s].bot)}
  BY DEF StarterExits
<1> QED
  BY <1>1, <1>2 DEF StartingBacked

LEMMA RecovererKeeps ==
    ASSUME TypeOK, NEW x \in Recoverers, RecovererStep(x)
    PROVE  UNCHANGED starting /\ StartersKept
<1>1. x \in Workers /\ x \notin Starters /\ Starters \subseteq Workers
      /\ wk \in [Workers -> WorkerRecord]
  BY GoroutinesAssumption DEF Workers, TypeOK
<1>2. ASSUME \E r : wk' = [wk EXCEPT ![x] = r] PROVE StartersKept
  BY <1>1, <1>2 DEF StartersKept
<1>3. ASSUME NEW p, Goes(x, p) PROVE StartersKept
  BY <1>1, <1>3 DEF Goes, StartersKept
<1>4. Ends(x) => StartersKept
  BY <1>2 DEF Ends
<1>5. CASE LaunchStep(x)
  BY <1>1, <1>5, LaunchFrame
<1>6. CASE TakeTask(x)
  BY <1>2, <1>6 DEF TakeTask, store
<1>7. CASE CheckInstance(x) \/ InspectStatus(x)
  BY <1>3, <1>4, <1>7 DEF CheckInstance, InspectStatus
<1>8. CASE DockerStart(x) \/ PollRunning(x)
  BY <1>3, <1>4, <1>8 DEF DockerStart, PollRunning
<1> QED
  BY <1>5, <1>6, <1>7, <1>8 DEF RecovererStep

LEMMA BackedStep ==
    ASSUME TypeOK, StartingBacked, [Next]_vars PROVE StartingBacked'
<1>1. ASSUME UNCHANGED <<wk, starting>> PROVE StartingBacked'
  BY <1>1 DEF StartingBacked
<1>2. CASE UNCHANGED vars
  BY <1>1, <1>2 DEF vars
<1>3. ASSUME NEW h \in Handlers, RequestArrives(h) PROVE StartingBacked'
  BY <1>1, <1>3, RequestFrame
<1>4. ASSUME NEW h \in Handlers, HandlerStep(h) PROVE StartingBacked'
  <2>1. CASE SpawnStart(h)
    BY <2>1, SpawnBacked
  <2>2. CASE ~SpawnStart(h)
    BY <1>4, <2>2, HandlerFrame DEF StartingBacked
  <2> QED
    BY <2>1, <2>2
<1>5. ASSUME NEW s \in Starters, StarterStep(s) PROVE StartingBacked'
  <2>1. CASE LaunchStep(s)
    BY <2>1, LaunchFrame, KeptBacked DEF Workers
  <2>2. CASE PingAnswered(s) \/ PingExpired(s) \/ MarkStartError(s)
    BY <2>2, ExitBacked DEF PingAnswered, PingExpired, MarkStartError
  <2>3. CASE PingTimeout(s)
    <3>1. StartersKept
      BY <2>3 DEF PingTimeout, Goes, StartersKept, TypeOK, Workers, WorkerRecord
    <3> QED
      BY <2>3, <3>1, KeptBacked DEF PingTimeout
  <2> QED
    BY <1>5, <2>1, <2>2, <2>3 DEF StarterStep
<1>6. ASSUME NEW x \in Recoverers, RecovererStep(x) PROVE StartingBacked'
  BY <1>6, RecovererKeeps, KeptBacked
<1>7. CASE ManagerStep
  BY <1>1, <1>7 DEF ManagerStep, SweepTick, CleanupStopped, StopOrphans, Boot
<1>8. CASE Environment
  BY <1>1, <1>8 DEF Environment, Crash, ProcessFails, ProcessRecovers, ContainerHalts,
     YamlLost, Bystanders, StartingBacked
<1> QED
  BY <1>2, <1>3, <1>4, <1>5, <1>6, <1>7, <1>8 DEF Next

\* A raised starting flag is always backed by a start goroutine for that id,
\* for any number of bots, requests and goroutines, crashes included (api.go,
\* starting.LoadOrStore and the deferred starting.Delete).
THEOREM FlagsBacked == Spec => []StartingBacked
<1>1. Init => StartingBacked
  BY DEF Init, StartingBacked
<1> QED
  BY <1>1, BackedStep, TypeCorrect, PTL DEF Spec
=============================================================================

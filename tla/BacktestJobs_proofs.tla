------------------------ MODULE BacktestJobs_proofs ------------------------
(***************************************************************************)
(* Theorems about BacktestJobs, for any number of jobs, of data syncs and  *)
(* of slots, and any number of faults.                                     *)
(***************************************************************************)
EXTENDS BacktestJobs, FiniteSetTheorems, TLAPS

-----------------------------------------------------------------------------
(* What the store's operations do                                          *)

LEMMA EntryFacts ==
    /\ Absent \in Entry /\ Torn \in Entry
    /\ Absent.status = "absent" /\ Torn.status = "torn"
    /\ Marshals(Absent)
BY DEF Absent, Torn, Entry, Marshals

\* A write touches the memory and the file of its job, the file perhaps badly.
LEMMA PutEffect ==
    ASSUME TypeOK, NEW j \in Jobs, NEW e \in Entry, Put(j, e)
    PROVE  /\ job' = [job EXCEPT ![j] = e]
           /\ disk' \in [Jobs -> Entry]
           /\ faults' \in Nat
           /\ \A k \in Jobs \ {j} : disk'[k] = disk[k]
           /\ disk'[j] \in {e, disk[j], Torn}
           /\ "disk" \notin FaultKinds /\ Marshals(e) => disk'[j] = e
BY EntryFacts DEF TypeOK, Put, Persist, Fault

\* An update of a job that is gone does nothing.
LEMMA ChangeEffect ==
    ASSUME TypeOK, NEW j \in Jobs, NEW e \in Entry, Change(j, e)
    PROVE  /\ job' = [job EXCEPT ![j] = IF Stored(j) THEN e ELSE job[j]]
           /\ job' \in [Jobs -> Entry]
           /\ disk' \in [Jobs -> Entry]
           /\ faults' \in Nat
           /\ \A k \in Jobs \ {j} : disk'[k] = disk[k]
           /\ disk'[j] \in {e, disk[j], Torn}
           /\ Stored(j) /\ "disk" \notin FaultKinds /\ Marshals(e) => disk'[j] = e
           /\ ~Stored(j) => disk' = disk
<1>1. CASE Stored(j)
  BY <1>1, PutEffect DEF Change, Put, TypeOK
<1>2. CASE ~Stored(j)
  BY <1>2 DEF Change, TypeOK
<1> QED
  BY <1>1, <1>2

Updated(j, s) == [job[j] EXCEPT
        !.status = s,
        !.started = @ \/ s \in {"downloading", "running"},
        !.completed = @ \/ s \in {"completed", "failed"}]

LEMMA UpdatedType ==
    ASSUME TypeOK, NEW j \in Jobs, NEW s \in Unfinished \cup Terminal
    PROVE  /\ Updated(j, s) \in Entry
           /\ Updated(j, s).status = s
           /\ Updated(j, s).got = job[j].got
BY ZenonT(30) DEF TypeOK, Entry, Updated

LEMMA UpdateIsChange ==
    ASSUME NEW j \in Jobs, NEW s, UpdateStatus(j, s)
    PROVE  Change(j, Updated(j, s))
BY DEF UpdateStatus, Updated

LEMMA ResultType ==
    ASSUME TypeOK, NEW j \in Jobs, NEW w \in {"output", "report", "garbled"}
    PROVE  /\ [job[j] EXCEPT !.got = w] \in Entry
           /\ [job[j] EXCEPT !.got = w].status = job[j].status
           /\ [job[j] EXCEPT !.got = w].got = w
BY DEF TypeOK, Entry

LEMMA LoadedFacts ==
    ASSUME disk \in [Jobs -> Entry], NEW j \in Jobs
    PROVE  /\ Loaded(j) \in Entry
           /\ disk[j].status = "torn" => Loaded(j) = Absent
           /\ disk[j].status \in Terminal \cup {"absent"} => Loaded(j) = disk[j]
           /\ disk[j].status \in Unfinished =>
                /\ Loaded(j).status \in {"pending", "failed"}
                /\ Loaded(j).got = disk[j].got
                /\ Loaded(j).status = "failed" <=> disk[j].started /\ j \in old5
<1>1. disk[j] \in Entry
  OBVIOUS
<1>2. CASE disk[j].status = "torn"
  BY <1>1, <1>2, EntryFacts DEF Loaded, Unfinished, Terminal
<1>3. CASE disk[j].status \in Terminal \cup {"absent"}
  BY <1>1, <1>3 DEF Loaded, Unfinished, Terminal
<1>4. CASE disk[j].status \in Unfinished
  <2>1. CASE disk[j].started /\ j \in old5
    BY <1>1, <1>4, <2>1 DEF Loaded, Unfinished, Terminal, Entry
  <2>2. CASE ~(disk[j].started /\ j \in old5)
    BY <1>1, <1>4, <2>2 DEF Loaded, Unfinished, Terminal, Entry
  <2> QED
    BY <2>1, <2>2
<1> QED
  BY <1>1, <1>2, <1>3, <1>4 DEF Entry

-----------------------------------------------------------------------------
(* Type correctness; that the tokens do not run below zero is shown with the *)
(* accounting of the slots.                                                 *)

LEMMA GotoType ==
    ASSUME TypeOK, NEW t \in Tasks, NEW p \in JobPcs \cup FetchPcs,
           t \in Fetches => p \in FetchPcs, Goto(t, p)
    PROVE  /\ pc' \in [Tasks -> JobPcs \cup FetchPcs]
           /\ \A f \in Fetches : pc'[f] \in FetchPcs
BY DEF TypeOK, Goto

LEMMA JobIsNoFetch ==
    ASSUME NEW j \in Jobs PROVE j \in Tasks /\ j \notin Fetches
BY TasksAssumption DEF Tasks

LEMMA InitType == Init => TypeOK
<1> SUFFICES ASSUME Init PROVE TypeOK
  OBVIOUS
<1>1. pc \in [Tasks -> JobPcs \cup FetchPcs] /\ \A f \in Fetches : pc[f] \in FetchPcs
  BY DEF Init, JobPcs, FetchPcs, Tasks
<1>2. job \in [Jobs -> Entry] /\ disk \in [Jobs -> Entry]
  BY EntryFacts DEF Init
<1> QED
  BY <1>1, <1>2 DEF Init, TypeOK

\* The steps of a job that go on without touching its entry.
LEMMA PlainStepType ==
    ASSUME TypeOK, slots' \in Nat, NEW j \in Jobs,
           \/ AcquireSlot(j) \/ BuildBacktestYAML(j) \/ LaunchBacktest(j)
           \/ BacktestReturns(j) \/ ReleaseSlot(j)
    PROVE  TypeOK'
<1>1. PICK p \in {"begin", "refuse", "launch", "fail", "running", "output", "done"} : Goto(j, p)
  BY DEF AcquireSlot, BuildBacktestYAML, LaunchBacktest, BacktestReturns, ReleaseSlot
<1>2. /\ pc' \in [Tasks -> JobPcs \cup FetchPcs]
      /\ \A f \in Fetches : pc'[f] \in FetchPcs
  BY <1>1, GotoType, JobIsNoFetch DEF JobPcs, Holding, Working
<1>3. /\ UNCHANGED <<manager, job, disk, syncCtr, ages, faults>>
      /\ runCtr' \subseteq Jobs
  BY DEF TypeOK, AcquireSlot, BuildBacktestYAML, LaunchBacktest, BacktestReturns, ReleaseSlot
<1> QED
  BY <1>2, <1>3 DEF TypeOK, ages

\* The steps that update it.
LEMMA UpdateStepType ==
    ASSUME TypeOK, NEW j \in Jobs,
           \/ Refuse(j) \/ Begin(j) \/ StartRunning(j) \/ SetOutput(j) \/ SetReport(j)
           \/ Complete(j) \/ FailJob(j)
    PROVE  TypeOK'
<1>1. PICK p \in {"done", "yaml", "ready", "config", "report", "complete", "release"} : Goto(j, p)
  BY DEF Refuse, Begin, StartRunning, SetOutput, SetReport, Complete, FailJob
<1>2. /\ pc' \in [Tasks -> JobPcs \cup FetchPcs]
      /\ \A f \in Fetches : pc'[f] \in FetchPcs
  BY <1>1, GotoType, JobIsNoFetch DEF JobPcs, Holding, Working, Syncing
<1>3. UNCHANGED <<manager, slots, syncCtr, runCtr, ages>>
  BY DEF Refuse, Begin, StartRunning, SetOutput, SetReport, Complete, FailJob
<1>4. \/ \E s \in Unfinished \cup Terminal : UpdateStatus(j, s)
      \/ \E w \in {"output", "report", "garbled"} : SetResult(j, w)
      \/ UNCHANGED <<job, disk, faults>>
  BY DEF Refuse, Begin, StartRunning, SetOutput, SetReport, Complete, FailJob,
         Unfinished, Terminal
<1>5. job' \in [Jobs -> Entry] /\ disk' \in [Jobs -> Entry] /\ faults' \in Nat
  <2>1. CASE \E s \in Unfinished \cup Terminal : UpdateStatus(j, s)
    BY <2>1, UpdateIsChange, UpdatedType, ChangeEffect
  <2>2. CASE \E w \in {"output", "report", "garbled"} : SetResult(j, w)
    BY <2>2, ResultType, ChangeEffect DEF SetResult
  <2>3. CASE UNCHANGED <<job, disk, faults>>
    BY <2>3 DEF TypeOK
  <2> QED
    BY <1>4, <2>1, <2>2, <2>3
<1> QED
  BY <1>2, <1>3, <1>5 DEF TypeOK, ages

LEMMA SyncStepType ==
    ASSUME TypeOK, NEW t \in Tasks, SyncStep(t) PROVE TypeOK'
<1>1. \/ \E p \in {"clear", "fetch", "fetching"} : Goto(t, p)
      \/ SyncSucceeds(t)
      \/ SyncFails(t)
  BY DEF SyncStep, WriteSyncConfig, ClearSyncContainer, LaunchSync, SyncReturns
<1>2. PICK p \in JobPcs \cup FetchPcs : Goto(t, p) /\ (t \in Fetches => p \in FetchPcs)
  <2>1. CASE \E p \in {"clear", "fetch", "fetching"} : Goto(t, p)
    BY <2>1 DEF JobPcs, Holding, Working, FetchPcs, Syncing
  <2>2. CASE SyncSucceeds(t)
    BY <2>2, JobIsNoFetch DEF SyncSucceeds, JobPcs, Holding, Working, FetchPcs
  <2>3. CASE SyncFails(t)
    BY <2>3, JobIsNoFetch DEF SyncFails, JobPcs, Holding, Working, FetchPcs
  <2> QED
    BY <1>1, <2>1, <2>2, <2>3
<1>3. /\ pc' \in [Tasks -> JobPcs \cup FetchPcs]
      /\ \A f \in Fetches : pc'[f] \in FetchPcs
  BY <1>2, GotoType
<1>4. UNCHANGED <<manager, job, disk, slots, runCtr, ages>>
  BY DEF SyncStep, WriteSyncConfig, ClearSyncContainer, LaunchSync, SyncReturns, SyncGoesOn
<1>5. syncCtr' \in Tasks \cup {NoTask} /\ faults' \in Nat
  BY DEF TypeOK, SyncStep, WriteSyncConfig, ClearSyncContainer, LaunchSync, SyncReturns, Fault
<1> QED
  BY <1>3, <1>4, <1>5 DEF TypeOK, ages

LEMMA OtherStepType ==
    ASSUME TypeOK,
           \/ \E j \in Jobs : Submit(j) \/ FiveMinutesPass(j) \/ DayPasses(j)
           \/ \E f \in Fetches : SyncBacktestData(RequestOf[f])
           \/ OrphanEnds \/ Prune \/ Crash \/ Restart
    PROVE  TypeOK'
<1>1. ASSUME NEW j \in Jobs, Submit(j) PROVE TypeOK'
  <2> DEFINE e == [Absent EXCEPT !.status = "pending"]
  <2>1. e \in Entry
    BY DEF Entry, Absent, Unfinished
  <2>2. job' \in [Jobs -> Entry] /\ disk' \in [Jobs -> Entry] /\ faults' \in Nat
    BY <1>1, <2>1, PutEffect DEF Submit, TypeOK
  <2>3. /\ pc' \in [Tasks -> JobPcs \cup FetchPcs]
        /\ \A f \in Fetches : pc'[f] \in FetchPcs
    BY <1>1, GotoType, JobIsNoFetch DEF Submit, JobPcs
  <2> QED
    BY <1>1, <2>2, <2>3 DEF Submit, TypeOK, ages
<1>2. ASSUME NEW j \in Jobs, FiveMinutesPass(j) \/ DayPasses(j) PROVE TypeOK'
  BY <1>2 DEF TypeOK, FiveMinutesPass, DayPasses
<1>3. ASSUME NEW r, SyncBacktestData(r) PROVE TypeOK'
  <2>1. /\ pc' \in [Tasks -> JobPcs \cup FetchPcs]
        /\ \A f \in Fetches : pc'[f] \in FetchPcs
    BY <1>3 DEF SyncBacktestData, TypeOK, FetchPcs, Syncing, Tasks
  <2> QED
    BY <1>3, <2>1 DEF SyncBacktestData, TypeOK, ages
<1>4. CASE OrphanEnds
  BY <1>4 DEF OrphanEnds, TypeOK, ages
<1>5. CASE Prune
  BY <1>5, EntryFacts DEF Prune, TypeOK, ages
<1>6. CASE Crash
  <2>1. disk' \in [Jobs -> Entry] /\ faults' \in Nat
    BY <1>6, EntryFacts DEF Crash, TypeOK, Fault
  <2>2. /\ pc' \in [Tasks -> JobPcs \cup FetchPcs]
        /\ \A f \in Fetches : pc'[f] \in FetchPcs
    BY <1>6 DEF Crash, TypeOK, JobPcs, FetchPcs, Tasks
  <2>3. job' \in [Jobs -> Entry]
    BY <1>6, EntryFacts DEF Crash
  <2> QED
    BY <1>6, <2>1, <2>2, <2>3 DEF Crash, TypeOK, ages
<1>7. CASE Restart
  <2>1. job' \in [Jobs -> Entry] /\ disk' \in [Jobs -> Entry]
    BY <1>7, EntryFacts, LoadedFacts DEF Restart, TypeOK
  <2> QED
    BY <1>7, <2>1 DEF Restart, TypeOK, ages
<1> QED
  BY <1>1, <1>2, <1>3, <1>4, <1>5, <1>6, <1>7

LEMMA NextType ==
    ASSUME TypeOK, slots' \in Nat, [Next]_vars PROVE TypeOK'
<1>1. CASE UNCHANGED vars
  BY <1>1 DEF vars, TypeOK
<1>2. CASE Next
  BY <1>2, PlainStepType, UpdateStepType, SyncStepType, OtherStepType DEF Next, JobStep
<1> QED
  BY <1>1, <1>2

-----------------------------------------------------------------------------
(* The slots                                                               *)

Executors == {j \in Jobs : pc[j] \in Holding}

LEMMA ExecutorsFinite ==
    /\ IsFiniteSet(Executors) /\ Cardinality(Executors) \in Nat
    /\ IsFiniteSet(Executors') /\ Cardinality(Executors') \in Nat
BY TasksAssumption, FS_Subset, FS_CardinalityType DEF Executors

LEMMA EntersExecution ==
    ASSUME TypeOK, NEW j \in Jobs, NEW p \in Holding, pc[j] \notin Holding, Goto(j, p)
    PROVE  Cardinality(Executors') = Cardinality(Executors) + 1
<1>1. Executors' = Executors \cup {j} /\ j \notin Executors
  BY DEF TypeOK, Goto, Executors, Tasks
<1> QED
  BY <1>1, ExecutorsFinite, FS_AddElement

LEMMA LeavesExecution ==
    ASSUME TypeOK, NEW j \in Jobs, NEW p, p \notin Holding, pc[j] \in Holding, Goto(j, p)
    PROVE  Cardinality(Executors') = Cardinality(Executors) - 1
<1>1. Executors' = Executors \ {j} /\ j \in Executors
  BY DEF TypeOK, Goto, Executors, Tasks
<1> QED
  BY <1>1, ExecutorsFinite, FS_RemoveElement

LEMMA StaysWhereItIs ==
    ASSUME TypeOK, NEW t \in Tasks, NEW p, Goto(t, p),
           t \in Jobs => (pc[t] \in Holding <=> p \in Holding)
    PROVE  Executors' = Executors
BY DEF TypeOK, Goto, Executors, Tasks

LEMMA InitSlots == Init => SlotsAccounted
<1> SUFFICES ASSUME Init PROVE SlotsAccounted
  OBVIOUS
<1>1. {j \in Jobs : pc[j] \in Holding} = {}
  BY DEF Init, Holding, Working, Syncing, Tasks
<1> QED
  BY <1>1, FS_EmptySet, SlotsAssumption DEF Init, SlotsAccounted

LEMMA JobStepSlots ==
    ASSUME TypeOK, SlotsAccounted, NEW j \in Jobs, JobStep(j)
    PROVE  slots' \in Nat /\ SlotsAccounted'
<1>1. slots = Cardinality(Executors) /\ slots <= Slots /\ slots \in Nat /\ Slots \in Nat
  BY SlotsAssumption DEF SlotsAccounted, Executors, TypeOK
<1>2. SUFFICES slots' \in Nat /\ slots' = Cardinality(Executors') /\ slots' <= Slots
  BY DEF SlotsAccounted, Executors
<1>3. CASE AcquireSlot(j)
  <2>1. pc[j] \notin Holding
    BY <1>3 DEF AcquireSlot, Holding, Working, Syncing
  <2>2. CASE slots < Slots /\ slots' = slots + 1 /\ Goto(j, "begin")
    <3>1. Cardinality(Executors') = Cardinality(Executors) + 1
      BY <2>1, <2>2, EntersExecution DEF Holding, Working
    <3> QED
      BY <1>1, <2>2, <3>1
  <2>3. CASE UNCHANGED slots /\ Goto(j, "refuse")
    <3>1. Executors' = Executors
      BY <2>1, <2>3, StaysWhereItIs, JobIsNoFetch DEF Holding, Working, Syncing
    <3> QED
      BY <1>1, <2>3, <3>1
  <2> QED
    BY <1>3, <2>2, <2>3 DEF AcquireSlot
<1>4. CASE ReleaseSlot(j)
  <2>1. Cardinality(Executors') = Cardinality(Executors) - 1
    BY <1>4, LeavesExecution DEF ReleaseSlot, Holding, Working, Syncing
  <2>2. Cardinality(Executors') \in Nat
    BY ExecutorsFinite
  <2> QED
    BY <1>1, <1>4, <2>1, <2>2 DEF ReleaseSlot
<1>5. CASE Refuse(j)
  <2>1. Executors' = Executors /\ UNCHANGED slots
    BY <1>5, StaysWhereItIs, JobIsNoFetch DEF Refuse, Holding, Working, Syncing
  <2> QED
    BY <1>1, <2>1
<1>6. CASE \/ Begin(j) \/ StartRunning(j) \/ BuildBacktestYAML(j) \/ LaunchBacktest(j)
           \/ BacktestReturns(j) \/ SetOutput(j) \/ SetReport(j) \/ Complete(j) \/ FailJob(j)
  <2>1. PICK p \in Holding : Goto(j, p)
    BY <1>6 DEF Begin, StartRunning, BuildBacktestYAML, LaunchBacktest, BacktestReturns,
                SetOutput, SetReport, Complete, FailJob, Holding, Working, Syncing
  <2>2. pc[j] \in Holding /\ UNCHANGED slots
    BY <1>6 DEF Begin, StartRunning, BuildBacktestYAML, LaunchBacktest, BacktestReturns,
                SetOutput, SetReport, Complete, FailJob, Holding, Working, Syncing
  <2>3. Executors' = Executors
    BY <2>1, <2>2, StaysWhereItIs, JobIsNoFetch
  <2> QED
    BY <1>1, <2>2, <2>3
<1> QED
  BY <1>3, <1>4, <1>5, <1>6 DEF JobStep

\* Every other step leaves each executor one, but for the death of the process.
LEMMA NextSlots ==
    ASSUME TypeOK, SlotsAccounted, [Next]_vars
    PROVE  slots' \in Nat /\ SlotsAccounted'
<1>1. slots = Cardinality(Executors) /\ slots <= Slots /\ slots \in Nat /\ Slots \in Nat
  BY SlotsAssumption DEF SlotsAccounted, Executors, TypeOK
<1>2. ASSUME Executors' = Executors, UNCHANGED slots
      PROVE  slots' \in Nat /\ SlotsAccounted'
  BY <1>1, <1>2 DEF SlotsAccounted, Executors
<1>3. ASSUME NEW j \in Jobs, JobStep(j) PROVE slots' \in Nat /\ SlotsAccounted'
  BY <1>3, JobStepSlots
<1>4. ASSUME NEW j \in Jobs, Submit(j) PROVE slots' \in Nat /\ SlotsAccounted'
  <2>1. Executors' = Executors /\ UNCHANGED slots
    BY <1>4, StaysWhereItIs, JobIsNoFetch DEF Submit, Holding, Working, Syncing
  <2> QED
    BY <1>2, <2>1
<1>5. ASSUME NEW t \in Tasks, SyncStep(t) PROVE slots' \in Nat /\ SlotsAccounted'
  <2>1. pc[t] \in Holding /\ UNCHANGED slots
    BY <1>5 DEF SyncStep, WriteSyncConfig, ClearSyncContainer, LaunchSync, SyncReturns,
                SyncGoesOn, Holding, Working, Syncing
  <2>2. PICK p : Goto(t, p) /\ (t \in Jobs => p \in Holding)
    BY <1>5 DEF SyncStep, WriteSyncConfig, ClearSyncContainer, LaunchSync, SyncReturns,
                SyncSucceeds, SyncFails, Holding, Working, Syncing
  <2>3. Executors' = Executors
    BY <2>1, <2>2, StaysWhereItIs
  <2> QED
    BY <1>2, <2>1, <2>3
<1>6. ASSUME NEW r, SyncBacktestData(r) PROVE slots' \in Nat /\ SlotsAccounted'
  <2>1. UNCHANGED slots /\ \A j \in Jobs : pc'[j] = pc[j]
    BY <1>6, JobIsNoFetch DEF SyncBacktestData
  <2> QED
    BY <1>2, <2>1 DEF Executors
<1>7. CASE Crash
  <2>1. {j \in Jobs : pc'[j] \in Holding} = {}
    BY <1>7, JobIsNoFetch DEF Crash, InFlight, JobPcs, Holding, Working, Syncing
  <2> QED
    BY <1>1, <1>7, <2>1, FS_EmptySet DEF Crash, SlotsAccounted
<1>8. CASE \/ \E j \in Jobs : FiveMinutesPass(j) \/ DayPasses(j)
           \/ OrphanEnds \/ Prune \/ Restart \/ UNCHANGED vars
  <2>1. UNCHANGED <<pc, slots>>
    BY <1>8 DEF FiveMinutesPass, DayPasses, OrphanEnds, Prune, Restart, vars
  <2> QED
    BY <1>2, <2>1 DEF Executors
<1> QED
  BY <1>3, <1>4, <1>5, <1>6, <1>7, <1>8 DEF Next

LEMMA Slotted == Spec => [](TypeOK /\ SlotsAccounted)
<1>1. Init => TypeOK /\ SlotsAccounted
  BY InitType, InitSlots
<1>2. TypeOK /\ SlotsAccounted /\ [Next]_vars => (TypeOK /\ SlotsAccounted)'
  BY NextType, NextSlots
<1> QED
  BY <1>1, <1>2, PTL DEF Spec

\* The variables stay in their types, among them slots in Nat: a token is
\* never given back twice (ReleaseSlot's receive from sem would block).
THEOREM TypeCorrect == Spec => []TypeOK
BY Slotted, PTL

\* A slot is lost by no way out of execute and given to no second executor:
\* the tokens in the semaphore are the executors, at most as many as slots.
THEOREM SlotsCounted == Spec => []SlotsAccounted
BY Slotted, PTL

-----------------------------------------------------------------------------
(* Where an executor is tells the status of its job                        *)

Running == {"config", "launch", "running", "output", "report", "complete"}

PhaseOf(j) ==
    /\ pc[j] = "idle" => job[j].status = "absent" /\ disk[j].status = "absent"
    /\ pc[j] \in {"admit", "refuse", "begin"} => job[j].status = "pending"
    /\ pc[j] \in Syncing => job[j].status = "downloading"
    /\ pc[j] = "ready" => job[j].status \in {"pending", "downloading"}
    /\ pc[j] \in Running => job[j].status = "running"
    /\ pc[j] = "fail" => job[j].status \in Unfinished
    /\ pc[j] = "release" => job[j].status \notin Unfinished
    /\ manager = "down" => pc[j] \notin InFlight

Phases == \A j \in Jobs : PhaseOf(j)

LEMMA InitPhases == Init => Phases
BY DEF Init, Phases, PhaseOf, Tasks, Absent, Syncing, Running, InFlight

\* A step of one job leaves the others where they were.
LEMMA PhaseFrame ==
    ASSUME TypeOK, Phases, NEW j \in Tasks, NEW p, Goto(j, p), UNCHANGED manager,
           \A k \in Jobs : k # j => job'[k] = job[k] /\ disk'[k] = disk[k],
           j \in Jobs => PhaseOf(j)'
    PROVE  Phases'
<1>1. ASSUME NEW k \in Jobs, k # j PROVE PhaseOf(k)'
  <2>1. pc'[k] = pc[k] /\ job'[k] = job[k] /\ disk'[k] = disk[k]
    BY <1>1, JobIsNoFetch DEF TypeOK, Goto
  <2> QED
    BY <1>1, <2>1 DEF Phases, PhaseOf
<1> QED
  BY <1>1 DEF Phases

\* An executor that works finds its job in the store: the update is made.
LEMMA UpdateMade ==
    ASSUME TypeOK, Phases, NEW j \in Jobs, NEW s \in Unfinished \cup Terminal,
           pc[j] \in Working \cup {"refuse"}, UpdateStatus(j, s)
    PROVE  /\ job' = [job EXCEPT ![j] = Updated(j, s)]
           /\ job'[j].status = s /\ job'[j].got = job[j].got
           /\ \A k \in Jobs \ {j} : job'[k] = job[k] /\ disk'[k] = disk[k]
           /\ disk'[j] \in {job'[j], disk[j], Torn}
           /\ "disk" \notin FaultKinds /\ Marshals(job'[j]) => disk'[j] = job'[j]
<1>1. Stored(j)
  BY DEF Phases, PhaseOf, Working, Syncing, Running, Unfinished, Stored
<1>2. job' = [job EXCEPT ![j] = Updated(j, s)]
  BY <1>1, UpdateIsChange, UpdatedType, ChangeEffect
<1>3. job'[j] = Updated(j, s)
  BY <1>2 DEF TypeOK
<1>4. \A k \in Jobs \ {j} : job'[k] = job[k] /\ disk'[k] = disk[k]
  BY <1>2, UpdateIsChange, UpdatedType, ChangeEffect DEF TypeOK
<1>5. /\ disk'[j] \in {Updated(j, s), disk[j], Torn}
      /\ "disk" \notin FaultKinds /\ Marshals(Updated(j, s)) => disk'[j] = Updated(j, s)
  BY <1>1, UpdateIsChange, UpdatedType, ChangeEffect
<1> QED
  BY <1>2, <1>3, <1>4, <1>5, UpdatedType

LEMMA ResultMade ==
    ASSUME TypeOK, Phases, NEW j \in Jobs, NEW w \in {"output", "report", "garbled"},
           pc[j] \in Working, SetResult(j, w)
    PROVE  /\ job' = [job EXCEPT ![j] = [job[j] EXCEPT !.got = w]]
           /\ job'[j].status = job[j].status /\ job'[j].got = w
           /\ \A k \in Jobs \ {j} : job'[k] = job[k] /\ disk'[k] = disk[k]
           /\ disk'[j] \in {job'[j], disk[j], Torn}
           /\ "disk" \notin FaultKinds /\ Marshals(job'[j]) => disk'[j] = job'[j]
<1> DEFINE e == [job[j] EXCEPT !.got = w]
<1>1. Stored(j)
  BY DEF Phases, PhaseOf, Working, Syncing, Running, Unfinished, Stored
<1>2. e \in Entry /\ Change(j, e)
  BY ResultType DEF SetResult
<1>3. /\ job' = [job EXCEPT ![j] = e]
      /\ \A k \in Jobs \ {j} : disk'[k] = disk[k]
      /\ disk'[j] \in {e, disk[j], Torn}
      /\ "disk" \notin FaultKinds /\ Marshals(e) => disk'[j] = e
  BY <1>1, <1>2, ChangeEffect
<1>4. job'[j] = e /\ \A k \in Jobs \ {j} : job'[k] = job[k]
  BY <1>3 DEF TypeOK
<1>5. e.status = job[j].status /\ e.got = w
  BY ResultType
<1> HIDE DEF e
<1>6. /\ job'[j].status = job[j].status /\ job'[j].got = w
      /\ \A k \in Jobs \ {j} : job'[k] = job[k] /\ disk'[k] = disk[k]
      /\ disk'[j] \in {job'[j], disk[j], Torn}
      /\ "disk" \notin FaultKinds /\ Marshals(job'[j]) => disk'[j] = job'[j]
  BY <1>3, <1>4, <1>5
<1> QED
  BY <1>3, <1>6 DEF e

LEMMA InFlightPcs ==
    /\ Working \cup {"release", "admit", "refuse"} = InFlight
    /\ Working = Syncing \cup Running \cup {"begin", "ready", "fail"}
BY DEF InFlight, JobPcs, Holding, Working, Syncing, Running

LEMMA JobStepPhases ==
    ASSUME TypeOK, Phases, NEW j \in Jobs, JobStep(j) PROVE Phases'
<1>1. UNCHANGED manager /\ j \in Tasks
  BY JobIsNoFetch DEF JobStep, AcquireSlot, Refuse, Begin, StartRunning, BuildBacktestYAML,
        LaunchBacktest, BacktestReturns, SetOutput, SetReport, Complete, FailJob, ReleaseSlot
<1>2. PhaseOf(j) /\ pc[j] \in InFlight
  BY InFlightPcs DEF Phases, JobStep, AcquireSlot, Refuse, Begin, StartRunning, BuildBacktestYAML,
        LaunchBacktest, BacktestReturns, SetOutput, SetReport, Complete, FailJob, ReleaseSlot,
        Working
<1>3. manager # "down"
  BY <1>2 DEF PhaseOf
\* Towards a new pc with the entry unchanged, or updated to status s.
<1>4. ASSUME NEW p, Goto(j, p), UNCHANGED <<job, disk>>, p # "idle",
             p \in {"admit", "refuse", "begin"} => job[j].status = "pending",
             p \in Syncing => job[j].status = "downloading",
             p = "ready" => job[j].status \in {"pending", "downloading"},
             p \in Running => job[j].status = "running",
             p = "fail" => job[j].status \in Unfinished,
             p = "release" => job[j].status \notin Unfinished
      PROVE  Phases'
  <2>1. pc'[j] = p
    BY <1>1, <1>4 DEF Goto, TypeOK
  <2>2. PhaseOf(j)'
    BY <1>1, <1>3, <1>4, <2>1 DEF PhaseOf
  <2> QED
    BY <1>1, <1>4, <2>2, PhaseFrame
<1>5. ASSUME NEW s \in Unfinished \cup Terminal, UpdateStatus(j, s),
             pc[j] \in Working \cup {"refuse"},
             NEW p, Goto(j, p), p \notin {"idle", "admit", "refuse", "begin"},
             p \in Syncing => s = "downloading",
             p = "ready" => s \in {"pending", "downloading"},
             p \in Running => s = "running",
             p = "fail" => s \in Unfinished,
             p = "release" => s \notin Unfinished
      PROVE  Phases'
  <2>1. pc'[j] = p
    BY <1>1, <1>5 DEF Goto, TypeOK
  <2>2. job'[j].status = s /\ \A k \in Jobs \ {j} : job'[k] = job[k] /\ disk'[k] = disk[k]
    BY <1>5, UpdateMade
  <2>3. PhaseOf(j)'
    BY <1>1, <1>3, <1>5, <2>1, <2>2 DEF PhaseOf
  <2> QED
    BY <1>1, <1>5, <2>2, <2>3, PhaseFrame
<1>6. ASSUME NEW w \in {"output", "report", "garbled"}, SetResult(j, w), pc[j] \in Running,
             NEW p \in Running, Goto(j, p)
      PROVE  Phases'
  <2>1. pc'[j] = p
    BY <1>1, <1>6 DEF Goto, TypeOK
  <2>2. pc[j] \in Working /\ job[j].status = "running"
    BY <1>2, <1>6, InFlightPcs DEF PhaseOf
  <2>3. job'[j].status = "running" /\ \A k \in Jobs \ {j} : job'[k] = job[k] /\ disk'[k] = disk[k]
    BY <1>6, <2>2, ResultMade
  <2>4. PhaseOf(j)'
    BY <1>1, <1>3, <1>6, <2>1, <2>3 DEF PhaseOf, Running, Syncing
  <2> QED
    BY <1>1, <1>6, <2>3, <2>4, PhaseFrame
<1>7. CASE AcquireSlot(j)
  BY <1>2, <1>4, <1>7 DEF AcquireSlot, PhaseOf, Syncing, Running
<1>8. CASE Refuse(j)
  BY <1>5, <1>8 DEF Refuse, Syncing, Running, Terminal
<1>9. CASE Begin(j)
  <2>1. CASE UpdateStatus(j, "downloading") /\ Goto(j, "yaml")
    BY <1>5, <1>9, <2>1 DEF Begin, Syncing, Running, Unfinished, Working
  <2>2. CASE UNCHANGED <<job, disk>> /\ Goto(j, "ready")
    BY <1>2, <1>4, <1>9, <2>2 DEF Begin, PhaseOf, Syncing, Running
  <2> QED
    BY <1>9, <2>1, <2>2 DEF Begin
<1>10. CASE StartRunning(j)
  BY <1>5, <1>10 DEF StartRunning, Syncing, Running, Unfinished, Working
<1>11. CASE BuildBacktestYAML(j) \/ LaunchBacktest(j) \/ BacktestReturns(j)
  <2>1. job[j].status = "running" /\ UNCHANGED <<job, disk>>
    BY <1>2, <1>11 DEF BuildBacktestYAML, LaunchBacktest, BacktestReturns, PhaseOf, Running
  <2>2. PICK p \in Running \cup {"fail"} : Goto(j, p)
    BY <1>11 DEF BuildBacktestYAML, LaunchBacktest, BacktestReturns, Running
  <2> QED
    BY <1>4, <2>1, <2>2 DEF Running, Syncing, Unfinished
<1>12. CASE SetOutput(j)
  BY <1>6, <1>12 DEF SetOutput, Running
<1>13. CASE SetReport(j)
  <2>1. CASE SetResult(j, "report") \/ SetResult(j, "garbled")
    BY <1>6, <1>13, <2>1 DEF SetReport, Running
  <2>2. CASE UNCHANGED <<job, disk>>
    BY <1>2, <1>4, <1>13, <2>2 DEF SetReport, PhaseOf, Running, Syncing
  <2> QED
    BY <1>13, <2>1, <2>2 DEF SetReport
<1>14. CASE Complete(j)
  BY <1>5, <1>14 DEF Complete, Syncing, Running, Unfinished, Terminal, Working
<1>15. CASE FailJob(j)
  BY <1>5, <1>15 DEF FailJob, Syncing, Running, Unfinished, Terminal, Working
<1>16. CASE ReleaseSlot(j)
  BY <1>4, <1>16 DEF ReleaseSlot, Syncing, Running
<1> QED
  BY <1>7, <1>8, <1>9, <1>10, <1>11, <1>12, <1>13, <1>14, <1>15, <1>16 DEF JobStep

LEMMA NextPhases ==
    ASSUME TypeOK, Phases, [Next]_vars PROVE Phases'
<1>1. ASSUME NEW j \in Jobs, JobStep(j) PROVE Phases'
  BY <1>1, JobStepPhases
<1>2. ASSUME NEW j \in Jobs, Submit(j) PROVE Phases'
  <2>1. /\ job' = [job EXCEPT ![j] = [Absent EXCEPT !.status = "pending"]]
        /\ \A k \in Jobs \ {j} : disk'[k] = disk[k]
    <3>1. [Absent EXCEPT !.status = "pending"] \in Entry
      BY DEF Entry, Absent, Unfinished
    <3> QED
      BY <1>2, <3>1, PutEffect DEF Submit
  <2>2. job'[j].status = "pending" /\ \A k \in Jobs \ {j} : job'[k] = job[k]
    BY <2>1 DEF TypeOK, Absent
  <2>3. Goto(j, "admit") /\ pc'[j] = "admit" /\ manager = "up" /\ manager' = manager
    BY <1>2, JobIsNoFetch DEF Submit, Goto, TypeOK
  <2>4. PhaseOf(j)'
    BY <2>2, <2>3 DEF PhaseOf, Syncing, Running
  <2> QED
    BY <2>1, <2>2, <2>3, <2>4, JobIsNoFetch, PhaseFrame
<1>3. ASSUME NEW t \in Tasks, SyncStep(t) PROVE Phases'
  <2>1. UNCHANGED <<manager, job, disk>> /\ pc[t] \in Syncing
    BY <1>3 DEF SyncStep, WriteSyncConfig, ClearSyncContainer, LaunchSync, SyncReturns,
                SyncGoesOn, Syncing
  <2>2. PICK p : Goto(t, p) /\ (t \in Jobs => p \in Syncing \cup {"ready", "fail"})
    BY <1>3 DEF SyncStep, WriteSyncConfig, ClearSyncContainer, LaunchSync, SyncReturns,
                SyncSucceeds, SyncFails, Syncing
  <2>3. ASSUME t \in Jobs PROVE PhaseOf(t)'
    <3>1. pc'[t] = p
      BY <2>2 DEF Goto, TypeOK
    <3>2. job[t].status = "downloading" /\ manager # "down"
      BY <2>1, <2>3, InFlightPcs DEF Phases, PhaseOf
    <3> QED
      BY <2>1, <2>2, <2>3, <3>1, <3>2 DEF PhaseOf, Syncing, Running, Unfinished
  <2> QED
    BY <2>1, <2>2, <2>3, PhaseFrame
<1>4. ASSUME NEW r, SyncBacktestData(r) PROVE Phases'
  <2>1. UNCHANGED <<manager, job, disk>> /\ \A j \in Jobs : pc'[j] = pc[j]
    BY <1>4, JobIsNoFetch DEF SyncBacktestData
  <2> QED
    BY <2>1 DEF Phases, PhaseOf
<1>5. CASE Prune
  <2>1. ASSUME NEW j \in Jobs PROVE PhaseOf(j)'
    <3>1. PhaseOf(j) /\ UNCHANGED <<manager, pc>>
      BY <1>5 DEF Phases, Prune
    <3>2. \/ job'[j] = job[j] /\ disk'[j] = disk[j]
          \/ job[j].status \in Terminal /\ job'[j] = Absent /\ disk'[j] = Absent
      BY <1>5 DEF Prune, Prunable
    <3> QED
      BY <3>1, <3>2 DEF PhaseOf, Absent, Terminal, Unfinished
  <2> QED
    BY <2>1 DEF Phases
<1>6. CASE Crash
  <2>1. ASSUME NEW j \in Jobs PROVE PhaseOf(j)'
    <3>1. job'[j].status = "absent" /\ pc'[j] = IF pc[j] \in InFlight THEN "lost" ELSE pc[j]
      BY <1>6, JobIsNoFetch, EntryFacts DEF Crash
    <3>2. pc[j] = "idle" => disk'[j].status = "absent"
      BY <1>6 DEF Crash, TypeOK, Phases, PhaseOf, Writing
    <3>3. pc'[j] \notin InFlight
      BY <3>1 DEF InFlight
    <3> QED
      BY <3>1, <3>2, <3>3, InFlightPcs DEF PhaseOf, InFlight, Unfinished
  <2> QED
    BY <2>1 DEF Phases
<1>7. CASE Restart
  <2>1. ASSUME NEW j \in Jobs PROVE PhaseOf(j)'
    <3>1. PhaseOf(j) /\ manager = "down" /\ manager' = "up" /\ pc' = pc
      BY <1>7 DEF Phases, Restart
    <3>2. /\ job'[j] \in {Absent, Loaded(j)}
          /\ disk'[j] \in {Absent, disk[j], Loaded(j)}
      BY <1>7 DEF Restart
    <3>3. disk[j].status = "absent" => Loaded(j) = disk[j]
      BY LoadedFacts DEF TypeOK
    <3>4. pc[j] = "idle" => job'[j].status = "absent" /\ disk'[j].status = "absent"
      BY <3>1, <3>2, <3>3, EntryFacts DEF PhaseOf
    <3>5. pc[j] \notin InFlight
      BY <3>1 DEF PhaseOf
    <3> QED
      BY <3>1, <3>4, <3>5, InFlightPcs DEF PhaseOf, Running, Syncing
  <2> QED
    BY <2>1 DEF Phases
<1>8. CASE \/ \E j \in Jobs : FiveMinutesPass(j) \/ DayPasses(j)
           \/ OrphanEnds \/ UNCHANGED vars
  <2>1. UNCHANGED <<manager, job, disk, pc>>
    BY <1>8 DEF FiveMinutesPass, DayPasses, OrphanEnds, vars
  <2> QED
    BY <2>1 DEF Phases, PhaseOf
<1> QED
  BY <1>1, <1>2, <1>3, <1>4, <1>5, <1>6, <1>7, <1>8 DEF Next

LEMMA Phased == Spec => [](TypeOK /\ Phases)
<1>1. Init => Phases
  BY InitPhases
<1>2. TypeOK /\ TypeOK' /\ Phases /\ [Next]_vars => Phases'
  BY NextPhases
<1> QED
  BY <1>1, <1>2, TypeCorrect, PTL DEF Spec

\* While its executor works a job is in the store and unfinished, and an
\* executor that gives up its slot has concluded its job: between them the
\* prune takes nothing away, and no error return of execute lacks its FailJob.
THEOREM VerdictOnce == Spec => []OneVerdict
<1>1. Phases => OneVerdict
  BY DEF Phases, PhaseOf, OneVerdict, Working, Syncing, Running, Unfinished
<1> QED
  BY <1>1, Phased, PTL

-----------------------------------------------------------------------------
(* A job that is completed, in memory or on disk, has its output and no    *)
(* container.                                                              *)

Concluded == {"release", "done", "lost"}

WholeOf(j) ==
    /\ job[j].status = "completed" =>
         job[j].got # "nothing" /\ j \notin runCtr /\ pc[j] \in Concluded
    /\ disk[j].status = "completed" =>
         disk[j].got # "nothing" /\ j \notin runCtr /\ pc[j] \in Concluded
    /\ pc[j] \in {"report", "complete"} => job[j].got # "nothing"
    /\ pc[j] \in {"output", "report", "complete"} => j \notin runCtr

Whole == \A j \in Jobs : WholeOf(j)

LEMMA InitWhole == Init => Whole
BY DEF Init, Whole, WholeOf, Tasks, Absent

\* What touches one task's pc and one job's entry leaves the other jobs whole.
LEMMA WholeFrame ==
    ASSUME TypeOK, Whole, NEW t \in Tasks, NEW p, Goto(t, p), runCtr' \subseteq runCtr \cup {t},
           \A k \in Jobs : k # t => job'[k] = job[k] /\ disk'[k] = disk[k],
           t \in Jobs => WholeOf(t)'
    PROVE  Whole'
<1>1. ASSUME NEW k \in Jobs, k # t PROVE WholeOf(k)'
  <2>1. pc'[k] = pc[k] /\ job'[k] = job[k] /\ disk'[k] = disk[k]
    BY <1>1, JobIsNoFetch DEF TypeOK, Goto
  <2> QED
    BY <1>1, <2>1 DEF Whole, WholeOf
<1> QED
  BY <1>1 DEF Whole

LEMMA JobStepWhole ==
    ASSUME TypeOK, Phases, Whole, NEW j \in Jobs, JobStep(j) PROVE Whole'
<1>1. j \in Tasks /\ WholeOf(j) /\ PhaseOf(j)
  BY JobIsNoFetch DEF Whole, Phases
<1>2. \A p : Goto(j, p) => pc'[j] = p
  BY <1>1 DEF Goto, TypeOK
\* Towards p, the entry unchanged and the container perhaps gone.
<1>3. ASSUME NEW p, Goto(j, p), UNCHANGED <<job, disk>>, runCtr' \subseteq runCtr \cup {j},
             p \in {"report", "complete"} => job[j].got # "nothing",
             p \in {"output", "report", "complete"} => j \notin runCtr',
             job[j].status # "completed", disk[j].status # "completed"
      PROVE  Whole'
  <2>1. WholeOf(j)'
    BY <1>2, <1>3 DEF WholeOf
  <2> QED
    BY <1>1, <1>3, <2>1, WholeFrame
\* Towards p, the entry updated to status s.
<1>4. ASSUME NEW s \in Unfinished \cup Terminal, UpdateStatus(j, s),
             pc[j] \in Working \cup {"refuse"}, UNCHANGED runCtr,
             NEW p, Goto(j, p), p \notin {"output", "report", "complete"},
             s = "completed" => job[j].got # "nothing" /\ j \notin runCtr /\ p \in Concluded
      PROVE  Whole'
  <2>1. /\ job'[j].status = s /\ job'[j].got = job[j].got
        /\ \A k \in Jobs \ {j} : job'[k] = job[k] /\ disk'[k] = disk[k]
        /\ disk'[j] \in {job'[j], disk[j], Torn}
    BY <1>4, UpdateMade
  <2>2. disk[j].status # "completed"
    BY <1>1, <1>4 DEF WholeOf, Concluded, Working, Syncing
  <2>3. disk'[j].status = "completed" => s = "completed" /\ disk'[j].got = job[j].got
    BY <2>1, <2>2, EntryFacts
  <2>4. WholeOf(j)'
    BY <1>2, <1>4, <2>1, <2>3 DEF WholeOf
  <2> QED
    BY <1>1, <1>4, <2>1, <2>4, WholeFrame
\* The part of the result w comes in.
<1>5. ASSUME NEW w \in {"output", "report", "garbled"}, SetResult(j, w), UNCHANGED runCtr,
             NEW p, Goto(j, p), pc[j] \in {"output", "report"}
      PROVE  Whole'
  <2>1. pc[j] \in Working /\ pc[j] \notin Concluded /\ job[j].status = "running" /\ j \notin runCtr
    BY <1>1, <1>5 DEF PhaseOf, WholeOf, Working, Running, Concluded
  <2>2. /\ job'[j].status = "running" /\ job'[j].got # "nothing"
        /\ \A k \in Jobs \ {j} : job'[k] = job[k] /\ disk'[k] = disk[k]
        /\ disk'[j] \in {job'[j], disk[j], Torn}
    BY <1>5, <2>1, ResultMade
  <2>3. disk'[j].status # "completed"
    BY <1>1, <2>1, <2>2, EntryFacts DEF WholeOf
  <2>4. WholeOf(j)'
    BY <1>5, <2>1, <2>2, <2>3 DEF WholeOf
  <2> QED
    BY <1>1, <1>5, <2>2, <2>4, WholeFrame
<1>6. pc[j] \notin Concluded => job[j].status # "completed" /\ disk[j].status # "completed"
  BY <1>1 DEF WholeOf
<1>7. CASE AcquireSlot(j)
  BY <1>3, <1>6, <1>7 DEF AcquireSlot, Concluded
<1>8. CASE Refuse(j)
  BY <1>4, <1>8 DEF Refuse, Terminal, Concluded
<1>9. CASE Begin(j)
  <2>1. CASE UpdateStatus(j, "downloading") /\ Goto(j, "yaml")
    BY <1>4, <1>9, <2>1 DEF Begin, Unfinished, Working
  <2>2. CASE UNCHANGED <<job, disk>> /\ Goto(j, "ready")
    BY <1>3, <1>6, <1>9, <2>2 DEF Begin, Concluded
  <2> QED
    BY <1>9, <2>1, <2>2 DEF Begin
<1>10. CASE StartRunning(j)
  BY <1>4, <1>10 DEF StartRunning, Unfinished, Working
<1>11. CASE BuildBacktestYAML(j) \/ LaunchBacktest(j)
  BY <1>3, <1>6, <1>11 DEF BuildBacktestYAML, LaunchBacktest, Concluded
<1>12. CASE BacktestReturns(j)
  <2>1. UNCHANGED <<job, disk>> /\ pc[j] \notin Concluded
    BY <1>12 DEF BacktestReturns, Concluded
  <2>2. CASE runCtr' = runCtr \ {j} /\ Goto(j, "output")
    BY <1>3, <1>6, <2>1, <2>2
  <2>3. CASE runCtr' \in {runCtr, runCtr \ {j}} /\ Goto(j, "fail")
    BY <1>3, <1>6, <2>1, <2>3
  <2> QED
    BY <1>12, <2>2, <2>3 DEF BacktestReturns
<1>13. CASE SetOutput(j)
  BY <1>5, <1>13 DEF SetOutput
<1>14. CASE SetReport(j)
  <2>1. CASE SetResult(j, "report") \/ SetResult(j, "garbled")
    BY <1>5, <1>14, <2>1 DEF SetReport
  <2>2. CASE UNCHANGED <<job, disk>>
    BY <1>1, <1>3, <1>6, <1>14, <2>2 DEF SetReport, WholeOf, Concluded
  <2> QED
    BY <1>14, <2>1, <2>2 DEF SetReport
<1>15. CASE Complete(j)
  BY <1>1, <1>4, <1>15 DEF Complete, Terminal, Working, WholeOf, Concluded
<1>16. CASE FailJob(j)
  BY <1>4, <1>16 DEF FailJob, Terminal, Working
<1>17. CASE ReleaseSlot(j)
  <2>1. WholeOf(j)'
    BY <1>1, <1>2, <1>17 DEF ReleaseSlot, WholeOf, Concluded
  <2> QED
    BY <1>1, <1>17, <2>1, WholeFrame DEF ReleaseSlot
<1> QED
  BY <1>7, <1>8, <1>9, <1>10, <1>11, <1>12, <1>13, <1>14, <1>15, <1>16, <1>17 DEF JobStep

LEMMA NextWhole ==
    ASSUME TypeOK, Phases, Whole, [Next]_vars PROVE Whole'
<1>1. ASSUME NEW j \in Jobs, JobStep(j) PROVE Whole'
  BY <1>1, JobStepWhole
<1>2. ASSUME NEW j \in Jobs, Submit(j) PROVE Whole'
  <2>1. [Absent EXCEPT !.status = "pending"] \in Entry
    BY DEF Entry, Absent, Unfinished
  <2>2. /\ job' = [job EXCEPT ![j] = [Absent EXCEPT !.status = "pending"]]
        /\ \A k \in Jobs \ {j} : disk'[k] = disk[k]
        /\ disk'[j] \in {[Absent EXCEPT !.status = "pending"], disk[j], Torn}
    BY <1>2, <2>1, PutEffect DEF Submit
  <2>3. job'[j].status = "pending" /\ \A k \in Jobs \ {j} : job'[k] = job[k]
    BY <2>2 DEF TypeOK, Absent
  <2>4. disk[j].status = "absent" /\ Goto(j, "admit") /\ pc'[j] = "admit"
    BY <1>2, JobIsNoFetch DEF Submit, Goto, TypeOK, Phases, PhaseOf
  <2>5. disk'[j].status # "completed"
    BY <2>2, <2>4, EntryFacts DEF Absent
  <2>6. WholeOf(j)'
    BY <2>3, <2>4, <2>5 DEF WholeOf
  <2> QED
    BY <1>2, <2>2, <2>3, <2>4, <2>6, JobIsNoFetch, WholeFrame DEF Submit
<1>3. ASSUME NEW t \in Tasks, SyncStep(t) PROVE Whole'
  <2>1. UNCHANGED <<runCtr, job, disk>> /\ pc[t] \in Syncing
    BY <1>3 DEF SyncStep, WriteSyncConfig, ClearSyncContainer, LaunchSync, SyncReturns,
                SyncGoesOn, Syncing
  <2>2. PICK p : Goto(t, p) /\ (t \in Jobs => p \in Syncing \cup {"ready", "fail"})
    BY <1>3 DEF SyncStep, WriteSyncConfig, ClearSyncContainer, LaunchSync, SyncReturns,
                SyncSucceeds, SyncFails, Syncing
  <2>3. ASSUME t \in Jobs PROVE WholeOf(t)'
    <3>1. pc'[t] = p
      BY <2>2 DEF Goto, TypeOK
    <3>2. job[t].status # "completed" /\ disk[t].status # "completed"
      BY <2>1, <2>3 DEF Whole, WholeOf, Concluded, Syncing
    <3> QED
      BY <2>1, <2>2, <2>3, <3>1, <3>2 DEF WholeOf, Syncing
  <2> QED
    BY <2>1, <2>2, <2>3, WholeFrame
<1>4. ASSUME NEW r, SyncBacktestData(r) PROVE Whole'
  <2>1. UNCHANGED <<runCtr, job, disk>> /\ \A j \in Jobs : pc'[j] = pc[j]
    BY <1>4, JobIsNoFetch DEF SyncBacktestData
  <2> QED
    BY <2>1 DEF Whole, WholeOf
<1>5. CASE Prune
  <2>1. ASSUME NEW j \in Jobs PROVE WholeOf(j)'
    <3>1. WholeOf(j) /\ PhaseOf(j) /\ UNCHANGED <<runCtr, pc>>
      BY <1>5 DEF Whole, Phases, Prune
    <3>2. \/ job'[j] = job[j] /\ disk'[j] = disk[j]
          \/ job[j].status \in Terminal /\ job'[j] = Absent /\ disk'[j] = Absent
      BY <1>5 DEF Prune, Prunable
    <3> QED
      BY <3>1, <3>2 DEF WholeOf, PhaseOf, Absent, Terminal, Running
  <2> QED
    BY <2>1 DEF Whole
<1>6. CASE Crash
  <2>1. ASSUME NEW j \in Jobs PROVE WholeOf(j)'
    <3>1. WholeOf(j) /\ UNCHANGED runCtr
      BY <1>6 DEF Whole, Crash
    <3>2. job'[j].status = "absent" /\ pc'[j] = IF pc[j] \in InFlight THEN "lost" ELSE pc[j]
      BY <1>6, JobIsNoFetch, EntryFacts DEF Crash
    <3>3. disk'[j] \in {disk[j], Torn}
      BY <1>6 DEF Crash, TypeOK
    <3>4. pc'[j] \notin {"output", "report", "complete"} /\ (pc[j] \in Concluded => pc'[j] \in Concluded)
      BY <3>2, InFlightPcs DEF Running, Concluded
    <3> QED
      BY <3>1, <3>2, <3>3, <3>4, EntryFacts DEF WholeOf
  <2> QED
    BY <2>1 DEF Whole
<1>7. CASE Restart
  <2>1. ASSUME NEW j \in Jobs PROVE WholeOf(j)'
    <3>1. WholeOf(j) /\ PhaseOf(j) /\ manager = "down" /\ UNCHANGED <<runCtr, pc>>
      BY <1>7 DEF Whole, Phases, Restart
    <3>2. /\ job'[j] \in {Absent, Loaded(j)}
          /\ disk'[j] \in {Absent, disk[j], Loaded(j)}
      BY <1>7 DEF Restart
    <3>3. Loaded(j).status = "completed" => Loaded(j) = disk[j]
      BY LoadedFacts, EntryFacts DEF TypeOK, Entry
    <3>4. pc[j] \notin Running
      BY <3>1, InFlightPcs DEF PhaseOf
    <3> QED
      BY <3>1, <3>2, <3>3, <3>4, EntryFacts DEF WholeOf, Running
  <2> QED
    BY <2>1 DEF Whole
<1>8. CASE \/ \E j \in Jobs : FiveMinutesPass(j) \/ DayPasses(j)
           \/ OrphanEnds \/ UNCHANGED vars
  <2>1. UNCHANGED <<job, disk, pc>> /\ runCtr' \subseteq runCtr
    BY <1>8 DEF FiveMinutesPass, DayPasses, OrphanEnds, vars
  <2> QED
    BY <2>1 DEF Whole, WholeOf
<1> QED
  BY <1>1, <1>2, <1>3, <1>4, <1>5, <1>6, <1>7, <1>8 DEF Next

\* Whenever a poll answers "completed", before or after any restart, the
\* container has ended and the output is there: execute stores the output
\* before the status, and no lost or torn write turns that order round.
THEOREM ResultWithVerdict == Spec => []CompletedIsWhole
<1>1. TypeOK /\ Whole => CompletedIsWhole
  <2> SUFFICES ASSUME TypeOK, Whole, NEW j \in Jobs, Known(j) = "completed"
               PROVE  /\ j \notin runCtr
                      /\ (IF manager = "up" THEN job[j] ELSE Loaded(j)).got # "nothing"
    BY DEF CompletedIsWhole
  <2>1. CASE manager = "up"
    BY <2>1 DEF Known, Whole, WholeOf
  <2>2. CASE manager # "up"
    <3>1. Loaded(j).status = "completed"
      BY <2>2 DEF Known
    <3>2. Loaded(j) = disk[j]
      BY <3>1, LoadedFacts, EntryFacts DEF TypeOK, Entry
    <3> QED
      BY <2>2, <3>1, <3>2 DEF Whole, WholeOf
  <2> QED
    BY <2>1, <2>2
<1>2. Init => Whole
  BY InitWhole
<1>3. (TypeOK /\ Phases) /\ Whole /\ [Next]_vars => Whole'
  BY NextWhole
<1> QED
  BY <1>1, <1>2, <1>3, Phased, PTL DEF Spec

-----------------------------------------------------------------------------
(* The refinement of JobStatus, as long as every write reaches the file:   *)
(* with one that does not, a restart may take a verdict back.              *)

FilesHold == FaultKinds \subseteq {"crash"}

\* The file is what memory holds, but for a job that a restart has reset.
MirrorOf(j) ==
    /\ job[j].status # "torn" /\ disk[j].status # "torn"
    /\ Marshals(job[j]) /\ Marshals(disk[j])
    /\ manager = "up" =>
         \/ disk[j] = job[j]
         \/ /\ job[j].status = "pending" /\ disk[j].status \in Unfinished
            /\ pc[j] \notin InFlight

Mirror == \A j \in Jobs : MirrorOf(j)

LEMMA InitMirror == Init => Mirror
BY EntryFacts DEF Init, Mirror, MirrorOf

LEMMA MirrorFrame ==
    ASSUME TypeOK, Mirror, NEW t \in Tasks, NEW p, Goto(t, p), UNCHANGED manager,
           \A k \in Jobs : k # t => job'[k] = job[k] /\ disk'[k] = disk[k],
           t \in Jobs => job'[t].status # "torn" /\ Marshals(job'[t]) /\ disk'[t] = job'[t]
    PROVE  Mirror'
<1>1. ASSUME NEW k \in Jobs, k # t PROVE MirrorOf(k)'
  <2>1. pc'[k] = pc[k] /\ job'[k] = job[k] /\ disk'[k] = disk[k]
    BY <1>1, JobIsNoFetch DEF TypeOK, Goto
  <2> QED
    BY <1>1, <2>1 DEF Mirror, MirrorOf
<1>2. ASSUME t \in Jobs PROVE MirrorOf(t)'
  BY <1>2 DEF MirrorOf
<1> QED
  BY <1>1, <1>2 DEF Mirror

\* What a step of an executor does to the entry of its job.
JobStepKinds(j) ==
    \/ UNCHANGED <<job, disk>>
    \/ /\ pc[j] \in Working \cup {"refuse"}
       /\ \E s \in Unfinished \cup Terminal : UpdateStatus(j, s)
    \/ /\ pc[j] \in Working
       /\ \E w \in {"output", "report", "garbled"} :
            SetResult(j, w) /\ (w = "garbled" => "report" \in FaultKinds)

LEMMA JobStepIs ==
    ASSUME NEW j \in Jobs, JobStep(j)
    PROVE  /\ JobStepKinds(j) /\ pc[j] \in InFlight /\ UNCHANGED <<manager, old5>>
           /\ \E p : Goto(j, p)
<1> USE DEF JobStepKinds, Unfinished, Terminal, ages
<1>1. CASE AcquireSlot(j) \/ BuildBacktestYAML(j) \/ LaunchBacktest(j)
           \/ BacktestReturns(j) \/ ReleaseSlot(j)
  BY <1>1, InFlightPcs DEF AcquireSlot, BuildBacktestYAML, LaunchBacktest, BacktestReturns,
                           ReleaseSlot, Running
<1>2. CASE Refuse(j)
  BY <1>2, InFlightPcs DEF Refuse
<1>3. CASE Begin(j) \/ StartRunning(j)
  BY <1>3, InFlightPcs DEF Begin, StartRunning
<1>4. CASE SetOutput(j) \/ SetReport(j)
  BY <1>4, InFlightPcs DEF SetOutput, SetReport, Running
<1>5. CASE Complete(j) \/ FailJob(j)
  BY <1>5, InFlightPcs DEF Complete, FailJob, Running
<1> QED
  BY <1>1, <1>2, <1>3, <1>4, <1>5 DEF JobStep

LEMMA SyncStepIs ==
    ASSUME NEW t \in Tasks, SyncStep(t)
    PROVE  /\ pc[t] \in Syncing /\ UNCHANGED <<manager, job, disk, old5>>
           /\ \E p : Goto(t, p)
BY DEF SyncStep, WriteSyncConfig, ClearSyncContainer, LaunchSync, SyncReturns,
       SyncGoesOn, SyncSucceeds, SyncFails, Syncing, ages

LEMMA NextMirror ==
    ASSUME FilesHold, TypeOK, Phases, Mirror, [Next]_vars PROVE Mirror'
<1> USE DEF FilesHold
<1>1. ASSUME NEW j \in Jobs, JobStep(j) PROVE Mirror'
  <2>1. /\ j \in Tasks /\ disk[j] = job[j] /\ job[j].status # "torn" /\ Marshals(job[j])
        /\ UNCHANGED manager /\ \E p : Goto(j, p)
    <3>1. pc[j] \in InFlight /\ manager \in {"up", "down"}
      BY <1>1, JobStepIs DEF TypeOK
    <3>2. manager = "up"
      BY <3>1 DEF Phases, PhaseOf
    <3> QED
      BY <1>1, <3>1, <3>2, JobStepIs, JobIsNoFetch DEF Mirror, MirrorOf
  <2>2. /\ job'[j].status # "torn" /\ Marshals(job'[j]) /\ disk'[j] = job'[j]
        /\ \A k \in Jobs \ {j} : job'[k] = job[k] /\ disk'[k] = disk[k]
    <3>1. CASE UNCHANGED <<job, disk>>
      BY <2>1, <3>1
    <3>2. ASSUME NEW s \in Unfinished \cup Terminal, UpdateStatus(j, s),
                 pc[j] \in Working \cup {"refuse"}
          PROVE  /\ job'[j].status # "torn" /\ Marshals(job'[j]) /\ disk'[j] = job'[j]
                 /\ \A k \in Jobs \ {j} : job'[k] = job[k] /\ disk'[k] = disk[k]
      BY <2>1, <3>2, UpdateMade DEF Unfinished, Terminal, Marshals
    <3>3. ASSUME NEW w \in {"output", "report"}, SetResult(j, w), pc[j] \in Working
          PROVE  /\ job'[j].status # "torn" /\ Marshals(job'[j]) /\ disk'[j] = job'[j]
                 /\ \A k \in Jobs \ {j} : job'[k] = job[k] /\ disk'[k] = disk[k]
      BY <2>1, <3>3, ResultMade DEF Marshals
    <3> QED
      BY <1>1, <3>1, <3>2, <3>3, JobStepIs DEF JobStepKinds
  <2> QED
    BY <2>1, <2>2, MirrorFrame
<1>2. ASSUME NEW j \in Jobs, Submit(j) PROVE Mirror'
  <2>1. [Absent EXCEPT !.status = "pending"] \in Entry
    BY DEF Entry, Absent, Unfinished
  <2>2. /\ job' = [job EXCEPT ![j] = [Absent EXCEPT !.status = "pending"]]
        /\ \A k \in Jobs \ {j} : disk'[k] = disk[k]
        /\ disk'[j] = [Absent EXCEPT !.status = "pending"]
    BY <1>2, <2>1, PutEffect DEF Submit, Absent, Marshals
  <2>3. /\ job'[j] = [Absent EXCEPT !.status = "pending"]
        /\ job'[j].status # "torn" /\ Marshals(job'[j])
        /\ \A k \in Jobs \ {j} : job'[k] = job[k]
    BY <2>2 DEF TypeOK, Absent, Marshals
  <2> QED
    BY <1>2, <2>2, <2>3, JobIsNoFetch, MirrorFrame DEF Submit
<1>3. ASSUME NEW t \in Tasks, SyncStep(t) PROVE Mirror'
  <2>1. ASSUME t \in Jobs PROVE job[t].status # "torn" /\ Marshals(job[t]) /\ disk[t] = job[t]
    BY <1>3, <2>1, SyncStepIs, InFlightPcs DEF TypeOK, Phases, PhaseOf, Mirror, MirrorOf
  <2> QED
    BY <1>3, <2>1, SyncStepIs, MirrorFrame
<1>4. ASSUME NEW r, SyncBacktestData(r) PROVE Mirror'
  <2>1. UNCHANGED <<manager, job, disk>> /\ \A j \in Jobs : pc'[j] = pc[j]
    BY <1>4, JobIsNoFetch DEF SyncBacktestData
  <2> QED
    BY <2>1 DEF Mirror, MirrorOf
<1>5. CASE Prune
  <2>1. ASSUME NEW j \in Jobs PROVE MirrorOf(j)'
    <3>1. MirrorOf(j) /\ UNCHANGED <<manager, pc>>
      BY <1>5 DEF Mirror, Prune
    <3>2. \/ job'[j] = job[j] /\ disk'[j] = disk[j]
          \/ job'[j] = Absent /\ disk'[j] = Absent
      BY <1>5 DEF Prune
    <3> QED
      BY <3>1, <3>2, EntryFacts DEF MirrorOf
  <2> QED
    BY <2>1 DEF Mirror
<1>6. CASE Crash
  <2>1. manager' = "down" /\ UNCHANGED disk /\ \A j \in Jobs : job'[j] = Absent
    BY <1>6 DEF Crash, Fault
  <2> QED
    BY <2>1, EntryFacts DEF Mirror, MirrorOf
<1>7. CASE Restart
  <2>1. ASSUME NEW j \in Jobs PROVE MirrorOf(j)'
    <3> DEFINE gone == Prunable(j, Loaded(j))
    <3>1. MirrorOf(j) /\ PhaseOf(j) /\ manager = "down" /\ pc' = pc /\ disk[j] \in Entry
      BY <1>7 DEF Mirror, Phases, Restart, TypeOK
    <3>2. /\ job'[j] = IF gone THEN Absent ELSE Loaded(j)
          /\ disk'[j] = IF gone THEN Absent
                        ELSE IF Loaded(j).status \in {"absent", "pending"}
                        THEN disk[j] ELSE Loaded(j)
      BY <1>7 DEF Restart
    <3> HIDE DEF gone
    <3>3. disk[j].status \in {"absent"} \cup Unfinished \cup Terminal /\ pc'[j] \notin InFlight
      BY <3>1 DEF MirrorOf, PhaseOf, Entry
    <3>4. CASE gone
      BY <3>2, <3>4, EntryFacts DEF MirrorOf
    <3>5. CASE ~gone /\ disk[j].status \in Unfinished
      <4>1. Loaded(j).status \in {"pending", "failed"} /\ Marshals(Loaded(j))
        BY <3>1, <3>5, LoadedFacts DEF TypeOK, MirrorOf, Marshals
      <4> QED
        BY <3>1, <3>2, <3>3, <3>5, <4>1 DEF MirrorOf, Unfinished
    <3>6. CASE ~gone /\ disk[j].status \in {"absent"} \cup Terminal
      <4>1. Loaded(j) = disk[j]
        BY <3>6, LoadedFacts DEF TypeOK
      <4> QED
        BY <3>1, <3>2, <3>6, <4>1 DEF MirrorOf
    <3> QED
      BY <3>3, <3>4, <3>5, <3>6
  <2> QED
    BY <2>1 DEF Mirror
<1>8. CASE \/ \E j \in Jobs : FiveMinutesPass(j) \/ DayPasses(j)
           \/ OrphanEnds \/ UNCHANGED vars
  <2>1. UNCHANGED <<manager, job, disk, pc>>
    BY <1>8 DEF FiveMinutesPass, DayPasses, OrphanEnds, vars
  <2> QED
    BY <2>1 DEF Mirror, MirrorOf
<1> QED
  BY <1>1, <1>2, <1>3, <1>4, <1>5, <1>6, <1>7, <1>8 DEF Next

-----------------------------------------------------------------------------
(* Each step of the store, seen through the poll                           *)

\* One job's answer becomes s, the others stay.
LEMMA AnswerChanges ==
    ASSUME NEW j \in Jobs, NEW s, Known(j)' = s,
           \A k \in Jobs : k # j => Known(k)' = Known(k)
    PROVE  KnownStatus' = [KnownStatus EXCEPT ![j] = s]
BY DEF KnownStatus

LEMMA AnswerStays ==
    ASSUME \A k \in Jobs : Known(k)' = Known(k) PROVE UNCHANGED KnownStatus
BY DEF KnownStatus

LEMMA InitPromise == Init => Promise!Init
BY DEF Init, Promise!Init, KnownStatus, Known, Absent

\* While the process is up a step that keeps it up is seen in memory only.
LEMMA KnownUp ==
    ASSUME manager = "up", UNCHANGED manager, NEW k \in Jobs
    PROVE  Known(k) = job[k].status /\ Known(k)' = job'[k].status
BY DEF Known

LEMMA JobStepPromise ==
    ASSUME TypeOK, Phases, NEW j \in Jobs, JobStep(j)
    PROVE  Promise!Next \/ UNCHANGED KnownStatus
<1>1. PhaseOf(j) /\ manager = "up" /\ UNCHANGED manager
  BY JobStepIs DEF TypeOK, Phases, PhaseOf
<1>2. \A k \in Jobs : Known(k) = job[k].status /\ Known(k)' = job'[k].status
  BY <1>1, KnownUp
<1>3. KnownStatus[j] = job[j].status
  BY <1>2 DEF KnownStatus
<1>4. CASE UNCHANGED <<job, disk>>
  BY <1>2, <1>4, AnswerStays
<1>5. ASSUME NEW w \in {"output", "report", "garbled"}, SetResult(j, w), pc[j] \in Working
      PROVE  UNCHANGED KnownStatus
  BY <1>2, <1>5, ResultMade, AnswerStays
<1>6. ASSUME NEW s \in Unfinished \cup Terminal, UpdateStatus(j, s),
             pc[j] \in Working \cup {"refuse"}
      PROVE  KnownStatus' = [KnownStatus EXCEPT ![j] = s]
  BY <1>2, <1>6, UpdateMade, AnswerChanges
<1>7. CASE Refuse(j) \/ FailJob(j)
  <2>1. KnownStatus' = [KnownStatus EXCEPT ![j] = "failed"]
    BY <1>6, <1>7 DEF Refuse, FailJob, Terminal, Working
  <2>2. job[j].status \in Unfinished
    BY <1>1, <1>7 DEF Refuse, FailJob, PhaseOf, Unfinished
  <2> QED
    BY <1>3, <2>1, <2>2 DEF Promise!Next, Promise!Fail, Promise!Unfinished, Unfinished
<1>8. CASE Begin(j)
  <2>1. CASE UpdateStatus(j, "downloading")
    <3>1. KnownStatus' = [KnownStatus EXCEPT ![j] = "downloading"]
      BY <1>6, <1>8, <2>1 DEF Begin, Unfinished, Working
    <3>2. job[j].status = "pending"
      BY <1>1, <1>8 DEF Begin, PhaseOf
    <3> QED
      BY <1>3, <3>1, <3>2 DEF Promise!Next, Promise!Advance
  <2> QED
    BY <1>4, <1>8, <2>1 DEF Begin
<1>9. CASE StartRunning(j)
  <2>1. KnownStatus' = [KnownStatus EXCEPT ![j] = "running"]
    BY <1>6, <1>9 DEF StartRunning, Unfinished, Working
  <2>2. job[j].status \in {"pending", "downloading"}
    BY <1>1, <1>9 DEF StartRunning, PhaseOf
  <2> QED
    BY <1>3, <2>1, <2>2 DEF Promise!Next, Promise!Advance
<1>10. CASE Complete(j)
  <2>1. KnownStatus' = [KnownStatus EXCEPT ![j] = "completed"]
    BY <1>6, <1>10 DEF Complete, Terminal, Working
  <2>2. job[j].status = "running"
    BY <1>1, <1>10 DEF Complete, PhaseOf, Running
  <2> QED
    BY <1>3, <2>1, <2>2 DEF Promise!Next, Promise!Complete
<1>11. CASE SetOutput(j) \/ SetReport(j)
  BY <1>4, <1>5, <1>11 DEF SetOutput, SetReport, Working
<1>12. CASE AcquireSlot(j) \/ BuildBacktestYAML(j) \/ LaunchBacktest(j)
            \/ BacktestReturns(j) \/ ReleaseSlot(j)
  BY <1>4, <1>12 DEF AcquireSlot, BuildBacktestYAML, LaunchBacktest, BacktestReturns, ReleaseSlot
<1> QED
  BY <1>7, <1>8, <1>9, <1>10, <1>11, <1>12 DEF JobStep

\* While it is down, time may turn what the next process will say of a job
\* from "pending" to "failed".
LEMMA AgePromise ==
    ASSUME TypeOK, NEW j \in Jobs, FiveMinutesPass(j) \/ DayPasses(j)
    PROVE  Promise!Next \/ UNCHANGED KnownStatus
<1>1. UNCHANGED <<manager, job, disk>> /\ old5' \in {old5, old5 \cup {j}}
  BY DEF FiveMinutesPass, DayPasses
<1>2. \A k \in Jobs : k # j => Known(k)' = Known(k)
  BY <1>1 DEF Known, Loaded
<1>3. CASE Known(j)' = Known(j)
  BY <1>2, <1>3, AnswerStays
<1>4. CASE Known(j)' # Known(j)
  <2>1. manager # "up"
    BY <1>1, <1>4 DEF Known
  <2>2. Known(j) = Loaded(j).status /\ Known(j)' = Loaded(j)'.status
    BY <1>1, <2>1 DEF Known
  <2>3. disk \in [Jobs -> Entry] /\ disk' \in [Jobs -> Entry]
    BY <1>1 DEF TypeOK
  <2>4. disk[j].status \in Unfinished
    <3>1. disk[j].status \in {"absent", "torn"} \cup Unfinished \cup Terminal
      BY <2>3 DEF Entry
    <3>2. disk[j].status = "torn" => Loaded(j) = Absent /\ Loaded(j)' = Absent
      BY <1>1 DEF Loaded, Unfinished
    <3>3. disk[j].status \in Terminal \cup {"absent"} => Loaded(j) = disk[j] /\ Loaded(j)' = disk[j]
      BY <1>1 DEF Loaded, Unfinished, Terminal
    <3>4. Loaded(j)'.status # Loaded(j).status
      BY <1>4, <2>2
    <3>5. disk[j].status # "torn"
      BY <3>2, <3>4
    <3>6. disk[j].status \notin Terminal \cup {"absent"}
      BY <3>3, <3>4
    <3> QED
      BY <3>1, <3>5, <3>6
  <2>5. /\ Loaded(j).status \in {"pending", "failed"}
        /\ Loaded(j).status = "failed" <=> disk[j].started /\ j \in old5
    BY <2>3, <2>4, LoadedFacts
  <2>6. Loaded(j)'.status = IF disk[j].started /\ j \in old5' THEN "failed" ELSE "pending"
    <3>1. disk'[j] \in Entry /\ disk'[j] = disk[j]
      BY <1>1, <2>3
    <3>2. CASE disk[j].started /\ j \in old5'
      BY <2>4, <3>1, <3>2 DEF Loaded, Entry, Unfinished, Terminal
    <3>3. CASE ~(disk[j].started /\ j \in old5')
      BY <2>4, <3>1, <3>3 DEF Loaded, Entry, Unfinished, Terminal
    <3> QED
      BY <3>2, <3>3
  <2>7. Known(j) = "pending" /\ Known(j)' = "failed"
    BY <1>1, <1>4, <2>2, <2>5, <2>6
  <2>8. KnownStatus' = [KnownStatus EXCEPT ![j] = "failed"] /\ KnownStatus[j] = "pending"
    BY <1>2, <2>7, AnswerChanges DEF KnownStatus
  <2> QED
    BY <2>8 DEF Promise!Next, Promise!Fail, Promise!Unfinished
<1> QED
  BY <1>3, <1>4

LEMMA CrashPromise ==
    ASSUME FilesHold, TypeOK, Mirror, Crash PROVE Promise!Next
<1>1. manager = "up" /\ manager' = "down" /\ disk' = disk /\ old5' = old5
  BY DEF FilesHold, Crash, Fault, ages
<1>2. \A j \in Jobs : Loaded(j)' = Loaded(j)
  BY <1>1 DEF Loaded
<1>3. ASSUME NEW j \in Jobs
      PROVE  IF Known(j) \in Unfinished THEN Known(j)' \in {"pending", "failed"}
             ELSE Known(j)' = Known(j) /\ Known(j) \in {"absent"} \cup Terminal
  <2>1. Known(j) = job[j].status /\ Known(j)' = Loaded(j).status
    BY <1>1, <1>2 DEF Known
  <2>2. job[j].status \in {"absent"} \cup Unfinished \cup Terminal
    BY DEF TypeOK, Entry, Mirror, MirrorOf
  <2>3. disk[j] = job[j] \/ (job[j].status = "pending" /\ disk[j].status \in Unfinished)
    BY <1>1 DEF Mirror, MirrorOf
  <2>4. CASE job[j].status \in Unfinished
    <3>1. disk[j].status \in Unfinished
      BY <2>3, <2>4
    <3> QED
      BY <2>1, <2>4, <3>1, LoadedFacts DEF TypeOK
  <2>5. CASE job[j].status \notin Unfinished
    <3>1. disk[j] = job[j] /\ job[j].status \in {"absent"} \cup Terminal
      BY <2>2, <2>3, <2>5 DEF Unfinished
    <3>2. Loaded(j) = disk[j]
      BY <3>1, LoadedFacts DEF TypeOK
    <3> QED
      BY <2>1, <2>5, <3>1, <3>2
  <2> QED
    BY <2>4, <2>5
<1>4. KnownStatus' \in [Jobs -> Promise!Statuses]
  BY <1>3 DEF KnownStatus, Promise!Statuses, Promise!Terminal, Promise!Unfinished, Terminal, Unfinished
<1>5. \A j \in Jobs : IF KnownStatus[j] \in Promise!Unfinished
                      THEN KnownStatus'[j] \in {"pending", "failed"}
                      ELSE KnownStatus'[j] = KnownStatus[j]
  BY <1>3 DEF KnownStatus, Promise!Unfinished, Unfinished
<1> QED
  BY <1>4, <1>5 DEF Promise!Next, Promise!Interrupt

\* Prune, and the prune at the end of loadPersisted.
LEMMA PrunePromise ==
    ASSUME Prune \/ Restart PROVE Promise!Next
<1>1. PICK S \in SUBSET Jobs :
        \A j \in Jobs : IF j \in S THEN Known(j) \in Terminal /\ Known(j)' = "absent"
                        ELSE Known(j)' = Known(j)
  <2>1. CASE Prune
    <3> DEFINE S == {j \in Jobs : Prunable(j, job[j])}
    <3>1. \A j \in Jobs : Known(j) = job[j].status /\ Known(j)' = job'[j].status
      BY <2>1, KnownUp DEF Prune
    <3>2. \A j \in Jobs : job'[j] = IF j \in S THEN Absent ELSE job[j]
      BY <2>1 DEF Prune
    <3>3. S \in SUBSET Jobs /\ \A j \in S : job[j].status \in Terminal
      BY DEF Prunable
    <3> HIDE DEF S
    <3>4. \A j \in Jobs : IF j \in S THEN Known(j) \in Terminal /\ Known(j)' = "absent"
                          ELSE Known(j)' = Known(j)
      BY <3>1, <3>2, <3>3, EntryFacts
    <3> QED
      BY <3>3, <3>4
  <2>2. CASE Restart
    <3> DEFINE S == {j \in Jobs : Prunable(j, Loaded(j))}
    <3>1. \A j \in Jobs : Known(j) = Loaded(j).status /\ Known(j)' = job'[j].status
      BY <2>2 DEF Restart, Known
    <3>2. \A j \in Jobs : job'[j] = IF j \in S THEN Absent ELSE Loaded(j)
      BY <2>2 DEF Restart
    <3>3. S \in SUBSET Jobs /\ \A j \in S : Loaded(j).status \in Terminal
      BY DEF Prunable
    <3> HIDE DEF S
    <3>4. \A j \in Jobs : IF j \in S THEN Known(j) \in Terminal /\ Known(j)' = "absent"
                          ELSE Known(j)' = Known(j)
      BY <3>1, <3>2, <3>3, EntryFacts
    <3> QED
      BY <3>3, <3>4
  <2> QED
    BY <2>1, <2>2
<1>2. /\ \A j \in S : KnownStatus[j] \in Promise!Terminal
      /\ KnownStatus' = [j \in Jobs |-> IF j \in S THEN "absent" ELSE KnownStatus[j]]
  BY <1>1 DEF KnownStatus, Promise!Terminal, Terminal
<1> QED
  BY <1>2 DEF Promise!Next, Promise!Prune

LEMMA NextPromise ==
    ASSUME FilesHold, TypeOK, Phases, Mirror, [Next]_vars
    PROVE  Promise!Next \/ UNCHANGED KnownStatus
<1>1. ASSUME NEW j \in Jobs, JobStep(j) PROVE Promise!Next \/ UNCHANGED KnownStatus
  BY <1>1, JobStepPromise
<1>2. ASSUME NEW j \in Jobs, Submit(j) PROVE Promise!Next
  <2>1. job' = [job EXCEPT ![j] = [Absent EXCEPT !.status = "pending"]]
    BY <1>2 DEF Submit, Put
  <2>2. job'[j].status = "pending" /\ \A k \in Jobs \ {j} : job'[k] = job[k]
    BY <2>1 DEF TypeOK, Absent
  <2>3. \A k \in Jobs : Known(k) = job[k].status /\ Known(k)' = job'[k].status
    BY <1>2, KnownUp DEF Submit
  <2>4. KnownStatus[j] = "absent"
    BY <1>2, <2>3 DEF Submit, Phases, PhaseOf, KnownStatus
  <2>5. KnownStatus' = [KnownStatus EXCEPT ![j] = "pending"]
    BY <2>2, <2>3, AnswerChanges
  <2> QED
    BY <2>4, <2>5 DEF Promise!Next, Promise!Submit
<1>3. CASE \/ \E t \in Tasks : SyncStep(t)
           \/ \E f \in Fetches : SyncBacktestData(RequestOf[f])
           \/ OrphanEnds \/ UNCHANGED vars
  <2>1. UNCHANGED <<manager, job, disk, old5>>
    BY <1>3, SyncStepIs DEF SyncBacktestData, OrphanEnds, vars, ages
  <2> QED
    BY <2>1, AnswerStays DEF Known, Loaded
<1>4. ASSUME NEW j \in Jobs, FiveMinutesPass(j) \/ DayPasses(j)
      PROVE  Promise!Next \/ UNCHANGED KnownStatus
  BY <1>4, AgePromise
<1>5. CASE Crash
  BY <1>5, CrashPromise
<1>6. CASE Prune \/ Restart
  BY <1>6, PrunePromise
<1> QED
  BY <1>1, <1>2, <1>3, <1>4, <1>5, <1>6 DEF Next

\* The store implements what JobStatus promises a client that polls, across any
\* number of crashes and restarts, prunes and refused submissions: no verdict it
\* has answered is taken back, and only finished jobs are forgotten.
THEOREM StoreKeepsItsWord == ASSUME FilesHold PROVE Spec => KeepsItsWord
<1>1. Init => Promise!Init /\ Mirror
  BY InitPromise, InitMirror
<1>2. (TypeOK /\ Phases) /\ Mirror /\ [Next]_vars => Mirror'
  BY FilesHold, NextMirror
<1>3. (TypeOK /\ Phases) /\ Mirror /\ [Next]_vars => [Promise!Next]_KnownStatus
  BY FilesHold, NextPromise
<1> QED
  BY <1>1, <1>2, <1>3, Phased, PTL DEF Spec, KeepsItsWord, Promise!Spec

=============================================================================

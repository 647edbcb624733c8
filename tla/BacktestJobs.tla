---------------------------- MODULE BacktestJobs ----------------------------
(***************************************************************************)
(* Backtests in the manager: the job store and its JSON files, the two     *)
(* execution slots and the executor goroutines (backtest_job.go), the      *)
(* market-data sync every executor and every SyncBacktestData request runs *)
(* in one fixed-name container (container.go), and the restart of the       *)
(* manager.                                                                *)
(*                                                                         *)
(* A task is a goroutine: a job's handler and then its executor, or one    *)
(* symbol of a SyncBacktestData request.  All syncs are of one exchange:   *)
(* another exchange has another container.                                 *)
(***************************************************************************)
EXTENDS Integers, FiniteSets

CONSTANTS
    Jobs,         \* job ids (generateID never repeats one)
    Fetches,      \* the goroutines of SyncBacktestData requests
    RequestOf,    \* RequestOf[f]: the request that fetch f belongs to
    NoTask,       \* not a task
    Slots,        \* capacity of BacktestJobStore.sem (2 in the code)
    SyncSlots,    \* capacity of API.btSyncSem (2 in the code)
    FaultKinds,   \* the faults the environment injects
    MaxFaults     \* bound: injected faults in a behaviour

Tasks == Jobs \cup Fetches

ASSUME TasksAssumption ==
    /\ IsFiniteSet(Jobs) /\ Jobs \cap Fetches = {} /\ NoTask \notin Tasks
    /\ DOMAIN RequestOf = Fetches
ASSUME SlotsAssumption == Slots \in Nat \ {0} /\ SyncSlots \in Nat \ {0}
ASSUME FaultsAssumption == FaultKinds \subseteq {"crash", "torn", "disk", "report"} /\ MaxFaults \in Nat

VARIABLES
    manager,   \* the manager process, "up" or "down"
    job,       \* job[j]: the store's entry in memory
    disk,      \* disk[j]: what <id>.json holds
    slots,     \* tokens in BacktestJobStore.sem
    pc,        \* pc[t]: what task t does next
    syncCtr,   \* whose bt-sync-<exchange> container runs, NoTask if none does
    runCtr,    \* the jobs whose bt-<id> container runs
    old5,      \* jobs started more than 5 minutes ago
    old24,     \* jobs finished more than 24 hours ago
    faults     \* faults injected so far

vars == <<manager, job, disk, slots, pc, syncCtr, runCtr, old5, old24, faults>>
ages == <<old5, old24>>

-----------------------------------------------------------------------------
Unfinished == {"pending", "downloading", "running"}
Terminal   == {"completed", "failed"}

\* A store entry: started and completed tell whether StartedAt and CompletedAt
\* are set, got what of the result is in it ("garbled": a report that is no JSON).
Entry == [status : {"absent", "torn"} \cup Unfinished \cup Terminal,
          started : BOOLEAN, completed : BOOLEAN,
          got : {"nothing", "output", "report", "garbled"}]
Absent == [status |-> "absent", started |-> FALSE, completed |-> FALSE, got |-> "nothing"]
Torn   == [Absent EXCEPT !.status = "torn"]    \* a file that does not parse

Syncing  == {"yaml", "clear", "fetch", "fetching"}
Working  == Syncing \cup {"begin", "ready", "config", "launch", "running",
                          "output", "report", "complete", "fail"}
Holding  == Working \cup {"release"}           \* execute() has not returned
JobPcs   == Holding \cup {"idle", "admit", "refuse", "done", "lost"}
FetchPcs == Syncing \cup {"idle", "done", "failed", "lost"}

TypeOK ==
    /\ manager \in {"up", "down"}
    /\ job \in [Jobs -> Entry] /\ disk \in [Jobs -> Entry]
    /\ slots \in Nat
    /\ pc \in [Tasks -> JobPcs \cup FetchPcs]
    /\ \A f \in Fetches : pc[f] \in FetchPcs
    /\ syncCtr \in Tasks \cup {NoTask}
    /\ runCtr \subseteq Jobs
    /\ old5 \subseteq Jobs /\ old24 \subseteq Jobs
    /\ faults \in Nat

Init ==
    /\ manager = "up"
    /\ job = [j \in Jobs |-> Absent] /\ disk = [j \in Jobs |-> Absent]
    /\ slots = 0
    /\ pc = [t \in Tasks |-> "idle"]
    /\ syncCtr = NoTask
    /\ runCtr = {}
    /\ old5 = {} /\ old24 = {}
    /\ faults = 0

Fault(k) == k \in FaultKinds /\ faults < MaxFaults /\ faults' = faults + 1

Goto(t, p) == pc' = [pc EXCEPT ![t] = p]

-----------------------------------------------------------------------------
(* The store: each operation holds s.mu and writes the file before it      *)
(* returns.  An entry with a garbled report cannot be marshalled, and is    *)
(* not written.  A failed os.WriteFile is ignored; it leaves the old file  *)
(* or a truncated one.                                                     *)

Marshals(e) == e.got # "garbled"

Persist(j, e) ==
    \/ ~Marshals(e) /\ UNCHANGED <<disk, faults>>
    \/ Marshals(e) /\ disk' = [disk EXCEPT ![j] = e] /\ UNCHANGED faults
    \/ /\ Marshals(e) /\ Fault("disk")
       /\ \/ UNCHANGED disk
          \/ disk' = [disk EXCEPT ![j] = Torn]

Put(j, e) == job' = [job EXCEPT ![j] = e] /\ Persist(j, e)

Stored(j) == job[j].status # "absent"

\* Mutant: an update is not persisted.
ChangeUnsaved(j, e) ==
    job' = [job EXCEPT ![j] = IF Stored(j) THEN e ELSE @] /\ UNCHANGED <<disk, faults>>

\* updateStatus, SetOutput and SetReport do nothing for a job that was pruned.
Change(j, e) ==
    IF Stored(j) THEN Put(j, e) ELSE UNCHANGED <<job, disk, faults>>

UpdateStatus(j, s) ==
    Change(j, [job[j] EXCEPT
        !.status = s,
        !.started = @ \/ s \in {"downloading", "running"},
        !.completed = @ \/ s \in {"completed", "failed"}])

SetResult(j, what) == Change(j, [job[j] EXCEPT !.got = what])

\* Mutant: the age of a job is counted from its start, whatever its status.
PrunableByStart(j, e) == j \in old5

Prunable(j, e) == e.status \in Terminal /\ e.completed /\ j \in old24

\* The hourly tick.
Prune ==
    /\ manager = "up"
    /\ LET gone == {j \in Jobs : Prunable(j, job[j])}
       IN  /\ gone # {}
           /\ job' = [j \in Jobs |-> IF j \in gone THEN Absent ELSE job[j]]
           /\ disk' = [j \in Jobs |-> IF j \in gone THEN Absent ELSE disk[j]]
    /\ UNCHANGED <<manager, slots, pc, syncCtr, runCtr, ages, faults>>

-----------------------------------------------------------------------------
(* Submit: Create, then AcquireSlot, which never waits.                    *)

Submit(j) ==
    /\ manager = "up" /\ pc[j] = "idle"
    /\ Put(j, [Absent EXCEPT !.status = "pending"])
    /\ Goto(j, "admit")
    /\ UNCHANGED <<manager, slots, syncCtr, runCtr, ages>>

AcquireSlot(j) ==
    /\ pc[j] = "admit"
    /\ \/ slots < Slots /\ slots' = slots + 1 /\ Goto(j, "begin")
       \/ slots = Slots /\ UNCHANGED slots /\ Goto(j, "refuse")
    /\ UNCHANGED <<manager, job, disk, syncCtr, runCtr, ages, faults>>

\* Mutant: the handler that got no slot releases one.
RefuseReleasing(j) ==
    /\ pc[j] = "refuse"
    /\ UpdateStatus(j, "failed")
    /\ slots' = slots - 1
    /\ Goto(j, "done")
    /\ UNCHANGED <<manager, syncCtr, runCtr, ages>>

Refuse(j) ==
    /\ pc[j] = "refuse"
    /\ UpdateStatus(j, "failed")
    /\ Goto(j, "done")
    /\ UNCHANGED <<manager, slots, syncCtr, runCtr, ages>>

-----------------------------------------------------------------------------
(* execute                                                                 *)

\* NeedSync was decided from the age of the shared database at submission.
Begin(j) ==
    /\ pc[j] = "begin"
    /\ \/ UpdateStatus(j, "downloading") /\ Goto(j, "yaml")
       \/ UNCHANGED <<job, disk, faults>> /\ Goto(j, "ready")
    /\ UNCHANGED <<manager, slots, syncCtr, runCtr, ages>>

StartRunning(j) ==
    /\ pc[j] = "ready"
    /\ UpdateStatus(j, "running")
    /\ Goto(j, "config")
    /\ UNCHANGED <<manager, slots, syncCtr, runCtr, ages>>

\* Mutant: a config error returns without FailJob.
BuildBacktestYAMLForgetting(j) ==
    /\ pc[j] = "config"
    /\ \/ Goto(j, "launch")
       \/ Goto(j, "release")
    /\ UNCHANGED <<manager, job, disk, slots, syncCtr, runCtr, ages, faults>>

BuildBacktestYAML(j) ==
    /\ pc[j] = "config"
    /\ \/ Goto(j, "launch")
       \/ Goto(j, "fail")
    /\ UNCHANGED <<manager, job, disk, slots, syncCtr, runCtr, ages, faults>>

\* docker run --rm --name bt-<id>: refused by the daemon, or started.
LaunchBacktest(j) ==
    /\ pc[j] = "launch"
    /\ \/ runCtr' = runCtr \cup {j} /\ Goto(j, "running")
       \/ UNCHANGED runCtr /\ Goto(j, "fail")
    /\ UNCHANGED <<manager, job, disk, slots, syncCtr, ages, faults>>

\* Mutant: the job is completed before its output is stored.
BacktestReturnsEarly(j) ==
    /\ pc[j] = "running"
    /\ \/ runCtr' = runCtr \ {j} /\ Goto(j, "complete")
       \/ runCtr' = runCtr \ {j} /\ Goto(j, "fail")
       \/ UNCHANGED runCtr /\ Goto(j, "fail")
    /\ UNCHANGED <<manager, job, disk, slots, syncCtr, ages, faults>>

\* The container ends, well or badly, or the CLI is killed after 30 minutes:
\* the container stays then.
BacktestReturns(j) ==
    /\ pc[j] = "running"
    /\ \/ runCtr' = runCtr \ {j} /\ Goto(j, "output")
       \/ runCtr' = runCtr \ {j} /\ Goto(j, "fail")
       \/ UNCHANGED runCtr /\ Goto(j, "fail")
    /\ UNCHANGED <<manager, job, disk, slots, syncCtr, ages, faults>>

SetOutput(j) ==
    /\ pc[j] = "output"
    /\ SetResult(j, "output")
    /\ Goto(j, "report")
    /\ UNCHANGED <<manager, slots, syncCtr, runCtr, ages>>

\* A report that cannot be read is not an error; one that is no JSON is taken.
SetReport(j) ==
    /\ pc[j] = "report"
    /\ \/ SetResult(j, "report")
       \/ "report" \in FaultKinds /\ SetResult(j, "garbled")
       \/ UNCHANGED <<job, disk, faults>>
    /\ Goto(j, "complete")
    /\ UNCHANGED <<manager, slots, syncCtr, runCtr, ages>>

Complete(j) ==
    /\ pc[j] = "complete"
    /\ UpdateStatus(j, "completed")
    /\ Goto(j, "release")
    /\ UNCHANGED <<manager, slots, syncCtr, runCtr, ages>>

\* Mutant: the slot is released on success only.
FailJobKeepingSlot(j) ==
    /\ pc[j] = "fail"
    /\ UpdateStatus(j, "failed")
    /\ Goto(j, "done")
    /\ UNCHANGED <<manager, slots, syncCtr, runCtr, ages>>

FailJob(j) ==
    /\ pc[j] = "fail"
    /\ UpdateStatus(j, "failed")
    /\ Goto(j, "release")
    /\ UNCHANGED <<manager, slots, syncCtr, runCtr, ages>>

ReleaseSlot(j) ==
    /\ pc[j] = "release"
    /\ slots' = slots - 1
    /\ Goto(j, "done")
    /\ UNCHANGED <<manager, job, disk, syncCtr, runCtr, ages, faults>>

-----------------------------------------------------------------------------
(* SyncBacktest: write sync.yaml, docker rm -f the fixed name, docker run. *)

SyncSucceeds(t) == Goto(t, IF t \in Jobs THEN "ready" ELSE "done")
SyncFails(t)    == Goto(t, IF t \in Jobs THEN "fail" ELSE "failed")
SyncGoesOn(t, p) == pc[t] = p /\ UNCHANGED <<manager, job, disk, slots, runCtr, ages>>

WriteSyncConfig(t) ==
    /\ SyncGoesOn(t, "yaml")
    /\ \/ Goto(t, "clear") /\ UNCHANGED faults
       \/ Fault("disk") /\ SyncFails(t)
    /\ UNCHANGED syncCtr

\* removeContainerIfExists: whatever runs under the name is killed; its error
\* is only logged.
ClearSyncContainer(t) ==
    /\ SyncGoesOn(t, "clear")
    /\ syncCtr' \in {syncCtr, NoTask}
    /\ Goto(t, "fetch")
    /\ UNCHANGED faults

\* docker run of the fixed name, refused when the name is taken.
LaunchSync(t) ==
    /\ SyncGoesOn(t, "fetch")
    /\ \/ syncCtr = NoTask /\ syncCtr' = t /\ Goto(t, "fetching")
       \/ UNCHANGED syncCtr /\ SyncFails(t)
    /\ UNCHANGED faults

\* The container ends, well or badly, was removed by another sync, or the CLI
\* is killed after 30 minutes and the container stays.
SyncReturns(t) ==
    /\ SyncGoesOn(t, "fetching")
    /\ \/ syncCtr = t /\ syncCtr' = NoTask /\ SyncSucceeds(t)
       \/ syncCtr = t /\ syncCtr' = NoTask /\ SyncFails(t)
       \/ UNCHANGED syncCtr /\ SyncFails(t)
    /\ UNCHANGED faults

\* SyncBacktestData: one goroutine per symbol, refused while SyncSlots
\* requests are at it.  The slot is held until every goroutine returned.
Active(r) == \E f \in Fetches : RequestOf[f] = r /\ pc[f] \in Syncing

SyncBacktestData(r) ==
    /\ manager = "up"
    /\ \A f \in Fetches : RequestOf[f] = r => pc[f] = "idle"
    /\ Cardinality({q \in {RequestOf[f] : f \in Fetches} : Active(q)}) < SyncSlots
    /\ pc' = [t \in Tasks |-> IF t \in Fetches /\ RequestOf[t] = r THEN "yaml" ELSE pc[t]]
    /\ UNCHANGED <<manager, job, disk, slots, syncCtr, runCtr, ages, faults>>

-----------------------------------------------------------------------------
(* Containers nobody waits for any more, and time                          *)

OrphanEnds ==
    /\ \/ /\ \E j \in runCtr : pc[j] # "running" /\ runCtr' = runCtr \ {j}
          /\ UNCHANGED syncCtr
       \/ /\ syncCtr \in Tasks /\ pc[syncCtr] # "fetching"
          /\ syncCtr' = NoTask /\ UNCHANGED runCtr
    /\ UNCHANGED <<manager, job, disk, slots, pc, ages, faults>>

FiveMinutesPass(j) ==
    /\ j \notin old5 /\ (job[j].started \/ disk[j].started)
    /\ old5' = old5 \cup {j}
    /\ UNCHANGED <<manager, job, disk, slots, pc, syncCtr, runCtr, old24, faults>>

DayPasses(j) ==
    /\ j \notin old24 /\ (job[j].completed \/ disk[j].completed)
    /\ old24' = old24 \cup {j}
    /\ UNCHANGED <<manager, job, disk, slots, pc, syncCtr, runCtr, old5, faults>>

-----------------------------------------------------------------------------
(* The manager dies and comes back.  Containers live on.                   *)

InFlight == JobPcs \ {"idle", "done", "lost"}
Writing  == {"refuse", "begin", "ready", "output", "report", "complete", "fail"}

\* Killed between the truncation and the write of a job's file, it leaves the
\* file empty.
Crash ==
    /\ manager = "up" /\ manager' = "down"
    /\ \/ Fault("crash") /\ UNCHANGED disk
       \/ /\ Fault("torn")
          /\ \E j \in Jobs : pc[j] \in Writing /\ disk' = [disk EXCEPT ![j] = Torn]
    /\ job' = [j \in Jobs |-> Absent]
    /\ slots' = 0
    /\ pc' = [t \in Tasks |-> IF pc[t] \in InFlight THEN "lost" ELSE pc[t]]
    /\ UNCHANGED <<syncCtr, runCtr, ages>>

\* What loadPersisted makes of a file.  A file that does not parse is skipped.
Loaded(j) ==
    LET e == disk[j]
    IN  CASE e.status = "torn" -> Absent
          [] e.status \in Unfinished /\ e.started /\ j \in old5
               -> [e EXCEPT !.status = "failed"]
          [] e.status \in Unfinished /\ ~(e.started /\ j \in old5)
               -> [e EXCEPT !.status = "pending"]
          [] OTHER -> e

\* loadPersisted writes back the jobs it fails, not those it resets, and
\* prunes at the end.
Restart ==
    /\ manager = "down" /\ manager' = "up"
    /\ LET gone == {j \in Jobs : Prunable(j, Loaded(j))}
           kept == {j \in Jobs : Loaded(j).status \in {"absent", "pending"}}
       IN  /\ job' = [j \in Jobs |-> IF j \in gone THEN Absent ELSE Loaded(j)]
           /\ disk' = [j \in Jobs |-> IF j \in gone THEN Absent
                                      ELSE IF j \in kept THEN disk[j] ELSE Loaded(j)]
    /\ UNCHANGED <<slots, pc, syncCtr, runCtr, ages, faults>>

-----------------------------------------------------------------------------
SyncStep(t) ==
    WriteSyncConfig(t) \/ ClearSyncContainer(t) \/ LaunchSync(t) \/ SyncReturns(t)

JobStep(j) ==
    \/ AcquireSlot(j) \/ Refuse(j) \/ Begin(j) \/ StartRunning(j)
    \/ BuildBacktestYAML(j) \/ LaunchBacktest(j) \/ BacktestReturns(j)
    \/ SetOutput(j) \/ SetReport(j) \/ Complete(j) \/ FailJob(j) \/ ReleaseSlot(j)

Next ==
    \/ \E j \in Jobs : Submit(j) \/ JobStep(j)
    \/ \E t \in Tasks : SyncStep(t)
    \/ \E f \in Fetches : SyncBacktestData(RequestOf[f])
    \/ \E j \in Jobs : FiveMinutesPass(j) \/ DayPasses(j)
    \/ OrphanEnds \/ Prune \/ Crash \/ Restart

Spec == Init /\ [][Next]_vars

\* The scheduler runs every goroutine, and the CLI timeout bounds the two
\* steps that wait for a container.
FairSpec ==
    /\ Spec
    /\ \A j \in Jobs : WF_vars(JobStep(j))
    /\ \A t \in Tasks : WF_vars(SyncStep(t))

-----------------------------------------------------------------------------
(* Properties                                                              *)

\* What a poll of the job answers, or would if the manager were up.
Known(j) == IF manager = "up" THEN job[j].status ELSE Loaded(j).status

\* The semaphore counts the executors: AcquireSlot in Submit and the deferred
\* ReleaseSlot in execute pair up whichever way the run ends, and there are
\* never more executors than slots.
SlotsAccounted ==
    /\ slots = Cardinality({j \in Jobs : pc[j] \in Holding})
    /\ slots <= Slots

\* One verdict per run: while its executor works a job is in the store and
\* unfinished (Prune takes no job an executor will still update), and when the
\* executor gives up its slot the job has been concluded.
OneVerdict ==
    \A j \in Jobs :
        /\ pc[j] \in Working => job[j].status \in Unfinished
        /\ pc[j] = "release" => job[j].status \notin Unfinished

\* A client stops polling at "completed" and reads the result: the container has
\* ended by then, and its output is in the store, and on disk for the next
\* process (execute's SetOutput, SetReport, UpdateStatus order and the lost
\* writes of persist; a container may outlive its CLI and its manager).
CompletedIsWhole ==
    \A j \in Jobs : Known(j) = "completed" =>
        /\ j \notin runCtr
        /\ (IF manager = "up" THEN job[j] ELSE Loaded(j)).got # "nothing"

\* The store implements JobStatus across crashes of the manager: no verdict a
\* poll has seen is taken back, and nothing is forgotten but finished jobs.
KnownStatus == [j \in Jobs |-> Known(j)]
Promise == INSTANCE JobStatus WITH status <- KnownStatus
KeepsItsWord == Promise!Spec

\* Every job an executor took up is concluded, unless the manager dies first:
\* each error return of execute has its FailJob.
JobConcludes ==
    \A j \in Jobs : pc[j] = "begin" ~> (Known(j) \in Terminal \/ pc[j] = "lost")

\* A full semaphore does not stay full: no way out of execute keeps the slot.
SlotReturned == (slots = Slots) ~> (slots < Slots)

-----------------------------------------------------------------------------
(* What documents and comments say and the code does not do: TLC refutes   *)
(* both (README, "Disagreements").                                         *)

\* docs/architecture.md:187: stale jobs from previous manager restarts are
\* auto-failed on startup.  loadPersisted sends the recent ones back to
\* "pending", where nothing takes them up.
UnfinishedIsWorked ==
    \A j \in Jobs : manager = "up" /\ job[j].status \in Unfinished =>
        pc[j] \in Working \cup {"admit", "refuse"}

\* container.go:76: removeContainerIfExists clears what a prior run left behind.
\* It removes the container of a sync that another goroutine waits for.
SyncClearsOnlyStale ==
    [][\A t \in Tasks : ClearSyncContainer(t) /\ syncCtr # NoTask /\ syncCtr' = NoTask
            => pc[syncCtr] # "fetching"]_vars

==============================================================================

------------------------- MODULE InstanceLifecycle -------------------------
(***************************************************************************)
(* The life of a strategy instance ("bot") in the manager: HTTP handlers   *)
(* (api.go), start goroutines, the recovery sweep (container_recovery.go,  *)
(* main.go), the instance store (instance_store.go) and the docker daemon  *)
(* they all drive through the CLI (container.go).                          *)
(*                                                                         *)
(* A bot is <<user, mode, id>>.  Three things exist per bot and no         *)
(* transaction covers them: the container, the bbgo.yaml on disk and the   *)
(* row of strategy_instances.  A fourth, the api.starting flag, is keyed   *)
(* by id alone.  Every docker CLI call, store operation and map access is  *)
(* one step; the goroutines interleave between them.                       *)
(***************************************************************************)
EXTENDS Integers, FiniteSets

CONSTANTS
    Bots,         \* the bots that may exist, a set of <<user, mode, id>>
    Deployed,     \* the bots created and running in the initial state
    Handlers,     \* HTTP request goroutines
    Starters,     \* startInstanceContainer goroutines
    Recoverers,   \* goroutines of the recovery pool (5 in production)
    Ops,          \* the requests the environment issues
    FaultKinds,   \* the faults the environment injects
    MaxRequests,  \* bound: requests in a behaviour
    MaxPatches,   \* bound: config sections one PATCH carries (3 in the code)
    MaxFaults     \* bound: injected faults in a behaviour

AllOps == {"create", "start", "stop", "update", "delete",
           "startUser", "stopUser", "clearAll", "credential"}
AllFaults == {"docker", "db", "process", "container", "volume", "crash"}

ASSUME BotsAssumption ==
    /\ \A b \in Bots : b = <<b[1], b[2], b[3]>> /\ b[2] \in {"live", "paper"}
    /\ Deployed \subseteq Bots
ASSUME GoroutinesAssumption ==
    /\ IsFiniteSet(Handlers) /\ IsFiniteSet(Starters) /\ IsFiniteSet(Recoverers)
    /\ Starters \cap Recoverers = {}
ASSUME BoundsAssumption ==
    /\ Ops \subseteq AllOps /\ FaultKinds \subseteq AllFaults
    /\ MaxRequests \in Nat /\ MaxPatches \in Nat \ {0} /\ MaxFaults \in Nat

Id(b) == b[3]
SameUserMode(b, c) == b[1] = c[1] /\ b[2] = c[2]
Workers == Starters \cup Recoverers

NoDir  == -1   \* disk[b]: the instance directory does not exist
NoYaml == 0    \* disk[b]: the directory exists, bbgo.yaml does not
NoBot  == <<"none", "none", "none">>

VARIABLES
    cont,      \* cont[b]: what docker knows under the bot's container name
    loaded,    \* loaded[b]: the config version the container's process read
    disk,      \* disk[b]: NoDir, NoYaml or the version of bbgo.yaml
    row,       \* row[b]: the version of the database row, 0 when there is none
    lastErr,   \* lastErr[b]: the row's last_error is set
    starting,  \* api.starting: the instance ids flagged as starting
    hd,        \* hd[h]: the request handler h
    wk,        \* wk[x]: the start goroutine or recovery task x
    sweep,     \* the recovery sweep (or the recovery at boot)
    mgr,       \* the manager process: "up", "down" or "boot"
    halted,    \* auxiliary: bots whose last completed request was a stop
    ver,       \* the versions written so far
    reqs,      \* requests issued so far
    faults     \* faults injected so far

store  == <<disk, row, lastErr, ver>>
docker == <<cont, loaded>>
vars == <<cont, loaded, disk, row, lastErr, starting, hd, wk, sweep, mgr,
          halted, ver, reqs, faults>>

-----------------------------------------------------------------------------
(* Records                                                                 *)

Snapshot == [Bots -> Nat]               \* rows as read: version, 0 if unlisted
NoSnap   == [b \in Bots |-> 0]

IdleH == [pc |-> "idle", op |-> "none", snap |-> NoSnap, cur |-> {},
          was |-> FALSE, bad |-> FALSE, left |-> 0]
IdleW == [pc |-> "idle", bot |-> NoBot, snap |-> 0]
IdleSweep == [pc |-> "idle", todo |-> NoSnap, seen |-> {}]

Listing(S)  == [b \in Bots |-> IF b \in S THEN row[b] ELSE 0]
Listed(sn)  == {b \in Bots : sn[b] # 0}
Drop(sn, b) == [sn EXCEPT ![b] = 0]

-----------------------------------------------------------------------------
(* What the manager observes and what docker does                          *)

\* "erring" is every state CheckInstanceHealth reports as an error: restarting,
\* a crash loop over the threshold, a stale heartbeat.
Up(b) == cont[b] \in {"running", "erring"}


YamlOf(b) == IF disk[b] > 0 THEN disk[b] ELSE 0

\* A bbgo process reads bbgo.yaml when it starts and fails without one.
ProcessStarts(b, c) == c \in {"running", "erring"} /\ (YamlOf(b) = 0 => c = "erring")

AfterStop(S) == [b \in Bots |-> IF b \in S /\ Up(b) THEN "exited" ELSE cont[b]]
AfterRm(S)   == [b \in Bots |-> IF b \in S THEN "none" ELSE cont[b]]
Unload(S)    == [b \in Bots |-> IF b \in S THEN 0 ELSE loaded[b]]

Fault(k) == k \in FaultKinds /\ faults < MaxFaults /\ faults' = faults + 1

\* A docker CLI call on the containers of S works for all of them, or fails
\* having worked for some (a missing name, the CLI killed at dockerTimeout).
CliResults == {"ok", "failed"}
CliCall(S, r, done) ==
    \/ r = "ok" /\ done = S /\ UNCHANGED faults
    \/ r = "failed" /\ Fault("docker")

\* .State.Running is true for a running container and may be either between
\* the restart cycles of a failing one.  Callers take an inspect that failed for
\* a container that does not run.
InspectRunning(b, r) ==
    \/ cont[b] = "running" /\ r = TRUE /\ UNCHANGED faults
    \/ cont[b] = "erring"  /\ r \in BOOLEAN /\ UNCHANGED faults
    \/ cont[b] \in {"none", "exited"} /\ r = FALSE /\ UNCHANGED faults
    \/ r = FALSE /\ Fault("docker")

-----------------------------------------------------------------------------
HandlerRecord ==
    [pc : {"idle", "unflag", "stop", "rm", "forget", "write", "remove",
           "loop", "status", "spawn"},
     op : AllOps \cup {"none"}, snap : Snapshot,
     cur : SUBSET Bots, was : BOOLEAN, bad : BOOLEAN, left : Nat]

WorkerRecord ==
    [pc : {"idle", "check", "look", "dstart", "poll", "stop", "rm", "dir",
           "heal", "run", "ping", "mark"},
     bot : Bots \cup {NoBot}, snap : Nat]

SweepRecord == [pc : {"idle", "run"}, todo : Snapshot, seen : SUBSET Bots]

TypeOK ==
    /\ cont \in [Bots -> {"none", "running", "erring", "exited"}]
    /\ loaded \in [Bots -> Nat]
    /\ disk \in [Bots -> Nat \cup {NoDir}]
    /\ row \in [Bots -> Nat]
    /\ lastErr \in [Bots -> BOOLEAN]
    /\ starting \subseteq {Id(b) : b \in Bots}
    /\ hd \in [Handlers -> HandlerRecord]
    /\ wk \in [Workers -> WorkerRecord]
    /\ \A x \in Workers : wk[x].pc # "idle" => wk[x].bot \in Bots
    /\ sweep \in SweepRecord
    /\ mgr \in {"up", "down", "boot"}
    /\ halted \subseteq Bots
    /\ ver \in Nat /\ reqs \in Nat /\ faults \in Nat

Init ==
    /\ cont = [b \in Bots |-> IF b \in Deployed THEN "running" ELSE "none"]
    /\ loaded = [b \in Bots |-> IF b \in Deployed THEN 1 ELSE 0]
    /\ disk = [b \in Bots |-> IF b \in Deployed THEN 1 ELSE NoDir]
    /\ row = [b \in Bots |-> IF b \in Deployed THEN 1 ELSE 0]
    /\ lastErr = [b \in Bots |-> FALSE]
    /\ starting = {}
    /\ hd = [h \in Handlers |-> IdleH]
    /\ wk = [x \in Workers |-> IdleW]
    /\ sweep = IdleSweep
    /\ mgr = "up"
    /\ halted = {}
    /\ ver = 1 /\ reqs = 0 /\ faults = 0

\* Both write last_error and last_error_at in one UPDATE, which needs a row to
\* land on and which the database refuses when a value does not parse: the
\* column is a timestamptz, and "" is not a time.
Timestamptz(v) == v # ""
MarkInstanceErrorDropped(b) == UNCHANGED <<lastErr, faults>>
MarkInstanceError(b) ==
    \/ /\ lastErr' = [lastErr EXCEPT ![b] = row[b] # 0 /\ Timestamptz("now")]
       /\ UNCHANGED faults
    \/ UNCHANGED lastErr /\ Fault("db")
ClearInstanceError(S) ==
    lastErr' = [b \in Bots |-> lastErr[b] /\ ~(b \in S /\ Timestamptz(""))]

-----------------------------------------------------------------------------
(* Requests: the first step of each handler.  A request the handler rejects *)
(* (unknown bot, bad body, "already exists") changes nothing and is left   *)
(* out.                                                                    *)

Request(h, o) ==
    /\ mgr = "up" /\ hd[h].pc = "idle" /\ o \in Ops
    /\ reqs < MaxRequests /\ reqs' = reqs + 1

Serve(o, p, sn) ==
    [pc |-> p, op |-> o, snap |-> sn,
     cur |-> IF p = "loop" THEN {} ELSE Listed(sn),
     was |-> FALSE, bad |-> FALSE, left |-> 0]

\* The row written by an upsert; a failed upsert is only logged.
Upsert(b, v) ==
    \/ row' = [row EXCEPT ![b] = v] /\ UNCHANGED faults
    \/ UNCHANGED row /\ Fault("db")

CreateStrategy(h) ==
    /\ Request(h, "create")
    /\ \E b \in Bots :
        /\ YamlOf(b) = 0
        /\ ver' = ver + 1
        /\ disk' = [disk EXCEPT ![b] = ver + 1]
        /\ Upsert(b, ver + 1)
        /\ hd' = [hd EXCEPT ![h] = Serve("create", "spawn", [NoSnap EXCEPT ![b] = ver + 1])]
    /\ UNCHANGED <<docker, lastErr, starting, wk, sweep, mgr, halted>>

\* store.GetInstance(userID, "", id): the live row if there is one, else the
\* paper row, whichever mode the request named.
Resolve(b) ==
    LET hits == {c \in Bots : c[1] = b[1] /\ c[3] = b[3] /\ row[c] # 0}
        live == {c \in hits : c[2] = "live"}
    IN  IF live # {} THEN live ELSE hits

StartInstance(h) ==
    /\ Request(h, "start")
    /\ \E a \in Bots : \E b \in Resolve(a) :
        hd' = [hd EXCEPT ![h] = Serve("start", "loop", Listing({b}))]
    /\ UNCHANGED <<docker, store, starting, wk, sweep, mgr, halted, faults>>

StopInstance(h) ==
    /\ Request(h, "stop")
    /\ \E a \in Bots : \E b \in Resolve(a) :
        hd' = [hd EXCEPT ![h] = Serve("stop", "stop", Listing({b}))]
    /\ UNCHANGED <<docker, store, starting, wk, sweep, mgr, halted, faults>>

UpdateStrategy(h) ==
    /\ Request(h, "update")
    /\ \E b \in Bots, r \in BOOLEAN, n \in 1..MaxPatches :
        /\ row[b] # 0 /\ InspectRunning(b, r)
        /\ hd' = [hd EXCEPT ![h] =
                    [Serve("update", IF r THEN "unflag" ELSE "write", Listing({b}))
                        EXCEPT !.was = r, !.left = n]]
    /\ UNCHANGED <<docker, store, starting, wk, sweep, mgr, halted>>

DeleteStrategy(h) ==
    /\ Request(h, "delete")
    /\ \E b \in Bots, r \in BOOLEAN :
        /\ row[b] # 0 /\ InspectRunning(b, r)
        /\ hd' = [hd EXCEPT ![h] =
                    Serve("delete", IF r THEN "stop" ELSE "remove", Listing({b}))]
    /\ UNCHANGED <<docker, store, starting, wk, sweep, mgr, halted>>

\* The rows of the user and mode that b belongs to.
RowsLike(b) == {c \in Bots : SameUserMode(b, c) /\ row[c] # 0}

\* StartUser and the restart of a user's bots after a credential change.
ForEachRow(h, o) ==
    /\ Request(h, o)
    /\ \E b \in Bots :
        /\ RowsLike(b) # {}
        /\ hd' = [hd EXCEPT ![h] = Serve(o, "loop", Listing(RowsLike(b)))]
    /\ UNCHANGED <<docker, store, starting, wk, sweep, mgr, halted, faults>>

StartUser(h)        == ForEachRow(h, "startUser")
CredentialChange(h) == ForEachRow(h, "credential")

StopUser(h) ==
    /\ Request(h, "stopUser")
    /\ \E b \in Bots :
        /\ RowsLike(b) # {}
        /\ hd' = [hd EXCEPT ![h] = Serve("stopUser", "unflag", Listing(RowsLike(b)))]
    /\ UNCHANGED <<docker, store, starting, wk, sweep, mgr, halted, faults>>

ClearAllStrategies(h) ==
    /\ Request(h, "clearAll")
    /\ \E b \in Bots :
        /\ RowsLike(b) # {}
        /\ hd' = [hd EXCEPT ![h] = Serve("clearAll", "stop", Listing(RowsLike(b)))]
    /\ UNCHANGED <<docker, store, starting, wk, sweep, mgr, halted, faults>>

-----------------------------------------------------------------------------
(* Handlers: the steps after the first                                     *)

Stays(h, p) == hd' = [hd EXCEPT ![h].pc = p]
Returns(h)  == hd' = [hd EXCEPT ![h] = IdleH]

\* UpdateStrategy and StopUser clear the flags before the containers are
\* stopped; ClearAllStrategies and DeleteStrategy never do.
ClearFlags(h) ==
    /\ hd[h].pc = "unflag"
    /\ starting' = starting \ {Id(b) : b \in hd[h].cur}
    /\ Stays(h, "stop")
    /\ UNCHANGED <<docker, store, wk, sweep, mgr, halted, reqs, faults>>

\* docker stop; of a missing container it reports an error.
HandlerDockerStop(h) ==
    /\ hd[h].pc = "stop"
    /\ \E r \in CliResults, done \in SUBSET hd[h].cur :
        /\ CliCall(hd[h].cur, r, done)
        /\ cont' = AfterStop(done)
        /\ hd' = [hd EXCEPT ![h] = [hd[h] EXCEPT !.pc = "rm",
                     !.bad = r # "ok" \/ \E b \in hd[h].cur : cont[b] = "none"]]
    /\ UNCHANGED <<loaded, store, starting, wk, sweep, mgr, halted, reqs>>

\* What each handler does once StopInstance has returned, err telling whether
\* it returned an error.  Only UpdateStrategy looks at it: 503, nothing more.
AfterStopInstance(h, err) ==
    \/ /\ hd[h].op = "stop"
       /\ Stays(h, "forget") /\ UNCHANGED <<lastErr, halted>>
    \/ /\ hd[h].op = "stopUser"
       /\ Returns(h) /\ halted' = halted \cup hd[h].cur /\ UNCHANGED lastErr
    \/ /\ hd[h].op \in {"delete", "clearAll"}
       /\ Stays(h, "remove") /\ UNCHANGED <<lastErr, halted>>
    \/ /\ hd[h].op \in {"start", "startUser"}
       /\ Stays(h, "spawn") /\ UNCHANGED halted
       /\ ClearInstanceError(hd[h].cur)
    \/ /\ hd[h].op = "update" /\ err
       /\ Returns(h) /\ UNCHANGED <<lastErr, halted>>
    \/ /\ hd[h].op = "update" /\ ~err
       /\ Stays(h, "write") /\ UNCHANGED <<lastErr, halted>>

\* docker rm -f; of a missing container it may report an error.
HandlerDockerRm(h) ==
    /\ hd[h].pc = "rm"
    /\ \E r \in CliResults, done \in SUBSET hd[h].cur, e \in BOOLEAN :
        /\ CliCall(hd[h].cur, r, done)
        /\ r # "ok" => e
        /\ e => r # "ok" \/ \E b \in hd[h].cur : cont[b] = "none"
        /\ cont' = AfterRm(done) /\ loaded' = Unload(done)
        /\ AfterStopInstance(h, hd[h].bad \/ e)
    /\ UNCHANGED <<disk, row, ver, starting, wk, sweep, mgr, reqs>>

\* StopInstance clears the flag last.
ForgetStart(h) ==
    /\ hd[h].pc = "forget"
    /\ starting' = starting \ {Id(b) : b \in hd[h].cur}
    /\ halted' = halted \cup hd[h].cur
    /\ Returns(h)
    /\ UNCHANGED <<docker, store, wk, sweep, mgr, reqs, faults>>

\* One of UpdateInstanceConfig/FuturesConfig/RiskConfig: under s.mu, read the
\* YAML, merge, write the YAML, upsert the row.  A patch the store rejects (a
\* missing YAML, a changed symbol) ends the request where it stands.
WriteConfig(h) ==
    /\ hd[h].pc = "write"
    /\ \/ Returns(h) /\ UNCHANGED <<disk, row, ver, faults>>
       \/ \E b \in hd[h].cur :
            /\ YamlOf(b) # 0
            /\ ver' = ver + 1
            /\ disk' = [disk EXCEPT ![b] = ver + 1]
            /\ Upsert(b, ver + 1)
            /\ \/ /\ hd[h].left > 1
                  /\ hd' = [hd EXCEPT ![h] = [hd[h] EXCEPT !.left = hd[h].left - 1]]
               \/ /\ hd[h].left = 1 /\ hd[h].was
                  /\ hd' = [hd EXCEPT ![h] = [hd[h] EXCEPT !.pc = "spawn",
                               !.snap = [NoSnap EXCEPT ![b] = ver + 1]]]
               \/ /\ hd[h].left = 1 /\ ~hd[h].was
                  /\ Returns(h)
    /\ UNCHANGED <<docker, lastErr, starting, wk, sweep, mgr, halted, reqs>>

\* store.RemoveInstance of one listed bot: the directory, then the row.
\* Either may fail alone and the other is still gone.
RemoveInstance(h) ==
    /\ hd[h].pc = "remove"
    /\ \E b \in Listed(hd[h].snap) :
        /\ \/ /\ disk' = [disk EXCEPT ![b] = NoDir]
              /\ row' = [row EXCEPT ![b] = 0]
              /\ lastErr' = [lastErr EXCEPT ![b] = FALSE]
              /\ UNCHANGED faults
           \/ /\ Fault("db")
              /\ disk' = [disk EXCEPT ![b] = NoDir]
              /\ UNCHANGED <<row, lastErr>>
           \/ /\ Fault("volume")
              /\ row' = [row EXCEPT ![b] = 0]
              /\ lastErr' = [lastErr EXCEPT ![b] = FALSE]
              /\ UNCHANGED disk
        /\ hd' = [hd EXCEPT ![h] =
                    IF Listed(Drop(hd[h].snap, b)) = {} THEN IdleH
                    ELSE [hd[h] EXCEPT !.snap = Drop(hd[h].snap, b)]]
    /\ UNCHANGED <<docker, ver, starting, wk, sweep, mgr, halted, reqs>>

\* Where a handler goes when it is finished with b.
Done(h, b) ==
    LET rest == Drop(hd[h].snap, b) IN
    hd' = [hd EXCEPT ![h] =
             IF Listed(rest) = {} THEN IdleH
             ELSE [hd[h] EXCEPT !.pc = "loop", !.snap = rest, !.cur = {}, !.bad = FALSE]]

Turn(h, b, p) == hd' = [hd EXCEPT ![h] = [hd[h] EXCEPT !.pc = p, !.cur = {b}]]

\* The body of StartInstance and of StartUser's loop, by effective status:
\* the flag first, then docker.
StartOne(h) ==
    /\ hd[h].pc = "loop" /\ hd[h].op \in {"start", "startUser"}
    /\ \E b \in Listed(hd[h].snap) :
        IF Id(b) \in starting THEN Done(h, b) ELSE Turn(h, b, "status")
    /\ UNCHANGED <<docker, store, starting, wk, sweep, mgr, halted, reqs, faults>>

EffectiveStatus(h) ==
    /\ hd[h].pc = "status"
    /\ \E b \in hd[h].cur :
        \/ cont[b] = "running" /\ Done(h, b) /\ UNCHANGED faults
        \/ cont[b] = "erring" /\ Stays(h, "stop") /\ UNCHANGED faults  \* force restart
        \/ InspectRunning(b, FALSE) /\ Stays(h, "spawn")
    /\ UNCHANGED <<docker, store, starting, wk, sweep, mgr, halted, reqs>>

\* CreateCredential and DeleteCredential restart what is running.
RestartOne(h) ==
    /\ hd[h].pc = "loop" /\ hd[h].op = "credential"
    /\ \E b \in Listed(hd[h].snap) :
        \/ InspectRunning(b, TRUE)  /\ Turn(h, b, "spawn")
        \/ InspectRunning(b, FALSE) /\ Done(h, b)
    /\ UNCHANGED <<docker, store, starting, wk, sweep, mgr, halted, reqs>>

\* starting.LoadOrStore, then go startInstanceContainer unless it was loaded.
Launch(b, v) ==
    /\ starting' = starting \cup {Id(b)}
    /\ \E s \in Starters :
        /\ wk[s].pc = "idle"
        /\ wk' = [wk EXCEPT ![s] = [pc |-> "stop", bot |-> b, snap |-> v]]
LaunchOnce(b, v) ==
    IF Id(b) \in starting THEN UNCHANGED <<starting, wk>> ELSE Launch(b, v)

SpawnStart(h) ==
    /\ hd[h].pc = "spawn"
    /\ \E b \in hd[h].cur :
        /\ LaunchOnce(b, hd[h].snap[b])
        /\ halted' = halted \ {b}
        /\ Done(h, b)
    /\ UNCHANGED <<docker, store, sweep, mgr, reqs, faults>>

-----------------------------------------------------------------------------
(* CreateAndStartInstance, run by start goroutines and by recovery tasks.  *)
(* The last step of a recovery task is docker run; a start goroutine goes  *)
(* on to poll /ping.                                                       *)

Goes(x, p) == wk' = [wk EXCEPT ![x].pc = p]
EndsCarelessly(x) == wk' = [wk EXCEPT ![x] = [IdleW EXCEPT !.pc = "poll"]]
Ends(x)    == wk' = [wk EXCEPT ![x] = IdleW]
OtherThanWorkers == <<hd, sweep, mgr, halted, reqs>>

\* Errors of the initial StopInstance are discarded.
WorkerDockerStop(x) ==
    /\ wk[x].pc = "stop"
    /\ \E r \in CliResults, done \in SUBSET {wk[x].bot} :
        /\ CliCall({wk[x].bot}, r, done)
        /\ cont' = AfterStop(done)
    /\ Goes(x, "rm")
    /\ UNCHANGED <<loaded, store, starting, OtherThanWorkers>>

WorkerDockerRm(x) ==
    /\ wk[x].pc = "rm"
    /\ \E r \in CliResults, done \in SUBSET {wk[x].bot} :
        /\ CliCall({wk[x].bot}, r, done)
        /\ cont' = AfterRm(done) /\ loaded' = Unload(done)
    /\ Goes(x, "dir")
    /\ UNCHANGED <<store, starting, OtherThanWorkers>>

\* mkdir, then look for bbgo.yaml.
PrepareDir(x) ==
    /\ wk[x].pc = "dir"
    /\ LET b == wk[x].bot IN
        /\ disk' = IF disk[b] = NoDir THEN [disk EXCEPT ![b] = NoYaml] ELSE disk
        /\ Goes(x, IF YamlOf(b) = 0 THEN "heal" ELSE "run")
    /\ UNCHANGED <<docker, row, lastErr, ver, starting, OtherThanWorkers, faults>>

RunFails(x) == IF x \in Starters THEN Goes(x, "mark") ELSE Ends(x)

\* Regenerate bbgo.yaml from the instance as it was read, without s.mu, and
\* upsert the row.  The write fails if the directory is gone again.
RegenerateYaml(x) ==
    /\ wk[x].pc = "heal"
    /\ LET b == wk[x].bot IN
        \/ /\ disk[b] # NoDir
           /\ disk' = [disk EXCEPT ![b] = wk[x].snap]
           /\ Upsert(b, wk[x].snap)
           /\ Goes(x, "run")
        \/ /\ disk[b] = NoDir
           /\ RunFails(x)
           /\ UNCHANGED <<disk, row, faults>>
    /\ UNCHANGED <<docker, lastErr, ver, starting, OtherThanWorkers>>

\* docker run --name: fails when the name is taken; creates the working
\* directory in the volume when it is missing.
DockerRun(x) ==
    /\ wk[x].pc = "run"
    /\ LET b == wk[x].bot IN
        \/ /\ cont[b] = "none"
           /\ \E c \in {"running", "erring"} :
                /\ ProcessStarts(b, c)
                /\ cont' = [cont EXCEPT ![b] = c]
           /\ loaded' = [loaded EXCEPT ![b] = YamlOf(b)]
           /\ disk' = IF disk[b] = NoDir THEN [disk EXCEPT ![b] = NoYaml] ELSE disk
           /\ IF x \in Starters THEN Goes(x, "ping") ELSE Ends(x)
           /\ UNCHANGED faults
        \/ /\ cont[b] # "none"
           /\ RunFails(x)
           /\ UNCHANGED <<docker, disk, faults>>
        \/ /\ cont[b] = "none" /\ Fault("docker")
           /\ \E c \in {"none", "exited"} : cont' = [cont EXCEPT ![b] = c]
           /\ RunFails(x)
           /\ UNCHANGED <<loaded, disk>>
    /\ UNCHANGED <<row, lastErr, ver, starting, OtherThanWorkers>>

\* The deferred starting.Delete of every exit of startInstanceContainer.
StarterExitsLeavingFlag(s) == UNCHANGED starting /\ Ends(s)
StarterExits(s) ==
    /\ starting' = starting \ {Id(wk[s].bot)}
    /\ Ends(s)

\* Some process answers /ping under the container's name: clear last_error.
PingAnswered(s) ==
    /\ wk[s].pc = "ping" /\ Up(wk[s].bot)
    /\ ClearInstanceError({wk[s].bot})
    /\ StarterExits(s)
    /\ UNCHANGED <<docker, disk, row, ver, OtherThanWorkers, faults>>

\* 30 pings, one second apart, without an answer.
PingTimeout(s) ==
    /\ wk[s].pc = "ping"
    /\ Goes(s, "mark")
    /\ UNCHANGED <<docker, store, starting, OtherThanWorkers, faults>>

\* The 30 seconds of the context are over before the 30th ping.
PingExpired(s) ==
    /\ wk[s].pc = "ping"
    /\ StarterExits(s)
    /\ UNCHANGED <<docker, store, OtherThanWorkers, faults>>

\* captureAndMarkInstanceError, its text from docker logs or the fallback.
MarkStartError(s) ==
    /\ wk[s].pc = "mark"
    /\ MarkInstanceError(wk[s].bot)
    /\ StarterExits(s)
    /\ UNCHANGED <<docker, disk, row, ver, OtherThanWorkers>>

-----------------------------------------------------------------------------
(* The recovery sweep: a snapshot of the rows, one pool task per bot, then *)
(* CleanupStopped.  RecoverUsers runs the same tasks when the manager      *)
(* boots and is followed by the search for orphans.                        *)

\* ScanUsers finds a user and mode only through some bbgo.yaml under it.
Scanned(b) == \E c \in Bots : SameUserMode(b, c) /\ YamlOf(c) # 0
Tracked    == {b \in Bots : row[b] # 0 /\ Scanned(b)}
BeginSweepSeeingAll(sn) == sweep' = [pc |-> "run", todo |-> sn, seen |-> Bots]
BeginSweepSkippingFailed(sn) ==
    sweep' = [pc |-> "run", seen |-> Listed(sn),
              todo |-> [b \in Bots |-> IF lastErr[b] THEN 0 ELSE sn[b]]]
BeginSweep(sn) == sweep' = [pc |-> "run", todo |-> sn, seen |-> Listed(sn)]

\* A failed listing is ignored: the sweep goes on without those bots.
SweepTick ==
    /\ mgr = "up" /\ sweep.pc = "idle"
    /\ \/ BeginSweep(Listing(Tracked)) /\ UNCHANGED faults
       \/ BeginSweep(NoSnap) /\ Fault("db")
    /\ UNCHANGED <<docker, store, starting, hd, wk, mgr, halted, reqs>>

TakeTask(x) ==
    /\ sweep.pc = "run" /\ wk[x].pc = "idle"
    /\ \E b \in Listed(sweep.todo) :
        /\ wk' = [wk EXCEPT ![x] = [pc |-> "check", bot |-> b, snap |-> sweep.todo[b]]]
        /\ sweep' = [sweep EXCEPT !.todo = Drop(sweep.todo, b)]
    /\ UNCHANGED <<docker, store, starting, hd, mgr, halted, reqs, faults>>

\* Alive: done.  Failing: capture the error, do not recover (a failing bot has
\* logged something).  Else, or when docker does not answer, recover.
CheckInstance(x) ==
    /\ wk[x].pc = "check"
    /\ LET b == wk[x].bot IN
        \/ cont[b] = "running" /\ Ends(x) /\ UNCHANGED <<lastErr, faults>>
        \/ cont[b] = "erring" /\ Ends(x) /\ MarkInstanceError(b)
        \/ ~Up(b) /\ Goes(x, "look") /\ UNCHANGED <<lastErr, faults>>
        \/ Fault("docker") /\ Goes(x, "look") /\ UNCHANGED lastErr
        \/ Up(b) /\ Fault("docker") /\ Ends(x) /\ UNCHANGED lastErr
    /\ UNCHANGED <<docker, disk, row, ver, starting, OtherThanWorkers>>

\* tryRecoverViaDockerStart looks at .State.Status.
InspectStatus(x) ==
    /\ wk[x].pc = "look"
    /\ LET b == wk[x].bot IN
        \/ Up(b) /\ Ends(x) /\ UNCHANGED faults
        \/ cont[b] \in {"none", "erring"} /\ Goes(x, "stop") /\ UNCHANGED faults
        \/ cont[b] = "exited" /\ Goes(x, "dstart") /\ UNCHANGED faults
        \/ Fault("docker") /\ Goes(x, "stop")
    /\ UNCHANGED <<docker, store, starting, OtherThanWorkers>>

DockerStart(x) ==
    /\ wk[x].pc = "dstart"
    /\ LET b == wk[x].bot IN
        \/ /\ cont[b] = "exited"
           /\ \E c \in {"running", "erring"} :
                /\ ProcessStarts(b, c)
                /\ cont' = [cont EXCEPT ![b] = c]
           /\ loaded' = [loaded EXCEPT ![b] = YamlOf(b)]
           /\ Goes(x, "poll") /\ UNCHANGED faults
        \/ Up(b) /\ Goes(x, "poll") /\ UNCHANGED <<docker, faults>>
        \/ cont[b] = "none" /\ Goes(x, "stop") /\ UNCHANGED <<docker, faults>>
        \/ Fault("docker") /\ Goes(x, "stop") /\ UNCHANGED docker
    /\ UNCHANGED <<store, starting, OtherThanWorkers>>

\* Five looks at .State.Running; if none is true the bot is recreated.
PollRunning(x) ==
    /\ wk[x].pc = "poll"
    /\ \/ InspectRunning(wk[x].bot, TRUE) /\ Ends(x)
       \/ InspectRunning(wk[x].bot, FALSE) /\ Goes(x, "stop")
    /\ UNCHANGED <<docker, store, starting, OtherThanWorkers>>

\* pool.Wait has returned.
TasksDone == sweep.pc = "run" /\ Listed(sweep.todo) = {}
             /\ \A x \in Recoverers : wk[x].pc = "idle"

\* CleanupStopped: rm (without -f) the exited containers the sweep did not see.
CleanupStopped ==
    /\ mgr = "up" /\ TasksDone
    /\ sweep' = IdleSweep
    /\ LET gone == {b \in Bots : cont[b] = "exited" /\ b \notin sweep.seen} IN
        \E r \in CliResults, done \in SUBSET gone :
            CliCall(gone, r, done) /\ cont' = AfterRm(done) /\ loaded' = Unload(done)
    /\ UNCHANGED <<store, starting, hd, wk, mgr, halted, reqs>>

\* The container name carries the first 8 characters of a 36-character UUID,
\* and only that prefix can be read back from it.
UuidLength       == 36
SlugUserLength   == IF UuidLength > 8 THEN 8 ELSE UuidLength
IsValidUuid(len) == len = UuidLength

\* The end of the boot: stop the containers no YAML accounts for, then serve.
StopOrphans ==
    /\ mgr = "boot" /\ TasksDone
    /\ LET orphans == {b \in Bots : Up(b) /\ IsValidUuid(SlugUserLength) /\ YamlOf(b) = 0} IN
        cont' = AfterRm(orphans) /\ loaded' = Unload(orphans)
    /\ sweep' = IdleSweep /\ mgr' = "up"
    /\ UNCHANGED <<store, starting, hd, wk, halted, reqs, faults>>

\* A new manager process: everything in memory is empty.
Boot ==
    /\ mgr = "down" /\ mgr' = "boot"
    /\ BeginSweep(Listing(Tracked))
    /\ UNCHANGED <<docker, store, starting, hd, wk, halted, reqs, faults>>

Crash ==
    /\ mgr # "down" /\ Fault("crash")
    /\ mgr' = "down"
    /\ starting' = {}
    /\ hd' = [h \in Handlers |-> IdleH]
    /\ wk' = [x \in Workers |-> IdleW]
    /\ sweep' = IdleSweep
    /\ UNCHANGED <<docker, store, halted, reqs>>

-----------------------------------------------------------------------------
(* What happens to containers and files on its own.                        *)

Bystanders == <<row, lastErr, ver, starting, hd, wk, sweep, mgr, halted, reqs>>

ProcessFails(b) ==
    /\ cont[b] = "running" /\ Fault("process")
    /\ cont' = [cont EXCEPT ![b] = "erring"]
    /\ UNCHANGED <<loaded, disk, Bystanders>>

\* A restarted process comes up with the YAML of that moment, a late heartbeat
\* with the one it had.
ProcessRecovers(b) ==
    /\ cont[b] = "erring" /\ ProcessStarts(b, "running")
    /\ cont' = [cont EXCEPT ![b] = "running"]
    /\ \E v \in {loaded[b], YamlOf(b)} \ {0} : loaded' = [loaded EXCEPT ![b] = v]
    /\ UNCHANGED <<disk, Bystanders, faults>>

\* Stopped or removed behind the manager's back.
ContainerHalts(b) ==
    /\ \/ Up(b) /\ cont' = [cont EXCEPT ![b] = "exited"] /\ UNCHANGED loaded
       \/ cont[b] # "none" /\ cont' = AfterRm({b}) /\ loaded' = Unload({b})
    /\ Fault("container")
    /\ UNCHANGED <<disk, Bystanders>>

YamlLost(b) ==
    /\ YamlOf(b) # 0 /\ Fault("volume")
    /\ \E d \in {NoDir, NoYaml} : disk' = [disk EXCEPT ![b] = d]
    /\ UNCHANGED <<docker, Bystanders>>

-----------------------------------------------------------------------------
HandlerStep(h) ==
    \/ ClearFlags(h) \/ HandlerDockerStop(h) \/ HandlerDockerRm(h) \/ ForgetStart(h)
    \/ WriteConfig(h) \/ RemoveInstance(h)
    \/ StartOne(h) \/ EffectiveStatus(h) \/ RestartOne(h) \/ SpawnStart(h)

RequestArrives(h) ==
    \/ CreateStrategy(h) \/ UpdateStrategy(h) \/ DeleteStrategy(h)
    \/ StartInstance(h) \/ StopInstance(h)
    \/ StartUser(h) \/ StopUser(h) \/ ClearAllStrategies(h) \/ CredentialChange(h)

LaunchStep(x) ==
    \/ WorkerDockerStop(x) \/ WorkerDockerRm(x)
    \/ PrepareDir(x) \/ RegenerateYaml(x) \/ DockerRun(x)

StarterStep(s) ==
    \/ LaunchStep(s) \/ PingAnswered(s) \/ PingTimeout(s) \/ PingExpired(s) \/ MarkStartError(s)

RecovererStep(x) ==
    \/ TakeTask(x) \/ CheckInstance(x) \/ InspectStatus(x)
    \/ DockerStart(x) \/ PollRunning(x) \/ LaunchStep(x)

ManagerStep == SweepTick \/ CleanupStopped \/ StopOrphans \/ Boot

Environment ==
    \/ Crash
    \/ \E b \in Bots : \/ ProcessFails(b) \/ ProcessRecovers(b)
                       \/ ContainerHalts(b) \/ YamlLost(b)

Next ==
    \/ \E h \in Handlers : RequestArrives(h) \/ HandlerStep(h)
    \/ \E s \in Starters : StarterStep(s)
    \/ \E x \in Recoverers : RecovererStep(x)
    \/ ManagerStep
    \/ Environment

Spec == Init /\ [][Next]_vars

\* Goroutines are scheduled, the sweep's ticker fires, a crashed manager is
\* restarted by its own container's restart policy.  Requests and faults are
\* never owed.
Fairness ==
    /\ \A h \in Handlers : WF_vars(HandlerStep(h))
    /\ \A s \in Starters : WF_vars(StarterStep(s))
    /\ \A x \in Recoverers : WF_vars(RecovererStep(x))
    /\ WF_vars(ManagerStep)

FairSpec == Spec /\ Fairness

-----------------------------------------------------------------------------
(* Safety                                                                  *)

\* A raised starting flag is always backed by a start goroutine for that id:
\* whichever handlers and goroutines cleared and raised it in between, the
\* dashboard never shows "starting" for something nobody is starting
\* (api.go: starting.LoadOrStore, the deferred starting.Delete, the deletes
\* of StopInstance, StopUser and UpdateStrategy).
StartingBacked ==
    \A i \in starting : \E s \in Starters : wk[s].pc # "idle" /\ Id(wk[s].bot) = i

-----------------------------------------------------------------------------
(* What comments say and the code does not keep: TLC refutes each of these *)
(* (README, "Disagreements").                                              *)

\* "Restarts are serialized via api.starting" (api.go, UpdateStrategy): a bot
\* never has two start goroutines at a time.
OneStarterPerBot ==
    \A s, t \in Starters :
        wk[s].pc # "idle" /\ wk[t].pc # "idle" /\ wk[s].bot = wk[t].bot => s = t

\* Once a stop request has completed, only a later start request brings the
\* container up again: the sweep restarts "after an unexpected stop" (main.go).
StoppedStaysStopped ==
    [][\A b \in halted \cap halted' : Up(b)' => Up(b)]_vars

\* The manager finishes booting with no container up that no YAML accounts for
\* (main.go: "Discover orphaned Docker containers not tracked in YAML").
BootLeavesNoOrphan ==
    [][mgr = "boot" /\ mgr' = "up" => \A b \in Bots : Up(b)' => YamlOf(b) # 0]_vars

\* While bbgo.yaml exists its version never goes back: no write puts an
\* instance read earlier over a newer one ("Callers hold s.mu",
\* instance_store.go, writeInstanceYAML).
NoConfigLost ==
    [][\A b \in Bots : disk[b] > 0 /\ disk'[b] > 0 => disk'[b] >= disk[b]]_vars

-----------------------------------------------------------------------------
(* Liveness                                                                *)

\* Every "starting" ends, whatever happens to the container meanwhile.
StartingClears == \A b \in Bots : (Id(b) \in starting) ~> (Id(b) \notin starting)

\* A bot with a row that the scan can see does not stay down: lost
\* containers, failed starts, half-done updates and manager crashes are all
\* repaired by the sweep or by docker (container_recovery.go, CheckAndRecover).
Supervised ==
    \A b \in Bots : (b \in Tracked /\ ~Up(b)) ~> (Up(b) \/ b \notin Tracked)

\* A bot that keeps failing ends up with last_error set on its row, so that
\* the user can see why (container_recovery.go, captureErrorIfNeeded).
ErrorSurfaced ==
    \A b \in Bots : (b \in Tracked /\ cont[b] = "erring")
                        ~> (lastErr[b] \/ cont[b] # "erring" \/ b \notin Tracked)

\* An exited container of a bot without a row is removed in the end
\* (container_recovery.go, CleanupStopped).
LeftoversReaped ==
    \A b \in Bots : (row[b] = 0 /\ cont[b] = "exited") ~> (row[b] # 0 \/ cont[b] # "exited")
=============================================================================

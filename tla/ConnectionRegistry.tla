------------------------- MODULE ConnectionRegistry -------------------------
(***************************************************************************)
(* The connection pools: src/storage/db_registry.go, and the handlers and  *)
(* the setup of the backend that use it.                                   *)
(*                                                                         *)
(* A registry maps names to pools.  Three locks are involved: b.mu of the  *)
(* backend guards the pointer to the registry, mu of the registry its map, *)
(* mu of a DBConnection its pool.  Some of them are held across network    *)
(* calls and across waits for a background job to end.  A read section     *)
(* that does nothing but read is one step, taken when no one writes.       *)
(***************************************************************************)
EXTENDS Naturals, FiniteSets

CONSTANTS
  Request,        \* requests served concurrently
  Main,           \* the goroutine that runs Setup
  Name,           \* names of pools
  StoredConfigs,  \* SUBSET Name: names with a stored configuration
  MinConnections, \* [Name -> Nat], as AddConnection normalises it
  Pool,           \* DBConnection objects (bound: each is used once)
  Registry,       \* DBRegistry objects (bound: each is used once)
  None,           \* no pool, no name, no holder
  Job,            \* "health", "cleanup", "minconns"
  StartedJobs,    \* SUBSET Job: the background jobs the backend starts
  Operations,     \* SUBSET {"update", "stats", "reload", "shutdown"}: requests served
  PingMayFail,    \* a ping of a database may fail
  OpenMayFail     \* sql.Open may fail

ASSUME RegistryAssumption ==
  /\ StoredConfigs \subseteq Name
  /\ MinConnections \in [Name -> Nat]
  /\ Main \notin Request
  /\ None \notin Pool \cup Name \cup Request \cup {Main} \cup Registry \cup (Registry \X Job)
  /\ StartedJobs \subseteq Job
  /\ Registry # {} /\ Job # {}
  /\ Operations \subseteq {"update", "stats", "reload", "shutdown"}

Thread == Request \cup {Main}
JobThread == Registry \X Job

VARIABLES
  serving,  \* Setup has returned
  bmu,      \* holder of b.mu
  current,  \* b.dbRegistry
  rmu,      \* [Registry -> holder of its mu]
  conns,    \* [Registry -> [Name -> Pool \cup {None}]]
  pool,     \* [Pool -> PoolState]
  cmu,      \* [Pool -> holder of its mu]
  job,      \* [JobThread -> where the job is, and the pools it has yet to visit]
  thr       \* [Thread -> Frame]

vars == <<serving, bmu, current, rmu, conns, pool, cmu, job, thr>>

\* open: the sql.DB is open; warm: whether warmupDone is going to be closed.
PoolState ==
  [made: BOOLEAN, open: BOOLEAN,
   state: {"unknown", "healthy", "unhealthy", "closed"},
   warm: {"never", "running", "done"}]

JobState ==
  [pc: {"off", "wait", "visit", "locked", "stopped"}, cancelled: BOOLEAN,
   todo: SUBSET Pool, at: Pool \cup {None}]

PC == {"idle", "registry", "lock", "close", "open", "list", "get", "read",
       "cancel", "await", "closeall", "load", "add", "ping", "warm"}

Frame ==
  [pc: PC, op: {"none", "setup"} \cup Operations, reg: Registry \cup {None},
   name: Name \cup {None}, at: Pool \cup {None}, todo: SUBSET Name]

Idle == [pc |-> "idle", op |-> "none", reg |-> None, name |-> None,
         at |-> None, todo |-> {}]

NewPool(n) ==
  [made |-> TRUE, open |-> TRUE, state |-> "unknown",
   warm |-> IF MinConnections[n] > 0 THEN "running" ELSE "never"]

\* What NewDBRegistry and the Start functions leave behind.
Started(j) == [pc |-> IF j \in StartedJobs THEN "wait" ELSE "off",
               cancelled |-> FALSE, todo |-> {}, at |-> None]
Off == [pc |-> "off", cancelled |-> FALSE, todo |-> {}, at |-> None]

Goto(t, pc) == thr' = [thr EXCEPT ![t].pc = pc]
Return(t)   == thr' = [thr EXCEPT ![t] = Idle]
Mapped(reg) == {conns[reg][n] : n \in Name} \ {None}
Unmade      == {p \in Pool : ~pool[p].made}

Load(op, reg) == [Idle EXCEPT !.pc = "load", !.op = op, !.reg = reg, !.todo = StoredConfigs]

\* What is in memory when the process has just started: Setup has made a registry.
FirstRegistry == CHOOSE reg \in Registry : TRUE
NoConns   == [reg \in Registry |-> [n \in Name |-> None]]
NoPools   == [p \in Pool |-> [made |-> FALSE, open |-> FALSE, state |-> "closed", warm |-> "never"]]
FirstJobs == [j \in JobThread |-> IF j[1] = FirstRegistry THEN Started(j[2]) ELSE Off]
Setup     == [t \in Thread |-> IF t = Main THEN Load("setup", FirstRegistry) ELSE Idle]

Init ==
  /\ serving = FALSE
  /\ bmu = None
  /\ current = FirstRegistry
  /\ rmu = [reg \in Registry |-> None]
  /\ conns = NoConns
  /\ pool = NoPools
  /\ cmu = [p \in Pool |-> None]
  /\ job = FirstJobs
  /\ thr = Setup

-----------------------------------------------------------------------------
(* Loading the stored configurations: prewarmPools, and the end of a reload *)

LoadNext(t) ==
  /\ thr[t].pc = "load"
  /\ \E n \in thr[t].todo :
       LET rest == [thr[t] EXCEPT !.todo = @ \ {n}]
       IN  thr' = [thr EXCEPT ![t] = [rest EXCEPT !.pc = "add", !.name = n]]
  /\ UNCHANGED <<serving, bmu, current, rmu, conns, pool, cmu, job>>

LoadDone(t) ==
  /\ thr[t].pc = "load"
  /\ thr[t].todo = {}
  /\ serving' = TRUE
  /\ bmu' = IF bmu = t THEN None ELSE bmu
  /\ Return(t)
  /\ UNCHANGED <<current, rmu, conns, pool, cmu, job>>

\* AddConnection takes the registry's lock; a pool that exists is returned.
AddLock(t) ==
  LET f == thr[t]
      p == conns[f.reg][f.name]
  IN
  /\ f.pc = "add"
  /\ rmu[f.reg] = None
  /\ \/ /\ p # None
        /\ thr' = [thr EXCEPT ![t].pc = "warm", ![t].at = p]
        /\ rmu' = rmu
     \/ /\ p = None
        /\ Goto(t, "ping")
        /\ rmu' = [rmu EXCEPT ![f.reg] = t]
  /\ UNCHANGED <<serving, bmu, current, conns, pool, cmu, job>>

\* AddConnection pings, with retries, under that lock.
AddPing(t) ==
  LET f == thr[t]
  IN
  /\ f.pc = "ping"
  /\ rmu' = [rmu EXCEPT ![f.reg] = None]
  /\ \/ \E p \in Unmade :
          /\ pool' = [pool EXCEPT ![p] = NewPool(f.name)]
          /\ conns' = [conns EXCEPT ![f.reg][f.name] = p]
          /\ thr' = [thr EXCEPT ![t].pc = "warm", ![t].at = p]
     \/ /\ PingMayFail
        /\ UNCHANGED <<pool, conns>>
        /\ thr' = [thr EXCEPT ![t].pc = "load", ![t].name = None]
  /\ UNCHANGED <<serving, bmu, current, cmu, job>>

\* WaitForWarmup receives from warmupDone.
WaitForWarmup(t) ==
  /\ thr[t].pc = "warm"
  /\ pool[thr[t].at].warm = "done"
  /\ thr' = [thr EXCEPT ![t].pc = "load", ![t].name = None, ![t].at = None]
  /\ UNCHANGED <<serving, bmu, current, rmu, conns, pool, cmu, job>>

\* warmupPool ends, at the latest when its context times out.
WarmupEnds(p) ==
  /\ pool[p].warm = "running"
  /\ pool' = [pool EXCEPT ![p].warm = "done"]
  /\ UNCHANGED <<serving, bmu, current, rmu, conns, cmu, job, thr>>

-----------------------------------------------------------------------------
(* Requests start, and read the pointer to the registry *)

\* Pools the requests in flight may still make: bounds Start.
Reserved ==
  Cardinality({t \in Thread : thr[t].op = "update"})
    + Cardinality({t \in Thread : thr[t].op \in {"setup", "reload"}}) * Cardinality(StoredConfigs)

Unused == {reg \in Registry \ {current} : \A j \in Job : job[<<reg, j>>].pc = "off"}

Start(t, op, n) ==
  /\ serving
  /\ thr[t].pc = "idle"
  /\ op \in Operations
  /\ op = "update" => Cardinality(Unmade) > Reserved
  /\ op = "reload" => /\ Cardinality(Unmade) >= Reserved + Cardinality(StoredConfigs)
                      /\ Cardinality(Unused) > Cardinality({r \in Request : thr[r].op = "reload"})
  /\ op # "update" => n = CHOOSE m \in Name : TRUE
  /\ thr' = [thr EXCEPT ![t] =
               [Idle EXCEPT !.op = op, !.pc = "registry",
                            !.name = IF op = "update" THEN n ELSE None]]
  /\ UNCHANGED <<serving, bmu, current, rmu, conns, pool, cmu, job>>

\* getDBRegistry, or, in pathConfigResetHandler and pathConfigReloadHandler, a
\* read of b.dbRegistry without the lock.
ReadRegistry(t) ==
  LET f == thr[t]
  IN
  /\ f.pc = "registry"
  /\ \/ f.op = "update"
     \/ f.op = "stats" /\ bmu = None
  /\ thr' = [thr EXCEPT ![t].reg = current, ![t].pc = IF f.op = "update" THEN "lock" ELSE "list"]
  /\ UNCHANGED <<serving, bmu, current, rmu, conns, pool, cmu, job>>

-----------------------------------------------------------------------------
(* UpdateConnection: reset, reload of a plugin's connections, reload-config *)

UpdateLock(t) ==
  LET f == thr[t]
  IN
  /\ f.pc = "lock"
  /\ rmu[f.reg] = None
  /\ rmu' = [rmu EXCEPT ![f.reg] = t]
  /\ Goto(t, IF conns[f.reg][f.name] = None THEN "open" ELSE "close")
  /\ UNCHANGED <<serving, bmu, current, conns, pool, cmu, job>>

\* Mutation of ClosePool: the pool is left open.
ClosePoolForgotten(p) == pool' = [pool EXCEPT ![p].state = "closed"]

ClosePool(p) == pool' = [pool EXCEPT ![p].open = FALSE, ![p].state = "closed"]

\* Mutation of UpdateClose: the closed pool stays in the map.
UpdateCloseKeepsEntry(t) ==
  LET f == thr[t]
      p == conns[f.reg][f.name]
  IN
  /\ f.pc = "close"
  /\ cmu[p] = None
  /\ ClosePool(p)
  /\ Goto(t, "open")
  /\ UNCHANGED <<serving, bmu, current, rmu, conns, cmu, job>>

\* The existing pool is closed, under its lock, and leaves the map.
UpdateClose(t) ==
  LET f == thr[t]
      p == conns[f.reg][f.name]
  IN
  /\ f.pc = "close"
  /\ cmu[p] = None
  /\ ClosePool(p)
  /\ conns' = [conns EXCEPT ![f.reg][f.name] = None]
  /\ Goto(t, "open")
  /\ UNCHANGED <<serving, bmu, current, rmu, cmu, job>>

\* Mutation of UpdateOpen: the error return keeps the registry's lock.
UpdateOpenStaysLocked(t) ==
  LET f == thr[t]
  IN
  /\ f.pc = "open"
  /\ \/ \E p \in Unmade :
          /\ pool' = [pool EXCEPT ![p] = NewPool(f.name)]
          /\ conns' = [conns EXCEPT ![f.reg][f.name] = p]
          /\ rmu' = [rmu EXCEPT ![f.reg] = None]
     \/ UNCHANGED <<pool, conns, rmu>>
  /\ Return(t)
  /\ UNCHANGED <<serving, bmu, current, cmu, job>>

\* sql.Open and the new entry; nothing is pinged, and no one waits for warmup.
UpdateOpen(t) ==
  LET f == thr[t]
  IN
  /\ f.pc = "open"
  /\ rmu' = [rmu EXCEPT ![f.reg] = None]
  /\ \/ \E p \in Unmade :
          /\ pool' = [pool EXCEPT ![p] = NewPool(f.name)]
          /\ conns' = [conns EXCEPT ![f.reg][f.name] = p]
     \/ /\ OpenMayFail
        /\ UNCHANGED <<pool, conns>>
  /\ Return(t)
  /\ UNCHANGED <<serving, bmu, current, cmu, job>>

-----------------------------------------------------------------------------
(* Statistics: pathHealthRead, pathPoolStatsRead and the pool health checks *)

ListConnections(t) ==
  LET f == thr[t]
  IN
  /\ f.pc = "list"
  /\ rmu[f.reg] = None
  /\ thr' = [thr EXCEPT ![t].pc = "get", ![t].todo = {n \in Name : conns[f.reg][n] # None}]
  /\ UNCHANGED <<serving, bmu, current, rmu, conns, pool, cmu, job>>

\* Each name of the list is looked up again; one that is gone is passed over.
GetConnection(t) ==
  LET f == thr[t]
  IN
  /\ f.pc = "get"
  /\ rmu[f.reg] = None
  /\ \E n \in f.todo :
       thr' = [thr EXCEPT ![t] =
                 [f EXCEPT !.todo = @ \ {n}, !.at = conns[f.reg][n],
                           !.pc = IF conns[f.reg][n] = None THEN "get" ELSE "read"]]
  /\ UNCHANGED <<serving, bmu, current, rmu, conns, pool, cmu, job>>

ReadStats(t) ==
  /\ thr[t].pc = "read"
  /\ cmu[thr[t].at] = None
  /\ thr' = [thr EXCEPT ![t].pc = "get", ![t].at = None]
  /\ UNCHANGED <<serving, bmu, current, rmu, conns, pool, cmu, job>>

StatsDone(t) ==
  /\ thr[t].pc = "get"
  /\ thr[t].todo = {}
  /\ Return(t)
  /\ UNCHANGED <<serving, bmu, current, rmu, conns, pool, cmu, job>>

\* pathPoolStatsRead dereferences the statistics of a name that is gone before
\* it looks at the error; nothing recovers and the process is started again.
PoolStatsPanic(t) ==
  LET f == thr[t]
  IN
  /\ f.pc = "get"
  /\ rmu[f.reg] = None
  /\ \E n \in f.todo : conns[f.reg][n] = None
  /\ serving' = FALSE
  /\ bmu' = None
  /\ current' = FirstRegistry
  /\ rmu' = [reg \in Registry |-> None]
  /\ conns' = NoConns
  /\ pool' = NoPools
  /\ cmu' = [p \in Pool |-> None]
  /\ job' = FirstJobs
  /\ thr' = Setup

-----------------------------------------------------------------------------
(* Reload and shutdown: pathReloadPluginHandler and Backend.Shutdown *)

ReloadLock(t) ==
  /\ thr[t].pc = "registry"
  /\ thr[t].op \in {"reload", "shutdown"}
  /\ bmu = None
  /\ bmu' = t
  /\ thr' = [thr EXCEPT ![t].pc = "cancel", ![t].reg = current]
  /\ UNCHANGED <<serving, current, rmu, conns, pool, cmu, job>>

\* Mutation of ShutdownCancel: one of the three contexts is forgotten.
ShutdownCancelsTwo(t) ==
  LET stopped == {<<thr[t].reg, j>> : j \in {"health", "cleanup"}}
  IN
  /\ thr[t].pc = "cancel"
  /\ job' = [j \in JobThread |-> IF j \in stopped THEN [job[j] EXCEPT !.cancelled = TRUE] ELSE job[j]]
  /\ Goto(t, "await")
  /\ UNCHANGED <<serving, bmu, current, rmu, conns, pool, cmu>>

\* DBRegistry.Shutdown cancels the three contexts ...
ShutdownCancel(t) ==
  LET reg == thr[t].reg
  IN
  /\ thr[t].pc = "cancel"
  /\ job' = [j \in JobThread |-> IF j[1] = reg THEN [job[j] EXCEPT !.cancelled = TRUE] ELSE job[j]]
  /\ Goto(t, "await")
  /\ UNCHANGED <<serving, bmu, current, rmu, conns, pool, cmu>>

\* ... waits for the three done channels, then takes the registry's lock.
ShutdownAwait(t) ==
  LET reg == thr[t].reg
  IN
  /\ thr[t].pc = "await"
  /\ \A j \in Job : job[<<reg, j>>].pc = "stopped"
  /\ rmu[reg] = None
  /\ rmu' = [rmu EXCEPT ![reg] = t]
  /\ Goto(t, "closeall")
  /\ UNCHANGED <<serving, bmu, current, conns, pool, cmu, job>>

ShutdownClose(t) ==
  LET reg == thr[t].reg
  IN
  /\ thr[t].pc = "closeall"
  /\ \E n \in Name :
       LET p == conns[reg][n]
       IN
       /\ p # None
       /\ cmu[p] = None
       /\ ClosePool(p)
       /\ conns' = [conns EXCEPT ![reg][n] = None]
  /\ UNCHANGED <<serving, bmu, current, rmu, cmu, job, thr>>

\* A shutdown ends here; a reload goes on with a new registry, of which only
\* StartHealthChecks is called.
ShutdownDone(t) ==
  LET f == thr[t]
  IN
  /\ f.pc = "closeall"
  /\ Mapped(f.reg) = {}
  /\ rmu' = [rmu EXCEPT ![f.reg] = None]
  /\ \/ /\ f.op = "shutdown"
        /\ serving' = FALSE
        /\ bmu' = None
        /\ Return(t)
        /\ UNCHANGED <<current, job>>
     \/ /\ f.op = "reload"
        /\ \E reg \in Unused :
             /\ current' = reg
             /\ job' = [j \in JobThread |-> IF j[1] = reg THEN Started(j[2]) ELSE job[j]]
             /\ thr' = [thr EXCEPT ![t] = Load("reload", reg)]
        /\ UNCHANGED <<serving, bmu>>
  /\ UNCHANGED <<conns, pool, cmu>>

-----------------------------------------------------------------------------
(* The background jobs: runHealthChecks, runCleanup, EnsureMinConnections *)

\* The ticker fires: the pools to visit are a snapshot of the map.
JobTick(j) ==
  /\ job[j].pc = "wait"
  /\ rmu[j[1]] = None
  /\ Mapped(j[1]) # {}
  /\ job' = [job EXCEPT ![j].pc = "visit", ![j].todo = Mapped(j[1])]
  /\ UNCHANGED <<serving, bmu, current, rmu, conns, pool, cmu, thr>>

\* The context is done: the job closes its done channel.
JobStop(j) ==
  /\ job[j].pc = "wait"
  /\ job[j].cancelled
  /\ job' = [job EXCEPT ![j].pc = "stopped"]
  /\ UNCHANGED <<serving, bmu, current, rmu, conns, pool, cmu, thr>>

JobLockPool(j) ==
  /\ job[j].pc = "visit"
  /\ \E p \in job[j].todo :
       /\ cmu[p] = None
       /\ cmu' = [cmu EXCEPT ![p] = j]
       /\ job' = [job EXCEPT ![j].pc = "locked", ![j].at = p, ![j].todo = @ \ {p}]
  /\ UNCHANGED <<serving, bmu, current, rmu, conns, pool, thr>>

\* The visit itself, under the pool's lock, and on to the next pool.
JobLeave(j, todo) ==
  /\ cmu' = [cmu EXCEPT ![job[j].at] = None]
  /\ job' = [job EXCEPT ![j].at = None, ![j].todo = todo,
                        ![j].pc = IF todo = {} THEN "wait" ELSE "visit"]
  /\ UNCHANGED <<serving, bmu, current, rmu, conns, thr>>

\* Mutation of CheckHealth: a failed ping leaves the state as it was.
CheckHealthKeepsState(j) ==
  LET p == job[j].at
  IN
  /\ j[2] = "health"
  /\ job[j].pc = "locked"
  /\ \/ pool[p].open /\ pool' = [pool EXCEPT ![p].state = "healthy"]
     \/ (PingMayFail \/ ~pool[p].open) /\ pool' = pool
  /\ JobLeave(j, job[j].todo)

CheckHealth(j) ==
  LET p == job[j].at
  IN
  /\ j[2] = "health"
  /\ job[j].pc = "locked"
  /\ \/ pool[p].open /\ pool' = [pool EXCEPT ![p].state = "healthy"]
     \/ (PingMayFail \/ ~pool[p].open) /\ pool' = [pool EXCEPT ![p].state = "unhealthy"]
  /\ JobLeave(j, job[j].todo)

\* Idle long enough or not: either the whole sql.DB is closed, or nothing is.
CleanupIdleConnections(j) ==
  LET p == job[j].at
  IN
  /\ j[2] = "cleanup"
  /\ job[j].pc = "locked"
  /\ \/ pool[p].open /\ ClosePool(p)
     \/ pool' = pool
  /\ JobLeave(j, job[j].todo)

\* The first error ends the round.
EnsureMinConnections(j) ==
  /\ j[2] = "minconns"
  /\ job[j].pc = "locked"
  /\ pool' = pool
  /\ \/ JobLeave(j, job[j].todo)
     \/ (PingMayFail \/ ~pool[job[j].at].open) /\ JobLeave(j, {})

-----------------------------------------------------------------------------
Loading(t) == LoadNext(t) \/ LoadDone(t) \/ AddLock(t) \/ AddPing(t) \/ WaitForWarmup(t)

Continue(t) ==
  \/ Loading(t)
  \/ ReadRegistry(t) \/ UpdateLock(t) \/ UpdateClose(t) \/ UpdateOpen(t)
  \/ ListConnections(t) \/ GetConnection(t) \/ ReadStats(t) \/ StatsDone(t)
  \/ ReloadLock(t) \/ ShutdownCancel(t) \/ ShutdownAwait(t) \/ ShutdownClose(t)
  \/ ShutdownDone(t)

RunJob(j) ==
  \/ JobTick(j) \/ JobLockPool(j)
  \/ CheckHealth(j) \/ CleanupIdleConnections(j) \/ EnsureMinConnections(j)

Next ==
  \/ \E t \in Thread : Continue(t) \/ PoolStatsPanic(t)
  \/ \E t \in Request, op \in Operations, n \in Name : Start(t, op, n)
  \/ \E j \in JobThread : JobStop(j) \/ RunJob(j)
  \/ \E p \in Pool : WarmupEnds(p)

Spec == Init /\ [][Next]_vars

\* Goroutines are scheduled and Go's mutexes let each waiter in at last, however
\* often others pass (strong fairness); pings and warm-ups end by their
\* timeouts; tickers fire; a select on a ticker and a cancelled context does not
\* choose the ticker for ever.  No request has to be sent.
Fairness ==
  /\ WF_vars(Continue(Main))
  /\ \A t \in Request : SF_vars(Continue(t))
  /\ \A j \in Registry \X StartedJobs : SF_vars(RunJob(j)) /\ SF_vars(JobStop(j))
  /\ \A p \in Pool : WF_vars(WarmupEnds(p))

FairSpec == Spec /\ Fairness

-----------------------------------------------------------------------------
(* What holds of the code *)

\* Every variable has its type (DBRegistry, DBConnection, Backend).
TypeOK ==
  /\ serving \in BOOLEAN
  /\ bmu \in Thread \cup {None}
  /\ current \in Registry
  /\ rmu \in [Registry -> Thread \cup {None}]
  /\ conns \in [Registry -> [Name -> Pool \cup {None}]]
  /\ pool \in [Pool -> PoolState]
  /\ cmu \in [Pool -> JobThread \cup {None}]
  /\ job \in [JobThread -> JobState]
  /\ thr \in [Thread -> Frame]

\* A pool that says it is healthy is open: CanOperate creates users on the
\* strength of it.  A health check that took the pool from the map before an
\* update or a shutdown closed it must not bring the answer back.
HealthyIsOpen == \A p \in Pool : pool[p].state = "healthy" => pool[p].open

\* Who holds which lock follows from where it is: each return path of
\* AddConnection, UpdateConnection, CheckHealth and Shutdown releases its locks.
LockInv ==
  /\ \A reg \in Registry, t \in Thread :
       rmu[reg] = t <=> thr[t].reg = reg /\ thr[t].pc \in {"ping", "close", "open", "closeall"}
  /\ \A t \in Thread :
       bmu = t <=> /\ thr[t].op \in {"reload", "shutdown"}
                   /\ thr[t].pc \notin {"idle", "registry"}
  /\ \A p \in Pool, j \in JobThread :
       cmu[p] = j <=> job[j].pc = "locked" /\ job[j].at = p

\* The map holds made pools only, each under one name of one registry.
MapInv ==
  /\ \A reg \in Registry : \A p \in Mapped(reg) : pool[p].made
  /\ \A x, y \in Registry, m, n \in Name :
       conns[x][m] = conns[y][n] /\ conns[x][m] # None => x = y /\ m = n
  /\ \A p \in Pool : pool[p].open => pool[p].made

\* A pool the map gives out is open; the idle cleanup alone leaves closed ones in it.
MappedIsOpen ==
  "cleanup" \notin StartedJobs => \A reg \in Registry : \A p \in Mapped(reg) : pool[p].open

-----------------------------------------------------------------------------
(* Who waits for whom *)

\* What thread t needs to go on is there.
CanGo(t) ==
  LET f == thr[t]
  IN
  \/ f.pc \in {"load", "cancel"}
  \/ f.pc \in {"add", "lock", "list"} /\ rmu[f.reg] = None
  \/ f.pc = "get" /\ (f.todo = {} \/ rmu[f.reg] = None)
  \/ f.pc = "registry" /\ (f.op = "update" \/ bmu = None)
  \/ f.pc = "ping" /\ (PingMayFail \/ Unmade # {})
  \/ f.pc = "open" /\ (OpenMayFail \/ Unmade # {})
  \/ f.pc = "warm" /\ pool[f.at].warm = "done"
  \/ f.pc = "close" /\ cmu[conns[f.reg][f.name]] = None
  \/ f.pc = "read" /\ cmu[f.at] = None
  \/ /\ f.pc = "await"
     /\ rmu[f.reg] = None
     /\ \A j \in Job : job[<<f.reg, j>>].pc = "stopped"
  \/ /\ f.pc = "closeall"
     /\ \/ \E n \in Name : conns[f.reg][n] # None /\ cmu[conns[f.reg][n]] = None
        \/ Mapped(f.reg) = {} /\ (f.op = "shutdown" \/ Unused # {})

\* Pool p is locked by a job in its visit, which needs no other lock.
VisitEnds(p) == \E j \in JobThread : cmu[p] = j /\ job[j].pc = "locked"

\* Thread u, which has the lock of its registry, waits for a pool at most, or for
\* an object that is beyond a bound.
WillUnlock(u) ==
  LET f == thr[u]
  IN
  /\ f.pc \in {"ping", "close", "open", "closeall"}
  /\ \/ CanGo(u)
     \/ f.pc = "close" /\ VisitEnds(conns[f.reg][f.name])
     \/ f.pc = "closeall" /\ \E p \in Mapped(f.reg) : VisitEnds(p)
     \/ f.pc \in {"ping", "open"} /\ Unmade = {}
     \/ f.pc = "closeall" /\ Unused = {}

RegistryComesFree(reg) ==
  rmu[reg] = None \/ \E u \in Thread : rmu[reg] = u /\ WillUnlock(u)

\* A job that has been told to stop is on its way.
JobEnds(j) ==
  \/ job[j].pc = "stopped"
  \/ /\ job[j].cancelled
     /\ \/ job[j].pc \in {"wait", "locked"}
        \/ job[j].pc = "visit" /\ \E p \in job[j].todo : cmu[p] = None \/ VisitEnds(p)

\* The two waits that have no end: for a job the backend does not start, and for a
\* warm-up that AddConnection does not start.
WaitsForNothing(t) ==
  LET f == thr[t]
  IN
  \/ f.pc = "await" /\ \E j \in Job \ StartedJobs : job[<<f.reg, j>>].pc = "off"
  \/ f.pc = "warm" /\ pool[f.at].warm = "never"

\* Thread t does not wait for b.mu, and goes on when the ones it waits for do.
GoesOn(t) ==
  LET f == thr[t]
  IN
  \/ CanGo(t)
  \/ WillUnlock(t)
  \/ f.pc \in {"add", "lock", "list", "get"} /\ RegistryComesFree(f.reg)
  \/ f.pc = "read" /\ VisitEnds(f.at)
  \/ f.pc = "warm" /\ pool[f.at].warm = "running"
  \/ f.pc = "await" /\ RegistryComesFree(f.reg) /\ \A j \in Job : JobEnds(<<f.reg, j>>)

\* The locks are taken in the order b.mu, registry, pool: no requests, jobs and
\* reloads wait for each other in a circle, and a request that waits for ever
\* waits, at most behind b.mu, for one of the two that were never started.
WaitsInOrder ==
  \A t \in Thread : thr[t].pc # "idle" =>
    \/ GoesOn(t) \/ WaitsForNothing(t)
    \/ /\ thr[t].pc = "registry"
       /\ \E u \in Thread : /\ bmu = u /\ thr[u].pc # "registry"
                            /\ GoesOn(u) \/ WaitsForNothing(u)

RegistryInv ==
  TypeOK /\ LockInv /\ MapInv /\ HealthyIsOpen /\ MappedIsOpen /\ WaitsInOrder

\* Every open pool is in the registry in use, under one name: updates of one
\* name that race, failed opens and health checks leave no pool open that no
\* one will close.
NoLeakedPool ==
  \A p \in Pool : pool[p].open =>
    /\ \E n \in Name : conns[current][n] = p
    /\ \A m, n \in Name : conns[current][m] = p /\ conns[current][n] = p => m = n

\* Every request is answered: what WaitsInOrder says will come does come.
Answered == \A t \in Request : thr[t].pc # "idle" ~> thr[t].pc = "idle"

\* A pool that stays in the map is looked at by the health checks sooner or
\* later; until then CanOperate refuses its region.
NewPoolsGetChecked ==
  \A p \in Pool :
    (pool[p].open /\ pool[p].state = "unknown") ~> ~(pool[p].open /\ pool[p].state = "unknown")

-----------------------------------------------------------------------------
(* What the documentation says *)

\* docs/openapi.yaml:893-897 gives min_connections a minimum and a default of 0:
\* with such a configuration stored, Setup ends and the plugin serves.
SetupEnds == <>serving

\* path_reload_plugin.go:18 "Reloads all plugin-level settings including caches,
\* connection pools, and health checks": a reload comes to an end.
ReloadEnds == \A t \in Request : thr[t].op = "reload" ~> thr[t].pc = "idle"

\* path_pool_stats.go:16 "Returns statistics about the database connection
\* pool", also while connections are being replaced.
PoolStatsAnswers == [][\A t \in Thread : ~PoolStatsPanic(t)]_vars
=============================================================================

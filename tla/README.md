# A specification of the OpenBao Teradata secrets plugin

The plugin (Go, `src/`) is an OpenBao secrets engine.  It creates users in
Teradata databases on demand, hands their names and passwords to callers,
extends, renews, revokes and cleans up those users, rotates the passwords of
static users, and keeps one connection pool for each configured database.
OpenBao calls one handler for each request, each on a goroutine of its own; no
handler takes a lock for its duration and storage has no transactions.

This directory holds TLA+ modules translated from that code, TLC configurations
that check them on small instances, and TLAPS proofs of the properties that
matter most.  `PROJECT.json` maps each definition to its source lines.

## Inventory

| component (source) | state | operations | interacts with | hard behaviour | correct means |
|---|---|---|---|---|---|
| credential lifecycle (`path_creds`, `path_extend_lease`, `path_renew_creds`, `path_revoke_creds`, `path_bulk_revoke`, `path_leases`, `path_renew_batch`) | `creds/<username>` records | create, create a batch, extend, renew, renew a batch, revoke one / a list / a role / all, clean up expired | database users, the credential cache, roles, configurations, retry, webhook, audit | interleaved requests, partial failures, ambiguous database errors, crashes between two calls | a user given to a caller can always be found and revoked; records and users leave in the right order; ttl and quota limits hold |
| credential cache (`credential_cache`) | `entries`, counters, `done` | get, set, delete, delete by role, clear, warm, close; background cleanup | every handler that looks up a credential | a lock released and taken again inside `Get`, eviction at capacity, close twice | never a value nobody stored, never an expired one, bounded size |
| retry (`src/retry`) | attempt counter, context | `Do`, `DoWithResult` | every database call | ambiguous failures, cancellation, nil or zero configuration | at most `MaxAttempts` calls; success reported only after a success |
| static roles (`path_static_roles`, `path_static_creds`) | `static-roles/<name>`, `static-creds/<name>` | create, update, delete, rotate, read | database passwords | the password changes in the database before it is stored; rotations race | the stored password is the one the database accepts |
| connection registry (`src/storage/db_registry`) | map of pools, state of each pool, three background jobs | add, update, remove, get, statistics, health check, idle cleanup, shutdown | backend setup, reload, health, pool statistics | two levels of locks, network calls under a lock, waiting for jobs to end | pools in the map are open; nobody waits for ever |
| backend (`backend.go`, `cmd`) | the registry and cache pointers under `b.mu`, degradation flags, the list of paths | setup, shutdown, request dispatch, `Revoke` | everything | `b.mu` held across a shutdown; the first of several patterns that match wins | a request is answered, by the handler its path is there for |
| graceful degradation (`path_operational`) | two flags and a time | health read, degradation read and update, readiness | registry | flags read and written one at a time | the flags agree with each other |
| rate limiting (`ratelimit`, `path_rate_limit`) | token buckets by client address, a switch | allow, cleanup, configure | request dispatch, before every handler | two lock sections and a token taken outside both; the map is thrown away while buckets are in use | one bucket for a client between two cleanups, at most a burst and the rate out of it, no refusal before it is spent |
| query cache (`query_cache`) | map with the time of last use | get, set, delete, delete by prefix, clear, cleanup, close | writers of roles, statements and configurations | a lookup that has read storage is overtaken by a write and its invalidation | what it shows is what is stored; never more than `maxSize`; the least recently used goes first |
| configuration (`path_config`, `path_config_backup`, `path_reload_config`, `path_reload_plugin`, `path_pool_stats`) | `config/<name>` | write, read, delete, list, reset, backup, restore, reload | registry, query cache | stored before it is verified; the registry is told separately | the registry serves what storage says |
| roles and statements (`path_roles`, `path_statements`, `role_migrations`) | `roles/<name>`, `statements/<name>` | write, read, delete, list, migrate | creation, renewal, revocation | a write replaces, a migration is chosen by version | no field is lost; every old version is brought up to date |
| ODBC client (`src/odbc`) | connection, keepalive goroutine | connect, execute, split statements, start and stop keepalive, validate, close | everything that talks to a database | a lock held while waiting for the keepalive goroutine; a goroutine that reads the fields of a later start | no one waits for ever; no ping of a closed connection; statements run in order up to the first error |
| webhook (`src/webhook`, `path_webhook`) | `webhook/config` | send with retries, configure, delete | lifecycle operations, inside the handler; retry | an answer that is lost, a configuration that changes, a request that is cancelled | no second copy without a lost answer; no error means delivered or not wanted |
| audit, metrics, logging, tracing | counters, log output | record | everything | none that is read back | - |
| connection string and SQL checks (`src/security`) | none | validate | configuration, roles | text patterns | - |

`PROJECT.json` lists the hazards of each component at the line where they bite.

## Plan

In this order, the most important behaviour first.

1. `CredentialLifecycle`: dynamic credentials in database, storage and cache, and
   `LeasedUsers`, the abstract specification it implements.  *Done.*
2. `CredentialLifecycle_proofs`: type correctness, the inductive invariant, what
   follows from it, the bounds, the refinement.  *Done.*
3. `ConnectionRegistry`: pools, locks, background jobs, setup, reload, shutdown;
   liveness (a request is answered).  *Done, with `ConnectionRegistry_proofs`; removal of
   a pool has no caller.*
4. `StaticRoles`: passwords in the database against stored passwords.  *Done, with
   `StaticRoles_proofs`.*
5. `CredentialCache`, with `AbstractCache`, which it implements (*done, with
   `CredentialCache_proofs`*); `QueryCache`, another implementation of the same
   abstraction (*done, proofs in `Services_proofs`*).
6. `SqlExecution`: the nested retries of one `executeSQL`.  *Done, with
   `SqlExecution_proofs`.*
7. `Degradation`: the flags and the gate.  *Done, with `Degradation_proofs`.*
8. `RoleStore` (roles, statements, migrations) and `Configuration` (what is stored
   and the pools opened from it).  *Done, with `Administration_proofs`.*
9. `RateLimit`, `Routing`, `KeepAlive`, `Webhook`.  *Done, with `Services_proofs`.*
10. `DatabaseCall`: the one-step call the other modules use, which `SqlExecution`
   implements.  *Done.*
11. Proofs: every safety property of every passing run, the refinements of items 1, 5
   and 10, and of the liveness properties what is safety about them (who waits for
   whom, a measure that falls, which waits have no end).  *Done.*

Where small components share no state, one MC module composes them and one run
checks them (`MCAdministration`, `MCCaches`, `MCGates`, `MCOutgoing`): a variable
`served` says which of them a behaviour runs, and interleaving them would add no
behaviour of any.

At present: 12 runs (11 pass, one shows a violation), 40 mutants, each of which
breaks the property it is named for, 40 hazards, 56 listed theorems in 8 proof
modules.  Of the 40 checked properties, all are proved but the five that are liveness;
for three of these the proofs have the safety half ("Not modelled", at the end).

## CredentialLifecycle

**State.** `db[g]` is the set of users database `g` has; `store[u]` is the record
`creds/<u>`; `cache[u]` the cached copy; `req[r]` the frame of a request (the
next call it makes, its user and record, the users it has yet to visit); `used`
the names that were generated; `held` the users whose name and password a caller
was given; `removed` the users a revocation or cleanup reported.  The last three
are history the handlers do not keep but callers and administrators do.

**Actions.** One for each call of a handler that can fail or that others can
observe; reads that only feed a decision belong to the action that takes it.

| action | code |
|---|---|
| `CreateAdmit` | checks, quota count and name generation of `pathCredsRead` / `pathCredsBatchRead` |
| `CreateUser`, `CreationStatement`, `Rollback` | `executeSQL` with `CREATE USER`, the creation statement, the rollback |
| `PutCredential`, `CacheCredential` | `storeCredential`, `cacheCredential` |
| `ExtendLease` | `pathExtendLeaseHandler` up to its write |
| `RevokeUsers`, `RevokeRole`, `RevokeAll`, `CleanupStart`, `RenewStart`, `RenewBatch` | how the other handlers start: their list of users |
| `PickTarget` | the loop over those users |
| `Lookup`, `FillCache` | `getCachedCredential` before and after its storage read; a batch renewal reads storage only, and goes on to `AlterPassword` without the connection whose nil configuration panics (`AfterLookup`) |
| `Connect`, `AlterPassword`, `DropUser`, `DeleteCredential`, `InvalidateCache` | the calls of revocation, renewal and cleanup |
| `NilRetryPanic`, `Crash`, `CacheExpire`, `Tick` | the environment, and the panic of `retry.Do` |

`executeSQL` retries and may report an error for a statement that took effect, so
`CreateUser` and `DropUser` have an outcome "failed, and yet done".  A crash
clears the cache and every request; database and storage stay.

**As built, and as written.** `retry.Do(ctx, nil, ...)` dereferences its nil
configuration before it replaces it (`src/retry/retry.go:124`), so every
revocation and renewal ends the process at its first connection.
`NilRetryPanics = TRUE` is the code as it is; then the lines after that call are
dead code.  `NilRetryPanics = FALSE` takes the replacement at `retry.go:130` as if
it came first, and shows what the rest of the handlers do.

The model is of the handlers.  `leases/cleanup` is registered after
`leases/<lease_id>` (`backend.go:267-271`) and the first matching pattern wins, and
`leases/extend/<lease_id>` cannot match a lease ID, which has slashes: the tests
call those handlers directly (`path_extend_lease_test.go:48`).

**Runs.**

| run | shows | bounds |
|---|---|---|
| `lifecycle_as_built` | every given user stays tracked, extensions respect max_ttl | 2 requests, 2 users, 2 databases, batches of 1 and 2, clock to 2, failures and crashes; requests that name users to revoke end in the panic, so their lists are empty |
| `lifecycle_nil_default` | the inductive invariant of the proofs, in every reachable state: types, what was removed stays dropped, records name their database; every step is one of `LeasedUsers` | 2 requests, 2 users, 2 databases, batches of 1, lists of up to 2 users to revoke or to renew, clock to 1, failures; crashes are in `lifecycle_as_built` and in the proofs |
| `lifecycle_quota` | concurrent creations overshoot the quota by at most one batch for each other request | 2 requests, 3 users, quota 1 |
| `lifecycle_sequential` | with one request at a time and one database a cleanup is complete, and what it removed stays removed | 1 request, 3 users, lists of 2, clock to 2 |
| `doc_revoke` | a revocation panics where the help text promises a removal | 1 request, 1 user |

Two users are enough for a batch and a name that is not chosen; two
requests for every race between two handlers (the proofs cover any number); a
clock of 2 for a lease that expires and an extension at the limit of max_ttl.
Requests and users are symmetric.  All of these are safety properties, so no
fairness is assumed.  `CHECK_DEADLOCK` is on: a tick or a request is always possible
until the names run out, and then a request for an unknown user still is.

**Proofs** (`CredentialLifecycle_proofs`).  `TypeCorrect` holds for every value of
the constants.  The rest assume `RandomSuffixes` (no role fixes its user names):
`DocLeaseList.cfg` shows that it is needed.  `HeldIsTracked` is not inductive.  The
argument is that a name passes through three stages, unused, being made by one
request, and past: `NamesInv` says a name in a database was generated and at most
one request is making it; `PastInv` that whatever storage, cache, callers or other
requests know is past; `HomeInv` that a user is in one database and that a request
about to create or forget it finds it in none; `TrackedInv` that a user being
delivered has a record; `RegionInv` that every copy of its record names its
database.  `LifecycleInv` is their conjunction with `TypeOK`, the shape of the
frames (`FrameInv`) and `RemovedIsDropped`; the proof has one step for each action
and each part it can disturb.  `DeletesFollowDrops` (`DeleteOnlyAfterDrop`) is an action
property that follows from the invariant in the state before the step.

The other properties need more than `LifecycleInv`, and each one its own addition
(the section "Why the bounds hold" of the module):

| theorem | further assumptions | what makes it inductive |
|---|---|---|
| `QuotaOvershootIsBounded` | a finite number of requests | `QuotaInv`: the records of a role, the users being made for it (`Claimed`) and the batch elements not yet begun (`Slots`) are bounded together, so that a step only moves a user from one of these sets to another, and a creation adds at most `Most` (the part `Slots` of a batch is reserved when it is admitted); `RoleInv`: all copies of a record name one role, so a write moves no user from role to role; `ListedInv`: a renewal gets to its write only for a user its database has, and such a user has a record, so the write adds none |
| `QuotaKeptWithoutOverlap` | one request at a time, a largest batch | the same, with no other request to overshoot: then `QuotaRespected`, which the documentation states and overlapping creations break (`DocQuota.cfg`), holds |
| `ExtensionsRespectMaxTTL` | `NilRetryPanics`, the code as it is | `RoleInv`, so the `max_ttl` an extension was cut to is that of the record it overwrites; `ExtensionInv`: what an extension carries is cut, and a renewal, the only writer that does not cut, does not get as far as its write |
| `CleanedUsersStayGone` | one request at a time | `RemovalInv`: nobody, the cache included, holds a copy of what was removed |
| `CleanupsRemoveExpired` | one request at a time, one database, no failing call, no crash | `CleanupInv`: a record has its user (so the drop succeeds, `Backed`), and what had expired is still before the cleanup (`Ahead`) |

The further assumptions are those of the runs, and they are needed: `DocCleanupGone.cfg`
and `DocCleanupRegion.cfg` show what concurrency and a second region do.  With the
nil configuration replaced, a renewal moves the expiry without looking at `max_ttl`.
The proofs go by the step of one request: `StepShape` says that a step of the handlers is
one of sixteen moves of one frame (`Moving`), the end of the process or the passing
of time, and each invariant is kept by each move.

**Refinement.**  `LeasedUsers` is what an administrator may rely on: `Make` puts a fresh
name into one database, once; `Drop` is the only other change a database sees; `Write`
records a user under the database that has it; `Forget` and `Remove` come after the
drop; `Give` hands out users that are recorded; `Abandon` loses names.  It has no
requests, cache, retries or crashes.  The mapping (`Leases`) takes for `fresh` the names
not yet generated and those whose `CREATE USER` has not ended (`Unmade`), for `record` the
region a record names, for `given` the users of `held`.  `CreateUser` is `Make`, even when
it reports an error, or `Abandon`; `PutCredential` and the write of an extension or renewal
are `Write`; `DropUser` and `Rollback` are `Drop`; `DeleteCredential` is `Forget`,
`InvalidateCache` `Remove`, `CacheCredential` `Give` when it answers the caller; a crash
is `Abandon`; all else, a name being chosen included, is a stutter.
`LeasesImplemented` proves it from `LifecycleInv`, and `UsersNeverReturn` draws a
consequence no invariant states: once a `CREATE USER` has ended, no database gains its
user.  `PromisesKept` states `Findable` and `Gone` of `LeasedUsers` for the handlers: what a
caller was given is recorded where it is, what was removed is nowhere.

**Not modelled:** passwords, statement texts, webhook, audit.

## ConnectionRegistry

**State.** `current` is `b.dbRegistry`; `conns[reg]` the map of a registry;
`pool[p]` one `DBConnection` (is its `sql.DB` open, what does it say of its health,
will its warm-up channel be closed); `bmu`, `rmu[reg]`, `cmu[p]` the holders of the
three levels of locks; `job` the background goroutines of each registry; `thr` the
frames of the requests and of the goroutine that runs `Setup`; `serving` whether
`Setup` has returned.

**Actions.** A step ends where a lock is taken or given up, at each network call
and at each wait for another goroutine.

| action | code |
|---|---|
| `LoadNext`, `LoadDone` | `prewarmPools`, and the same loop at the end of a plugin reload |
| `AddLock`, `AddPing`, `WaitForWarmup`, `WarmupEnds` | `AddConnection`, `WaitForWarmup`, `warmupPool` |
| `Start`, `ReadRegistry` | how the handlers of `config/reset`, `config/reload`, `pool-stats`, health, plugin reload and `Shutdown` begin |
| `UpdateLock`, `UpdateClose`, `UpdateOpen` | `UpdateConnection` |
| `ListConnections`, `GetConnection`, `ReadStats`, `StatsDone`, `PoolStatsPanic` | the statistics handlers |
| `ReloadLock`, `ShutdownCancel`, `ShutdownAwait`, `ShutdownClose`, `ShutdownDone` | `pathReloadPluginHandler`, `DBRegistry.Shutdown`, `Backend.Shutdown` |
| `JobTick`, `JobStop`, `JobLockPool`, `CheckHealth`, `CleanupIdleConnections`, `EnsureMinConnections` | the three background jobs |

`Setup` starts the health checks only, so `StartedJobs = {"health"}` is the plugin
as built; the other two jobs are in the module because `Shutdown` waits for them.
`reload/plugin` is registered after `reload/<plugin_name>` and so is never routed
to, and nothing in `src/` calls `Backend.Shutdown`; both are modelled as handlers.
`sql.Open` hardly ever fails for this driver; `OpenMayFail` takes its error path.

**Runs.**

| run | shows | bounds |
|---|---|---|
| `registry_as_built` | locks are released on every path and the pools of the map are open (`RegistryInv`), no pool leaks, requests are answered, new pools get checked | 2 requests, 2 names (one stored), 2 pools, 1 registry; pings and opens fail |
| `registry_all_jobs` | the same `RegistryInv`, whatever reloads, updates, shutdowns and the three jobs do | 2 requests, 1 name, 3 pools, 2 registries; requests and pools are symmetric (`Alike`) |

`registry_as_built` gives each name one pool or one name two; a third pool adds
only repetition.  Two registries are the one in use and the one a reload makes.
`registry_all_jobs` starts all three jobs, so a reload gets past its wait; it stops when
the pools or registries are used up, so it does not check for deadlock; `NoLeakedPool` is not claimed there, because an
update that still holds the old registry opens a pool nobody will close.

**Who waits for whom.** `WaitsInOrder`, a part of `RegistryInv`, is what `Answered` rests
on, checked by both runs and proved for every instance.  `CanGo(t)` says that the call thread `t`
is at would return now; `WillUnlock`, `RegistryComesFree`, `VisitEnds` and `JobEnds` say
that who holds what `t` waits for can go on, or waits one level further down: b.mu,
then a registry, then a pool, which a job locks for one visit only.  Two waits lead to
nobody (`WaitsForNothing`): for a job that was not started, and for a warm-up that was
not.  A request waits behind one of these, at most with b.mu between, or for someone
who goes on.

**Fairness.** Setup is scheduled (weak fairness).  A request, a health check and
the end of a job get strong fairness: each waits for locks that others take and
give up for ever, and Go's mutexes hand a starving waiter the lock; a `select` on
a ticker and a cancelled context takes each of them sooner or later.  Warm-ups end
by their timeout.  No client is obliged to send a request.

**Proved** (`ConnectionRegistry_proofs`), for any number of requests, names, pools,
registries and jobs: `RegistrySafe` (`RegistryInv`), `HealthySafe` (its parts a caller
relies on) and `NothingLeaks` (`NoLeakedPool`, if a job of the three is not started;
the plugin as built starts one).  The two waits that lead to nobody never end:
`ReloadKeepsTheLock` says that a reload or shutdown that waits for its jobs keeps b.mu
and its place in every step of every other thread, if a job of the three is not
started and no panic ends the process; `SetupWithoutWarmupHangs` that a `Setup` which
waits for a pool without a warm-up never gets on, and nothing is ever served.
`RegistryInv` is not inductive: that a thread
which is to put a pool into the map finds no entry there holds because it looked
under the lock it still has.  `IInv` adds what each frame found (`FoundOK`), what its
operation and name can be at each point (`ShapeOK`), that a shutdown works on the
registry in use and closes pools only when the jobs have stopped (`ShutdownOK`), that
a registry no one has made (`Future`) is empty and named by no frame, and that
jobs that were not started stay off (`JobsOK`).  The lemmas follow the locks: what a
step of one thread does to them (`RegistryLockMoves`, `BackendLockMoves`), what a pool
that enters or leaves the map does to the map (`PoolAdded`, `PoolRemoved`), what a job
may do (`JobsMove`).  For `NothingLeaks`, `LInv` says that no shutdown passes its wait,
so the registry is never replaced, and that every open pool is in its map.  For
`WaitsInOrder`, `WInv` says that who waits for a pool has one, that a visit has one to
go to, and that the jobs a shutdown waits for have been told to stop; `NoCircle` derives
the order from both invariants, one point of the code at a time.  For `Setup`,
`SetupAlone` says that no request is there before it returns.  The
proofs assume `RegistryAssumption`: `None` is no thread, pool, name, registry or job,
there is a registry and a job, and `Operations` are the four there are.

**Only model-checked:** `Answered` and `NewPoolsGetChecked`, which are liveness.

## StaticRoles

**State.** `pw[d][u]` is the password database `d` has for user `u`; `roles[n]` and
`creds[n]` are `static-roles/<n>` and `static-creds/<n>`; `req[r]` the frame of a
request.  Two histories serve the properties: `accepted`, every password a database
took, and `disturbed`, the names whose last changes failed half-way or overlapped.

**Actions.** `StaticRoleCreate`, `StaticRoleUpdate`, `RotateStaticRole` and
`StaticRoleDelete` start a request (the existence check chooses between the first
two).  Then one action for each call: `PutRole`, `CheckExistingCred`, `ModifyUser`,
`PutCred`, `DropUser`, `DeleteRole`, `DeleteCred`, with an action of its own for the
failure of each call whose error the handler returns.  `ModifyUserFails` may have
changed the password: `executeSQL` cannot tell.  A rotation and a deletion work in
the default database whatever `db_name` the role has (`Target`).  Rotation
statements run after the change of password and their errors are ignored;
`replaceStaticRoleVars` turns each into text no database accepts, so they change
nothing.

**Properties.** The database and storage cannot agree at every moment.  What does
hold: a stored password was in force at some time (`StoredWasInForce`, which follows
from `StaticInv` and has no run of its own), and once the
requests for a name have ended it is the one in force, unless something failed
half-way or two requests overlapped since the last rotation that ran alone
(`StoredPasswordWorks`); under the same condition a name has a credential exactly
when it has a role (`RoleAndCredTogether`).  `StoredPasswordWorks` speaks of the
default database only: a rotation stores, for a role of another one, a password
that database has never seen (see below).

**Run.** `static_roles`: 2 requests, 1 name, 2 users, 2 databases, 3 passwords,
failures and crashes.  Names do not interact (`UsersOf` keeps their users apart), so
one is enough; two requests give every overlap; a third password lets a rotation
follow two that raced.  Requests and passwords are symmetric.  The passwords run
out, so the run does not check for deadlock.

**Proofs** (`StaticRoles_proofs`).  All four properties, for any constants that satisfy
`StaticAssumption`, and `LoneRotationRepairs`: whatever failed or overlapped before, the
last `Put` of a rotation that was alone from start to end leaves a name whose role,
credential and password agree.  `StaticInv` says what a request carries at each of its calls:
`FrameOK` its shape, `ForceOK` that a password it is about to store was taken by
the database, `RotateOK` that a rotation that is still alone carries the password in
force, even for a disturbed name, which is why it may end the disturbance,
`PhaseOK` how far database and storage have come for a name nothing has disturbed;
`AloneInv` that two requests for one name are never both alone; `NameOK` what is
left when no request is in flight.  Users of different names are different, so the
password of one is out of reach of the requests of another.

## CredentialCache, QueryCache and AbstractCache

**CredentialCache: state.** `entries[u]` is the cache's map, `open` says that `done` is not closed,
`thr[t]` is where a `Get` is between its two lock sections, `now` the clock;
`event` is history, the call that has just ended and its answer.

**CredentialCache: actions.** Each section under `c.mu` is one.  `GetMiss`, `GetHit`, `GetExpired`,
`GetDelete` and `GetReturn` are `Get`, which gives its read lock up to delete an entry
that has expired; `Set` evicts first when the cache is full, and only an entry older
than its time to live; `Delete`, `DeleteByRole`, `Clear`, `WarmCache`, `Close` are the
methods of these names; `CleanupExpired` is the background goroutine.

`AbstractCache` is what a caller may rely on: a hit returns the value last set and
not removed since, within its time; entries may be gone early, and then there is a
miss.  It is also the cache of `CredentialLifecycle`, whose `CacheExpire` is
`Lose`.  The refinement mapping forgets when an entry was created and where a `Get`
is: `GetDelete` is a `Lose` (of an entry a concurrent `Set` may just have made,
which a cache may lose), `CleanupExpired` a `Lose` of those that expired.

**QueryCache: state.** `cached[k]` is the map, an entry with its value, its expiry and
its last use; `records[k]` what storage has under a key of the cache; `ask[p]` a
request; `told` the call that has just ended, as `event` above.  Keys are of two
kinds: records of storage, and results of queries, which storage does not have.
Histories: `touched`, when a key was last found or set, and `outdated`, the keys whose
entry was overtaken by a write between its read and its `Set` (`crossed`).

**QueryCache: actions.** Every method holds the lock from end to end and is one step;
the races are around the cache.

| action | code |
|---|---|
| `Find`; `Miss`, `ReadRecord`, `Fill` | `Get`; `getCachedRole`, `getCachedConfig`, `getCachedStatement` when they miss: `Get`, the read of storage, `Set` with `evictLRU` |
| `CacheResult` | `cacheQueryResult` |
| `WriteRecord`, `Invalidate`, `VerifySucceeds`, `VerifyFails` | a handler that writes and then invalidates; a configuration is verified after that, and invalidated again if that fails |
| `InvalidateKey`, `InvalidatePrefix`, `InvalidateAll` | `Delete`, `DeleteByPrefix`, `Clear`; a reload of the plugin replaces the cache, which is the same to its users |
| `CleanupOver`, `CloseQueryCache` | the background goroutine and its end |

The handlers of this release write and invalidate, but none of them looks anything
up: `getCachedRole` and its like have no caller outside the tests.  What is checked is
what a lookup through them would get.  The key of "the" configuration is that of the
one named "default", and is never filled.  `AbstractQuery` is the same abstract cache,
with `EvictsLive`: a set may throw out an entry before its time.

**Run.** `caches`.  Credential cache: 2 threads, 2 users, 2 values of different roles,
time to live 1, capacity 1, clock to 4.  Capacity 1 makes every second `Set` meet the
limit, with an entry young enough to stay and with one old enough to go; a clock of 4
lets an entry expire, be replaced and expire again.  Query cache: 2 requests, 1 record,
2 results, 2 values, time to live 1, room for 2, clock to 2.  Two requests are a lookup
and the writer that overtakes it; room for 2 of 3 keys makes the choice of the least
recently used one matter; a clock of 2 lets an entry expire.  `ExpiredLeave` assumes
that the ticker of an open credential cache fires, which the Go runtime guarantees;
nothing else is fair.

**Properties of QueryCache.** `CachedIsStored`, in `QueryInv`, is the one a caller would
want without its conditions: an entry shows what is stored, except between a write
and its invalidation, and except for the entry of an overtaken lookup, which nothing
removes before its time.  `RoomKept` is the limit, `RecentlyUsedStays` the eviction.

**Proofs** (`CredentialCache_proofs`, `Services_proofs`).  `TypeCorrect`, and `Implements`:
every behaviour of the credential cache is one of `AbstractCache`, for any sizes and
times.  The one fact needed besides types is that creation and expiry lie `TTL`
apart, so that an entry `evictOldest` takes has expired.  `LiveStay` (`LiveEntriesStay`)
follows from the same fact.  For the query cache,
`QueryCacheSafe` (`QueryInv`), `EvictsLeastUsed` (`RecentlyUsedStays`, which needs that the
cache's own time of use is the history's, `UsedIsTouched`) and
`QueryCacheImplements`.  `QueryInv` is inductive: `FillIsFresh` says of a lookup in flight
what `CachedIsStored` says of the entry it will set.  `ExpiredLeave` is
liveness, and TLC's.

## SqlExecution

**State.** The text one `executeSQL` was given; `pc`, `attempt`, `try`, `pass`, `next`:
which of its loops it is in, and how far each of them is; `session`, the connection
of the attempt; `cancelled`, the context of the request.  Histories: `connects`, `sent`,
`taken` (statements that took effect) and `stale` (statements a database accepts
only once, which took effect in a pass that failed).

**Actions.** `Attempt` and `AttemptFails` are `retry.Do`; `ConnectSucceeds` and
`ConnectFails` the loop of `odbc.Connect`, which does not know of the context; `Pass`,
`Refused`, `StatementSucceeds`, `StatementFails` and `StatementRejected` are
`ExecuteMultipleStatements`, whose every pass sends the text from its first statement;
`Cancel` is the caller.  `Statements` and `ToSend` are `parseSQLStatements` over lines
that are blank, text, text that ends in a semicolon, or only a semicolon; their loops
are recursive functions (`Cuts`, `Sends`), whose value at `i` is what the loop has after
`i` rounds.  Backoff
is left out: it takes time and decides nothing.

**Run.** In `outgoing_calls`, with `KeepAlive` and `Webhook`: texts of no, one and three
statements, 3 attempts, 2 connection tries, 2 passes; the second statement may be
repeated, the others (a `CREATE USER`) may not.  Three attempts have a first, a middle
and a last one; two tries and passes have both ends.  The call ends, so there is no
deadlock check.  `CallEnds` assumes that the driver answers each call (`QUERYTIMEOUT`
is part of the connection string) and that a sleep ends.

**Proofs** (`SqlExecution_proofs`).  Everything but `CallEnds` (liveness), for every text
that is a sequence of lines (`TextAssumption`) and any number of attempts, tries and passes.
`TextIsSplit` (`SplitKeepsLines`) is about the two loops: `GoodCut` says what is true of
the statements after `i` lines, `AddLineIsGood` that the next line keeps it so.  The induction
over the lines is `SetInduction`: a set of numbers that has 0 and, with each, the next,
is `Nat`, which follows from `<` being well founded on `Nat`; it takes a set, not
an operator, and so can be cited.  `EveryStepShortens` is what is safety about
`CallEnds`: `StepsLeft`, made of what is left of each loop, falls with every step but a
cancellation, and is at most `MaxAttempts * PerAttempt` at the start.  `BoundedWork`
(how often anything is tried), `CancelledSendsNothing`, `NoSecondChance` and the types
are proved and have no run (the last but one is part of `ImplementsCall`).
`PassInOrder` says that a pass has executed what precedes the statement it sends;
`PassIsFresh` that none of this is stale, since the database would not have taken it
twice; `WorkCounted` counts tries and sendings attempt by attempt.

**Refinement.**  `DatabaseCall` is what the other modules take a call of `executeSQL`
for.  It has no loops: statements take effect in order (`TakeNext`), the call fails at any
point (`Fails`), or succeeds once all have (`Succeeds`).  `lost` says that an unrepeatable
statement took effect in a pass that failed; from then on nothing takes effect and there
is no success.  The mapping (`Call`) takes `taken` for `done`, `stale # {}` for `lost`.
`OneCall` proves the refinement from `ExecutionInv`: the pass in progress has got past no
stale statement, so when it comes to one that has not taken effect, none is stale.
With one statement, as in `CREATE USER` and `DROP USER`, `DatabaseCall` has the three
outcomes of `CreateUser` and `DropUser` in `CredentialLifecycle` and of `ModifyUser` in
`StaticRoles`: done, not done, failed and yet done; and none "done by an earlier pass,
and reported as done".  `LostCallsChangeNothing` is the consequence that a retry after
a lost answer leaves the database alone; `NoSecondChance` (`LostAnswersStayLost`) the
one that it is not reported as a success.

## KeepAlive

**State.** `link` is the connection (up, given up by `Validate`, closed); `holder` and
`reading` are who has `c.mu`; `current` counts the starts, each of which makes a
context (`ctx[g]`) and a done channel (`done[g]`); `loop[g]` is where the goroutine of a
start is, and which channel it will close and which context it watches; `act[c]` where
a `StopKeepAlive` or `Close` is; `outcome` whether a closed channel was closed again.
Histories: `overlaps`, starts while an earlier goroutine was running, and `stopped`,
the start that was current when a stop last returned.

**Actions.** `StartKeepAlive`, `StopKeepAlive`, `CloseBegins`, `StopReturns`, `CloseDB` and
`ValidateFails` are the callers; a stop keeps the write lock while it waits.  `Begin`
(the deferred `close` evaluates its channel now), `LoopHead` (the `select` evaluates the
context now), `ContextDone`, `TickerFires`, `LockToPing`, `PingEnds` and `LoopEnds` are the
goroutine.  `ParentCancelled` is the context the caller gave.

**Properties.** `KeepAliveInv`: nothing pings a connection that is closed or given up;
and as long as no start overlaps the goroutine of an earlier one, each goroutine
closes its own channel once and a stop that has returned leaves none running.  With
an overlap both fail: the earlier goroutine closes the channel of the later start,
or one that is closed already, which is a panic.  `StopReturnsUnlessTicking`: a stop
returns, unless the goroutine's ticker has fired, for then it waits for the read
lock that the stop holds while it waits for the goroutine.  That is a deadlock the
code has (`DocKeepAlive.cfg`), latent in this release: only tests call
`StartKeepAlive`.

**Run.** In `outgoing_calls`: 2 callers, 3 starts.  Two starts overlap, a third follows
when they have met.  **Fairness:** goroutines are scheduled, and a ping ends because
its context has five seconds; no caller is obliged to call.

**Proofs** (`Services_proofs`).  `KeepAliveSafe`: `KeepAliveInv` for any number of callers and
starts.  `StopsWaitForALoop`, the safety half of `StopReturnsUnlessTicking`: while a stop
waits, the goroutine of the current start, the one that closes the channel, has not
ended, its context has, and it is not in a ping.  `TickedStopsHang` is the deadlock: a stop
all of whose goroutines wait for the lock (`Stuck`) is stuck after every step of anyone.
That a goroutine whose ticker has not fired does end is liveness, TLC's.

## Webhook

**State.** `hook` is `webhook/config`; `notice[n]` one `SendWebhook`: whether the configuration
it read wants the event, the attempts it has, the state of its request's context,
its answer.  Histories: posts made, posts the receiver took, and those whose answer
was lost.

**Actions.** `WriteHook`, `DeleteHook`: the handlers of `webhook/config`.  `ReadHook`:
`GetWebhookConfig`, once for each notification.  `PostAccepted`, `PostFails`,
`PostRefused`: the kinds of answer, of which only the second leads to another post.
`GiveUp`, `CancelNotice`: the context of the request.

**Properties.** `WebhookInv`: no more posts than the configuration read allowed, whoever
changes it meanwhile; a second copy at the receiver only after an answer was lost; no
error only if the receiver has it, nobody asked for it, or the request was cancelled
before the first post, when `SendWebhook` drops the error of `retry.Do`
(`webhook.go:143`).

**Run.** In `outgoing_calls`: 1 notification, 2 kinds of event, counts of -1, 0 and 2, 3 by
default.  Two notifications share only what each reads once.  **Proofs**
(`Services_proofs`).  `NoticesAreHonest`: `WebhookInv`, for any number of notifications and
counts.

## Degradation

**State.** `degraded`, `manual`, `since` are the fields of the backend; `pool` is what
the registry would say of each name; `pc`, `region`, `todo`, `sick`, `some` the frames of
the requests.  Histories of a gate: was its own pool up all the time, or ever, and
which pools were down all the time.

**Actions.** One for each section under `b.mu` or a lock of the registry.
`HealthBegin` to `HealthEnd` are `pathHealthRead`, whose list of pools is taken once
and looked at one by one; `DegradationOn`, `DegradationOff`, `DegradationOffManual` are
`pathDegradationUpdate`; `GateBegin` to `GateAnswer` are the lines in front of a
creation with `ShouldUseDegradation`, `IsPoolHealthy` and `CanOperate`; `PoolChanges` is
everything that happens to a pool between two reads.

**Run.** In `gates`, with `RateLimit`: 2 requests that write the flags, one creation, 2
pools, 2 moments.  Two writers give every overlap of the setters; two pools a healthy
one next to one that is not; gates write nothing, so one is enough.  Safety only.

**Proofs** (`Degradation_proofs`).  All four properties, for any number of requests and
pools.  The flags need only that each step uses one of the two setters or none; the
gate needs `GateInv`: a loop that has found nothing wrong has still to look at every
pool that was down all along.

## RateLimit and Routing

**Routing** has no state: `Routes` is the list of `Backend.paths()` with each pattern as
a sequence of segments, `HandlerOf` the handler of the first that matches.  `Shadowed`
evaluates to the handlers no request reaches: `pathConfigBackup`, `pathConfigRestore`
and `pathReloadConfigV1`, which `config/<name>` hides, `pathReloadPlugin`, which
`reload/<name>` hides, and `pathCleanupExpired`, which `leases/<lease_id>` hides.

**RateLimit: state.** `limiting` is the switch; `limiters[c]` the map of buckets, `bucket[b]` a
`rate.Limiter`; `call[s]` where a request is; `ticks` the clock.  Histories: when a bucket
was made, in which `epoch` (between two cleanups), and how many requests it admitted.

**RateLimit: actions.** `Arrive` is the beginning of `HandleRequest` with `IsExcluded`;
`Lookup` and `Create` the two lock sections of `getLimiter`; `Admit` and `Refuse` are
`Allow`, on a bucket the map may have forgotten since; `Dispatch` is the handler, of
which only `rate-limit/config` changes anything here; `ThrowAway` is `cleanupExpired`.

**Properties.** `RateInv`: between two cleanups a client has one bucket, however many of
its first requests come at once; a bucket never admits more than a burst and the rate
since it was made; and nobody is refused who has not spent a whole burst, the last of
it in the unit of time of the refusal.  `ExemptIsHarmless` composes the two modules:
the limiter exempts paths by their first segment, the routes go by the whole path,
and no exempt path leads to a handler that does more than report.

**Run.** In `gates`: 2 requests, 2 addresses, 4 buckets, a burst of 2, rate 1, one cleanup,
2 moments, 4 paths (exempt; beginning like an exempt one; only containing its word; the
switch).  Two requests race for a bucket, two addresses fill the map past `MaxKeys` = 1,
and a cleanup leaves two buckets in use and lets two more be made.

**Proofs** (`Services_proofs`).  `RateLimited`: `RateInv` for any number of requests, clients and
buckets, any burst and rate.  The argument for refusals is `NoTokenLost`: tokens leave a
bucket by admissions only, so an empty one has admitted a burst.  `ExemptReports`:
`ExemptIsHarmless` for any paths, by way of the patterns that a path with an exempt first
segment can match, of the whole list of them (`ExemptPatterns`).

## RoleStore and Configuration

**RoleStore: state.** `role[r]` and `template[s]` are the storage entries `roles/<r>` and
`statements/<s>`; `frame[p]` is a request: what it was asked, the role it has read
(`held`), the statement its user should get (`due`) and gets (`out`).  A role is its
version and three fields, one for each way an update treats a field: kept from the
stored role (`names`), replaced (`template`), replaced if the request has it
(`session`).  `overlapped` is history: requests during which another one wrote what
they read.

**RoleStore: actions.** One for each storage call.

| action | code |
|---|---|
| `CheckRole` | `pathRoleExistenceCheck`, by which the framework chooses creation or update |
| `CreateRole`; `ReadForUpdate`, `UpdateRole` | `pathRoleCreate`; `pathRoleUpdate` before and after `getRole` |
| `DeleteRole`, `ReadRole` | `pathRoleDelete`, `pathRoleRead` |
| `PutStatement`, `DeleteStatement` | `pathStatementWrite`, `pathStatementDelete` |
| `StartGrant`, `GrantRole`, `GrantStatement` | the start of `pathCredsRead`, its `getRole`, its `getStatement` |
| `FailRequest`, `AnswerRequest` | a text that does not validate or a storage call that fails; the answer |

`GetRole` is `getRole` with `migrateRole`: it brings a role to the current version or
returns an error.  Initially the store holds roles of an earlier release only
(`LegacyVersions`).  The fields the migrations fill in are left out, and so are the
lists.

**Configuration: state.** `config[n]` is `config/<n>` (where it connects and its plugin);
`pool[n]` where the registry's pool of that name connects; `call[p]` a request and the
names it has yet to visit.  Histories: `stored[n]`, what was stored under the name
since the plugin started, and `crossed`, like `overlapped`.

**Configuration: actions.**

| action | code |
|---|---|
| `WriteConfig`, `VerifyConfig` | `pathConfigWrite` up to its `Put`; `verifyConfigConnection`, whose failure leaves what was stored |
| `DeleteConfig`, `ShowConfig`, `AnswerConfig` | `pathConfigDelete`, `pathConfigRead` |
| `ResetConfig`, `ReloadConfigs`, `ReadConfig`, `UpdatePool`, `EndReload` | `pathConfigResetHandler`, `pathConfigReloadHandler` and `pathReloadConfigHandler`: the names, the read of each, `UpdateConnection` |
| `RestartPlugin` | the process ends; `Setup` and `prewarmPools` |

`UpdateConnection` is one step here; its locks are `ConnectionRegistry`'s, and what
`invalidateConfigCache` clears is `QueryCache`'s.

**Run.** `administration`: 2 requests, 1 role, 2 templates, 2 names, 1 value of the
session variables; 2 requests, 2 configurations, 1 connection string or none, 2
plugins.  Roles do not interact, so one is enough; a role that moves from one
template to another needs two, a reload that skips one two configurations and two
plugins.  The two modules share no storage key and no other state, so each
behaviour of `MCAdministration` serves the requests of one of them (`served`) while
the other rests; interleaving them would add no behaviour of either.  The versions are
0, which counts as 1, and 3, the last one without a migration.  Every request can
fail or end, so the deadlock check is on.  Safety only.

**Proofs** (`Administration_proofs`).  All six properties, for any number of requests,
roles, templates, names and plugins, and one part of `ConfigInv` on its own,
`PoolFromThisLife`: a pool connects to where its configuration has pointed since the
start.  Neither `GrantAsDue` nor `ResetOpensStored` is
inductive: each speaks of the last step of a request and needs what it held before.
`RoleInv` adds `KnowsTheStore` (what a request knows is still so until another write
overlaps it; and nobody is about to write over a role that cannot be read), and
`ConfigInv` adds `HoldsTheStored` (what a reset holds in hand is what is stored).  The
action properties `CarriedOver`, `LegacyStays` and `ResetOpensStored` follow from them
in the state before the step.

## Known disagreements without a run of their own

`doc_revoke` shows a documented statement that the code breaks.  The same kind of
run exists for these; its configuration is kept here and TLC finds the behaviour
in seconds.

| configuration | what the documentation says | what the code does |
|---|---|---|
| `DocQuota.cfg` (`QuotaRespected`) | `path_roles.go:113` "Maximum number of credentials allowed for this role" | two creations count before either stores its record, and both pass (`path_creds.go:142`) |
| `DocCleanupGone.cfg` (`CleanedStaysGone`) | `path_leases.go:129` "Removes expired credentials from the database and storage." | an extension that overlaps writes the removed record back (`path_extend_lease.go:96`) |
| `DocMaxTTL.cfg` (`LeaseWithinMaxTTL`) | `path_roles.go:56` "Maximum lease duration in seconds" | a new lease gets `default_ttl`, however short `max_ttl` is (`path_creds.go:304`) |
| `DocExtend.cfg` (`ExtendNeverShortens`) | `path_extend_lease.go:16` "Extends the TTL of an existing credential lease" | the expiry becomes now plus the ttl asked for, which may be earlier (`path_extend_lease.go:94`) |
| `DocLeaseList.cfg` (`HeldIsTracked`) | `path_leases.go:17` "Lists all active credential leases managed by this plugin." | a role with a `username_suffix`, used in two regions, keeps one record for two users (`path_creds.go:662`) |
| `DocCleanupRegion.cfg` (`CleanupRemovesExpired`) | `path_leases.go:129` "Removes expired credentials from the database and storage." | every `DROP USER` of a cleanup goes to the default database, so the expired user of another region and its record stay (`path_creds.go:915`) |
| `DocReload.cfg` (`ReloadEnds`) | `path_reload_plugin.go:18` "Reloads all plugin-level settings including caches, connection pools, and health checks." | the reload holds `b.mu` and waits for two jobs `Setup` never started (`path_reload_plugin.go:59`) |
| `DocSetup.cfg` (`SetupEnds`) | `docs/openapi.yaml:896` gives `min_connections` the default 0 | `Setup` waits for a warm-up (`backend.go:160`) that `AddConnection` starts only if `min_connections` is above 0 (`db_registry.go:483`), so it never returns once such a database is reachable |
| `DocKeepAlive.cfg` (`StopReturnsAlways`) | `odbc_test.go:127` "StopKeepAlive() should have closed keepAliveDone channel" | it waits for that channel with the write lock held, and the goroutine waits for the read lock if its ticker fired first (`odbc.go:497`) |
| `DocPoolStats.cfg` (`PoolStatsAnswers`) | `path_pool_stats.go:16` "Returns statistics about the database connection pool" | a pool that goes between the list and the lookup is dereferenced as nil (`path_pool_stats.go:46`) |

`getConfig` reads the storage key `config` (`path_config.go:704`), and every write of a
configuration goes to `config/<name>`; `config/restore`, which would write that key, is
shadowed by `config/<name>`.  What the handlers do with a default configuration is
therefore modelled with one that is there (`Configured`, `Default`).

Three more, seen while modelling `Degradation`: a role without a region asks for
the health of a pool named "", which no registry has (`path_creds.go:205`), so it is
refused whenever any pool is down; a health read that finds all pools healthy
clears a degradation that was switched on by hand and leaves the other flag set
(`path_operational.go:111`), although the help of the path says "Manually control
graceful degradation mode" (`path_operational.go:294`); and with
`graceful_degradation_mode` set each such health read degrades the plugin for its
own duration.  With all pools healthy neither flag stops a creation: `CanOperate`
answers yes before it looks at anything else (`backend.go:404`).

Two more, seen while modelling `RoleStore`: `roleMigrations` ends at version 3 and
`RoleVersion` is 4 (`role_migrations.go:13`, `models/config.go:82`), so every role of an
earlier release is an error to whoever reads it, although the task list
says "Handle backward compatibility and migrations." (`tasks/06-compliance.md:278`);
and an update ignores the `username_prefix` and `username_suffix` it is given and keeps
those of the stored role (`path_roles.go:330`).  `LegacyStays` is the good side of the
first: nothing overwrites such a role either.

Two more, seen while modelling `StaticRoles` and part of its actions: rotation and
deletion go to the default database although the role has a `db_name`
(`path_static_roles.go:366`, `:325`), and a deletion answers with success when the
credential could not be deleted (`path_static_roles.go:340`), which a later creation of
that name then keeps as its credential (`:176`).

And of the modules of `Services_proofs`: `rate-limit/config` takes "Maximum requests per
second per IP" (`path_rate_limit.go:23`) and a burst, answers, and uses neither; and
`retry_count`, "Number of times to retry failed webhook requests"
(`path_webhook.go:34`), is the count of all attempts: 1 is no retry, and 0 the default.

## Not modelled

* Configuration backup and restore (`path_config_backup.go`): no request reaches them
  (`Shadowed`).  Root rotation answers and changes nothing.
* `Backend.Revoke`, `DBRegistry.RemoveConnection`, `retry.DoWithResult`, `Query` and
  `Execute` of the ODBC client: nothing in `src/` calls them but tests.
* Audit, metrics, logging and tracing: nothing reads them back to decide anything.
* Checks and building of texts (SQL, connection strings, passwords): a text is
  abstracted to whether it is accepted, in the guards of the handlers.
* Dashboards, Terraform, CI: no program logic.

Liveness (`Answered`, `NewPoolsGetChecked`, `ExpiredLeave`, `CallEnds`,
`StopReturnsUnlessTicking`) is checked by TLC on the instances named, not proved: the
prover has no rule for fairness.  What is safety about it is proved for every
instance: nobody waits in a circle (`RegistrySafe`), a call has a bounded number of
steps (`EveryStepShortens`), and a stop waits for a goroutine that is there
(`StopsWaitForALoop`).  What is missing is that a thread which can go on does.  The
waits that do have no end are proved to have none (`ReloadKeepsTheLock`,
`SetupWithoutWarmupHangs`, `TickedStopsHang`).

------------------------ MODULE CredentialLifecycle ------------------------
(***************************************************************************)
(* The life of a dynamic credential: path_creds.go, path_extend_lease.go,  *)
(* path_renew_creds.go, path_renew_batch.go, path_revoke_creds.go,         *)
(* path_bulk_revoke.go and cleanupExpiredCredentials, run by concurrent    *)
(* requests.                                                               *)
(*                                                                         *)
(* A credential lives in three places: the user in a Teradata database,    *)
(* the record "creds/<username>" in the plugin's storage, and a copy in    *)
(* the in-memory credential cache.  A handler changes them one call at a   *)
(* time, without a lock and without a transaction, so every call is a step *)
(* here and requests interleave between any two of them.                   *)
(***************************************************************************)
EXTENDS Naturals, FiniteSets

CONSTANTS
  Request,           \* requests the plugin serves concurrently
  User,              \* database user names
  Role,              \* stored roles
  Region,            \* databases; DefaultRegion is region "" (storage key "config")
  DefaultRegion,
  NoUser, NoCred,    \* "no value" markers
  Configured,        \* regions that have a stored configuration
  Permits,           \* [Region -> SUBSET Role]: allowed_roles, all roles if unset
  MaxCredentials,    \* [Role -> Nat]: max_credentials, 0 is unlimited
  DefaultTTL,        \* [Role -> Nat]
  MaxTTL,            \* [Role -> Nat], 0 is unlimited
  ScriptedRoles,     \* roles with a creation_statement
  FixedName,         \* [Role -> User \cup {NoUser}]: prefix_suffix if username_suffix is set
  NilRetryPanics,    \* retry.Do(ctx, nil, op) dereferences the nil config
  CallsMayFail,      \* a database or storage call may fail
  CrashesHappen,     \* the plugin process may be killed
  BatchSizes,        \* counts a caller asks of creds/batch; 1 is a plain creds read
  RequestedTTLs,     \* ttl values a caller passes to leases/extend; 0 is unset
  MaxTargets,        \* bound: usernames a caller lists in one request
  MaxClock           \* bound: the clock stops here

ASSUME LifecycleAssumption ==
  /\ DefaultRegion \in Region
  /\ Configured \subseteq Region
  /\ IsFiniteSet(User)
  /\ NoUser \notin User
  /\ Permits \in [Region -> SUBSET Role]
  /\ MaxCredentials \in [Role -> Nat]
  /\ DefaultTTL \in [Role -> Nat]
  /\ MaxTTL \in [Role -> Nat]
  /\ FixedName \in [Role -> User \cup {NoUser}]
  /\ BatchSizes \subseteq 1 .. 100
  /\ RequestedTTLs \subseteq Nat
  /\ MaxClock \in Nat

\* The fields of models.Credential the handlers read; times are clock readings.
Credential == [role: Role, region: Region, created: Nat, expires: Nat]

ASSUME NoCredAssumption == NoCred \notin Credential

VARIABLES
  clock,    \* time.Now()
  db,       \* [Region -> SUBSET User]: the users each database has
  store,    \* [User -> Credential \cup {NoCred}]: "creds/<username>"
  cache,    \* [User -> Credential \cup {NoCred}]: credentialCache
  req,      \* [Request -> Frame]: where each request is in its handler
  used,     \* names generateUsername has returned
  held,     \* users whose name and password a caller has been given
  removed   \* users a revocation or cleanup has reported as removed

vars == <<clock, db, store, cache, req, used, held, removed>>

(***************************************************************************)
(* A request's frame: the next call it makes (pc), the operation, the user *)
(* and record at hand, the users still to visit (or, for a batch creation, *)
(* the users already made), creations left, the time a cleanup began, and  *)
(* the ttl a batch renewal gives.                                          *)
(***************************************************************************)
PC == {"idle", "create_user", "create_stmt", "rollback", "put", "cache",
       "pick", "lookup", "fill", "connect", "alter", "drop", "delete",
       "invalidate"}
Op == {"none", "create", "extend", "renew", "renew_batch", "revoke", "scan", "cleanup"}

Frame == [pc: PC, op: Op, user: User \cup {NoUser},
          copy: Credential \cup {NoCred}, users: SUBSET User,
          left: Nat, now: Nat, ttl: Nat]

Idle == [pc |-> "idle", op |-> "none", user |-> NoUser, copy |-> NoCred,
         users |-> {}, left |-> 0, now |-> 0, ttl |-> 0]

Goto(r, pc) == req' = [req EXCEPT ![r].pc = pc]
Return(r)   == req' = [req EXCEPT ![r] = Idle]

\* Mutation of Advance: `return` where the loop has `continue`.
AdvanceStops(r) == Return(r)

\* On to the next user of the loop, or out of the handler after the last one.
Advance(r) ==
  req' = [req EXCEPT ![r] =
            IF @.users = {} THEN Idle
            ELSE [@ EXCEPT !.pc = "pick", !.user = NoUser, !.copy = NoCred]]

Stored == {u \in User : store[u] # NoCred}
CredentialsOf(role) == {u \in Stored : store[u].role = role}

Init ==
  /\ clock = 0
  /\ db = [g \in Region |-> {}]
  /\ store = [u \in User |-> NoCred]
  /\ cache = [u \in User |-> NoCred]
  /\ req = [r \in Request |-> Idle]
  /\ used = {}
  /\ held = {}
  /\ removed = {}

-----------------------------------------------------------------------------
(* Creation: pathCredsRead and pathCredsBatchRead *)

\* Mutation of GeneratedNames: a suffix that can repeat.
GeneratedNamesRepeat(role) == User

\* A random name never used before, or the role's one name.
GeneratedNames(role) ==
  IF FixedName[role] = NoUser
  THEN {u \in User \ used : \A other \in Role : FixedName[other] # u}
  ELSE {FixedName[role]}

\* Mutation of QuotaAllows: `>` for `>=` when the count is compared.
QuotaAllowsOneMore(role) ==
  \/ MaxCredentials[role] = 0
  \/ Cardinality(CredentialsOf(role)) <= MaxCredentials[role]

\* The role's records, counted when the request starts, leave room for one more.
QuotaAllows(role) ==
  \/ MaxCredentials[role] = 0
  \/ Cardinality(CredentialsOf(role)) < MaxCredentials[role]

\* A batch is cut down to the quota that was left when the records were counted.
GrantedCount(role, n) ==
  LET remaining == MaxCredentials[role] - Cardinality(CredentialsOf(role))
  IN  IF MaxCredentials[role] > 0 /\ n > remaining THEN remaining ELSE n

\* The record of a user that is being made; PutCredential sets its times.
NewCredential(role, g) == [role |-> role, region |-> g, created |-> 0, expires |-> 0]

\* The checks before the first database call, up to the generated name.  The
\* count of countCredentialsByRole is read here and not looked at again.  A
\* refusal by CanOperate, for unhealthy pools, is this action not being taken:
\* pool health is not part of this module and may allow or refuse at any time.
CreateAdmit(r, role, g, n) ==
  /\ req[r].pc = "idle"
  /\ g \in Configured
  /\ role \in Permits[g]
  /\ QuotaAllows(role)
  /\ \E u \in GeneratedNames(role) :
       /\ used' = used \cup {u}
       /\ req' = [req EXCEPT ![r] =
                    [Idle EXCEPT !.pc = "create_user", !.op = "create", !.user = u,
                       !.copy = NewCredential(role, g),
                       !.left = GrantedCount(role, n) - 1]]
  /\ UNCHANGED <<clock, db, store, cache, held, removed>>

\* CREATE USER in the region's database.  executeSQL retries on its own, so a
\* call that reports an error may have created the user all the same.
CreateUser(r) ==
  LET u == req[r].user
      g == req[r].copy.region
  IN
  /\ req[r].pc = "create_user"
  /\ \/ /\ u \notin db[g]
        /\ db' = [db EXCEPT ![g] = @ \cup {u}]
        /\ Goto(r, IF req[r].copy.role \in ScriptedRoles THEN "create_stmt" ELSE "put")
     \/ /\ CallsMayFail
        /\ db' = [db EXCEPT ![g] = @ \cup {u}]
        /\ Return(r)
     \/ /\ CallsMayFail \/ u \in db[g]
        /\ db' = db
        /\ Return(r)
  /\ UNCHANGED <<clock, store, cache, used, held, removed>>

CreationStatement(r) ==
  /\ req[r].pc = "create_stmt"
  /\ \/ Goto(r, "put")
     \/ CallsMayFail /\ Goto(r, "rollback")
  /\ UNCHANGED <<clock, db, store, cache, used, held, removed>>

\* The rollback statement and DROP USER; the errors of both are ignored.
Rollback(r) ==
  LET u == req[r].user
      g == req[r].copy.region
  IN
  /\ req[r].pc = "rollback"
  /\ db' \in {[db EXCEPT ![g] = @ \ {u}], db}
  /\ Return(r)
  /\ UNCHANGED <<clock, store, cache, used, held, removed>>

\* storeCredential.  A new record gets its times now; an extended or renewed
\* one is written as the handler computed it, whatever the store holds by now.
PutCredential(r) ==
  LET f    == req[r]
      cred == IF f.op = "create"
              THEN [f.copy EXCEPT !.created = clock,
                                  !.expires = clock + DefaultTTL[f.copy.role]]
              ELSE f.copy
  IN
  /\ f.pc = "put"
  /\ \/ /\ store' = [store EXCEPT ![f.user] = cred]
        /\ req' = [req EXCEPT ![r].pc = "cache", ![r].copy = cred]
     \/ /\ CallsMayFail
        /\ store' = store
        /\ IF f.op = "renew_batch" THEN Advance(r) ELSE Return(r)
  /\ UNCHANGED <<clock, db, cache, used, held, removed>>

\* cacheCredential, then the rest of the handler: a batch creation goes on to
\* its next name, unless no name can be generated, a batch renewal to its next
\* user; anything else answers.
CacheCredential(r) ==
  LET f    == req[r]
      made == f.users \cup {f.user}
  IN
  /\ f.pc = "cache"
  /\ cache' = [cache EXCEPT ![f.user] = f.copy]
  /\ \/ /\ f.op # "create" \/ f.left = 0
        /\ held' = IF f.op = "create" THEN held \cup made ELSE held
        /\ used' = used
        /\ IF f.op = "renew_batch" THEN Advance(r) ELSE Return(r)
     \/ /\ f.op = "create" /\ f.left > 0
        /\ held' = held
        /\ \/ \E u \in GeneratedNames(f.copy.role) :
                /\ used' = used \cup {u}
                /\ req' = [req EXCEPT ![r] =
                             [f EXCEPT !.pc = "create_user", !.user = u,
                                !.users = made, !.left = f.left - 1,
                                !.copy = NewCredential(@.role, @.region)]]
           \/ used' = used /\ Return(r)
  /\ UNCHANGED <<clock, db, store, removed>>

-----------------------------------------------------------------------------
(* Extension: pathExtendLeaseHandler *)

\* Mutation of ExtendedExpiry: the ttl is not cut to what max_ttl leaves.
ExtendedExpiryUncapped(cred, requested) ==
  clock + (IF requested > 0 THEN requested ELSE DefaultTTL[cred.role])

\* The ttl asked for, or the role's, cut to what the role's max_ttl leaves.
ExtendedExpiry(cred, requested) ==
  LET want == clock + (IF requested > 0 THEN requested ELSE DefaultTTL[cred.role])
      end  == cred.created + MaxTTL[cred.role]
  IN  IF MaxTTL[cred.role] > 0 /\ want > end THEN end ELSE want

\* Read the record by its lease ID, refuse an expired or exhausted lease and
\* compute the new expiry; the record is written by PutCredential.
ExtendLease(r, u, requested) ==
  LET cred == store[u]
      role == cred.role
  IN
  /\ req[r].pc = "idle"
  /\ cred # NoCred
  /\ clock <= cred.expires
  /\ MaxTTL[role] > 0 => clock < cred.created + MaxTTL[role]
                         /\ (requested > 0 \/ DefaultTTL[role] > 0)
  /\ req' = [req EXCEPT ![r] =
               [Idle EXCEPT !.pc = "put", !.op = "extend", !.user = u,
                  !.copy = [cred EXCEPT !.expires = ExtendedExpiry(cred, requested)]]]
  /\ UNCHANGED <<clock, db, store, cache, used, held, removed>>

-----------------------------------------------------------------------------
(* Revocation, renewal and cleanup: how a request starts *)

\* pathRevokeCredsHandler (one user) and pathBulkRevokeCredsHandler (a list).
RevokeUsers(r, users) ==
  /\ req[r].pc = "idle"
  /\ users # {}
  /\ Cardinality(users) > 1 => DefaultRegion \in Configured
  /\ req' = [req EXCEPT ![r] = [Idle EXCEPT !.pc = "pick", !.op = "revoke", !.users = users]]
  /\ UNCHANGED <<clock, db, store, cache, used, held, removed>>

\* A revocation of many: the users are a snapshot of storage.
RevokeScan(r, users) ==
  /\ req[r].pc = "idle"
  /\ DefaultRegion \in Configured
  /\ users # {}
  /\ req' = [req EXCEPT ![r] = [Idle EXCEPT !.pc = "pick", !.op = "scan", !.users = users]]
  /\ UNCHANGED <<clock, db, store, cache, used, held, removed>>

RevokeRole(r, role) == RevokeScan(r, CredentialsOf(role))  \* pathBulkRevokeByRoleHandler
RevokeAll(r)        == RevokeScan(r, Stored)               \* pathRevokeAllCredsHandler

\* pathCleanupExpiredHandler: list the records and read the clock, once.
CleanupStart(r) ==
  /\ req[r].pc = "idle"
  /\ DefaultRegion \in Configured
  /\ Stored # {}
  /\ req' = [req EXCEPT ![r] =
               [Idle EXCEPT !.pc = "pick", !.op = "cleanup", !.users = Stored, !.now = clock]]
  /\ UNCHANGED <<clock, db, store, cache, used, held, removed>>

RenewStart(r, u) ==
  /\ req[r].pc = "idle"
  /\ req' = [req EXCEPT ![r] = [Idle EXCEPT !.pc = "lookup", !.op = "renew", !.user = u]]
  /\ UNCHANGED <<clock, db, store, cache, used, held, removed>>

\* pathRenewCredsBatchHandler: the users a caller names, whichever role made them,
\* or the role's own, cut to a count.  The connection that serves all of them is
\* opened here, without retry.Do; all get the ttl of the role that was named.
RenewBatch(r, role, users) ==
  /\ req[r].pc = "idle"
  /\ DefaultRegion \in Configured
  /\ users # {}
  /\ req' = [req EXCEPT ![r] =
               [Idle EXCEPT !.pc = "pick", !.op = "renew_batch", !.users = users,
                  !.ttl = DefaultTTL[role]]]
  /\ UNCHANGED <<clock, db, store, cache, used, held, removed>>

\* The next user of the loop.  A cleanup reads the user's record and passes
\* over it unless it had expired when the cleanup began.
PickTarget(r) ==
  LET f == req[r]
  IN
  /\ f.pc = "pick"
  /\ \E u \in f.users :
       LET picked == [f EXCEPT !.user = u, !.users = @ \ {u}]
       IN
       \/ /\ f.op \in {"revoke", "renew_batch"}
          /\ req' = [req EXCEPT ![r] = [picked EXCEPT !.pc = "lookup"]]
       \/ /\ f.op = "scan"
          /\ req' = [req EXCEPT ![r] = [picked EXCEPT !.pc = "connect"]]
       \/ /\ f.op = "cleanup"
          /\ store[u] # NoCred /\ f.now > store[u].expires
          /\ req' = [req EXCEPT ![r] = [picked EXCEPT !.pc = "drop"]]
       \/ /\ f.op = "cleanup"
          /\ store[u] # NoCred => f.now <= store[u].expires
          /\ req' = [req EXCEPT ![r] =
                       IF f.users = {u} THEN Idle ELSE [f EXCEPT !.users = @ \ {u}]]
  /\ UNCHANGED <<clock, db, store, cache, used, held, removed>>

\* The call after getCachedCredential: a batch renewal has its connection.
AfterLookup(f) == IF f.op = "renew_batch" THEN "alter" ELSE "connect"

\* getCachedCredential up to the storage read.
Lookup(r) ==
  LET u == req[r].user
  IN
  /\ req[r].pc = "lookup"
  /\ \/ /\ cache[u] # NoCred
        /\ req' = [req EXCEPT ![r].pc = AfterLookup(req[r]), ![r].copy = cache[u]]
     \/ /\ cache[u] = NoCred
        /\ store[u] # NoCred
        /\ req' = [req EXCEPT ![r].pc = "fill", ![r].copy = store[u]]
     \/ /\ cache[u] = NoCred
        /\ CallsMayFail \/ store[u] = NoCred
        /\ Advance(r)
  /\ UNCHANGED <<clock, db, store, cache, used, held, removed>>

\* getCachedCredential after the storage read.
FillCache(r) ==
  /\ req[r].pc = "fill"
  /\ cache' = [cache EXCEPT ![req[r].user] = req[r].copy]
  /\ Goto(r, AfterLookup(req[r]))
  /\ UNCHANGED <<clock, db, store, used, held, removed>>

-----------------------------------------------------------------------------
(* Revocation, renewal and cleanup: the calls *)

\* Mutation of Connect: the revocation statement runs, DROP USER does not.
ConnectWithoutDrop(r) ==
  /\ req[r].pc = "connect"
  /\ Goto(r, IF req[r].op = "renew" THEN "alter" ELSE "delete")
  /\ UNCHANGED <<clock, db, store, cache, used, held, removed>>

\* Connect to the default database through retry.Do(ctx, nil, ...) and run the
\* role's revocation statement; without a default configuration the handler
\* has already returned an error.
Connect(r) ==
  /\ req[r].pc = "connect"
  /\ \/ /\ DefaultRegion \in Configured
        /\ ~NilRetryPanics
        /\ Goto(r, IF req[r].op = "renew" THEN "alter" ELSE "drop")
     \/ /\ DefaultRegion \notin Configured \/ (CallsMayFail /\ ~NilRetryPanics)
        /\ Advance(r)
  /\ UNCHANGED <<clock, db, store, cache, used, held, removed>>

\* AlterUserPassword and the renewal statement, then the new expiry, which is
\* written through the pointer the handler shares with the cache.  A batch goes on
\* after a failure.
AlterPassword(r) ==
  LET f    == req[r]
      ttl  == IF f.op = "renew_batch" THEN f.ttl ELSE DefaultTTL[f.copy.role]
      cred == [f.copy EXCEPT !.expires = clock + ttl]
  IN
  /\ f.pc = "alter"
  /\ ~NilRetryPanics
  /\ \/ /\ f.user \in db[DefaultRegion]
        /\ cache' = [cache EXCEPT ![f.user] = IF @ = f.copy THEN cred ELSE @]
        /\ req' = [req EXCEPT ![r].pc = "put", ![r].copy = cred]
     \/ /\ CallsMayFail \/ f.user \notin db[DefaultRegion]
        /\ cache' = cache
        /\ Advance(r)
  /\ UNCHANGED <<clock, db, store, used, held, removed>>

\* Mutation of DropUser: the error of DROP USER is ignored.
DropUserUnchecked(r) ==
  /\ req[r].pc = "drop"
  /\ db' \in {[db EXCEPT ![DefaultRegion] = @ \ {req[r].user}], db}
  /\ Goto(r, "delete")
  /\ UNCHANGED <<clock, store, cache, used, held, removed>>

\* DROP USER, always in the default database.
DropUser(r) ==
  LET u == req[r].user
      g == DefaultRegion
  IN
  /\ req[r].pc = "drop"
  /\ \/ /\ u \in db[g]
        /\ db' = [db EXCEPT ![g] = @ \ {u}]
        /\ Goto(r, "delete")
     \/ /\ CallsMayFail
        /\ db' = [db EXCEPT ![g] = @ \ {u}]
        /\ Advance(r)
     \/ /\ CallsMayFail \/ u \notin db[g]
        /\ db' = db
        /\ Advance(r)
  /\ UNCHANGED <<clock, store, cache, used, held, removed>>

\* Mutation of DeleteCredential: the record stays, as in Backend.Revoke.
DeleteCredentialForgotten(r) ==
  /\ req[r].pc = "delete"
  /\ Goto(r, "invalidate")
  /\ UNCHANGED <<clock, db, store, cache, used, held, removed>>

DeleteCredential(r) ==
  /\ req[r].pc = "delete"
  /\ \/ /\ store' = [store EXCEPT ![req[r].user] = NoCred]
        /\ Goto(r, "invalidate")
     \/ /\ CallsMayFail
        /\ store' = store
        /\ Advance(r)
  /\ UNCHANGED <<clock, db, cache, used, held, removed>>

\* invalidateCachedCredential; the user now counts as revoked or cleaned.
InvalidateCache(r) ==
  /\ req[r].pc = "invalidate"
  /\ cache' = [cache EXCEPT ![req[r].user] = NoCred]
  /\ removed' = removed \cup {req[r].user}
  /\ Advance(r)
  /\ UNCHANGED <<clock, db, store, used, held>>

-----------------------------------------------------------------------------
(* The environment *)

\* The process dies: what was in memory is gone, requests in flight with it.
PluginDies ==
  /\ cache' = [u \in User |-> NoCred]
  /\ req' = [r \in Request |-> Idle]
  /\ UNCHANGED <<clock, db, store, used, held, removed>>

\* retry.Do reads cfg.MaxAttempts before it replaces a nil cfg; nothing recovers.
NilRetryPanic(r) ==
  /\ req[r].pc \in {"connect", "alter"}
  /\ DefaultRegion \in Configured
  /\ NilRetryPanics
  /\ PluginDies

Crash == CrashesHappen /\ PluginDies

\* An entry reaches its five minutes: Get or the background cleanup drops it.
CacheExpire(u) ==
  /\ cache[u] # NoCred
  /\ cache' = [cache EXCEPT ![u] = NoCred]
  /\ UNCHANGED <<clock, db, store, req, used, held, removed>>

Tick ==
  /\ clock < MaxClock
  /\ clock' = clock + 1
  /\ UNCHANGED <<db, store, cache, req, used, held, removed>>

RequestStarts(r) ==
  /\ req[r].pc = "idle"
  /\ \/ \E role \in Role, g \in Region, n \in BatchSizes : CreateAdmit(r, role, g, n)
     \/ \E u \in User, ttl \in RequestedTTLs : ExtendLease(r, u, ttl)
     \/ \E users \in SUBSET User : Cardinality(users) <= MaxTargets /\ RevokeUsers(r, users)
     \/ \E role \in Role : RevokeRole(r, role)
     \/ RevokeAll(r)
     \/ CleanupStart(r)
     \/ \E u \in User : RenewStart(r, u)
     \/ \E role \in Role, users \in SUBSET User :
          /\ Cardinality(users) <= MaxTargets \/ users \subseteq CredentialsOf(role)
          /\ RenewBatch(r, role, users)

RequestContinues(r) ==
  \/ CreateUser(r) \/ CreationStatement(r) \/ Rollback(r)
  \/ PutCredential(r) \/ CacheCredential(r)
  \/ PickTarget(r) \/ Lookup(r) \/ FillCache(r) \/ Connect(r)
  \/ AlterPassword(r) \/ DropUser(r) \/ DeleteCredential(r) \/ InvalidateCache(r)
  \/ NilRetryPanic(r)

Next ==
  \/ \E r \in Request : RequestStarts(r) \/ RequestContinues(r)
  \/ Crash
  \/ \E u \in User : CacheExpire(u)
  \/ Tick

Spec == Init /\ [][Next]_vars

-----------------------------------------------------------------------------
(* What holds of the code *)

\* Every variable has its type (models.Credential, the stored and cached maps).
TypeOK ==
  /\ clock \in Nat
  /\ db \in [Region -> SUBSET User]
  /\ store \in [User -> Credential \cup {NoCred}]
  /\ cache \in [User -> Credential \cup {NoCred}]
  /\ req \in [Request -> Frame]
  /\ used \subseteq User
  /\ held \subseteq User
  /\ removed \subseteq User

\* No role names its users by a fixed suffix: every name is a fresh random one.
RandomSuffixes == \A role \in Role : FixedName[role] = NoUser

\* A user that a caller was given credentials for has a record for as long as a
\* database has the user: otherwise no revocation, lease listing or cleanup
\* could ever find it again.  Creation, batch creation, revocation, cleanup,
\* extension and a crash between any two of their calls could break it.
HeldIsTracked ==
  \A u \in held, g \in Region : u \in db[g] => store[u] # NoCred

\* The record of a user names the database that has the user; Backend.Revoke
\* and the caller's region rely on it.
RecordNamesRegion ==
  \A u \in User, g \in Region :
    u \in db[g] => /\ store[u] # NoCred => store[u].region = g
                   /\ cache[u] # NoCred => cache[u].region = g

\* A record leaves storage only once no database has its user, whichever of
\* the revocations or cleanups deletes it and whatever failed on the way.
DeleteOnlyAfterDrop ==
  [][\A u \in User : store[u] # NoCred /\ store'[u] = NoCred
        => \A g \in Region : u \notin db[g]]_vars

\* What a revocation or a cleanup reported as removed is in no database, even
\* when a creation, an extension or a second revocation of it was in flight.
RemovedIsDropped ==
  \A u \in removed, g \in Region : u \notin db[g]

\* The most records a role can reach: creations that counted before the quota
\* filled up still store theirs, at most one batch for each other request.
QuotaOvershootBounded ==
  \A role \in Role, n \in BatchSizes :
    /\ MaxCredentials[role] > 0
    /\ \A m \in BatchSizes : m <= n
    => LET most == IF n > MaxCredentials[role] THEN MaxCredentials[role] ELSE n
       IN  Cardinality(CredentialsOf(role))
             <= MaxCredentials[role] + (Cardinality(Request) - 1) * most

\* A step that moves the expiry of a lease keeps it within max_ttl of the
\* lease's creation, whatever ttl the caller asked for and however late the
\* write comes.
ExtensionWithinMaxTTL ==
  [][\A u \in User :
       /\ store[u] # NoCred /\ store'[u] # NoCred
       /\ store'[u].expires > store[u].expires
       /\ MaxTTL[store[u].role] > 0
       => store'[u].expires <= store'[u].created + MaxTTL[store[u].role]]_vars

\* LeasedUsers, seen in the handlers: the names no CREATE USER has been sent for,
\* or none that has ended; and the region each record names.
Unmade ==
  (User \ used) \cup {req[r].user : r \in {s \in Request : req[s].pc = "create_user"}}
Records == [u \in User |-> IF store[u] = NoCred THEN {} ELSE {store[u].region}]

Leases == INSTANCE LeasedUsers WITH fresh <- Unmade, record <- Records, given <- held

\* Every behaviour of the handlers is one of LeasedUsers: whatever requests overlap,
\* a name is made once, its user only ever leaves, its record goes after it and
\* names its database until then, and only recorded users are handed out.
ImplementsLeases == Leases!Spec

-----------------------------------------------------------------------------
(* What the documentation says *)

\* path_revoke_creds.go:17 "Revokes and deletes dynamically generated database
\* credentials": a revocation answers, it does not take the plugin down.
RevokeNeverPanics == [][\A r \in Request : ~NilRetryPanic(r)]_vars

\* path_roles.go:113 "Maximum number of credentials allowed for this role".
QuotaRespected ==
  \A role \in Role :
    MaxCredentials[role] > 0 => Cardinality(CredentialsOf(role)) <= MaxCredentials[role]

\* path_leases.go:129 "Removes expired credentials from the database and
\* storage": what a cleanup removed from storage stays removed.
CleanedStaysGone == \A u \in removed : store[u] = NoCred

\* path_leases.go:129 again: a cleanup that runs to its end leaves no record
\* that had expired when it began.
CleanupRemovesExpired ==
  [][\A r \in Request :
       req[r].op = "cleanup" /\ req'[r] = Idle
       => \A u \in User : store'[u] # NoCred => req[r].now <= store'[u].expires]_vars

\* path_roles.go:56 "Maximum lease duration in seconds".
LeaseWithinMaxTTL ==
  \A u \in Stored :
    MaxTTL[store[u].role] > 0 =>
      store[u].expires <= store[u].created + MaxTTL[store[u].role]

\* path_extend_lease.go:16 "Extends the TTL of an existing credential lease".
ExtendNeverShortens ==
  [][\A u \in User :
       store[u] # NoCred /\ store'[u] # NoCred
       => store'[u].expires >= store[u].expires]_vars

-----------------------------------------------------------------------------
(***************************************************************************)
(* Why it holds.  With random suffixes a name passes through three stages: *)
(* unused, being made by exactly one request, and past.  Only the request  *)
(* that makes a name adds it to a database, and it does so before anything *)
(* that revokes, extends, caches or lists can know the name.  So a user    *)
(* that was dropped stays dropped, and its record may go.                  *)
(***************************************************************************)
Making(f) == f.op = "create" /\ f.pc \in {"create_user", "create_stmt", "rollback", "put"}

Past(u) == u \in used /\ \A r \in Request : Making(req[r]) => req[r].user # u

\* The users a frame has found in storage or in the cache, or has stored.
Known(f) ==
  (IF f.pc \in {"idle", "pick", "lookup"} \/ Making(f) THEN {} ELSE {f.user})
    \cup (IF f.op \in {"create", "scan", "cleanup"} THEN f.users ELSE {})

\* The users a creation has stored and is about to hand to its caller.
Delivering(f) ==
  IF f.op # "create" THEN {}
  ELSE f.users \cup (IF f.pc = "cache" THEN {f.user} ELSE {})

\* Each step of a handler belongs to its operations, and the steps that use the
\* user or the record at hand have one.
FrameOK(f) ==
  /\ f.pc = "idle" => f = Idle
  /\ f.pc \in {"create_user", "create_stmt", "rollback"} => f.op = "create"
  /\ f.pc \in {"put", "cache"} => f.op \in {"create", "extend", "renew", "renew_batch"}
  /\ f.pc = "pick" => f.op \in {"renew_batch", "revoke", "scan", "cleanup"}
  /\ f.pc \in {"lookup", "fill", "connect", "alter", "drop", "delete", "invalidate"}
       => f.op \in {"renew", "renew_batch", "revoke", "scan", "cleanup"}
  /\ f.pc = "alter" => f.op \in {"renew", "renew_batch"}
  /\ f.pc \in {"pick", "lookup"} => f.copy = NoCred
  /\ f.op \in {"extend", "renew"} => f.users = {}
  /\ f.op = "create" => f.copy # NoCred
  /\ f.pc \in {"put", "cache", "fill", "alter"} => f.copy # NoCred
  /\ f.pc = "connect" /\ f.op = "renew" => f.copy # NoCred
  /\ f.pc \notin {"idle", "pick"} => f.user \in User

FrameInv == \A r \in Request : FrameOK(req[r])

NamesInv ==
  /\ \A u \in User, g \in Region : u \in db[g] => u \in used
  /\ \A r \in Request : Making(req[r]) => req[r].user \in used
  /\ \A r, s \in Request :
       Making(req[r]) /\ Making(req[s]) /\ req[r].user = req[s].user => r = s

PastInv ==
  /\ \A u \in User : store[u] # NoCred \/ cache[u] # NoCred => Past(u)
  /\ \A u \in held \cup removed : Past(u)
  /\ \A r \in Request : \A u \in Known(req[r]) : Past(u)

HomeInv ==
  /\ \A u \in User, g, h \in Region : u \in db[g] /\ u \in db[h] => g = h
  /\ \A r \in Request, g \in Region :
       req[r].pc \in {"create_user", "delete", "invalidate"} => req[r].user \notin db[g]

TrackedInv ==
  \A u \in User, g \in Region :
    /\ u \in db[g]
    /\ u \in held \/ \E r \in Request : u \in Delivering(req[r])
    => store[u] # NoCred

RegionInv ==
  /\ RecordNamesRegion
  /\ \A r \in Request, g \in Region :
       req[r].user \in db[g] /\ req[r].copy # NoCred => req[r].copy.region = g

\* The inductive invariant: the handlers keep every part of it.
LifecycleInv ==
  /\ TypeOK /\ FrameInv /\ NamesInv /\ PastInv
  /\ HomeInv /\ TrackedInv /\ RegionInv /\ RemovedIsDropped

-----------------------------------------------------------------------------
(***************************************************************************)
(* Why the bounds hold: the quota, max_ttl and, with one request at a time, *)
(* what a cleanup leaves.  Each part is inductive on top of LifecycleInv.  *)
(***************************************************************************)
\* The copies of a user's record: in storage, in the cache and in the handlers.
Copies(u) ==
  ({store[u], cache[u]} \cup {req[r].copy : r \in {s \in Request : req[s].user = u}})
    \ {NoCred}

\* However old a copy is, it names the role that made the user.
RoleInv == \A u \in User : \A c, d \in Copies(u) : c.role = d.role

\* The cache or a handler other than its maker's has a copy of the user's record.
Shared(u) ==
  \/ cache[u] # NoCred
  \/ \E r \in Request : req[r].user = u /\ req[r].copy # NoCred /\ ~Making(req[r])

\* A user in a database has a record if there are copies of it: what AlterPassword
\* is about to write back has not left storage.
ListedInv ==
  \A u \in User, g \in Region : u \in db[g] /\ Shared(u) => store[u] # NoCred

\* What an extension is about to write was cut to max_ttl, and no renewal is about
\* to write: with a nil retry configuration the plugin has gone down before.
Capped(f) ==
  /\ f.op = "extend" /\ f.pc = "put" /\ MaxTTL[f.copy.role] > 0
       => f.copy.expires <= f.copy.created + MaxTTL[f.copy.role]
  /\ f.op \in {"renew", "renew_batch"} => f.pc \notin {"put", "cache"}

ExtensionInv == \A r \in Request : Capped(req[r])

\* The users that have a record of the role, or that a request may give one.
Claimed(role) ==
  CredentialsOf(role) \cup
  {u \in User : \E r \in Request :
     /\ req[r].pc \in {"create_user", "create_stmt", "rollback", "put"}
     /\ req[r].user = u /\ req[r].copy.role = role}

\* The users the batch creations of the role have yet to begin.
Slots(role) ==
  UNION {{r} \X (1 .. req[r].left) :
           r \in {s \in Request : req[s].op = "create" /\ req[s].copy.role = role}}

\* The most one creation may claim, when no caller asks for more than n.
Most(role, n) == IF n > MaxCredentials[role] THEN MaxCredentials[role] ELSE n

\* What a role has, is being given and will be given, together.
QuotaInv ==
  \A role \in Role, n \in BatchSizes :
    MaxCredentials[role] > 0 /\ (\A m \in BatchSizes : m <= n)
    => /\ Cardinality(Claimed(role)) + Cardinality(Slots(role))
            <= MaxCredentials[role] + (Cardinality(Request) - 1) * Most(role, n)
       /\ \A r \in Request :
            req[r].op = "create" /\ req[r].copy.role = role => req[r].left < Most(role, n)

\* With one request at a time nobody holds a copy of what has been removed.
RemovalInv ==
  /\ \A u \in removed : store[u] = NoCred /\ cache[u] = NoCred
  /\ \A r \in Request :
       /\ req[r].copy # NoCred => req[r].user \notin removed
       /\ req[r].pc = "invalidate" => store[req[r].user] = NoCred

\* With one database, one request at a time and calls that do not fail, a record
\* has its user, and a cleanup still has before it what had expired.
Backed(f) ==
  /\ \A u \in User : store[u] # NoCred =>
       u \in db[DefaultRegion] \/ (f.pc = "delete" /\ f.user = u)
  /\ f.op = "create" => f.copy.region = DefaultRegion
  /\ f.pc \in {"create_stmt", "put"} => f.user \in db[DefaultRegion]

Ahead(f) ==
  f.op = "cleanup" =>
    /\ f.pc \in {"pick", "drop", "delete", "invalidate"}
    /\ f.pc = "drop" => store[f.user] # NoCred
    /\ \A u \in User : store[u] # NoCred /\ f.now > store[u].expires
         => u \in f.users \/ (u = f.user /\ f.pc \in {"drop", "delete"})

CleanupInv == \A r \in Request : Backed(req[r]) /\ Ahead(req[r])
=============================================================================

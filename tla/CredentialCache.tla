--------------------------- MODULE CredentialCache ---------------------------
(***************************************************************************)
(* The credential cache: src/plugin/credential_cache.go.                   *)
(*                                                                         *)
(* Each section under the cache's lock is one step.  Get is the call that  *)
(* has more than one: it gives up its read lock to delete an entry it      *)
(* found expired, and takes it again.  The hit and miss counters, written  *)
(* under a read lock and read by nothing, are left out.                    *)
(***************************************************************************)
EXTENDS Naturals, FiniteSets

CONSTANTS
  Thread,   \* callers
  User,     \* user names
  Value,    \* credentials
  RoleOf,   \* [Value -> role]
  TTL,      \* five minutes in the backend
  MaxSize,  \* 10000 in the backend
  MaxTime,  \* bound on the clock
  None      \* no entry, no user

ASSUME CacheAssumption ==
  /\ TTL \in Nat
  /\ MaxSize \in Nat
  /\ MaxTime \in Nat
  /\ None \notin Value \cup User
  /\ None \notin [credential: Value, expiresAt: Nat, createdAt: Nat]
  /\ None \notin [value: Value, until: Nat]

VARIABLES
  entries,  \* [User -> Entry or None]
  now,      \* the clock
  open,     \* the done channel is open
  thr,      \* [Thread -> the Get it is in]
  event     \* history: the call that has just ended, and its answer

vars == <<entries, now, open, thr, event>>

Entry == [credential: Value, expiresAt: Nat, createdAt: Nat]
Frame == [pc: {"idle", "delete", "relock"}, user: User \cup {None}]
Idle  == [pc |-> "idle", user |-> None]
Quiet == [op |-> "none"]
Role  == {RoleOf[v] : v \in Value}

Cached     == {u \in User : entries[u] # None}
Without(S) == [u \in User |-> IF u \in S THEN None ELSE entries[u]]

NewEntry(v) == [credential |-> v, expiresAt |-> now + TTL, createdAt |-> now]

\* Mutation of Expired: an entry has expired one tick too late.
ExpiredLate(u) == now > entries[u].expiresAt + 1

\* time.Now().After(entry.expiresAt)
Expired(u) == now > entries[u].expiresAt

Init ==
  /\ entries = [u \in User |-> None]
  /\ now = 0
  /\ open = TRUE
  /\ thr = [t \in Thread |-> Idle]
  /\ event = Quiet

-----------------------------------------------------------------------------
(* Get *)

GetMiss(t, u) ==
  /\ thr[t].pc = "idle"
  /\ u \notin Cached
  /\ event' = [op |-> "miss", user |-> u]
  /\ UNCHANGED <<entries, now, open, thr>>

GetHit(t, u) ==
  /\ thr[t].pc = "idle"
  /\ u \in Cached
  /\ ~Expired(u)
  /\ event' = [op |-> "hit", user |-> u, value |-> entries[u].credential]
  /\ UNCHANGED <<entries, now, open, thr>>

\* The read lock is released ...
GetExpired(t, u) ==
  /\ thr[t].pc = "idle"
  /\ u \in Cached
  /\ Expired(u)
  /\ thr' = [thr EXCEPT ![t] = [pc |-> "delete", user |-> u]]
  /\ event' = Quiet
  /\ UNCHANGED <<entries, now, open>>

\* ... the entry deleted, be it another one by now ...
GetDelete(t) ==
  /\ thr[t].pc = "delete"
  /\ entries' = Without({thr[t].user})
  /\ thr' = [thr EXCEPT ![t].pc = "relock"]
  /\ event' = Quiet
  /\ UNCHANGED <<now, open>>

\* ... and the read lock taken again for the deferred RUnlock.
GetReturn(t) ==
  /\ thr[t].pc = "relock"
  /\ event' = [op |-> "miss", user |-> thr[t].user]
  /\ thr' = [thr EXCEPT ![t] = Idle]
  /\ UNCHANGED <<entries, now, open>>

-----------------------------------------------------------------------------
(* Set, and what removes entries *)

\* Mutation of Evictable: the oldest entry goes, however young it is.
EvictableAny ==
  {u \in Cached : \A w \in Cached : entries[u].createdAt <= entries[w].createdAt}

\* evictOldest: the oldest entry, if it is older than the time to live.
Evictable ==
  {u \in Cached : /\ \A w \in Cached : entries[u].createdAt <= entries[w].createdAt
                  /\ now - entries[u].createdAt > TTL}

\* At its limit the cache evicts first, also when it replaces an entry; when
\* nothing is old enough to go, it grows beyond the limit.
Set(t, u, v) ==
  /\ thr[t].pc = "idle"
  /\ \/ /\ Cardinality(Cached) >= MaxSize
        /\ \E w \in Evictable : entries' = [Without({w}) EXCEPT ![u] = NewEntry(v)]
     \/ /\ Cardinality(Cached) < MaxSize \/ Evictable = {}
        /\ entries' = [entries EXCEPT ![u] = NewEntry(v)]
  /\ event' = [op |-> "set", user |-> u, value |-> v]
  /\ UNCHANGED <<now, open, thr>>

Delete(t, u) ==
  /\ thr[t].pc = "idle"
  /\ entries' = Without({u})
  /\ event' = [op |-> "remove", user |-> u]
  /\ UNCHANGED <<now, open, thr>>

DeleteByRole(t, role) ==
  /\ thr[t].pc = "idle"
  /\ entries' = Without({u \in Cached : RoleOf[entries[u].credential] = role})
  /\ event' = [op |-> "remove role", role |-> role]
  /\ UNCHANGED <<now, open, thr>>

Clear(t) ==
  /\ thr[t].pc = "idle"
  /\ entries' = Without(User)
  /\ event' = [op |-> "remove all"]
  /\ UNCHANGED <<now, open, thr>>

\* warmCache: what storage has of the users asked for; an entry that is there,
\* expired or not, stays.
WarmCache(t, stored) ==
  /\ thr[t].pc = "idle"
  /\ entries' = [u \in User |->
                  IF u \notin Cached /\ stored[u] # None THEN NewEntry(stored[u]) ELSE entries[u]]
  /\ event' = [op |-> "fill", given |-> stored]
  /\ UNCHANGED <<now, open, thr>>

\* backgroundCleanup: the ticker fires.
CleanupExpired ==
  /\ open
  /\ entries' = Without({u \in Cached : Expired(u)})
  /\ event' = Quiet
  /\ UNCHANGED <<now, open, thr>>

\* The backend closes a cache when it replaces it; requests that hold the old
\* pointer go on using it.
Close ==
  /\ open
  /\ open' = FALSE
  /\ event' = Quiet
  /\ UNCHANGED <<entries, now, thr>>

Tick ==
  /\ now < MaxTime
  /\ now' = now + 1
  /\ event' = Quiet
  /\ UNCHANGED <<entries, open, thr>>

-----------------------------------------------------------------------------
Next ==
  \/ \E t \in Thread :
       \/ \E u \in User : \/ GetMiss(t, u) \/ GetHit(t, u) \/ GetExpired(t, u)
                          \/ Delete(t, u)
                          \/ \E v \in Value : Set(t, u, v)
       \/ GetDelete(t) \/ GetReturn(t) \/ Clear(t)
       \/ \E role \in Role : DeleteByRole(t, role)
       \/ \E stored \in [User -> Value \cup {None}] : WarmCache(t, stored)
  \/ CleanupExpired \/ Close \/ Tick

Spec == Init /\ [][Next]_vars

\* The ticker of an open cache fires.
FairSpec == Spec /\ WF_vars(CleanupExpired)

-----------------------------------------------------------------------------
(* What holds of the code *)

\* Every variable has its type; an entry's two times are TTL apart, which is why
\* evictOldest (by creation) and Get (by expiry) agree on what has expired.
TypeOK ==
  /\ entries \in [User -> Entry \cup {None}]
  /\ now \in Nat
  /\ open \in BOOLEAN
  /\ thr \in [Thread -> Frame]
  /\ \A t \in Thread : thr[t].pc # "idle" => thr[t].user \in User
  /\ \A u \in Cached : entries[u].expiresAt = entries[u].createdAt + TTL

\* The cache a caller of getCachedCredential sees: Get, Set and the removals do
\* what AbstractCache says, however they interleave with a Get that is between
\* its locks and with the cleanup.
Contents == [u \in User |->
              IF entries[u] = None THEN None
              ELSE [value |-> entries[u].credential, until |-> entries[u].expiresAt]]

Abstract == INSTANCE AbstractCache WITH contents <- Contents, EvictsLive <- FALSE

ImplementsAbstract == Abstract!Spec

\* An entry that has not expired leaves, or changes, only by a call that names
\* it, or by a Get that saw the entry before it expire: neither eviction nor the
\* cleanup takes it, nor does a set of another user.
LiveEntriesStay ==
  [][\A u \in Cached :
       ~Expired(u) /\ entries'[u] # entries[u] =>
         \/ event'.op \in {"remove all", "remove role"}
         \/ event'.op \in {"set", "remove"} /\ event'.user = u
         \/ \E t \in Thread : thr[t] = [pc |-> "delete", user |-> u] /\ thr'[t].pc = "relock"]_vars

\* As long as the cache is open, an expired credential leaves memory although
\* nobody asks for its user again.
ExpiredLeave ==
  \A u \in User :
    (open /\ entries[u] # None /\ now > entries[u].expiresAt)
      ~> (~open \/ entries[u] = None \/ now <= entries[u].expiresAt)
=============================================================================

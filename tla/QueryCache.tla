----------------------------- MODULE QueryCache -----------------------------
(***************************************************************************)
(* The query cache and the lookups that read through it:                   *)
(* src/plugin/query_cache.go.                                              *)
(*                                                                         *)
(* Each method of the cache holds its lock from end to end and is one      *)
(* step.  What takes several steps is around it: a lookup (getCachedRole,  *)
(* getCachedConfig, getCachedStatement) misses, reads storage and sets     *)
(* what it read; a handler writes storage and then invalidates.  The       *)
(* handlers of this release invalidate and do not look up.                 *)
(***************************************************************************)
EXTENDS Naturals, FiniteSets

CONSTANTS
  Asker,       \* requests
  StoredKey,   \* keys of roles, configurations and statements
  ResultKey,   \* keys of query results, which storage does not have
  Prefix,      \* sets of keys that begin alike
  Datum,       \* what a key can stand for
  KeepFor,     \* the time to live: five minutes in the backend
  Room,        \* maxSize: 1000 in the backend; newQueryResultCache makes it positive
  LastTime,    \* bound on the clock
  Nothing      \* no entry, no record, no key

Key == StoredKey \cup ResultKey

ASSUME QueryAssumption ==
  /\ KeepFor \in Nat
  /\ Room \in Nat \ {0}
  /\ LastTime \in Nat
  /\ StoredKey \cap ResultKey = {}
  /\ Prefix \subseteq SUBSET Key
  /\ IsFiniteSet(Key)
  /\ Nothing \notin Datum \cup Key
  /\ Nothing \notin [value: Datum, until: Nat, used: Nat]
  /\ Nothing \notin [value: Datum, until: Nat]

VARIABLES
  cached,    \* [Key -> Cell or Nothing]: the map
  records,   \* [StoredKey -> Datum or Nothing]: storage
  time,      \* the clock
  running,   \* "yes" until the done channel is closed
  ask,       \* [Asker -> the frame of its request]
  told,      \* history: the call of the cache that has just ended, and its answer
  touched,   \* history: [Key -> when a call last set it or found it]
  outdated   \* history: keys whose entry a write overtook before it was set

queryVars == <<cached, records, time, running, ask, told, touched, outdated>>

Cell == [value: Datum, until: Nat, used: Nat]
Ask  == [pc: {"idle", "read", "fill", "invalidate", "verify"},
         key: Key \cup {Nothing}, value: Datum \cup {Nothing}, crossed: {"no", "yes"}]
Done == [pc |-> "idle", key |-> Nothing, value |-> Nothing, crossed |-> "no"]
Calm == [op |-> "none"]

Present == {k \in Key : cached[k] # Nothing}

\* Mutation of Over: an entry expires one tick too late.
OverLate(k) == time > cached[k].until + 1

\* time.Now().After(entry.ExpiresAt)
Over(k) == time > cached[k].until

NewCell(v) == [value |-> v, until |-> time + KeepFor, used |-> time]

\* Mutation of LeastUsed: the entry set first goes, however often it was read.
LeastUsedSetFirst == {k \in Present : \A w \in Present : cached[k].until <= cached[w].until}

\* evictLRU: one of the entries nobody has used for longest.
LeastUsed == {k \in Present : \A w \in Present : cached[k].used <= cached[w].used}

\* The entries of S leave the map.
Drop(S) ==
  /\ cached' = [k \in Key |-> IF k \in S THEN Nothing ELSE cached[k]]
  /\ touched' = [k \in Key |-> IF k \in S THEN 0 ELSE touched[k]]
  /\ outdated' = outdated \ S

\* The entries of S leave the map, and k is set to v.
Replace(S, k, v) ==
  /\ cached' = [w \in Key |-> IF w = k THEN NewCell(v) ELSE IF w \in S THEN Nothing ELSE cached[w]]
  /\ touched' = [w \in Key |-> IF w = k THEN time ELSE IF w \in S THEN 0 ELSE touched[w]]

\* Mutation of Evicted: the cache makes room one entry too late.
EvictedLate(k) ==
  IF k \in Present \/ Cardinality(Present) <= Room
  THEN {{}} ELSE {{w} : w \in LeastUsed}

\* What a set of k may throw out: nothing to replace an entry or while there is
\* room, else one entry, expired or not.
Evicted(k) ==
  IF k \in Present \/ Cardinality(Present) < Room
  THEN {{}} ELSE {{w} : w \in LeastUsed}

QueryInit ==
  /\ cached = [k \in Key |-> Nothing]
  /\ records \in [StoredKey -> Datum \cup {Nothing}]
  /\ time = 0
  /\ running = "yes"
  /\ ask = [p \in Asker |-> Done]
  /\ told = Calm
  /\ touched = [k \in Key |-> 0]
  /\ outdated = {}

-----------------------------------------------------------------------------
(* Lookups *)

\* Get finds the key.
Find(p, k) ==
  /\ ask[p].pc = "idle"
  /\ k \in Present
  /\ ~Over(k)
  /\ cached' = [cached EXCEPT ![k].used = time]
  /\ touched' = [touched EXCEPT ![k] = time]
  /\ told' = [op |-> "hit", user |-> k, value |-> cached[k].value]
  /\ UNCHANGED <<records, time, running, ask, outdated>>

\* Get does not, or finds an expired entry and deletes it; the lookup of a stored
\* key goes on to storage.  The lookup of the configuration without a name uses the
\* key of the one named "default", and never finds a record.
Miss(p, k) ==
  /\ ask[p].pc = "idle"
  /\ k \in Present => Over(k)
  /\ Drop({k})
  /\ told' = [op |-> "miss", user |-> k]
  /\ ask' = IF k \in StoredKey THEN [ask EXCEPT ![p] = [Done EXCEPT !.pc = "read", !.key = k]] ELSE ask
  /\ UNCHANGED <<records, time, running>>

\* getRole, getConfigByName, getStatement.
ReadRecord(p) ==
  /\ ask[p].pc = "read"
  /\ \/ /\ records[ask[p].key] # Nothing
        /\ ask' = [ask EXCEPT ![p].pc = "fill", ![p].value = records[ask[p].key]]
     \/ ask' = [ask EXCEPT ![p] = Done]      \* no such record, or an error
  /\ told' = Calm
  /\ UNCHANGED <<cached, records, time, running, touched, outdated>>

\* cache.Set(key, ...), whatever has been written since the read.
Fill(p) ==
  /\ ask[p].pc = "fill"
  /\ \E S \in Evicted(ask[p].key) :
       /\ Replace(S, ask[p].key, ask[p].value)
       /\ outdated' = IF ask[p].crossed = "yes" THEN (outdated \ S) \cup {ask[p].key}
                      ELSE outdated \ (S \cup {ask[p].key})
  /\ told' = [op |-> "set", user |-> ask[p].key, value |-> ask[p].value]
  /\ ask' = [ask EXCEPT ![p] = Done]
  /\ UNCHANGED <<records, time, running>>

\* cacheQueryResult
CacheResult(p, k, v) ==
  /\ ask[p].pc = "idle"
  /\ \E S \in Evicted(k) : Replace(S, k, v) /\ outdated' = outdated \ S
  /\ told' = [op |-> "set", user |-> k, value |-> v]
  /\ UNCHANGED <<records, time, running, ask>>

-----------------------------------------------------------------------------
(* Writers *)

\* The Put or Delete of a handler.  It overtakes the lookups that have read the record.
WriteRecord(p, k) ==
  /\ ask[p].pc = "idle"
  /\ \E v \in Datum \cup {Nothing} : records' = [records EXCEPT ![k] = v]
  /\ ask' = [q \in Asker |->
              IF q = p THEN [Done EXCEPT !.pc = "invalidate", !.key = k]
              ELSE IF ask[q].pc = "fill" /\ ask[q].key = k THEN [ask[q] EXCEPT !.crossed = "yes"]
              ELSE ask[q]]
  /\ told' = Calm
  /\ UNCHANGED <<cached, time, running, touched, outdated>>

\* Mutation of Invalidate: the key is not the one the lookups use.
InvalidateOther(p) ==
  /\ ask[p].pc = "invalidate"
  /\ Drop({})
  /\ told' = [op |-> "remove", user |-> ask[p].key]
  /\ \E pc \in {"idle", "verify"} :
       ask' = [ask EXCEPT ![p] = IF pc = "idle" THEN Done ELSE [@ EXCEPT !.pc = pc]]
  /\ UNCHANGED <<records, time, running>>

\* invalidateRoleCache and the like, after the write; a configuration may still be verified.
Invalidate(p) ==
  /\ ask[p].pc = "invalidate"
  /\ Drop({ask[p].key})
  /\ told' = [op |-> "remove", user |-> ask[p].key]
  /\ \E pc \in {"idle", "verify"} :
       ask' = [ask EXCEPT ![p] = IF pc = "idle" THEN Done ELSE [@ EXCEPT !.pc = pc]]
  /\ UNCHANGED <<records, time, running>>

VerifySucceeds(p) ==
  /\ ask[p].pc = "verify"
  /\ ask' = [ask EXCEPT ![p] = Done]
  /\ told' = Calm
  /\ UNCHANGED <<cached, records, time, running, touched, outdated>>

VerifyFails(p) ==
  /\ ask[p].pc = "verify"
  /\ Drop({ask[p].key})
  /\ told' = [op |-> "remove", user |-> ask[p].key]
  /\ ask' = [ask EXCEPT ![p] = Done]
  /\ UNCHANGED <<records, time, running>>

\* A reload of a configuration, or the result of a query.
InvalidateKey(p, k) ==
  /\ ask[p].pc = "idle"
  /\ Drop({k})
  /\ told' = [op |-> "remove", user |-> k]
  /\ UNCHANGED <<records, time, running, ask>>

\* DeleteByPrefix
InvalidatePrefix(p, S) ==
  /\ ask[p].pc = "idle"
  /\ Drop(S)
  /\ told' = Calm
  /\ UNCHANGED <<records, time, running, ask>>

\* Clear
InvalidateAll(p) ==
  /\ ask[p].pc = "idle"
  /\ Drop(Key)
  /\ told' = [op |-> "remove all"]
  /\ UNCHANGED <<records, time, running, ask>>

-----------------------------------------------------------------------------
(* The background goroutine, and the clock *)

CleanupOver ==
  /\ running = "yes"
  /\ Drop({k \in Present : Over(k)})
  /\ told' = Calm
  /\ UNCHANGED <<records, time, running, ask>>

CloseQueryCache ==
  /\ running = "yes"
  /\ running' = "no"
  /\ told' = Calm
  /\ UNCHANGED <<cached, records, time, ask, touched, outdated>>

TimeMoves ==
  /\ time < LastTime
  /\ time' = time + 1
  /\ told' = Calm
  /\ UNCHANGED <<cached, records, running, ask, touched, outdated>>

QueryNext ==
  \/ \E p \in Asker :
       \/ \E k \in Key : Find(p, k) \/ Miss(p, k) \/ InvalidateKey(p, k)
       \/ ReadRecord(p) \/ Fill(p) \/ Invalidate(p) \/ VerifySucceeds(p) \/ VerifyFails(p)
       \/ \E k \in ResultKey, v \in Datum : CacheResult(p, k, v)
       \/ \E k \in StoredKey : WriteRecord(p, k)
       \/ \E S \in Prefix : InvalidatePrefix(p, S)
       \/ InvalidateAll(p)
  \/ CleanupOver \/ CloseQueryCache \/ TimeMoves

QuerySpec == QueryInit /\ [][QueryNext]_queryVars

-----------------------------------------------------------------------------
(* What holds of the code *)

QueryTypeOK ==
  /\ cached \in [Key -> Cell \cup {Nothing}]
  /\ records \in [StoredKey -> Datum \cup {Nothing}]
  /\ time \in Nat
  /\ running \in {"yes", "no"}
  /\ ask \in [Asker -> Ask]
  /\ touched \in [Key -> Nat]
  /\ outdated \in SUBSET Key
  /\ \A p \in Asker : /\ ask[p].pc # "idle" => ask[p].key \in StoredKey
                      /\ ask[p].pc = "fill" => ask[p].value \in Datum

\* What a lookup is about to set is what is stored, unless a write overtook it.
FillIsFresh ==
  \A p \in Asker : ask[p].pc = "fill" /\ ask[p].crossed = "no" => ask[p].value = records[ask[p].key]

\* Between a write and its invalidation the two may differ.
BeingWritten(k) == \E p \in Asker : ask[p].pc = "invalidate" /\ ask[p].key = k

\* An entry shows what is stored, except while a write is on its way to its
\* invalidation and except for what an overtaken lookup has set.
CachedIsStored ==
  \A k \in StoredKey :
    k \in Present /\ k \notin outdated /\ ~BeingWritten(k) => cached[k].value = records[k]

\* The cache keeps its size, whatever order it is filled and emptied in.
RoomKept == Cardinality(Present) <= Room

\* The type invariant, and what relates the map to storage and to its limit: a
\* lookup through the cache and a handler that writes the same record.
QueryInv == QueryTypeOK /\ FillIsFresh /\ CachedIsStored /\ RoomKept

\* Callers of the query cache may rely on what AbstractCache says, too; this one
\* also throws out entries that have not expired.
Shown == [k \in Key |-> IF cached[k] = Nothing THEN Nothing
                        ELSE [value |-> cached[k].value, until |-> cached[k].until]]

AbstractQuery == INSTANCE AbstractCache WITH
  User <- Key, Value <- Datum, RoleOf <- [v \in Datum |-> v], TTL <- KeepFor,
  None <- Nothing, EvictsLive <- TRUE, contents <- Shown, now <- time, event <- told

QueryImplementsAbstract == AbstractQuery!Spec

\* When a set throws another key's entry out, every entry that stays was found
\* or set as lately: what is in use survives a run of new keys.
RecentlyUsedStays ==
  [][\A k, w \in Present :
       told'.op = "set" /\ told'.user # k /\ cached'[k] = Nothing /\ cached'[w] # Nothing
         => touched[k] <= touched[w]]_queryVars
=============================================================================

---------------------------- MODULE AbstractCache ----------------------------
(***************************************************************************)
(* What a cache with a time to live promises its callers, whatever it does *)
(* inside: a hit is the value of the last set that nothing removed since,  *)
(* at most TTL old; a removal has happened when it returns; an entry may   *)
(* be gone sooner than its time, and then a caller gets a miss.            *)
(*                                                                         *)
(* CredentialLifecycle takes its cache as such a map (FillCache,           *)
(* InvalidateCache, CacheExpire); CredentialCache and QueryCache implement *)
(* it.                                                                     *)
(***************************************************************************)
EXTENDS Naturals

CONSTANTS
  User,       \* keys
  Value,      \* credentials
  RoleOf,     \* [Value -> the role a credential names]
  TTL,        \* time to live
  None,       \* no entry
  EvictsLive  \* whether a set may throw out another entry before its time

VARIABLES
  contents,  \* [User -> [value, until] or None]
  now,       \* the clock
  event      \* the call that has just ended, and its answer

vars == <<contents, now, event>>

Quiet == [op |-> "none"]
Role  == {RoleOf[v] : v \in Value}
Fresh(v) == [value |-> v, until |-> now + TTL]
Live(u)  == contents[u] # None /\ now <= contents[u].until

\* Users other than those of S keep their entries; expired ones may lose them.
OthersKeep(S) ==
  \A u \in User \ S : \/ contents'[u] = contents[u]
                      \/ contents'[u] = None /\ (EvictsLive \/ ~Live(u))

Init ==
  /\ contents = [u \in User |-> None]
  /\ now = 0
  /\ event = Quiet

Set(u, v) ==
  /\ event' = [op |-> "set", user |-> u, value |-> v]
  /\ contents' \in [User -> {contents[w] : w \in User} \cup {None, Fresh(v)}]
  /\ contents'[u] = Fresh(v)
  /\ OthersKeep({u})
  /\ now' = now

Remove(u) ==
  /\ event' = [op |-> "remove", user |-> u]
  /\ contents' = [contents EXCEPT ![u] = None]
  /\ now' = now

RemoveRole(role) ==
  /\ event' = [op |-> "remove role", role |-> role]
  /\ contents' = [u \in User |->
                   IF contents[u] # None /\ RoleOf[contents[u].value] = role
                   THEN None ELSE contents[u]]
  /\ now' = now

RemoveAll ==
  /\ event' = [op |-> "remove all"]
  /\ contents' = [u \in User |-> None]
  /\ now' = now

\* Users without an entry may be given one.
Fill(given) ==
  /\ event' = [op |-> "fill", given |-> given]
  /\ contents' = [u \in User |->
                   IF contents[u] = None /\ given[u] # None
                   THEN Fresh(given[u]) ELSE contents[u]]
  /\ now' = now

Hit(u) ==
  /\ Live(u)
  /\ event' = [op |-> "hit", user |-> u, value |-> contents[u].value]
  /\ UNCHANGED <<contents, now>>

\* The caller gets nothing, and what was there may go.
Miss(u) ==
  /\ event' = [op |-> "miss", user |-> u]
  /\ contents' \in {contents, [contents EXCEPT ![u] = None]}
  /\ now' = now

\* Entries go away of themselves.
Lose(S) ==
  /\ event' = Quiet
  /\ contents' = [u \in User |-> IF u \in S THEN None ELSE contents[u]]
  /\ now' = now

Tick ==
  /\ event' = Quiet
  /\ now' = now + 1
  /\ contents' = contents

Next ==
  \/ \E u \in User : Remove(u) \/ Hit(u) \/ Miss(u) \/ (\E v \in Value : Set(u, v))
  \/ \E role \in Role : RemoveRole(role)
  \/ RemoveAll
  \/ \E given \in [User -> Value \cup {None}] : Fill(given)
  \/ \E S \in SUBSET User : Lose(S)
  \/ Tick

Spec == Init /\ [][Next]_vars
=============================================================================

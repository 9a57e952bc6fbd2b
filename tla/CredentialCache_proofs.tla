----------------------- MODULE CredentialCache_proofs -----------------------
(***************************************************************************)
(* CredentialCache implements AbstractCache, and takes no entry before its *)
(* time, for every number of callers and users, every time to live and     *)
(* every size.                                                             *)
(***************************************************************************)
EXTENDS CredentialCache, TLAPS

\* The entries and the clock keep their types, and an entry's two times stay TTL
\* apart, whatever the callers and the cleanup do.
THEOREM TypeCorrect == Spec => []TypeOK
<1>1. Init => TypeOK
  BY CacheAssumption DEF Init, TypeOK, Idle, Frame, Cached
<1>2. TypeOK /\ [Next]_vars => TypeOK'
  <2> SUFFICES ASSUME TypeOK, [Next]_vars
               PROVE  TypeOK'
    OBVIOUS
  <2> USE CacheAssumption
  <2>1. \A S : Without(S) \in [User -> Entry \cup {None}]
    BY DEF TypeOK, Without
  <2>2. \A v \in Value : /\ NewEntry(v) \in Entry
                         /\ NewEntry(v).expiresAt = NewEntry(v).createdAt + TTL
    BY DEF TypeOK, NewEntry, Entry
  <2>3. ASSUME NEW S, entries' = Without(S), now' = now, open' \in BOOLEAN,
               thr' \in [Thread -> Frame],
               \A t \in Thread : thr'[t].pc # "idle" => thr'[t].user \in User
        PROVE  TypeOK'
    BY <2>1, <2>3 DEF TypeOK, Without, Cached
  <2>4. ASSUME NEW t \in Thread, NEW u \in User, GetMiss(t, u) \/ GetHit(t, u) \/ GetExpired(t, u)
        PROVE  TypeOK'
    BY <2>4 DEF TypeOK, Cached, Frame, GetMiss, GetHit, GetExpired
  <2>5. ASSUME NEW t \in Thread, GetDelete(t)
        PROVE  TypeOK'
    <3>1. /\ thr' \in [Thread -> Frame]
          /\ \A s \in Thread : thr'[s].pc # "idle" => thr'[s].user \in User
      BY <2>5 DEF TypeOK, GetDelete, Frame
    <3> QED
      BY <2>3, <2>5, <3>1 DEF TypeOK, GetDelete
  <2>6. ASSUME NEW t \in Thread, GetReturn(t)
        PROVE  TypeOK'
    BY <2>6 DEF TypeOK, Cached, Frame, Idle, GetReturn
  <2>7. ASSUME NEW t \in Thread, NEW u \in User, NEW v \in Value, Set(t, u, v)
        PROVE  TypeOK'
    <3>1. PICK old \in {entries} \cup {Without({w}) : w \in User} :
            entries' = [old EXCEPT ![u] = NewEntry(v)]
      BY <2>7 DEF Set, Evictable, Cached
    <3>2. /\ old \in [User -> Entry \cup {None}]
          /\ \A w \in User : old[w] = None \/ old[w] = entries[w]
      BY <2>1 DEF TypeOK, Without
    <3>3. \A w \in User : entries'[w] = IF w = u THEN NewEntry(v) ELSE old[w]
      BY <3>1, <3>2
    <3>4. entries' \in [User -> Entry \cup {None}]
      BY <2>2, <3>1, <3>2
    <3>5. \A w \in User : entries'[w] # None => entries'[w].expiresAt = entries'[w].createdAt + TTL
      BY <2>2, <3>2, <3>3 DEF TypeOK, Cached
    <3> QED
      BY <2>7, <3>4, <3>5 DEF TypeOK, Set, Cached
  <2>8. ASSUME NEW t \in Thread,
               (\E u \in User : Delete(t, u)) \/ Clear(t) \/ (\E role \in Role : DeleteByRole(t, role))
        PROVE  TypeOK'
    <3>1. \E S : entries' = Without(S)
      BY <2>8 DEF Delete, Clear, DeleteByRole
    <3>2. UNCHANGED <<now, open, thr>>
      BY <2>8 DEF Delete, Clear, DeleteByRole
    <3> QED
      BY <2>3, <3>1, <3>2 DEF TypeOK
  <2>9. ASSUME NEW t \in Thread, NEW stored \in [User -> Value \cup {None}], WarmCache(t, stored)
        PROVE  TypeOK'
    <3>1. \A w \in User : entries'[w] = entries[w]
                          \/ \E v \in Value : entries'[w] = NewEntry(v)
      BY <2>9 DEF WarmCache
    <3>2. entries' \in [User -> Entry \cup {None}]
      <4>1. \A w \in User : entries'[w] \in Entry \cup {None}
        BY <2>2, <3>1 DEF TypeOK
      <4> QED
        BY <2>9, <4>1 DEF WarmCache
    <3>3. \A w \in User : entries'[w] # None => entries'[w].expiresAt = entries'[w].createdAt + TTL
      BY <2>2, <3>1 DEF TypeOK, Cached
    <3> QED
      BY <2>9, <3>2, <3>3 DEF TypeOK, WarmCache, Cached
  <2>10. ASSUME CleanupExpired
         PROVE  TypeOK'
    BY <2>3, <2>10 DEF TypeOK, CleanupExpired
  <2>11. ASSUME Close \/ Tick \/ UNCHANGED vars
         PROVE  TypeOK'
    <3>1. UNCHANGED <<entries, thr>> /\ now' \in Nat /\ open' \in BOOLEAN
      <4>1. CASE Close
        BY <4>1 DEF TypeOK, Close
      <4>2. CASE Tick
        BY <4>2 DEF TypeOK, Tick
      <4>3. CASE UNCHANGED vars
        BY <4>3 DEF TypeOK, vars
      <4> QED
        BY <2>11, <4>1, <4>2, <4>3
    <3> QED
      BY <3>1 DEF TypeOK, Cached
  <2> QED
    BY <2>4, <2>5, <2>6, <2>7, <2>8, <2>9, <2>10, <2>11 DEF Next
<1> QED
  BY <1>1, <1>2, PTL DEF Spec

-----------------------------------------------------------------------------
(* What may take an entry that has not expired *)

\* Eviction goes by the time of creation, Get and the cleanup by the expiry:
\* what is evicted has expired all the same.
LEMMA EvictedHasExpired ==
  ASSUME CacheAssumption, TypeOK, NEW w \in Evictable
  PROVE  w \in Cached /\ Expired(w)
  BY CacheAssumption DEF Evictable, Expired, TypeOK, Cached, Entry

\* The part of LiveEntriesStay that is about a single step and a single user.
MayGo(u) ==
  \/ event'.op \in {"remove all", "remove role"}
  \/ event'.op \in {"set", "remove"} /\ event'.user = u
  \/ \E t \in Thread : thr[t] = [pc |-> "delete", user |-> u] /\ thr'[t].pc = "relock"

\* A step takes or changes an unexpired entry only if it may.
LEMMA StepKeepsLive ==
  ASSUME CacheAssumption, TypeOK, [Next]_vars,
         NEW u \in Cached, ~Expired(u), entries'[u] # entries[u]
  PROVE  MayGo(u)
<1>0. u \in User /\ entries[u] # None
  BY DEF Cached
<1>1. ASSUME NEW t \in Thread, GetDelete(t)
      PROVE  MayGo(u)
  <2>1. u = thr[t].user
    BY <1>0, <1>1 DEF GetDelete, Without
  <2>2. thr[t] \in Frame /\ thr[t].pc = "delete"
    BY <1>1 DEF GetDelete, TypeOK
  <2>3. thr[t] = [pc |-> "delete", user |-> u]
    BY <2>1, <2>2 DEF Frame
  <2>4. thr'[t].pc = "relock"
    BY <1>1, <2>2 DEF GetDelete, TypeOK, Frame
  <2> QED
    BY <2>3, <2>4 DEF MayGo
<1>2. ASSUME NEW t \in Thread, NEW w \in User, NEW v \in Value, Set(t, w, v)
      PROVE  MayGo(u)
  <2>1. \/ entries' = [entries EXCEPT ![w] = NewEntry(v)]
        \/ \E x \in Evictable : entries' = [Without({x}) EXCEPT ![w] = NewEntry(v)]
    BY <1>2 DEF Set
  <2>2. u \notin Evictable
    BY EvictedHasExpired
  <2>3. u = w
    BY <1>0, <2>1, <2>2 DEF TypeOK, Without
  <2> QED
    BY <1>2, <2>3 DEF Set, MayGo
<1>3. ASSUME NEW t \in Thread, NEW w \in User, Delete(t, w)
      PROVE  MayGo(u)
  BY <1>0, <1>3 DEF Delete, Without, MayGo
<1>4. ASSUME NEW t \in Thread, Clear(t)
      PROVE  MayGo(u)
  <2>1. event'.op = "remove all"
    BY <1>4 DEF Clear
  <2> QED
    BY <2>1 DEF MayGo
<1>5. ASSUME NEW t \in Thread, NEW role \in Role, DeleteByRole(t, role)
      PROVE  MayGo(u)
  <2>1. event'.op = "remove role"
    BY <1>5 DEF DeleteByRole
  <2> QED
    BY <2>1 DEF MayGo
<1>6. ASSUME NEW t \in Thread, NEW stored \in [User -> Value \cup {None}], WarmCache(t, stored)
      PROVE  FALSE
  BY <1>0, <1>6 DEF WarmCache, Cached
<1>7. ASSUME CleanupExpired
      PROVE  FALSE
  BY <1>0, <1>7 DEF CleanupExpired, Without
<1>8. ASSUME NEW t \in Thread,
             (\E w \in User : GetMiss(t, w) \/ GetHit(t, w) \/ GetExpired(t, w)) \/ GetReturn(t)
      PROVE  FALSE
  BY <1>8 DEF GetMiss, GetHit, GetExpired, GetReturn
<1>9. ASSUME Close \/ Tick \/ UNCHANGED vars
      PROVE  FALSE
  BY <1>9 DEF Close, Tick, vars
<1> QED
  BY <1>1, <1>2, <1>3, <1>4, <1>5, <1>6, <1>7, <1>8, <1>9 DEF Next

\* An unexpired entry leaves or changes only by a call that names it, by one that
\* clears its role or all of the cache, or by a Get that found it expired before
\* it was set anew: never by the eviction of a full cache or by the cleanup.
THEOREM LiveStay == Spec => LiveEntriesStay
<1>1. TypeOK /\ [Next]_vars =>
        [\A u \in Cached :
          ~Expired(u) /\ entries'[u] # entries[u] =>
            \/ event'.op \in {"remove all", "remove role"}
            \/ event'.op \in {"set", "remove"} /\ event'.user = u
            \/ \E t \in Thread : thr[t] = [pc |-> "delete", user |-> u] /\ thr'[t].pc = "relock"]_vars
  BY CacheAssumption, StepKeepsLive DEF MayGo
<1> QED
  BY <1>1, TypeCorrect, PTL DEF Spec, LiveEntriesStay

-----------------------------------------------------------------------------
(* The refinement: contents maps each entry to its value and its expiry *)

ShownOf(e) == IF e = None THEN None ELSE [value |-> e.credential, until |-> e.expiresAt]

\* What a caller is shown of a user depends on the user's entry alone; a new
\* entry is shown as a fresh one, no entry as none.
LEMMA Shown ==
  ASSUME CacheAssumption, TypeOK
  PROVE  /\ Contents = [u \in User |-> ShownOf(entries[u])]
         /\ \A u \in User : /\ Contents[u] = None <=> entries[u] = None
                            /\ u \in Cached => /\ Contents[u].value = entries[u].credential
                                               /\ Abstract!Live(u) <=> ~Expired(u)
         /\ \A v \in Value : ShownOf(NewEntry(v)) = Abstract!Fresh(v)
         /\ ShownOf(None) = None
<1>1. Contents = [u \in User |-> ShownOf(entries[u])]
  BY DEF Contents, ShownOf
<1>2. \A e \in Entry : /\ e # None
                       /\ ShownOf(e) = [value |-> e.credential, until |-> e.expiresAt]
                       /\ ShownOf(e) # None
  BY CacheAssumption DEF Entry, ShownOf
<1>3. \A u \in User : /\ Contents[u] = None <=> entries[u] = None
                      /\ u \in Cached => /\ Contents[u].value = entries[u].credential
                                         /\ Abstract!Live(u) <=> ~Expired(u)
  <2> SUFFICES ASSUME NEW u \in User
               PROVE  /\ Contents[u] = None <=> entries[u] = None
                      /\ u \in Cached => /\ Contents[u].value = entries[u].credential
                                         /\ Abstract!Live(u) <=> ~Expired(u)
    OBVIOUS
  <2>1. Contents[u] = ShownOf(entries[u])
    BY <1>1
  <2>2. CASE entries[u] = None
    BY <2>1, <2>2 DEF ShownOf, Cached
  <2>3. CASE entries[u] \in Entry
    <3>1. /\ entries[u].expiresAt \in Nat
          /\ now \in Nat
      BY <2>3 DEF Entry, TypeOK
    <3> QED
      BY <1>2, <2>1, <2>3, <3>1 DEF Abstract!Live, Expired
  <2> QED
    BY <2>2, <2>3 DEF TypeOK
<1>4. \A v \in Value : ShownOf(NewEntry(v)) = Abstract!Fresh(v)
  <2>1. \A v \in Value : NewEntry(v) \in Entry
    BY CacheAssumption DEF TypeOK, NewEntry, Entry
  <2> QED
    BY <1>2, <2>1 DEF NewEntry, Abstract!Fresh
<1> QED
  BY <1>1, <1>3, <1>4 DEF ShownOf

\* Taking entries away shows as taking away what they show.
LEMMA ShownWithout ==
  ASSUME CacheAssumption, TypeOK, NEW S, entries' = Without(S)
  PROVE  Contents' = [u \in User |-> IF u \in S THEN None ELSE Contents[u]]
<1>1. Contents' = [u \in User |-> ShownOf(entries'[u])]
  BY DEF Contents, ShownOf
<1>2. \A u \in User : entries'[u] = IF u \in S THEN None ELSE entries[u]
  BY DEF Without
<1> QED
  BY <1>1, <1>2, Shown

\* Every step of the cache is a step of the abstract one, or shows nothing.
LEMMA StepRefines ==
  ASSUME CacheAssumption, TypeOK, [Next]_vars
  PROVE  [Abstract!Next]_(Abstract!vars)
<1>0. Contents' = [u \in User |-> ShownOf(entries'[u])]
  BY DEF Contents, ShownOf
<1>1. ASSUME entries' = entries
      PROVE  Contents' = Contents
  BY <1>1 DEF Contents
<1>2. ASSUME NEW t \in Thread, NEW u \in User, GetMiss(t, u)
      PROVE  Abstract!Miss(u)
  BY <1>1, <1>2 DEF GetMiss, Abstract!Miss
<1>3. ASSUME NEW t \in Thread, NEW u \in User, GetHit(t, u)
      PROVE  Abstract!Hit(u)
  BY <1>1, <1>3, Shown DEF GetHit, Abstract!Hit
<1>4. ASSUME UNCHANGED <<entries, now>>, event' = Quiet
      PROVE  Abstract!Lose({})
  <2>1. Contents' = [u \in User |-> Contents[u]]
    BY <1>0, <1>4, Shown
  <2> QED
    BY <1>4, <2>1 DEF Abstract!Lose, Abstract!Quiet, Quiet
<1>5. ASSUME NEW t \in Thread, GetDelete(t)
      PROVE  Abstract!Lose({thr[t].user}) /\ {thr[t].user} \in SUBSET User
  <2>1. thr[t].user \in User
    BY <1>5 DEF GetDelete, TypeOK
  <2> QED
    BY <1>5, <2>1, ShownWithout DEF GetDelete, Abstract!Lose, Abstract!Quiet, Quiet
<1>6. ASSUME NEW t \in Thread, GetReturn(t)
      PROVE  Abstract!Miss(thr[t].user) /\ thr[t].user \in User
  BY <1>1, <1>6 DEF GetReturn, TypeOK, Abstract!Miss
<1>7. ASSUME NEW t \in Thread, NEW u \in User, NEW v \in Value, Set(t, u, v)
      PROVE  Abstract!Set(u, v)
  <2>1. \A w \in User : \/ entries'[w] = entries[w]
                        \/ w = u /\ entries'[w] = NewEntry(v)
                        \/ w \in Evictable /\ entries'[w] = None
    BY <1>7 DEF Set, Without, TypeOK
  <2>2. entries'[u] = NewEntry(v)
    BY <1>7 DEF Set, Without, TypeOK
  <2>3. \A w \in Evictable : w \in User /\ w \in Cached /\ Expired(w)
    BY EvictedHasExpired DEF Cached
  <2>4. Contents'[u] = Abstract!Fresh(v)
    BY <1>0, <2>2, Shown
  <2>5. \A w \in User \ {u} : Contents'[w] = Contents[w]
                              \/ (~Abstract!Live(w) /\ Contents'[w] = None)
    BY <1>0, <2>1, <2>3, Shown
  <2>6. \A w \in User : Contents'[w] \in {Contents[x] : x \in User} \cup {None, Abstract!Fresh(v)}
    BY <2>4, <2>5
  <2>7. Contents' \in [User -> {Contents[x] : x \in User} \cup {None, Abstract!Fresh(v)}]
    BY <1>0, <2>6
  <2>8. Abstract!OthersKeep({u})
    BY <2>5 DEF Abstract!OthersKeep
  <2> QED
    BY <1>7, <2>4, <2>7, <2>8 DEF Set, Abstract!Set
<1>8. ASSUME NEW t \in Thread, NEW u \in User, Delete(t, u)
      PROVE  Abstract!Remove(u)
  <2>1. Contents' = [w \in User |-> IF w \in {u} THEN None ELSE Contents[w]]
    BY <1>8, ShownWithout DEF Delete
  <2>2. Contents = [w \in User |-> Contents[w]]
    BY Shown
  <2>3. Contents' = [Contents EXCEPT ![u] = None]
    BY <2>1, <2>2
  <2> QED
    BY <1>8, <2>3 DEF Delete, Abstract!Remove
<1>9. ASSUME NEW t \in Thread, NEW role \in Role, DeleteByRole(t, role)
      PROVE  Abstract!RemoveRole(role)
  <2> DEFINE S == {u \in Cached : RoleOf[entries[u].credential] = role}
  <2>1. Contents' = [u \in User |-> IF u \in S THEN None ELSE Contents[u]]
    BY <1>9, ShownWithout DEF DeleteByRole
  <2>2. \A u \in User : u \in S <=> Contents[u] # None /\ RoleOf[Contents[u].value] = role
    BY Shown DEF Cached
  <2>3. Contents' = [u \in User |->
                      IF Contents[u] # None /\ RoleOf[Contents[u].value] = role
                      THEN None ELSE Contents[u]]
    BY <2>1, <2>2
  <2> QED
    BY <1>9, <2>3 DEF DeleteByRole, Abstract!RemoveRole
<1>10. ASSUME NEW t \in Thread, Clear(t)
       PROVE  Abstract!RemoveAll
  <2>1. Contents' = [u \in User |-> None]
    BY <1>10, ShownWithout DEF Clear
  <2> QED
    BY <1>10, <2>1 DEF Clear, Abstract!RemoveAll
<1>11. ASSUME NEW t \in Thread, NEW stored \in [User -> Value \cup {None}], WarmCache(t, stored)
       PROVE  Abstract!Fill(stored)
  <2>1. \A u \in User :
          entries'[u] = IF u \notin Cached /\ stored[u] # None THEN NewEntry(stored[u]) ELSE entries[u]
    BY <1>11 DEF WarmCache
  <2>2. \A u \in User :
          ShownOf(entries'[u]) = IF Contents[u] = None /\ stored[u] # None
                                 THEN Abstract!Fresh(stored[u]) ELSE Contents[u]
    <3>1. \A u \in User : u \notin Cached <=> Contents[u] = None
      BY Shown DEF Cached
    <3>2. \A u \in User : stored[u] # None => stored[u] \in Value
      OBVIOUS
    <3> QED
      BY <2>1, <3>1, <3>2, Shown
  <2>3. Contents' = [u \in User |->
                      IF Contents[u] = None /\ stored[u] # None
                      THEN Abstract!Fresh(stored[u]) ELSE Contents[u]]
    BY <1>0, <2>2
  <2> QED
    BY <1>11, <2>3 DEF WarmCache, Abstract!Fill
<1>12. ASSUME CleanupExpired
       PROVE  \E S \in SUBSET User : Abstract!Lose(S)
  <2> DEFINE S == {u \in Cached : Expired(u)}
  <2>1. Contents' = [u \in User |-> IF u \in S THEN None ELSE Contents[u]]
    BY <1>12, ShownWithout DEF CleanupExpired
  <2>2. S \in SUBSET User
    BY DEF Cached
  <2>3. Abstract!Lose(S)
    BY <1>12, <2>1 DEF CleanupExpired, Abstract!Lose, Abstract!Quiet, Quiet
  <2> QED
    BY <2>2, <2>3
<1>13. ASSUME Tick
       PROVE  Abstract!Tick
  BY <1>1, <1>13 DEF Tick, Abstract!Tick, Abstract!Quiet, Quiet
<1>14. ASSUME UNCHANGED vars
       PROVE  UNCHANGED Abstract!vars
  BY <1>1, <1>14 DEF vars, Abstract!vars
<1>15. ASSUME NEW t \in Thread, NEW u \in User, GetExpired(t, u)
       PROVE  Abstract!Lose({})
  BY <1>4, <1>15 DEF GetExpired
<1>16. ASSUME Close
       PROVE  Abstract!Lose({})
  BY <1>4, <1>16 DEF Close
<1>17. Role = Abstract!Role
  BY DEF Role, Abstract!Role
<1> QED
  BY <1>2, <1>3, <1>5, <1>6, <1>7, <1>8, <1>9, <1>10, <1>11, <1>12, <1>13, <1>14,
     <1>15, <1>16, <1>17
  DEF Next, Abstract!Next

\* CredentialCache implements AbstractCache: callers of getCachedCredential may
\* rely on the lossy map CredentialLifecycle gives them.
THEOREM Implements == Spec => ImplementsAbstract
<1>1. Init => Abstract!Init
  BY DEF Init, Contents, Quiet, Abstract!Init, Abstract!Quiet
<1>2. TypeOK /\ [Next]_vars => [Abstract!Next]_(Abstract!vars)
  BY CacheAssumption, StepRefines
<1> QED
  BY <1>1, <1>2, TypeCorrect, PTL DEF Spec, ImplementsAbstract, Abstract!Spec
=============================================================================

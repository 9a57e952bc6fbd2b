--------------------- MODULE CredentialLifecycle_proofs ---------------------
(* Theorems of CredentialLifecycle, for every value of its constants. *)
EXTENDS CredentialLifecycle, FiniteSetTheorems, TLAPS

\* The records a role has are finitely many (countCredentialsByRole returns).
LEMMA CountIsNat == \A role \in Role : Cardinality(CredentialsOf(role)) \in Nat
<1>1. IsFiniteSet(User)  BY LifecycleAssumption
<1>2. \A role \in Role : CredentialsOf(role) \subseteq User  BY DEF CredentialsOf, Stored
<1> QED  BY <1>1, <1>2, FS_Subset, FS_CardinalityType

\* A creation that passed its quota check has at least one name left to make.
LEMMA GrantedIsPositive ==
  ASSUME NEW role \in Role, NEW n \in BatchSizes, QuotaAllows(role)
  PROVE  GrantedCount(role, n) - 1 \in Nat
<1>1. /\ Cardinality(CredentialsOf(role)) \in Nat
      /\ MaxCredentials[role] \in Nat
      /\ n \in Nat /\ n >= 1
  BY CountIsNat, LifecycleAssumption
<1> QED  BY <1>1 DEF QuotaAllows, GrantedCount


-----------------------------------------------------------------------------
(* Type correctness.  A handler that adds the user at hand to a database has  *)
(* one, so TypeOK is proved together with FrameInv.                           *)

OKFrame == {f \in Frame : FrameOK(f)}

TypeInv == TypeOK /\ FrameInv

LEMMA FramesOK == TypeInv => req \in [Request -> OKFrame]
  BY DEF TypeInv, TypeOK, FrameInv, OKFrame

LEMMA FramesOKNext ==
  ASSUME req' \in [Request -> OKFrame]
  PROVE  FrameInv' /\ req' \in [Request -> Frame]
  BY DEF FrameInv, OKFrame

LEMMA IdleOK == Idle \in OKFrame
  BY DEF Idle, OKFrame, FrameOK, Frame, PC, Op

LEMMA ReturnOK ==
  ASSUME TypeInv, NEW r \in Request, Return(r)
  PROVE  req' \in [Request -> OKFrame]
  BY FramesOK, IdleOK DEF Return

LEMMA AdvanceOK ==
  ASSUME TypeInv, NEW r \in Request, Advance(r),
         req[r].op \in {"renew", "renew_batch", "revoke", "scan", "cleanup"}
  PROVE  req' \in [Request -> OKFrame]
<1> DEFINE f == [req[r] EXCEPT !.pc = "pick", !.user = NoUser, !.copy = NoCred]
<1>1. CASE req[r].users = {}
  <2>1. req' = [req EXCEPT ![r] = Idle]  BY <1>1, FramesOK DEF Advance
  <2> QED  BY <2>1, FramesOK, IdleOK
<1>2. CASE req[r].users # {}
  <2>1. req[r] \in Frame  BY FramesOK DEF OKFrame
  <2>2. f \in OKFrame  BY <1>2, <2>1, FramesOK DEF OKFrame, FrameOK, Frame, PC
  <2>3. req' = [req EXCEPT ![r] = f]  BY <1>2, FramesOK DEF Advance
  <2> QED  BY <2>2, <2>3, FramesOK
<1> QED  BY <1>1, <1>2

\* The frame a creation starts from.
LEMMA AdmitOK ==
  ASSUME TypeInv, NEW r \in Request,
         NEW role \in Role, NEW g \in Region, NEW n \in BatchSizes,
         CreateAdmit(r, role, g, n)
  PROVE  TypeInv'
<1> DEFINE f(u) == [Idle EXCEPT !.pc = "create_user", !.op = "create", !.user = u,
                       !.copy = NewCredential(role, g),
                       !.left = GrantedCount(role, n) - 1]
<1>1. PICK u \in GeneratedNames(role) :
        used' = used \cup {u} /\ req' = [req EXCEPT ![r] = f(u)]
  BY DEF CreateAdmit
<1>2. u \in User
  BY LifecycleAssumption DEF GeneratedNames
<1>3. GrantedCount(role, n) - 1 \in Nat
  BY GrantedIsPositive DEF CreateAdmit
<1>4. NewCredential(role, g) \in Credential
  BY DEF NewCredential, Credential
<1>5. f(u) \in OKFrame
  BY <1>2, <1>3, <1>4, NoCredAssumption DEF OKFrame, FrameOK, Frame, PC, Op, Idle
<1>6. req' \in [Request -> OKFrame]
  BY <1>1, <1>5, FramesOK
<1> QED
  BY <1>1, <1>2, <1>6, FramesOKNext DEF CreateAdmit, TypeInv, TypeOK

LEMMA CreateUserOK ==
  ASSUME TypeInv, NEW r \in Request, CreateUser(r)
  PROVE  TypeInv'
<1>1. /\ req[r] \in OKFrame
      /\ req[r].user \in User
      /\ req[r].copy \in Credential
  BY FramesOK DEF CreateUser, OKFrame, FrameOK, Frame
<1>2. req[r].copy.region \in Region  BY <1>1 DEF Credential
<1>3. req' \in [Request -> OKFrame]
  <2>1. CASE Return(r)  BY <2>1, ReturnOK
  <2>2. CASE Goto(r, IF req[r].copy.role \in ScriptedRoles THEN "create_stmt" ELSE "put")
    BY <1>1, <2>2, FramesOK DEF CreateUser, Goto, OKFrame, FrameOK, Frame, PC
  <2> QED  BY <2>1, <2>2 DEF CreateUser
<1>4. db' \in [Region -> SUBSET User]
  BY <1>1, <1>2 DEF CreateUser, TypeInv, TypeOK
<1> QED  BY <1>3, <1>4, FramesOKNext DEF CreateUser, TypeInv, TypeOK

LEMMA CreationStatementOK ==
  ASSUME TypeInv, NEW r \in Request, CreationStatement(r) \/ Rollback(r)
  PROVE  TypeInv'
<1>1. req[r] \in OKFrame /\ req[r].op = "create" /\ req[r].copy \in Credential
  BY FramesOK DEF CreationStatement, Rollback, OKFrame, FrameOK, Frame
<1>2. CASE CreationStatement(r)
  <2>1. req' \in [Request -> OKFrame]
    BY <1>1, <1>2, FramesOK DEF CreationStatement, Goto, OKFrame, FrameOK, Frame, PC
  <2> QED  BY <1>2, <2>1, FramesOKNext DEF CreationStatement, TypeInv, TypeOK
<1>3. CASE Rollback(r)
  <2>1. req' \in [Request -> OKFrame]  BY <1>3, ReturnOK DEF Rollback
  <2>2. db' \in [Region -> SUBSET User]
    BY <1>1, <1>3 DEF Rollback, Credential, TypeInv, TypeOK
  <2> QED  BY <1>3, <2>1, <2>2, FramesOKNext DEF Rollback, TypeInv, TypeOK
<1> QED  BY <1>2, <1>3

LEMMA NewTimes ==
  ASSUME NEW c \in Credential, NEW s \in Nat, NEW t \in Nat
  PROVE  /\ [c EXCEPT !.created = s, !.expires = t] \in Credential
         /\ [c EXCEPT !.expires = t] \in Credential
  BY DEF Credential

LEMMA PutCredentialOK ==
  ASSUME TypeInv, NEW r \in Request, PutCredential(r)
  PROVE  TypeInv'
<1> DEFINE f    == req[r]
           cred == IF f.op = "create"
                   THEN [f.copy EXCEPT !.created = clock,
                                       !.expires = clock + DefaultTTL[f.copy.role]]
                   ELSE f.copy
<1>1. /\ f \in OKFrame /\ f.pc = "put"
      /\ f.user \in User /\ f.copy \in Credential
  BY FramesOK DEF PutCredential, OKFrame, FrameOK, Frame
<1>2. cred \in Credential
  <2>1. f.copy.role \in Role  BY <1>1 DEF Credential
  <2>2. clock \in Nat /\ clock + DefaultTTL[f.copy.role] \in Nat
    BY <2>1, LifecycleAssumption DEF TypeInv, TypeOK
  <2> QED  BY <1>1, <2>2, NewTimes
<1>3. CASE /\ store' = [store EXCEPT ![f.user] = cred]
           /\ req' = [req EXCEPT ![r].pc = "cache", ![r].copy = cred]
  <2> DEFINE h == [f EXCEPT !.pc = "cache", !.copy = cred]
  <2> HIDE DEF cred
  <2>1. h \in OKFrame
    BY <1>1, <1>2, NoCredAssumption DEF OKFrame, FrameOK, Frame, PC
  <2>2. req' = [req EXCEPT ![r] = h]  BY <1>3, FramesOK
  <2>3. req' \in [Request -> OKFrame]  BY <2>1, <2>2, FramesOK
  <2>4. store' \in [User -> Credential \cup {NoCred}]
    BY <1>1, <1>2, <1>3 DEF TypeInv, TypeOK
  <2> QED  BY <2>3, <2>4, FramesOKNext DEF PutCredential, TypeInv, TypeOK
<1>4. CASE store' = store /\ Return(r)
  BY <1>4, ReturnOK, FramesOKNext DEF PutCredential, TypeInv, TypeOK
<1>5. CASE store' = store /\ f.op = "renew_batch" /\ Advance(r)
  BY <1>5, AdvanceOK, FramesOKNext DEF PutCredential, TypeInv, TypeOK
<1> QED  BY <1>3, <1>4, <1>5 DEF PutCredential

LEMMA CacheCredentialOK ==
  ASSUME TypeInv, NEW r \in Request, CacheCredential(r)
  PROVE  TypeInv'
<1> DEFINE f    == req[r]
           made == f.users \cup {f.user}
           new  == NewCredential(f.copy.role, f.copy.region)
           h(u) == [f EXCEPT !.pc = "create_user", !.user = u, !.users = made,
                             !.left = f.left - 1, !.copy = new]
<1>1. /\ f \in OKFrame /\ f \in Frame /\ f.pc = "cache"
      /\ f.user \in User /\ f.copy \in Credential
      /\ f.users \subseteq User /\ f.left \in Nat
  BY FramesOK DEF CacheCredential, OKFrame, FrameOK, Frame
<1>2. cache' \in [User -> Credential \cup {NoCred}]
  BY <1>1 DEF CacheCredential, TypeInv, TypeOK
<1>3. held' \subseteq User
  BY <1>1 DEF CacheCredential, TypeInv, TypeOK
<1>4. CASE used' = used /\ Return(r)
  BY <1>2, <1>3, <1>4, ReturnOK, FramesOKNext DEF CacheCredential, TypeInv, TypeOK
<1>6. CASE used' = used /\ f.op = "renew_batch" /\ Advance(r)
  BY <1>2, <1>3, <1>6, AdvanceOK, FramesOKNext DEF CacheCredential, TypeInv, TypeOK
<1>5. CASE /\ f.op = "create" /\ f.left > 0
           /\ \E u \in GeneratedNames(f.copy.role) :
                used' = used \cup {u} /\ req' = [req EXCEPT ![r] = h(u)]
  <2>1. PICK u \in GeneratedNames(f.copy.role) :
          used' = used \cup {u} /\ req' = [req EXCEPT ![r] = h(u)]
    BY <1>5
  <2>2. u \in User
    BY <1>1, LifecycleAssumption DEF GeneratedNames, Credential
  <2>3. new \in Credential /\ new # NoCred
    BY <1>1, NoCredAssumption DEF NewCredential, Credential
  <2>4. f.left - 1 \in Nat
    BY <1>1, <1>5
  <2>5. h(u) \in OKFrame
    <3> HIDE DEF new
    <3> QED  BY <1>1, <1>5, <2>2, <2>3, <2>4 DEF OKFrame, FrameOK, Frame, PC
  <2> HIDE DEF h
  <2>6. req' \in [Request -> OKFrame]  BY <2>1, <2>5, FramesOK
  <2> QED
    BY <1>2, <1>3, <2>1, <2>2, <2>6, FramesOKNext DEF CacheCredential, TypeInv, TypeOK
<1> QED  BY <1>4, <1>5, <1>6 DEF CacheCredential

LEMMA ExtendLeaseOK ==
  ASSUME TypeInv, NEW r \in Request, NEW u \in User, NEW requested \in RequestedTTLs,
         ExtendLease(r, u, requested)
  PROVE  TypeInv'
<1> DEFINE cred == store[u]
           t    == ExtendedExpiry(cred, requested)
           c    == [cred EXCEPT !.expires = t]
           h    == [Idle EXCEPT !.pc = "put", !.op = "extend", !.user = u, !.copy = c]
<1>1. cred \in Credential
  BY DEF ExtendLease, TypeInv, TypeOK
<1>2. cred.role \in Role /\ cred.created \in Nat /\ clock \in Nat
  BY <1>1 DEF Credential, TypeInv, TypeOK
<1>3. t \in Nat
  <2>1. requested \in Nat /\ DefaultTTL[cred.role] \in Nat /\ MaxTTL[cred.role] \in Nat
    BY <1>2, LifecycleAssumption
  <2> QED  BY <1>2, <2>1 DEF ExtendedExpiry
<1>4. req' = [req EXCEPT ![r] = h]
  BY DEF ExtendLease
<1>5. h \in OKFrame
  <2> HIDE DEF t
  <2>1. c \in Credential /\ c # NoCred
    BY <1>1, <1>3, NewTimes, NoCredAssumption
  <2> HIDE DEF c
  <2> QED  BY <2>1, IdleOK DEF OKFrame, FrameOK, Frame, PC, Op, Idle
<1> HIDE DEF h
<1> QED
  BY <1>4, <1>5, FramesOK, FramesOKNext DEF ExtendLease, TypeInv, TypeOK

\* The first frame of a revocation, a cleanup or a renewal.
LEMMA StartOK ==
  ASSUME TypeInv, NEW r \in Request,
         \/ \E users \in SUBSET User : RevokeUsers(r, users) \/ RevokeScan(r, users)
         \/ CleanupStart(r)
         \/ \E u \in User : RenewStart(r, u)
         \/ \E role \in Role, users \in SUBSET User : RenewBatch(r, role, users)
  PROVE  TypeInv'
<1>1. ASSUME NEW users \in SUBSET User, RevokeUsers(r, users) \/ RevokeScan(r, users)
      PROVE  req' \in [Request -> OKFrame]
  <2> DEFINE h(op) == [Idle EXCEPT !.pc = "pick", !.op = op, !.users = users]
  <2>1. h("revoke") \in OKFrame /\ h("scan") \in OKFrame
    BY DEF OKFrame, FrameOK, Frame, PC, Op, Idle
  <2>2. \E op \in {"revoke", "scan"} : req' = [req EXCEPT ![r] = h(op)]
    BY <1>1 DEF RevokeUsers, RevokeScan
  <2> QED  BY <2>1, <2>2, FramesOK
<1>2. ASSUME CleanupStart(r)  PROVE  req' \in [Request -> OKFrame]
  <2> DEFINE h == [Idle EXCEPT !.pc = "pick", !.op = "cleanup",
                               !.users = Stored, !.now = clock]
  <2>1. Stored \in SUBSET User /\ clock \in Nat  BY DEF Stored, TypeInv, TypeOK
  <2>2. h \in OKFrame  BY <2>1 DEF OKFrame, FrameOK, Frame, PC, Op, Idle
  <2>3. req' = [req EXCEPT ![r] = h]  BY <1>2 DEF CleanupStart
  <2> QED  BY <2>2, <2>3, FramesOK
<1>3. ASSUME NEW u \in User, RenewStart(r, u)  PROVE  req' \in [Request -> OKFrame]
  <2> DEFINE h == [Idle EXCEPT !.pc = "lookup", !.op = "renew", !.user = u]
  <2>1. h \in OKFrame  BY DEF OKFrame, FrameOK, Frame, PC, Op, Idle
  <2>2. req' = [req EXCEPT ![r] = h]  BY <1>3 DEF RenewStart
  <2> QED  BY <2>1, <2>2, FramesOK
<1>5. ASSUME NEW role \in Role, NEW users \in SUBSET User, RenewBatch(r, role, users)
      PROVE  req' \in [Request -> OKFrame]
  <2> DEFINE h == [Idle EXCEPT !.pc = "pick", !.op = "renew_batch", !.users = users,
                               !.ttl = DefaultTTL[role]]
  <2>1. h \in OKFrame
    BY LifecycleAssumption DEF OKFrame, FrameOK, Frame, PC, Op, Idle
  <2>2. req' = [req EXCEPT ![r] = h]  BY <1>5 DEF RenewBatch
  <2> QED  BY <2>1, <2>2, FramesOK
<1>4. req' \in [Request -> OKFrame] /\ UNCHANGED <<clock, db, store, cache, used, held, removed>>
  BY <1>1, <1>2, <1>3, <1>5 DEF RevokeUsers, RevokeScan, CleanupStart, RenewStart, RenewBatch
<1> QED  BY <1>4, FramesOKNext DEF TypeInv, TypeOK

LEMMA PickTargetOK ==
  ASSUME TypeInv, NEW r \in Request, PickTarget(r)
  PROVE  TypeInv'
<1> DEFINE f == req[r]
<1>1. f \in OKFrame /\ f \in Frame /\ f.pc = "pick" /\ f.users \subseteq User
  BY FramesOK DEF PickTarget, OKFrame, Frame
<1>2. PICK u \in f.users :
        \/ /\ f.op \in {"revoke", "renew_batch"}
           /\ req' = [req EXCEPT ![r] =
                        [f EXCEPT !.user = u, !.users = f.users \ {u}, !.pc = "lookup"]]
        \/ /\ f.op = "scan"
           /\ req' = [req EXCEPT ![r] =
                        [f EXCEPT !.user = u, !.users = f.users \ {u}, !.pc = "connect"]]
        \/ /\ f.op = "cleanup"
           /\ req' = [req EXCEPT ![r] =
                        [f EXCEPT !.user = u, !.users = f.users \ {u}, !.pc = "drop"]]
        \/ req' = [req EXCEPT ![r] = Idle]
        \/ req' = [req EXCEPT ![r] = [f EXCEPT !.users = f.users \ {u}]]
  BY <1>1 DEF PickTarget
<1>3. \A pc \in {"lookup", "connect", "drop"} :
        f.op \in {"renew_batch", "revoke", "scan", "cleanup"} =>
          [f EXCEPT !.user = u, !.users = f.users \ {u}, !.pc = pc] \in OKFrame
  BY <1>1 DEF OKFrame, FrameOK, Frame, PC
<1>4. [f EXCEPT !.users = f.users \ {u}] \in OKFrame
  BY <1>1 DEF OKFrame, FrameOK, Frame
<1>5. req' \in [Request -> OKFrame]
  BY <1>2, <1>3, <1>4, IdleOK, FramesOK
<1> QED  BY <1>5, FramesOKNext DEF PickTarget, TypeInv, TypeOK

LEMMA LookupOK ==
  ASSUME TypeInv, NEW r \in Request, Lookup(r) \/ FillCache(r)
  PROVE  TypeInv'
<1>1. /\ req[r] \in OKFrame /\ req[r].user \in User
      /\ req[r].op \in {"renew", "renew_batch", "revoke", "scan", "cleanup"}
      /\ req[r].pc = "fill" => req[r].copy \in Credential
  BY FramesOK DEF Lookup, FillCache, OKFrame, FrameOK, Frame
<1>2. CASE Lookup(r) /\ Advance(r)
  BY <1>1, <1>2, AdvanceOK, FramesOKNext DEF Lookup, TypeInv, TypeOK
<1>3. ASSUME NEW c \in Credential, NEW pc \in {"fill", AfterLookup(req[r])}
      PROVE  [req[r] EXCEPT !.pc = pc, !.copy = c] \in OKFrame
  BY <1>1, <1>3, NoCredAssumption DEF AfterLookup, OKFrame, FrameOK, Frame, PC
<1>4. CASE Lookup(r) /\ ~Advance(r)
  <2>1. PICK c \in Credential, pc \in {"fill", AfterLookup(req[r])} :
          req' = [req EXCEPT ![r].pc = pc, ![r].copy = c]
    <3>1. \A u \in User : /\ cache[u] # NoCred => cache[u] \in Credential
                          /\ store[u] # NoCred => store[u] \in Credential
      BY DEF TypeInv, TypeOK
    <3> QED  BY <1>1, <1>4, <3>1 DEF Lookup
  <2>2. req' = [req EXCEPT ![r] = [req[r] EXCEPT !.pc = pc, !.copy = c]]
    BY <2>1, FramesOK
  <2>3. req' \in [Request -> OKFrame]
    BY <1>3, <2>2, FramesOK
  <2> QED  BY <1>4, <2>3, FramesOKNext DEF Lookup, TypeInv, TypeOK
<1>5. CASE FillCache(r)
  <2>1. req' \in [Request -> OKFrame]
    BY <1>1, <1>5, FramesOK DEF FillCache, Goto, AfterLookup, OKFrame, FrameOK, Frame, PC
  <2>2. cache' \in [User -> Credential \cup {NoCred}]
    BY <1>1, <1>5 DEF FillCache, TypeInv, TypeOK
  <2> QED  BY <1>5, <2>1, <2>2, FramesOKNext DEF FillCache, TypeInv, TypeOK
<1> QED  BY <1>2, <1>4, <1>5

\* In the default database, a user at hand may be dropped or altered.
LEMMA AlterPasswordOK ==
  ASSUME TypeInv, NEW r \in Request, AlterPassword(r)
  PROVE  TypeInv'
<1> DEFINE f    == req[r]
           ttl  == IF f.op = "renew_batch" THEN f.ttl ELSE DefaultTTL[f.copy.role]
           t    == clock + ttl
           cred == [f.copy EXCEPT !.expires = t]
           h    == [f EXCEPT !.pc = "put", !.copy = cred]
<1>1. /\ f \in OKFrame /\ f.pc = "alter" /\ f.op \in {"renew", "renew_batch"}
      /\ f.user \in User /\ f.copy \in Credential
  BY FramesOK DEF AlterPassword, OKFrame, FrameOK, Frame
<1>2. cred \in Credential /\ cred # NoCred
  <2>1. f.copy.role \in Role  BY <1>1 DEF Credential
  <2>2. f.ttl \in Nat  BY <1>1 DEF OKFrame, Frame
  <2>3. ttl \in Nat  BY <2>1, <2>2, LifecycleAssumption
  <2>4. t \in Nat  BY <2>3 DEF TypeInv, TypeOK
  <2> QED  BY <1>1, <2>4, NewTimes, NoCredAssumption
<1>3. h \in OKFrame
  <2> HIDE DEF cred
  <2> QED  BY <1>1, <1>2 DEF OKFrame, FrameOK, Frame, PC
<1>4. CASE Advance(r) /\ cache' = cache
  BY <1>1, <1>4, AdvanceOK, FramesOKNext DEF AlterPassword, TypeInv, TypeOK
<1>5. CASE /\ cache' = [cache EXCEPT ![f.user] = IF @ = f.copy THEN cred ELSE @]
           /\ req' = [req EXCEPT ![r].pc = "put", ![r].copy = cred]
  <2> HIDE DEF cred
  <2>1. req' = [req EXCEPT ![r] = h]  BY <1>5, FramesOK
  <2>2. req' \in [Request -> OKFrame]  BY <1>3, <2>1, FramesOK
  <2>3. cache' \in [User -> Credential \cup {NoCred}]
    BY <1>1, <1>2, <1>5 DEF TypeInv, TypeOK
  <2> QED  BY <2>2, <2>3, FramesOKNext DEF AlterPassword, TypeInv, TypeOK
<1> QED  BY <1>4, <1>5 DEF AlterPassword

\* The calls of a revocation or cleanup that leave the user at hand alone or
\* take it away.
LEMMA RemovalOK ==
  ASSUME TypeInv, NEW r \in Request,
         \/ Connect(r) \/ DropUser(r) \/ DeleteCredential(r) \/ InvalidateCache(r)
  PROVE  TypeInv'
<1>1. /\ req[r] \in OKFrame /\ req[r].user \in User
      /\ req[r].op \in {"renew", "renew_batch", "revoke", "scan", "cleanup"}
  BY FramesOK DEF Connect, DropUser, DeleteCredential, InvalidateCache, OKFrame, FrameOK, Frame
<1>2. CASE Advance(r)
  <2>1. req' \in [Request -> OKFrame]  BY <1>1, <1>2, AdvanceOK
  <2> QED
    BY <1>1, <2>1, FramesOKNext
    DEF Connect, DropUser, DeleteCredential, InvalidateCache, Goto, TypeInv, TypeOK
<1>3. ASSUME NEW pc \in {"drop", "delete", "invalidate"}
      PROVE  [req[r] EXCEPT !.pc = pc] \in OKFrame
  BY <1>1 DEF OKFrame, FrameOK, Frame, PC
<1>4. CASE Connect(r) /\ ~Advance(r)
  <2>1. CASE req[r].op = "renew" /\ req[r].copy # NoCred
    BY <1>1, <1>4, <2>1, FramesOK, FramesOKNext
    DEF Connect, Goto, OKFrame, FrameOK, Frame, PC, TypeInv, TypeOK
  <2>2. CASE req[r].op # "renew"
    BY <1>3, <1>4, <2>2, FramesOK, FramesOKNext DEF Connect, Goto, TypeInv, TypeOK
  <2> QED  BY <1>1, <1>4, <2>1, <2>2 DEF Connect, OKFrame, FrameOK
<1>5. CASE ~Connect(r) /\ ~Advance(r)
  <2>1. req' \in [Request -> OKFrame]
    BY <1>3, <1>5, FramesOK DEF DropUser, DeleteCredential, InvalidateCache, Goto
  <2> QED
    BY <1>1, <1>5, <2>1, FramesOKNext
    DEF DropUser, DeleteCredential, InvalidateCache, TypeInv, TypeOK
<1> QED  BY <1>2, <1>4, <1>5

\* The environment: a process that dies, an expired cache entry, time.
LEMMA EnvironmentOK ==
  ASSUME TypeInv,
         PluginDies \/ (\E u \in User : CacheExpire(u)) \/ Tick \/ UNCHANGED vars
  PROVE  TypeInv'
<1>1. req' \in [Request -> OKFrame]
  BY FramesOK, IdleOK DEF PluginDies, CacheExpire, Tick, vars
<1> QED  BY <1>1, FramesOKNext DEF PluginDies, CacheExpire, Tick, vars, TypeInv, TypeOK

LEMMA StepOK == TypeInv /\ [Next]_vars => TypeInv'
<1> SUFFICES ASSUME TypeInv, [Next]_vars  PROVE  TypeInv'
  OBVIOUS
<1>1. ASSUME NEW r \in Request, RequestStarts(r)  PROVE  TypeInv'
  BY <1>1, AdmitOK, ExtendLeaseOK, StartOK
  DEF RequestStarts, RevokeRole, RevokeAll, CredentialsOf, Stored
<1>2. ASSUME NEW r \in Request, RequestContinues(r)  PROVE  TypeInv'
  BY <1>2, CreateUserOK, CreationStatementOK, PutCredentialOK, CacheCredentialOK,
     PickTargetOK, LookupOK, AlterPasswordOK, RemovalOK, EnvironmentOK
  DEF RequestContinues, NilRetryPanic
<1>3. CASE Crash \/ (\E u \in User : CacheExpire(u)) \/ Tick \/ UNCHANGED vars
  BY <1>3, EnvironmentOK DEF Crash
<1> QED  BY <1>1, <1>2, <1>3 DEF Next

LEMMA TypeInvariant == Spec => []TypeInv
<1>1. Init => TypeInv
  BY IdleOK, LifecycleAssumption
  DEF Init, TypeInv, TypeOK, FrameInv, OKFrame
<1> QED  BY <1>1, StepOK, PTL DEF Spec

\* In every state the records, the cached copies, the databases and the frames
\* have their types: no handler of path_creds.go, path_extend_lease.go,
\* path_renew_creds.go, path_revoke_creds.go or path_bulk_revoke.go adds a
\* user without a name or stores a record without a creation behind it.
THEOREM TypeCorrect == Spec => []TypeOK
<1>1. TypeInv => TypeOK  BY DEF TypeInv
<1> QED  BY <1>1, TypeInvariant, PTL

-----------------------------------------------------------------------------
(* The life of a name.  Each lemma below says what a step of request r that   *)
(* leaves it at frame h must satisfy to keep one part of LifecycleInv.        *)

LEMMA InvTypes == LifecycleInv => TypeInv
  BY DEF LifecycleInv, TypeInv

\* No two requests make the same name, and a name that is past stays past.
LEMMA NamesKept ==
  ASSUME LifecycleInv, NEW r \in Request, NEW h \in OKFrame,
         req' = [req EXCEPT ![r] = h],
         used \subseteq used',
         \A u \in User, g \in Region : u \in db'[g] => u \in db[g] \/ u \in used,
         Making(h) => /\ h.user \in used'
                      /\ \/ Making(req[r]) /\ h.user = req[r].user
                         \/ h.user \notin used
  PROVE  NamesInv' /\ \A u \in User : Past(u) => Past(u)'
<1>1. /\ req'[r] = h
      /\ \A s \in Request : s # r => req'[s] = req[s]
  BY FramesOK, InvTypes
<1>2. NamesInv  BY DEF LifecycleInv
<1>3. \A u \in User, g \in Region : u \in db'[g] => u \in used'
  BY <1>2 DEF NamesInv
<1>4. \A s \in Request : Making(req'[s]) => req'[s].user \in used'
  BY <1>1, <1>2 DEF NamesInv
<1>5. \A s, t \in Request :
        Making(req'[s]) /\ Making(req'[t]) /\ req'[s].user = req'[t].user => s = t
  BY <1>1, <1>2 DEF NamesInv
<1>6. ASSUME NEW u \in User, Past(u)  PROVE  Past(u)'
  BY <1>1, <1>6 DEF Past
<1> QED  BY <1>3, <1>4, <1>5, <1>6 DEF NamesInv

\* Whoever learns a name learns one that is past.
LEMMA PastKept ==
  ASSUME LifecycleInv, NEW r \in Request, NEW h \in OKFrame,
         req' = [req EXCEPT ![r] = h],
         \A u \in User : Past(u) => Past(u)',
         \A u \in User : store'[u] # NoCred => store[u] # NoCred \/ Past(u)',
         \A u \in User : cache'[u] # NoCred => cache[u] # NoCred \/ Past(u)',
         \A u \in held' \cup removed' : u \in held \cup removed \/ Past(u)',
         \A u \in Known(h) : u \in Known(req[r]) \/ Past(u)'
  PROVE  PastInv'
<1>1. /\ req'[r] = h
      /\ \A s \in Request : s # r => req'[s] = req[s]
  BY FramesOK, InvTypes
<1>2. PastInv /\ held \subseteq User /\ removed \subseteq User
  BY DEF LifecycleInv, TypeOK
<1>3. \A s \in Request : Known(req[s]) \subseteq User
  BY FramesOK, InvTypes DEF Known, Making, OKFrame, FrameOK, Frame, PC
<1>4. \A u \in User : store'[u] # NoCred \/ cache'[u] # NoCred => Past(u)'
  BY <1>2 DEF PastInv
<1>5. \A u \in held' \cup removed' : Past(u)'
  BY <1>2 DEF PastInv
<1>6. \A s \in Request : \A u \in Known(req'[s]) : Past(u)'
  BY <1>1, <1>2, <1>3 DEF PastInv
<1> QED  BY <1>4, <1>5, <1>6 DEF PastInv

\* A step that adds no user to a database leaves each user one home.
LEMMA HomeKept ==
  ASSUME LifecycleInv, NEW r \in Request, NEW h \in OKFrame,
         req' = [req EXCEPT ![r] = h],
         \A g \in Region : db'[g] \subseteq db[g],
         h.pc \in {"create_user", "delete", "invalidate"}
           => \A g \in Region : h.user \notin db'[g]
  PROVE  HomeInv'
<1>1. /\ req'[r] = h
      /\ \A s \in Request : s # r => req'[s] = req[s]
      /\ db \in [Region -> SUBSET User]
  BY FramesOK, InvTypes DEF TypeInv, TypeOK
<1> QED  BY <1>1 DEF HomeInv, LifecycleInv

\* A step that adds no user to a database keeps the record of every user that a
\* caller has or is about to get.
LEMMA TrackedKept ==
  ASSUME LifecycleInv, NEW r \in Request, NEW h \in OKFrame,
         req' = [req EXCEPT ![r] = h],
         \A g \in Region : db'[g] \subseteq db[g],
         \A u \in User, g \in Region :
           u \in db'[g] /\ store[u] # NoCred => store'[u] # NoCred,
         \A u \in User, g \in Region :
           u \in db'[g] /\ (u \in held' \/ u \in Delivering(h))
             => u \in held \/ u \in Delivering(req[r]) \/ store'[u] # NoCred
  PROVE  TrackedInv'
<1>1. /\ req'[r] = h
      /\ \A s \in Request : s # r => req'[s] = req[s]
  BY FramesOK, InvTypes
<1>2. TrackedInv  BY DEF LifecycleInv
<1> QED  BY <1>1, <1>2 DEF TrackedInv

\* A step that adds no user to a database keeps records and homes agreed.
LEMMA RegionKept ==
  ASSUME LifecycleInv, NEW r \in Request, NEW h \in OKFrame,
         req' = [req EXCEPT ![r] = h],
         \A g \in Region : db'[g] \subseteq db[g],
         \A u \in User, g \in Region : u \in db[g] =>
           /\ store'[u] # NoCred => store'[u] = store[u] \/ store'[u].region = g
           /\ cache'[u] # NoCred => cache'[u] = cache[u] \/ cache'[u].region = g,
         \A g \in Region :
           h.user \in db[g] /\ h.copy # NoCred => h.copy.region = g
  PROVE  RegionInv'
<1>1. /\ req'[r] = h
      /\ \A s \in Request : s # r => req'[s] = req[s]
  BY FramesOK, InvTypes
<1>2. RegionInv  BY DEF LifecycleInv
<1>3. RecordNamesRegion'
  BY <1>2 DEF RegionInv, RecordNamesRegion
<1>4. \A s \in Request, g \in Region :
        req'[s].user \in db'[g] /\ req'[s].copy # NoCred => req'[s].copy.region = g
  BY <1>1, <1>2 DEF RegionInv
<1> QED  BY <1>3, <1>4 DEF RegionInv

\* Nobody but its maker knows a name that is being made.
LEMMA MakingIsUnknown ==
  ASSUME LifecycleInv, NEW r \in Request, Making(req[r]), NEW u, u = req[r].user
  PROVE  /\ u \in User /\ u \in used /\ ~Past(u)
         /\ store[u] = NoCred /\ cache[u] = NoCred
         /\ u \notin held /\ u \notin removed
         /\ \A s \in Request : u \notin Known(req[s])
         /\ \A s \in Request : s # r /\ Making(req[s]) => req[s].user # u
<1>1. u \in User
  BY FramesOK, InvTypes DEF Making, OKFrame, FrameOK
<1>2. u \in used /\ ~Past(u)
  BY DEF LifecycleInv, NamesInv, Past
<1>3. \A s \in Request : s # r /\ Making(req[s]) => req[s].user # u
  BY DEF LifecycleInv, NamesInv
<1> QED  BY <1>1, <1>2, <1>3 DEF LifecycleInv, PastInv

\* The user at hand in a step after a lookup, or after the record was stored.
LEMMA KnownIsPast ==
  ASSUME LifecycleInv, NEW r \in Request, NEW u \in Known(req[r])
  PROVE  u \in User /\ Past(u)
<1>1. Known(req[r]) \subseteq User
  BY FramesOK, InvTypes DEF Known, Making, OKFrame, FrameOK, Frame, PC
<1> QED  BY <1>1 DEF LifecycleInv, PastInv

LEMMA DeliveringIsKnown ==
  ASSUME NEW f \in OKFrame
  PROVE  Delivering(f) \subseteq Known(f)
  BY DEF Delivering, Known, Making, OKFrame, FrameOK, Frame

\* A request that leaves the user at hand: it answers or goes on to the next.
Released(r, h) ==
  /\ req' = [req EXCEPT ![r] = h]
  /\ ~Making(h) /\ Delivering(h) = {} /\ Known(h) \subseteq Known(req[r])
  /\ h.copy = NoCred /\ h.pc \in {"idle", "pick"}

LEMMA ReturnReleases ==
  ASSUME LifecycleInv, NEW r \in Request, Return(r)
  PROVE  \E h \in OKFrame : Released(r, h)
<1>1. Released(r, Idle)
  BY DEF Return, Released, Idle, Making, Known, Delivering
<1> QED  BY <1>1, IdleOK

LEMMA AdvanceReleases ==
  ASSUME LifecycleInv, NEW r \in Request, Advance(r),
         req[r].op \in {"renew", "renew_batch", "revoke", "scan", "cleanup"}
  PROVE  \E h \in OKFrame : Released(r, h)
<1> DEFINE f == req[r]
           h == [f EXCEPT !.pc = "pick", !.user = NoUser, !.copy = NoCred]
<1>1. f \in OKFrame  BY FramesOK, InvTypes
<1>2. CASE f.users = {}
  <2>1. Return(r)  BY <1>2, FramesOK, InvTypes DEF Advance, Return
  <2> QED  BY <2>1, ReturnReleases
<1>3. CASE f.users # {}
  <2>1. req' = [req EXCEPT ![r] = h]  BY <1>3, FramesOK, InvTypes DEF Advance
  <2>2. h \in OKFrame  BY <1>1, <1>3 DEF OKFrame, FrameOK, Frame, PC
  <2>3. Known(h) \subseteq Known(f)
    BY <1>1 DEF Known, OKFrame, Frame
  <2>4. ~Making(h) /\ Delivering(h) = {} /\ h.copy = NoCred /\ h.pc = "pick"
    BY <1>1 DEF Making, Delivering, OKFrame, Frame
  <2> HIDE DEF h
  <2> QED  BY <2>1, <2>2, <2>3, <2>4 DEF Released
<1> QED  BY <1>2, <1>3

LEMMA ReleaseKept ==
  ASSUME LifecycleInv, TypeInv', NEW r \in Request,
         NEW h \in OKFrame, Released(r, h),
         UNCHANGED <<used, store>>,
         \A g \in Region : db'[g] \subseteq db[g],
         \A u \in User : \/ cache'[u] = cache[u]
                         \/ cache'[u] = NoCred
                         \/ /\ Past(u)
                            /\ \A g \in Region : u \in db[g] => cache'[u].region = g,
         \A u \in held' : u \in held \/ u \in Delivering(req[r]),
         \A u \in removed' : \/ u \in removed
                             \/ Past(u) /\ \A g \in Region : u \notin db[g]
  PROVE  LifecycleInv'
<1>1. /\ req' = [req EXCEPT ![r] = h] /\ ~Making(h)
      /\ db \in [Region -> SUBSET User] /\ db' \in [Region -> SUBSET User]
      /\ held' \subseteq User /\ removed' \subseteq User
  BY InvTypes DEF Released, TypeInv, TypeOK
<1>2. NamesInv' /\ \A u \in User : Past(u) => Past(u)'
  <2>1. \A u \in User, g \in Region : u \in db'[g] => u \in db[g] \/ u \in used
    BY <1>1
  <2> QED  BY <1>1, <2>1, NamesKept
<1>3. PastInv'
  <2>1. \A u \in User : cache'[u] # NoCred => cache[u] # NoCred \/ Past(u)'
    BY <1>2
  <2>2. \A u \in held' \cup removed' : u \in held \cup removed \/ Past(u)'
    BY <1>1, <1>2, KnownIsPast, DeliveringIsKnown, FramesOK, InvTypes
  <2>3. \A u \in Known(h) : u \in Known(req[r])
    BY DEF Released
  <2> QED  BY <1>1, <1>2, <2>1, <2>2, <2>3, PastKept
<1>4. HomeInv'
  BY <1>1, HomeKept DEF Released
<1>5. TrackedInv'
  BY <1>1, TrackedKept DEF Released
<1>6. RegionInv'
  BY <1>1, RegionKept DEF Released
<1>7. RemovedIsDropped'
  BY <1>1 DEF LifecycleInv, RemovedIsDropped
<1> QED
  BY <1>2, <1>3, <1>4, <1>5, <1>6, <1>7 DEF LifecycleInv, TypeInv

LEMMA Assemble ==
  ASSUME TypeInv', NamesInv', PastInv', HomeInv', TrackedInv', RegionInv', RemovedIsDropped'
  PROVE  LifecycleInv'
  BY DEF LifecycleInv, TypeInv

-----------------------------------------------------------------------------
(* Every action keeps the invariant: creation                                 *)

LEMMA AdmitKept ==
  ASSUME RandomSuffixes, LifecycleInv, NEW r \in Request,
         NEW role \in Role, NEW g \in Region, NEW n \in BatchSizes,
         CreateAdmit(r, role, g, n)
  PROVE  LifecycleInv'
<1> DEFINE f(u) == [Idle EXCEPT !.pc = "create_user", !.op = "create", !.user = u,
                       !.copy = NewCredential(role, g),
                       !.left = GrantedCount(role, n) - 1]
<1>1. PICK u \in GeneratedNames(role) :
        used' = used \cup {u} /\ req' = [req EXCEPT ![r] = f(u)]
  BY DEF CreateAdmit
<1>2. u \in User /\ u \notin used
  BY DEF RandomSuffixes, GeneratedNames
<1>3. UNCHANGED <<db, store, cache, held, removed>>
  BY DEF CreateAdmit
<1>4. TypeInv'
  BY AdmitOK, InvTypes
<1> DEFINE h == f(u)
<1>5. h \in OKFrame /\ req' = [req EXCEPT ![r] = h]
  <2>1. req'[r] = h  BY <1>1, FramesOK, InvTypes
  <2>2. req'[r] \in OKFrame  BY <1>4 DEF TypeInv, TypeOK, FrameInv, OKFrame
  <2> QED  BY <1>1, <2>1, <2>2
<1>6. /\ Making(h) /\ h.user = u
      /\ Known(h) = {} /\ Delivering(h) = {}
      /\ h.pc = "create_user"
  BY DEF Idle, Making, Known, Delivering
<1> HIDE DEF h
<1>7. \A k \in Region : u \notin db[k]
  BY <1>2 DEF LifecycleInv, NamesInv
<1>8. NamesInv' /\ \A v \in User : Past(v) => Past(v)'
  BY <1>1, <1>2, <1>3, <1>5, <1>6, NamesKept
<1>9. PastInv'
  BY <1>3, <1>5, <1>6, <1>8, PastKept
<1>10. HomeInv'
  BY <1>3, <1>5, <1>6, <1>7, HomeKept
<1>11. TrackedInv'
  BY <1>3, <1>5, <1>6, TrackedKept
<1>12. RegionInv'
  BY <1>3, <1>5, <1>6, <1>7, RegionKept
<1>13. RemovedIsDropped'
  BY <1>3 DEF LifecycleInv, RemovedIsDropped
<1> QED  BY <1>4, <1>8, <1>9, <1>10, <1>11, <1>12, <1>13, Assemble

\* The one step that adds a user to a database: nobody knew its name.
LEMMA UserAdded ==
  ASSUME LifecycleInv, TypeInv', NEW r \in Request, NEW h \in OKFrame,
         req[r].pc = "create_user",
         req' = [req EXCEPT ![r] = h],
         h = Idle \/ h = [req[r] EXCEPT !.pc = "put"]
                  \/ h = [req[r] EXCEPT !.pc = "create_stmt"],
         NEW g \in Region, g = req[r].copy.region,
         db' = [db EXCEPT ![g] = @ \cup {req[r].user}],
         UNCHANGED <<store, cache, used, held, removed>>
  PROVE  LifecycleInv'
<1> DEFINE f == req[r]
           u == f.user
<1>1. /\ f \in OKFrame /\ f \in Frame /\ f.op = "create" /\ Making(f)
      /\ \A s \in Request : s # r => req'[s] = req[s]
      /\ req'[r] = h
      /\ db \in [Region -> SUBSET User]
  BY FramesOK, InvTypes DEF OKFrame, FrameOK, Making, TypeInv, TypeOK
<1>2. /\ Making(h) => h.user = u
      /\ Known(h) \subseteq Known(f)
      /\ Delivering(h) \subseteq Known(f)
      /\ h.pc \in {"idle", "put", "create_stmt"}
      /\ h.copy # NoCred => h.user = u /\ h.copy.region = g
  BY <1>1 DEF Idle, Known, Making, Delivering, Frame
<1>3. /\ u \in User /\ u \in used /\ ~Past(u)
      /\ store[u] = NoCred /\ cache[u] = NoCred
      /\ u \notin held /\ u \notin removed
      /\ \A s \in Request : u \notin Known(req[s])
      /\ \A s \in Request : s # r /\ Making(req[s]) => req[s].user # u
  BY <1>1, MakingIsUnknown
<1>4. \A k \in Region : u \notin db[k]
  BY DEF LifecycleInv, HomeInv
<1>5. \A v \in User, k \in Region : v \in db'[k] => v \in db[k] \/ (v = u /\ k = g)
  BY <1>1
<1> HIDE DEF u, f
<1>6. NamesInv' /\ \A v \in User : Past(v) => Past(v)'
  BY <1>1, <1>2, <1>3, <1>5, NamesKept DEF f, u
<1>7. PastInv'
  BY <1>1, <1>2, <1>6, PastKept DEF f
<1>8. HomeInv'
  <2>1. \A v \in User, j, k \in Region : v \in db'[j] /\ v \in db'[k] => j = k
    BY <1>4, <1>5 DEF LifecycleInv, HomeInv
  <2>2. ASSUME NEW s \in Request, NEW k \in Region,
               req'[s].pc \in {"create_user", "delete", "invalidate"}
        PROVE  req'[s].user \notin db'[k]
    <3>1. s # r /\ req'[s] = req[s]  BY <1>1, <1>2, <2>2
    <3>2. req[s].user # u
      <4>1. CASE req[s].pc = "create_user"
        BY <1>3, <3>1, <4>1, FramesOK, InvTypes DEF Making, OKFrame, FrameOK
      <4>2. CASE req[s].pc \in {"delete", "invalidate"}
        <5>1. req[s].user \in Known(req[s])
          BY <4>2 DEF Known, Making
        <5> QED  BY <1>3, <5>1
      <4> QED  BY <2>2, <3>1, <4>1, <4>2
    <3>3. req[s].user \in User /\ req[s].user \notin db[k]
      BY <2>2, <3>1, FramesOK, InvTypes DEF LifecycleInv, HomeInv, OKFrame, FrameOK
    <3> QED  BY <1>5, <3>1, <3>2, <3>3
  <2> QED  BY <2>1, <2>2 DEF HomeInv
<1>9. TrackedInv'
  <2>1. ASSUME NEW v \in User, NEW k \in Region, v \in db'[k],
               v \in held' \/ \E s \in Request : v \in Delivering(req'[s])
        PROVE  store'[v] # NoCred
    <3>1. v # u
      <4>1. \A s \in Request : Delivering(req'[s]) \subseteq Known(req[s])
        BY <1>1, <1>2, DeliveringIsKnown, FramesOK, InvTypes DEF f
      <4> QED  BY <1>3, <2>1, <4>1
    <3>2. v \in db[k]  BY <1>5, <2>1, <3>1
    <3>3. v \in held \/ \E s \in Request : v \in Delivering(req[s])
      <4>1. Delivering(h) \subseteq Delivering(f)
        BY <1>1 DEF Delivering, Idle, Frame, f
      <4> QED  BY <1>1, <2>1, <4>1 DEF f
    <3> QED  BY <3>2, <3>3 DEF LifecycleInv, TrackedInv
  <2> QED  BY <2>1 DEF TrackedInv
<1>10. RegionInv'
  <2>1. RecordNamesRegion'
    BY <1>3, <1>5 DEF LifecycleInv, RegionInv, RecordNamesRegion
  <2>2. ASSUME NEW s \in Request, NEW k \in Region,
               req'[s].user \in db'[k], req'[s].copy # NoCred
        PROVE  req'[s].copy.region = k
    <3>0. req'[s].user \in User  BY <2>2 DEF TypeInv, TypeOK
    <3>1. CASE s = r
      BY <1>1, <1>2, <1>4, <1>5, <2>2, <3>0, <3>1
    <3>2. CASE s # r
      <4>1. req'[s] = req[s]  BY <1>1, <3>2
      <4>2. req[s].user # u
        <5>1. req[s].pc \notin {"idle", "pick", "lookup"}
          BY <2>2, <4>1, FramesOK, InvTypes DEF OKFrame, FrameOK, Idle
        <5>2. Making(req[s]) \/ req[s].user \in Known(req[s])
          BY <5>1 DEF Known
        <5> QED  BY <1>3, <3>2, <5>2
      <4>3. req[s].user \in db[k]  BY <1>5, <2>2, <3>0, <4>1, <4>2
      <4> QED  BY <2>2, <4>1, <4>3 DEF LifecycleInv, RegionInv
    <3> QED  BY <3>1, <3>2
  <2> QED  BY <2>1, <2>2 DEF RegionInv
<1>11. RemovedIsDropped'
  BY <1>3, <1>5, InvTypes DEF LifecycleInv, RemovedIsDropped, TypeInv, TypeOK
<1> QED  BY <1>6, <1>7, <1>8, <1>9, <1>10, <1>11, Assemble

\* A database call of a creation that leaves the user there or takes it away.
LEMMA MakerKept ==
  ASSUME LifecycleInv, TypeInv', NEW r \in Request, NEW h \in OKFrame,
         Making(req[r]),
         req' = [req EXCEPT ![r] = h],
         \E pc \in {"create_stmt", "rollback", "put"} : h = [req[r] EXCEPT !.pc = pc],
         UNCHANGED <<db, store, cache, used, held, removed>>
  PROVE  LifecycleInv'
<1> DEFINE f == req[r]
<1>1. f \in OKFrame /\ f \in Frame  BY FramesOK, InvTypes DEF OKFrame
<1>2. /\ Making(h) /\ h.user = f.user /\ h.copy = f.copy
      /\ Known(h) \subseteq Known(f) /\ Delivering(h) \subseteq Delivering(f)
      /\ h.pc \in {"create_stmt", "rollback", "put"}
  BY <1>1 DEF Making, Known, Delivering, Frame
<1>3. f.user \in used  BY DEF LifecycleInv, NamesInv
<1>4. NamesInv' /\ \A v \in User : Past(v) => Past(v)'
  BY <1>2, <1>3, NamesKept
<1>5. PastInv'       BY <1>2, <1>4, PastKept
<1>6. HomeInv'       BY <1>2, HomeKept
<1>7. TrackedInv'    BY <1>2, TrackedKept
<1>8. RegionInv'
  <2>1. \A k \in Region : h.user \in db[k] /\ h.copy # NoCred => h.copy.region = k
    BY <1>2 DEF LifecycleInv, RegionInv
  <2> QED  BY <2>1, RegionKept
<1>9. RemovedIsDropped'  BY DEF LifecycleInv, RemovedIsDropped
<1> QED  BY <1>4, <1>5, <1>6, <1>7, <1>8, <1>9, Assemble

LEMMA CreateUserKept ==
  ASSUME LifecycleInv, NEW r \in Request, CreateUser(r)
  PROVE  LifecycleInv'
<1> DEFINE f == req[r]
           u == f.user
           g == f.copy.region
<1>1. TypeInv'  BY CreateUserOK, InvTypes
<1>2. g \in Region
  BY FramesOK, InvTypes DEF CreateUser, OKFrame, FrameOK, Frame, Credential
<1>3. CASE db' = db /\ Return(r)
  BY <1>1, <1>3, ReturnReleases, ReleaseKept DEF CreateUser
<1>4. CASE db' = [db EXCEPT ![g] = @ \cup {u}] /\ Return(r)
  BY <1>1, <1>2, <1>4, IdleOK, UserAdded DEF CreateUser, Return
<1>5. CASE /\ db' = [db EXCEPT ![g] = @ \cup {u}]
           /\ Goto(r, IF f.copy.role \in ScriptedRoles THEN "create_stmt" ELSE "put")
  <2>1. PICK pc \in {"put", "create_stmt"} : Goto(r, pc)
    BY <1>5
  <2> DEFINE h == [f EXCEPT !.pc = pc]
  <2>2. req' = [req EXCEPT ![r] = h]
    BY <2>1, FramesOK, InvTypes DEF Goto
  <2>3. req'[r] = h  BY <2>2, FramesOK, InvTypes
  <2>4. h \in OKFrame
    BY <1>1, <2>3 DEF TypeInv, TypeOK, FrameInv, OKFrame
  <2>5. h = [f EXCEPT !.pc = "put"] \/ h = [f EXCEPT !.pc = "create_stmt"]
    BY <2>1
  <2> HIDE DEF h
  <2> QED  BY <1>1, <1>2, <1>5, <2>2, <2>4, <2>5, UserAdded DEF CreateUser
<1> QED  BY <1>3, <1>4, <1>5 DEF CreateUser

LEMMA CreationStatementKept ==
  ASSUME LifecycleInv, NEW r \in Request, CreationStatement(r)
  PROVE  LifecycleInv'
<1>1. TypeInv'  BY CreationStatementOK, InvTypes
<1>2. PICK pc \in {"put", "rollback"} : Goto(r, pc)
  BY DEF CreationStatement
<1> DEFINE h == [req[r] EXCEPT !.pc = pc]
<1>3. req' = [req EXCEPT ![r] = h]
  BY <1>2, FramesOK, InvTypes DEF Goto
<1>4. req'[r] = h  BY <1>3, FramesOK, InvTypes
<1>5. h \in OKFrame
  BY <1>1, <1>4 DEF TypeInv, TypeOK, FrameInv, OKFrame
<1>6. Making(req[r])
  BY FramesOK, InvTypes DEF CreationStatement, Making, OKFrame, FrameOK
<1>7. \E q \in {"create_stmt", "rollback", "put"} : h = [req[r] EXCEPT !.pc = q]
  OBVIOUS
<1> HIDE DEF h
<1> QED  BY <1>1, <1>3, <1>5, <1>6, <1>7, MakerKept DEF CreationStatement

LEMMA RollbackKept ==
  ASSUME LifecycleInv, NEW r \in Request, Rollback(r)
  PROVE  LifecycleInv'
<1>1. TypeInv'  BY CreationStatementOK, InvTypes
<1>2. \A g \in Region : db'[g] \subseteq db[g]
  BY InvTypes DEF Rollback, TypeInv, TypeOK
<1> QED  BY <1>1, <1>2, ReturnReleases, ReleaseKept DEF Rollback

LEMMA PutCredentialKept ==
  ASSUME LifecycleInv, NEW r \in Request, PutCredential(r)
  PROVE  LifecycleInv'
<1>0. PICK u \in User : u = req[r].user
  BY FramesOK, InvTypes DEF PutCredential, OKFrame, FrameOK
<1> DEFINE f    == req[r]
           cred == IF f.op = "create"
                   THEN [f.copy EXCEPT !.created = clock,
                                       !.expires = clock + DefaultTTL[f.copy.role]]
                   ELSE f.copy
           h    == [f EXCEPT !.pc = "cache", !.copy = cred]
<1>1. TypeInv'  BY PutCredentialOK, InvTypes
<1>2. /\ f \in OKFrame /\ f \in Frame /\ f.pc = "put"
      /\ f.user = u /\ f.copy \in Credential /\ f.copy # NoCred
  BY <1>0, FramesOK, InvTypes DEF PutCredential, OKFrame, FrameOK, Frame
<1>3. CASE /\ store' = store
           /\ Return(r) \/ (f.op = "renew_batch" /\ Advance(r))
  <2>1. PICK k \in OKFrame : Released(r, k)
    BY <1>3, ReturnReleases, AdvanceReleases
  <2> QED  BY <1>1, <1>3, <2>1, ReleaseKept DEF PutCredential
<1>4. CASE store' = [store EXCEPT ![u] = cred] /\ req' = [req EXCEPT ![r] = h]
  <2>1. cred.region = f.copy.region  BY <1>2 DEF Credential
  <2>2. h \in OKFrame
    <3>1. req'[r] = h  BY <1>4, FramesOK, InvTypes
    <3> QED  BY <1>1, <3>1 DEF TypeInv, TypeOK, FrameInv, OKFrame
  <2>3. /\ ~Making(h) /\ h.user = u /\ h.copy = cred /\ h.pc = "cache"
        /\ Known(h) \subseteq Known(f) \cup {u}
        /\ Delivering(h) \subseteq Delivering(f) \cup {u}
    BY <1>2 DEF Making, Known, Delivering, Frame
  <2>4. UNCHANGED <<clock, db, cache, used, held, removed>>
    BY DEF PutCredential
  <2>5. store' \in [User -> Credential \cup {NoCred}]
    BY <1>1 DEF TypeInv, TypeOK
  <2>6. /\ store'[u] = cred /\ cred # NoCred
        /\ \A v \in User : v # u => store'[v] = store[v]
    <3>1. store \in [User -> Credential \cup {NoCred}]
      BY InvTypes DEF TypeInv, TypeOK
    <3>2. store'[u] = cred /\ \A v \in User : v # u => store'[v] = store[v]
      BY <1>2, <1>4, <3>1
    <3>3. cred # NoCred
      <4>1. f.op = "create" => cred \in Credential
        <5>1. f.copy.role \in Role  BY <1>2 DEF Credential
        <5>2. clock \in Nat /\ clock + DefaultTTL[f.copy.role] \in Nat
          BY <5>1, LifecycleAssumption, InvTypes DEF TypeInv, TypeOK
        <5> QED  BY <1>2, <5>2, NewTimes
      <4> QED  BY <1>2, <4>1, NoCredAssumption
    <3> QED  BY <3>2, <3>3
  <2> HIDE DEF cred, h
  <2>7. NamesInv' /\ \A v \in User : Past(v) => Past(v)'
    BY <1>4, <2>2, <2>3, <2>4, NamesKept
  <2>8. Past(u)'
    <3>1. CASE f.op = "create"
      <4>1. Making(f)  BY <1>2, <3>1 DEF Making
      <4>2. u \in used /\ \A s \in Request : s # r /\ Making(req[s]) => req[s].user # u
        BY <1>2, <4>1, MakingIsUnknown
      <4>3. req'[r] = h /\ \A s \in Request : s # r => req'[s] = req[s]
        BY <1>4, FramesOK, InvTypes
      <4> QED  BY <2>3, <2>4, <4>2, <4>3 DEF Past
    <3>2. CASE f.op # "create"
      <4>1. u \in Known(f)  BY <1>2, <3>2 DEF Known, Making
      <4> QED  BY <2>7, <4>1, KnownIsPast
    <3> QED  BY <3>1, <3>2
  <2>9. PastInv'
    <3>1. \A v \in User : store'[v] # NoCred => store[v] # NoCred \/ Past(v)'
      BY <2>6, <2>8
    <3>2. \A v \in User : cache'[v] # NoCred => cache[v] # NoCred \/ Past(v)'
      BY <2>4
    <3>3. \A v \in held' \cup removed' : v \in held \cup removed \/ Past(v)'
      BY <2>4
    <3>4. \A v \in Known(h) : v \in Known(req[r]) \/ Past(v)'
      BY <2>3, <2>8
    <3> QED  BY <1>4, <2>2, <2>7, <3>1, <3>2, <3>3, <3>4, PastKept
  <2>10. HomeInv'
    BY <1>4, <2>2, <2>3, <2>4, HomeKept
  <2>11. TrackedInv'
    <3>1. \A v \in User, g \in Region :
            v \in db'[g] /\ store[v] # NoCred => store'[v] # NoCred
      BY <2>6
    <3>2. \A v \in User, g \in Region :
            v \in db'[g] /\ (v \in held' \/ v \in Delivering(h))
              => v \in held \/ v \in Delivering(req[r]) \/ store'[v] # NoCred
      BY <2>3, <2>4, <2>6
    <3>3. \A g \in Region : db'[g] \subseteq db[g]
      BY <2>4
    <3> QED  BY <1>4, <2>2, <3>1, <3>2, <3>3, TrackedKept
  <2>12. RegionInv'
    <3>1. \A g \in Region : u \in db[g] => cred.region = g
      BY <1>2, <2>1 DEF LifecycleInv, RegionInv
    <3>2. \A v \in User, g \in Region : v \in db[g] =>
            /\ store'[v] # NoCred => store'[v] = store[v] \/ store'[v].region = g
            /\ cache'[v] # NoCred => cache'[v] = cache[v] \/ cache'[v].region = g
      BY <2>4, <2>6, <3>1
    <3>3. \A g \in Region : h.user \in db[g] /\ h.copy # NoCred => h.copy.region = g
      BY <2>3, <3>1
    <3>4. \A g \in Region : db'[g] \subseteq db[g]
      BY <2>4
    <3> QED  BY <1>4, <2>2, <3>2, <3>3, <3>4, RegionKept
  <2>13. RemovedIsDropped'
    BY <2>4 DEF LifecycleInv, RemovedIsDropped
  <2> QED  BY <1>1, <2>7, <2>9, <2>10, <2>11, <2>12, <2>13, Assemble
<1>5. req' = [req EXCEPT ![r].pc = "cache", ![r].copy = cred]
        => req' = [req EXCEPT ![r] = h]
  <2> HIDE DEF cred
  <2> QED  BY FramesOK, InvTypes
<1> QED  BY <1>0, <1>3, <1>4, <1>5 DEF PutCredential

LEMMA CacheCredentialKept ==
  ASSUME RandomSuffixes, LifecycleInv, NEW r \in Request, CacheCredential(r)
  PROVE  LifecycleInv'
<1>0. PICK u \in User : u = req[r].user
  BY FramesOK, InvTypes DEF CacheCredential, OKFrame, FrameOK
<1> DEFINE f    == req[r]
           made == f.users \cup {u}
           new  == NewCredential(f.copy.role, f.copy.region)
           h(n) == [f EXCEPT !.pc = "create_user", !.user = n, !.users = made,
                             !.left = f.left - 1, !.copy = new]
<1>1. TypeInv'  BY CacheCredentialOK, InvTypes
<1>2. /\ f \in OKFrame /\ f \in Frame /\ f.pc = "cache" /\ f.user = u
      /\ f.copy \in Credential /\ f.copy # NoCred /\ u \in Known(f)
      /\ f.op = "create" => Delivering(f) = made /\ Known(f) = made
  BY <1>0, FramesOK, InvTypes
  DEF CacheCredential, OKFrame, FrameOK, Frame, Known, Making, Delivering
<1>3. Past(u)  BY <1>2, KnownIsPast
<1>4. \A g \in Region : u \in db[g] => f.copy.region = g
  BY <1>2 DEF LifecycleInv, RegionInv
<1>5. \A v \in User : cache'[v] = cache[v] \/ (v = u /\ cache'[v] = f.copy)
  BY <1>2, InvTypes DEF CacheCredential, TypeInv, TypeOK
<1>6. UNCHANGED <<db, store, removed>>  BY DEF CacheCredential
<1>7. CASE /\ used' = used
           /\ Return(r) \/ (f.op = "renew_batch" /\ Advance(r))
  <2>1. \A v \in held' : v \in held \/ v \in Delivering(f)
    BY <1>2 DEF CacheCredential
  <2>2. \A v \in User : \/ cache'[v] = cache[v]
                        \/ cache'[v] = NoCred
                        \/ /\ Past(v)
                           /\ \A g \in Region : v \in db[g] => cache'[v].region = g
    BY <1>3, <1>4, <1>5
  <2>3. PICK k \in OKFrame : Released(r, k)
    BY <1>7, ReturnReleases, AdvanceReleases
  <2> QED  BY <1>1, <1>6, <1>7, <2>1, <2>2, <2>3, ReleaseKept
<1>8. CASE /\ f.op = "create" /\ f.left > 0 /\ held' = held
           /\ \E n \in GeneratedNames(f.copy.role) :
                used' = used \cup {n} /\ req' = [req EXCEPT ![r] = h(n)]
  <2>1. PICK n \in GeneratedNames(f.copy.role) :
          used' = used \cup {n} /\ req' = [req EXCEPT ![r] = h(n)]
    BY <1>8
  <2>2. n \in User /\ n \notin used
    BY <1>2 DEF RandomSuffixes, GeneratedNames, Credential
  <2> DEFINE k == h(n)
  <2>3. k \in OKFrame
    <3>1. req'[r] = k  BY <2>1, FramesOK, InvTypes
    <3> QED  BY <1>1, <3>1 DEF TypeInv, TypeOK, FrameInv, OKFrame
  <2>4. /\ Making(k) /\ k.user = n /\ k.pc = "create_user"
        /\ Known(k) = Known(f) /\ Delivering(k) = Delivering(f)
    BY <1>2, <1>8 DEF Making, Known, Delivering, Frame
  <2>5. req' = [req EXCEPT ![r] = k]  BY <2>1
  <2> HIDE DEF k
  <2>6. \A g \in Region : n \notin db[g]
    BY <2>2 DEF LifecycleInv, NamesInv
  <2>7. NamesInv' /\ \A v \in User : Past(v) => Past(v)'
    BY <1>6, <2>1, <2>2, <2>3, <2>4, <2>5, NamesKept
  <2>8. PastInv'
    <3>1. \A v \in User : cache'[v] # NoCred => cache[v] # NoCred \/ Past(v)'
      BY <1>3, <1>5, <2>7
    <3> QED  BY <1>6, <1>8, <2>3, <2>4, <2>5, <2>7, <3>1, PastKept
  <2>9. HomeInv'
    BY <1>6, <2>3, <2>4, <2>5, <2>6, HomeKept
  <2>10. TrackedInv'
    BY <1>6, <1>8, <2>3, <2>4, <2>5, TrackedKept
  <2>11. RegionInv'
    <3>1. \A v \in User, g \in Region : v \in db[g] =>
            (cache'[v] # NoCred => cache'[v] = cache[v] \/ cache'[v].region = g)
      BY <1>4, <1>5
    <3> QED  BY <1>6, <2>3, <2>4, <2>5, <2>6, <3>1, RegionKept
  <2>12. RemovedIsDropped'
    BY <1>6 DEF LifecycleInv, RemovedIsDropped
  <2> QED  BY <1>1, <2>7, <2>8, <2>9, <2>10, <2>11, <2>12, Assemble
<1> QED  BY <1>2, <1>7, <1>8 DEF CacheCredential

-----------------------------------------------------------------------------
(* Every action keeps the invariant: extension, renewal, revocation, cleanup   *)

\* A step that only moves a request to a frame whose names are past.
LEMMA FrameMoved ==
  ASSUME LifecycleInv, TypeInv', NEW r \in Request, NEW h \in OKFrame,
         req' = [req EXCEPT ![r] = h],
         UNCHANGED <<db, store, cache, used, held, removed>>,
         h.op # "create",
         \A u \in Known(h) : Past(u),
         h.pc \notin {"create_user", "delete", "invalidate"},
         \A g \in Region :
           h.user \in db[g] /\ h.copy # NoCred => h.copy.region = g
  PROVE  LifecycleInv'
<1>1. ~Making(h) /\ Delivering(h) = {}
  BY DEF Making, Delivering
<1>2. Known(h) \subseteq User
  BY DEF Known, Making, OKFrame, FrameOK, Frame, PC
<1>3. NamesInv' /\ \A v \in User : Past(v) => Past(v)'
  BY <1>1, NamesKept
<1>4. PastInv'     BY <1>2, <1>3, PastKept
<1>5. HomeInv'     BY HomeKept
<1>6. TrackedInv'  BY <1>1, TrackedKept
<1>7. RegionInv'   BY RegionKept
<1>8. RemovedIsDropped'  BY DEF LifecycleInv, RemovedIsDropped
<1> QED  BY <1>3, <1>4, <1>5, <1>6, <1>7, <1>8, Assemble

\* The frame a request is left at, from the type invariant of the next state.
LEMMA NextFrame ==
  ASSUME LifecycleInv, TypeInv', NEW r \in Request, NEW h,
         req' = [req EXCEPT ![r] = h]
  PROVE  h \in OKFrame
<1>1. req'[r] = h  BY FramesOK, InvTypes
<1> QED  BY <1>1 DEF TypeInv, TypeOK, FrameInv, OKFrame

LEMMA ExtendLeaseKept ==
  ASSUME LifecycleInv, NEW r \in Request, NEW u \in User, NEW requested \in RequestedTTLs,
         ExtendLease(r, u, requested)
  PROVE  LifecycleInv'
<1>1. TypeInv'  BY ExtendLeaseOK, InvTypes
<1>2. PICK t : req' = [req EXCEPT ![r] =
                         [Idle EXCEPT !.pc = "put", !.op = "extend", !.user = u,
                            !.copy = [store[u] EXCEPT !.expires = t]]]
  BY DEF ExtendLease
<1> DEFINE h == [Idle EXCEPT !.pc = "put", !.op = "extend", !.user = u,
                   !.copy = [store[u] EXCEPT !.expires = t]]
<1>3. store[u] \in Credential /\ store[u] # NoCred
  BY InvTypes DEF ExtendLease, TypeInv, TypeOK
<1>4. h \in OKFrame  BY <1>1, <1>2, NextFrame
<1>5. /\ h.op = "extend" /\ h.pc = "put" /\ h.user = u
      /\ Known(h) = {u} /\ h.copy.region = store[u].region
  BY <1>3 DEF Idle, Known, Making, Credential
<1>6. Past(u)  BY <1>3 DEF LifecycleInv, PastInv
<1>7. \A g \in Region : u \in db[g] => store[u].region = g
  BY <1>3 DEF LifecycleInv, RegionInv, RecordNamesRegion
<1>8. req' = [req EXCEPT ![r] = h]  BY <1>2
<1>9. UNCHANGED <<db, store, cache, used, held, removed>>
  BY DEF ExtendLease
<1> HIDE DEF h
<1>10. \A v \in Known(h) : Past(v)  BY <1>5, <1>6
<1>11. \A g \in Region : h.user \in db[g] /\ h.copy # NoCred => h.copy.region = g
  BY <1>5, <1>7
<1> QED  BY <1>1, <1>4, <1>5, <1>8, <1>9, <1>10, <1>11, FrameMoved

LEMMA StartKept ==
  ASSUME LifecycleInv, NEW r \in Request,
         \/ \E users \in SUBSET User : RevokeUsers(r, users)
         \/ \E users \in SUBSET Stored : RevokeScan(r, users)
         \/ CleanupStart(r)
         \/ \E u \in User : RenewStart(r, u)
         \/ \E role \in Role, users \in SUBSET User : RenewBatch(r, role, users)
  PROVE  LifecycleInv'
<1>1. Stored \in SUBSET User /\ \A u \in Stored : Past(u)
  BY DEF Stored, LifecycleInv, PastInv
<1>2. TypeInv'  BY <1>1, StartOK, InvTypes
<1> DEFINE First(h) ==
             /\ req' = [req EXCEPT ![r] = h]
             /\ h.copy = NoCred
             /\ \/ h.pc = "pick" /\ h.op = "revoke"
                \/ h.pc = "pick" /\ h.op \in {"scan", "cleanup"} /\ h.users \subseteq Stored
                \/ h.pc = "pick" /\ h.op = "renew_batch"
                \/ h.pc = "lookup" /\ h.op = "renew"
<1>3. PICK h : First(h)
  <2>1. ASSUME NEW users \in SUBSET User, RevokeUsers(r, users)  PROVE  \E h : First(h)
    <3>1. First([Idle EXCEPT !.pc = "pick", !.op = "revoke", !.users = users])
      BY <2>1 DEF RevokeUsers, Idle
    <3> HIDE DEF First
    <3> QED  BY <3>1
  <2>2. ASSUME NEW users \in SUBSET Stored, RevokeScan(r, users)  PROVE  \E h : First(h)
    <3>1. First([Idle EXCEPT !.pc = "pick", !.op = "scan", !.users = users])
      BY <2>2 DEF RevokeScan, Idle
    <3> HIDE DEF First
    <3> QED  BY <3>1
  <2>3. ASSUME CleanupStart(r)  PROVE  \E h : First(h)
    <3>1. First([Idle EXCEPT !.pc = "pick", !.op = "cleanup", !.users = Stored, !.now = clock])
      BY <2>3 DEF CleanupStart, Idle
    <3> HIDE DEF First
    <3> QED  BY <3>1
  <2>4. ASSUME NEW u \in User, RenewStart(r, u)  PROVE  \E h : First(h)
    <3>1. First([Idle EXCEPT !.pc = "lookup", !.op = "renew", !.user = u])
      BY <2>4 DEF RenewStart, Idle
    <3> HIDE DEF First
    <3> QED  BY <3>1
  <2>5. ASSUME NEW role \in Role, NEW users \in SUBSET User, RenewBatch(r, role, users)
        PROVE  \E h : First(h)
    <3>1. First([Idle EXCEPT !.pc = "pick", !.op = "renew_batch", !.users = users,
                             !.ttl = DefaultTTL[role]])
      BY <2>5 DEF RenewBatch, Idle
    <3> HIDE DEF First
    <3> QED  BY <3>1
  <2> HIDE DEF First
  <2> QED  BY <2>1, <2>2, <2>3, <2>4, <2>5
<1>4. h \in OKFrame  BY <1>2, <1>3, NextFrame
<1>5. Known(h) \subseteq Stored
  BY <1>3 DEF Known
<1>6. UNCHANGED <<db, store, cache, used, held, removed>>
  BY DEF RevokeUsers, RevokeScan, CleanupStart, RenewStart, RenewBatch
<1> QED  BY <1>1, <1>2, <1>3, <1>4, <1>5, <1>6, FrameMoved

LEMMA PickTargetKept ==
  ASSUME LifecycleInv, NEW r \in Request, PickTarget(r)
  PROVE  LifecycleInv'
<1> DEFINE f == req[r]
<1>1. TypeInv'  BY PickTargetOK, InvTypes
<1>2. f \in OKFrame /\ f \in Frame /\ f.pc = "pick" /\ f.copy = NoCred /\ f.users \subseteq User
  BY FramesOK, InvTypes DEF PickTarget, OKFrame, FrameOK, Frame
<1>3. PICK u \in f.users :
        \/ /\ f.op \in {"revoke", "renew_batch"}
           /\ req' = [req EXCEPT ![r] =
                        [f EXCEPT !.user = u, !.users = f.users \ {u}, !.pc = "lookup"]]
        \/ /\ f.op = "scan"
           /\ req' = [req EXCEPT ![r] =
                        [f EXCEPT !.user = u, !.users = f.users \ {u}, !.pc = "connect"]]
        \/ /\ f.op = "cleanup"
           /\ req' = [req EXCEPT ![r] =
                        [f EXCEPT !.user = u, !.users = f.users \ {u}, !.pc = "drop"]]
        \/ req' = [req EXCEPT ![r] = Idle]
        \/ req' = [req EXCEPT ![r] = [f EXCEPT !.users = f.users \ {u}]]
  BY <1>2 DEF PickTarget
<1> DEFINE Picked(h) ==
             /\ req' = [req EXCEPT ![r] = h]
             /\ h.copy = NoCred /\ h.op # "create" /\ Known(h) \subseteq Known(f)
             /\ h.pc \in {"lookup", "connect", "drop", "idle", "pick"}
<1>4. PICK h : Picked(h)
  <2>1. f.op # "create"
    BY <1>2 DEF OKFrame, FrameOK
  <2>2. ASSUME NEW pc \in {"lookup", "connect", "drop"},
               pc # "lookup" => f.op \in {"scan", "cleanup"},
               req' = [req EXCEPT ![r] =
                         [f EXCEPT !.user = u, !.users = f.users \ {u}, !.pc = pc]]
        PROVE  \E h : Picked(h)
    <3> DEFINE h == [f EXCEPT !.user = u, !.users = f.users \ {u}, !.pc = pc]
    <3>1. /\ h.copy = NoCred /\ h.op = f.op /\ h.pc = pc
          /\ h.user = u /\ h.users = f.users \ {u}
      BY <1>2 DEF Frame
    <3>2. Known(h) \subseteq Known(f)
      BY <1>2, <2>2, <3>1 DEF Known, Making
    <3>3. Picked(h)  BY <2>1, <2>2, <3>1, <3>2
    <3> HIDE DEF Picked, h
    <3> QED  BY <3>3
  <2>3. ASSUME req' = [req EXCEPT ![r] = Idle]  PROVE  \E h : Picked(h)
    <3>1. Picked(Idle)  BY <2>3 DEF Idle, Known
    <3> HIDE DEF Picked
    <3> QED  BY <3>1
  <2>4. ASSUME req' = [req EXCEPT ![r] = [f EXCEPT !.users = f.users \ {u}]]
        PROVE  \E h : Picked(h)
    <3> DEFINE h == [f EXCEPT !.users = f.users \ {u}]
    <3>1. h.copy = NoCred /\ h.op = f.op /\ h.pc = "pick" /\ Known(h) \subseteq Known(f)
      BY <1>2 DEF Known, Frame
    <3>2. Picked(h)  BY <2>1, <2>4, <3>1
    <3> HIDE DEF Picked, h
    <3> QED  BY <3>2
  <2> HIDE DEF Picked
  <2> QED  BY <1>3, <2>2, <2>3, <2>4
<1>5. h \in OKFrame  BY <1>1, <1>4, NextFrame
<1>6. \A v \in Known(h) : Past(v)  BY <1>4, KnownIsPast
<1> QED  BY <1>1, <1>4, <1>5, <1>6, FrameMoved DEF PickTarget

\* A revocation or renewal whose user or copy is not read from the frame: the
\* facts every later step needs about the user at hand.
LEMMA AtHand ==
  ASSUME LifecycleInv, NEW r \in Request,
         req[r].pc \in {"fill", "connect", "alter", "drop", "delete", "invalidate"}
  PROVE  /\ req[r].user \in User /\ req[r].user \in Known(req[r]) /\ Past(req[r].user)
         /\ req[r].op \in {"renew", "renew_batch", "revoke", "scan", "cleanup"}
<1>1. req[r].user \in User /\ req[r].op \in {"renew", "renew_batch", "revoke", "scan", "cleanup"}
  BY FramesOK, InvTypes DEF OKFrame, FrameOK
<1>2. req[r].user \in Known(req[r])
  BY DEF Known, Making
<1> QED  BY <1>1, <1>2, KnownIsPast

LEMMA LookupKept ==
  ASSUME LifecycleInv, NEW r \in Request, Lookup(r)
  PROVE  LifecycleInv'
<1>0. PICK u \in User : u = req[r].user
  BY FramesOK, InvTypes DEF Lookup, OKFrame, FrameOK
<1> DEFINE f == req[r]
<1>1. TypeInv'  BY LookupOK, InvTypes
<1>2. /\ f \in OKFrame /\ f \in Frame /\ f.pc = "lookup" /\ f.user = u
      /\ f.op \in {"renew", "renew_batch", "revoke", "scan", "cleanup"}
  BY <1>0, FramesOK, InvTypes DEF Lookup, OKFrame, FrameOK
<1>3. CASE Advance(r)
  <2>1. PICK h \in OKFrame : Released(r, h)  BY <1>2, <1>3, AdvanceReleases
  <2> QED  BY <1>1, <2>1, ReleaseKept DEF Lookup
<1>4. CASE ~Advance(r)
  <2>1. PICK c \in {cache[u], store[u]}, pc \in {"fill", "connect", "alter"} :
          c # NoCred /\ req' = [req EXCEPT ![r].pc = pc, ![r].copy = c]
    BY <1>0, <1>4 DEF Lookup, AfterLookup
  <2> DEFINE h == [f EXCEPT !.pc = pc, !.copy = c]
  <2>2. req' = [req EXCEPT ![r] = h]
    BY <2>1, FramesOK, InvTypes
  <2>3. h \in OKFrame  BY <1>1, <2>2, NextFrame
  <2>4. /\ h.op = f.op /\ h.pc = pc /\ h.user = u /\ h.copy = c
        /\ Known(h) \subseteq Known(f) \cup {u}
    BY <1>2 DEF Known, Making, Frame
  <2>5. Past(u)
    BY <2>1 DEF LifecycleInv, PastInv
  <2>6. \A v \in Known(h) : Past(v)
    BY <2>4, <2>5, KnownIsPast
  <2>7. \A g \in Region : u \in db[g] => c.region = g
    BY <2>1 DEF LifecycleInv, RegionInv, RecordNamesRegion
  <2>8. UNCHANGED <<db, store, cache, used, held, removed>>  BY DEF Lookup
  <2> HIDE DEF h
  <2> QED  BY <1>1, <1>2, <2>2, <2>3, <2>4, <2>6, <2>7, <2>8, FrameMoved
<1> QED  BY <1>3, <1>4

\* A step that changes the user's cached copy only, to one of the same region.
LEMMA CacheWritten ==
  ASSUME LifecycleInv, TypeInv', NEW r \in Request, NEW h \in OKFrame, NEW u \in User,
         req' = [req EXCEPT ![r] = h],
         UNCHANGED <<db, store, used, held, removed>>,
         \A v \in User : cache'[v] = cache[v] \/ v = u,
         Past(u), \A g \in Region : u \in db[g] => (cache'[u] # NoCred => cache'[u].region = g),
         h.op # "create", Known(h) \subseteq Known(req[r]),
         h.pc \notin {"create_user", "delete", "invalidate"},
         \A g \in Region :
           h.user \in db[g] /\ h.copy # NoCred => h.copy.region = g
  PROVE  LifecycleInv'
<1>1. ~Making(h) /\ Delivering(h) = {}
  BY DEF Making, Delivering
<1>2. NamesInv' /\ \A v \in User : Past(v) => Past(v)'
  BY <1>1, NamesKept
<1>3. PastInv'
  <2>1. \A v \in User : cache'[v] # NoCred => cache[v] # NoCred \/ Past(v)'
    BY <1>2
  <2> QED  BY <1>2, <2>1, PastKept
<1>4. HomeInv'     BY HomeKept
<1>5. TrackedInv'  BY <1>1, TrackedKept
<1>6. RegionInv'   BY RegionKept
<1>7. RemovedIsDropped'  BY DEF LifecycleInv, RemovedIsDropped
<1> QED  BY <1>2, <1>3, <1>4, <1>5, <1>6, <1>7, Assemble

LEMMA FillCacheKept ==
  ASSUME LifecycleInv, NEW r \in Request, FillCache(r)
  PROVE  LifecycleInv'
<1>0. PICK u \in User : u = req[r].user
  BY AtHand DEF FillCache
<1> DEFINE f  == req[r]
           pc == AfterLookup(f)
           h  == [f EXCEPT !.pc = pc]
<1>1. TypeInv'  BY LookupOK, InvTypes
<1>2. f \in OKFrame /\ f \in Frame /\ f.pc = "fill" /\ f.user = u /\ f.copy # NoCred
  BY <1>0, FramesOK, InvTypes DEF FillCache, OKFrame, FrameOK
<1>3. Past(u) /\ f.op # "create"  BY <1>2, AtHand
<1>4. req' = [req EXCEPT ![r] = h]
  BY FramesOK, InvTypes DEF FillCache, Goto
<1>5. h \in OKFrame  BY <1>1, <1>4, NextFrame
<1>6. /\ h.op = f.op /\ h.pc \in {"connect", "alter"} /\ h.user = u /\ h.copy = f.copy
      /\ Known(h) \subseteq Known(f)
  BY <1>2 DEF Known, Making, Frame, AfterLookup
<1>7. \A g \in Region : u \in db[g] => f.copy.region = g
  BY <1>2 DEF LifecycleInv, RegionInv
<1>8. cache'[u] = f.copy /\ \A v \in User : v # u => cache'[v] = cache[v]
  BY <1>2, InvTypes DEF FillCache, TypeInv, TypeOK
<1>9. UNCHANGED <<db, store, used, held, removed>>  BY DEF FillCache
<1> HIDE DEF h
<1> QED  BY <1>1, <1>2, <1>3, <1>4, <1>5, <1>6, <1>7, <1>8, <1>9, CacheWritten

LEMMA ConnectKept ==
  ASSUME LifecycleInv, NEW r \in Request, Connect(r)
  PROVE  LifecycleInv'
<1> DEFINE f == req[r]
<1>1. TypeInv'  BY RemovalOK, InvTypes
<1>2. /\ f \in OKFrame /\ f \in Frame /\ f.pc = "connect"
      /\ f.op \in {"renew", "renew_batch", "revoke", "scan", "cleanup"}
  BY FramesOK, InvTypes DEF Connect, OKFrame, FrameOK
<1>3. CASE Advance(r)
  <2>1. PICK h \in OKFrame : Released(r, h)  BY <1>2, <1>3, AdvanceReleases
  <2> QED  BY <1>1, <2>1, ReleaseKept DEF Connect
<1>4. CASE ~Advance(r)
  <2>1. PICK pc \in {"alter", "drop"} : Goto(r, pc)  BY <1>4 DEF Connect
  <2> DEFINE h == [f EXCEPT !.pc = pc]
  <2>2. req' = [req EXCEPT ![r] = h]
    BY <2>1, FramesOK, InvTypes DEF Goto
  <2>3. h \in OKFrame  BY <1>1, <2>2, NextFrame
  <2>4. /\ h.op = f.op /\ h.pc = pc /\ h.user = f.user /\ h.copy = f.copy
        /\ Known(h) \subseteq Known(f)
    BY <1>2 DEF Known, Making, Frame
  <2>5. \A v \in Known(h) : Past(v)  BY <2>4, KnownIsPast
  <2>6. \A g \in Region : h.user \in db[g] /\ h.copy # NoCred => h.copy.region = g
    BY <2>4 DEF LifecycleInv, RegionInv
  <2>7. UNCHANGED <<db, store, cache, used, held, removed>>  BY DEF Connect
  <2> HIDE DEF h
  <2> QED  BY <1>1, <1>2, <2>2, <2>3, <2>4, <2>5, <2>6, <2>7, FrameMoved
<1> QED  BY <1>3, <1>4

LEMMA AlterPasswordKept ==
  ASSUME LifecycleInv, NEW r \in Request, AlterPassword(r)
  PROVE  LifecycleInv'
<1>0. PICK u \in User : u = req[r].user
  BY AtHand DEF AlterPassword
<1> DEFINE f    == req[r]
           ttl  == IF f.op = "renew_batch" THEN f.ttl ELSE DefaultTTL[f.copy.role]
           cred == [f.copy EXCEPT !.expires = clock + ttl]
           h    == [f EXCEPT !.pc = "put", !.copy = cred]
<1>1. TypeInv'  BY AlterPasswordOK, InvTypes
<1>2. /\ f \in OKFrame /\ f \in Frame /\ f.pc = "alter" /\ f.op \in {"renew", "renew_batch"}
      /\ f.user = u /\ f.copy # NoCred /\ f.copy \in Credential
  BY <1>0, FramesOK, InvTypes DEF AlterPassword, OKFrame, FrameOK, Frame
<1>3. Past(u) /\ u \in Known(f)  BY <1>2, AtHand
<1>4. CASE cache' = cache /\ Advance(r)
  <2>1. PICK k \in OKFrame : Released(r, k)  BY <1>2, <1>4, AdvanceReleases
  <2> QED  BY <1>1, <1>4, <2>1, ReleaseKept DEF AlterPassword
<1>5. CASE /\ cache' = [cache EXCEPT ![f.user] = IF @ = f.copy THEN cred ELSE @]
           /\ req' = [req EXCEPT ![r].pc = "put", ![r].copy = cred]
  <2>1. cred.region = f.copy.region  BY <1>2 DEF Credential
  <2>2. req' = [req EXCEPT ![r] = h]
    <3> HIDE DEF cred
    <3> QED  BY <1>5, FramesOK, InvTypes
  <2>3. h \in OKFrame  BY <1>1, <2>2, NextFrame
  <2>4. /\ h.op = f.op /\ h.pc = "put" /\ h.user = u /\ h.copy = cred
        /\ Known(h) \subseteq Known(f)
    BY <1>2 DEF Known, Making, Frame
  <2>5. \A g \in Region : u \in db[g] => cred.region = g
    BY <1>2, <2>1 DEF LifecycleInv, RegionInv
  <2> HIDE DEF cred, h
  <2>6. /\ \A v \in User : v # u => cache'[v] = cache[v]
        /\ cache'[u] = cred \/ cache'[u] = cache[u]
    BY <1>2, <1>5, InvTypes DEF TypeInv, TypeOK
  <2>7. \A g \in Region : u \in db[g] => (cache'[u] # NoCred => cache'[u].region = g)
    BY <2>5, <2>6 DEF LifecycleInv, RegionInv, RecordNamesRegion
  <2>8. UNCHANGED <<db, store, used, held, removed>>  BY DEF AlterPassword
  <2> QED  BY <1>1, <1>2, <1>3, <2>2, <2>3, <2>4, <2>5, <2>6, <2>7, <2>8, CacheWritten
<1> QED  BY <1>4, <1>5 DEF AlterPassword

LEMMA DropUserKept ==
  ASSUME LifecycleInv, NEW r \in Request, DropUser(r)
  PROVE  LifecycleInv'
<1> DEFINE f == req[r]
           h == [f EXCEPT !.pc = "delete"]
<1>1. TypeInv'  BY RemovalOK, InvTypes
<1>2. /\ f \in OKFrame /\ f \in Frame /\ f.pc = "drop"
      /\ f.user \in User /\ f.op \in {"renew", "renew_batch", "revoke", "scan", "cleanup"}
  BY AtHand, FramesOK, InvTypes DEF DropUser, OKFrame
<1>3. \A g \in Region : db'[g] \subseteq db[g]
  BY InvTypes DEF DropUser, TypeInv, TypeOK
<1>4. UNCHANGED <<store, cache, used, held, removed>>  BY DEF DropUser
<1>5. CASE Advance(r)
  <2>1. PICK k \in OKFrame : Released(r, k)  BY <1>2, <1>5, AdvanceReleases
  <2> QED  BY <1>1, <1>3, <1>4, <2>1, ReleaseKept
<1>6. CASE /\ f.user \in db[DefaultRegion]
           /\ db' = [db EXCEPT ![DefaultRegion] = @ \ {f.user}]
           /\ Goto(r, "delete")
  <2>1. \A g \in Region : f.user \notin db'[g]
    BY <1>2, <1>6, LifecycleAssumption, InvTypes
    DEF LifecycleInv, HomeInv, TypeInv, TypeOK
  <2>2. req' = [req EXCEPT ![r] = h]
    BY <1>6, FramesOK, InvTypes DEF Goto
  <2>3. h \in OKFrame  BY <1>1, <2>2, NextFrame
  <2>4. /\ h.op = f.op /\ h.pc = "delete" /\ h.user = f.user /\ h.copy = f.copy
        /\ Known(h) \subseteq Known(f)
        /\ ~Making(h) /\ Delivering(h) = {}
    BY <1>2 DEF Known, Making, Delivering, Frame
  <2> HIDE DEF h
  <2>5. NamesInv' /\ \A v \in User : Past(v) => Past(v)'
    <3>1. \A v \in User, g \in Region : v \in db'[g] => v \in db[g] \/ v \in used
      BY <1>3, InvTypes DEF TypeInv, TypeOK
    <3> QED  BY <1>4, <2>2, <2>3, <2>4, <3>1, NamesKept
  <2>6. PastInv'  BY <1>4, <2>2, <2>3, <2>4, <2>5, PastKept
  <2>7. HomeInv'  BY <1>3, <2>1, <2>2, <2>3, <2>4, HomeKept
  <2>8. TrackedInv'  BY <1>3, <1>4, <2>2, <2>3, <2>4, TrackedKept
  <2>9. RegionInv'
    <3>1. \A g \in Region : h.user \in db[g] /\ h.copy # NoCred => h.copy.region = g
      BY <2>4 DEF LifecycleInv, RegionInv
    <3> QED  BY <1>3, <1>4, <2>2, <2>3, <3>1, RegionKept
  <2>10. RemovedIsDropped'
    BY <1>3, <1>4, InvTypes DEF LifecycleInv, RemovedIsDropped, TypeInv, TypeOK
  <2> QED  BY <1>1, <2>5, <2>6, <2>7, <2>8, <2>9, <2>10, Assemble
<1> QED  BY <1>5, <1>6 DEF DropUser

LEMMA DeleteCredentialKept ==
  ASSUME LifecycleInv, NEW r \in Request, DeleteCredential(r)
  PROVE  LifecycleInv'
<1>0. PICK u \in User : u = req[r].user
  BY AtHand DEF DeleteCredential
<1> DEFINE f == req[r]
           h == [f EXCEPT !.pc = "invalidate"]
<1>1. TypeInv'  BY RemovalOK, InvTypes
<1>2. /\ f \in OKFrame /\ f \in Frame /\ f.pc = "delete" /\ f.user = u
      /\ f.op \in {"renew", "renew_batch", "revoke", "scan", "cleanup"}
  BY <1>0, AtHand, FramesOK, InvTypes DEF DeleteCredential, OKFrame
<1>3. UNCHANGED <<db, cache, used, held, removed>>  BY DEF DeleteCredential
<1>4. \A g \in Region : u \notin db[g]
  BY <1>2 DEF LifecycleInv, HomeInv
<1>5. CASE store' = store /\ Advance(r)
  <2>1. PICK k \in OKFrame : Released(r, k)  BY <1>2, <1>5, AdvanceReleases
  <2> QED  BY <1>1, <1>3, <1>5, <2>1, ReleaseKept
<1>6. CASE store' = [store EXCEPT ![f.user] = NoCred] /\ Goto(r, "invalidate")
  <2>1. store'[u] = NoCred /\ \A v \in User : v # u => store'[v] = store[v]
    BY <1>2, <1>6, InvTypes DEF TypeInv, TypeOK
  <2>2. req' = [req EXCEPT ![r] = h]
    BY <1>6, FramesOK, InvTypes DEF Goto
  <2>3. h \in OKFrame  BY <1>1, <2>2, NextFrame
  <2>4. /\ h.op = f.op /\ h.pc = "invalidate" /\ h.user = u /\ h.copy = f.copy
        /\ Known(h) \subseteq Known(f)
        /\ ~Making(h) /\ Delivering(h) = {}
    BY <1>2 DEF Known, Making, Delivering, Frame
  <2> HIDE DEF h
  <2>5. NamesInv' /\ \A v \in User : Past(v) => Past(v)'
    BY <1>3, <2>2, <2>3, <2>4, NamesKept
  <2>6. PastInv'     BY <1>3, <2>1, <2>2, <2>3, <2>4, <2>5, PastKept
  <2>7. HomeInv'     BY <1>3, <1>4, <2>2, <2>3, <2>4, HomeKept
  <2>8. TrackedInv'  BY <1>3, <1>4, <2>1, <2>2, <2>3, <2>4, TrackedKept
  <2>9. RegionInv'   BY <1>3, <1>4, <2>1, <2>2, <2>3, <2>4, RegionKept
  <2>10. RemovedIsDropped'  BY <1>3 DEF LifecycleInv, RemovedIsDropped
  <2> QED  BY <1>1, <2>5, <2>6, <2>7, <2>8, <2>9, <2>10, Assemble
<1> QED  BY <1>5, <1>6 DEF DeleteCredential

LEMMA InvalidateCacheKept ==
  ASSUME LifecycleInv, NEW r \in Request, InvalidateCache(r)
  PROVE  LifecycleInv'
<1>0. PICK u \in User : u = req[r].user
  BY AtHand DEF InvalidateCache
<1>1. TypeInv'  BY RemovalOK, InvTypes
<1>2. req[r].op \in {"renew", "renew_batch", "revoke", "scan", "cleanup"} /\ Past(u)
  BY <1>0, AtHand DEF InvalidateCache
<1>3. \A g \in Region : u \notin db[g]
  BY <1>0 DEF InvalidateCache, LifecycleInv, HomeInv
<1>4. PICK h \in OKFrame : Released(r, h)
  BY <1>2, AdvanceReleases DEF InvalidateCache
<1>5. /\ UNCHANGED <<db, store, used, held>>
      /\ removed' = removed \cup {u}
      /\ \A v \in User : cache'[v] = cache[v] \/ cache'[v] = NoCred
  BY <1>0, InvTypes DEF InvalidateCache, TypeInv, TypeOK
<1> QED  BY <1>1, <1>2, <1>3, <1>4, <1>5, ReleaseKept

-----------------------------------------------------------------------------
(* The environment, and the theorems                                          *)

\* A process that dies forgets every name that was being made.
LEMMA PluginDiesKept ==
  ASSUME LifecycleInv, PluginDies
  PROVE  LifecycleInv'
<1>1. TypeInv'  BY EnvironmentOK, InvTypes
<1>2. \A s \in Request : req'[s] = Idle  BY DEF PluginDies
<1>3. ~Making(Idle) /\ Known(Idle) = {} /\ Delivering(Idle) = {}
      /\ Idle.pc = "idle" /\ Idle.copy = NoCred
  BY DEF Making, Known, Delivering, Idle
<1>4. /\ UNCHANGED <<db, store, used, held, removed>>
      /\ \A u \in User : cache'[u] = NoCred
  BY DEF PluginDies
<1>5. NamesInv'  BY <1>2, <1>3, <1>4 DEF LifecycleInv, NamesInv
<1>6. \A u \in User : Past(u) => Past(u)'  BY <1>2, <1>3, <1>4 DEF Past
<1>7. PastInv'
  <2>1. held \subseteq User /\ removed \subseteq User  BY DEF LifecycleInv, TypeOK
  <2>2. \A u \in User : store'[u] # NoCred \/ cache'[u] # NoCred => Past(u)'
    BY <1>4, <1>6 DEF LifecycleInv, PastInv
  <2>3. \A u \in held' \cup removed' : Past(u)'
    BY <1>4, <1>6, <2>1 DEF LifecycleInv, PastInv
  <2>4. \A s \in Request : Known(req'[s]) = {}  BY <1>2, <1>3
  <2> QED  BY <2>2, <2>3, <2>4 DEF PastInv
<1>8. HomeInv'     BY <1>2, <1>3, <1>4 DEF LifecycleInv, HomeInv
<1>9. TrackedInv'
  <2>1. \A s \in Request : Delivering(req'[s]) = {}  BY <1>2, <1>3
  <2> QED  BY <1>4, <2>1 DEF LifecycleInv, TrackedInv
<1>10. RegionInv'
  BY <1>2, <1>3, <1>4 DEF LifecycleInv, RegionInv, RecordNamesRegion
<1>11. RemovedIsDropped'  BY <1>4 DEF LifecycleInv, RemovedIsDropped
<1> QED  BY <1>1, <1>5, <1>7, <1>8, <1>9, <1>10, <1>11, Assemble

LEMMA EnvironmentKept ==
  ASSUME LifecycleInv, (\E u \in User : CacheExpire(u)) \/ Tick \/ UNCHANGED vars
  PROVE  LifecycleInv'
<1>1. TypeInv'  BY EnvironmentOK, InvTypes
<1>2. /\ UNCHANGED <<db, store, req, used, held, removed>>
      /\ \A u \in User : cache'[u] = cache[u] \/ cache'[u] = NoCred
  BY InvTypes DEF CacheExpire, Tick, vars, TypeInv, TypeOK
<1>3. NamesInv'    BY <1>2 DEF LifecycleInv, NamesInv
<1>4. \A u : Past(u) <=> Past(u)'  BY <1>2 DEF Past
<1>5. PastInv'
  <2>1. \A u \in User : store'[u] # NoCred \/ cache'[u] # NoCred => Past(u)'
    BY <1>2, <1>4 DEF LifecycleInv, PastInv
  <2>2. \A u \in held' \cup removed' : Past(u)'
    BY <1>2, <1>4 DEF LifecycleInv, PastInv
  <2>3. \A s \in Request : \A u \in Known(req'[s]) : Past(u)'
    BY <1>2, <1>4 DEF LifecycleInv, PastInv
  <2> QED  BY <2>1, <2>2, <2>3 DEF PastInv
<1>6. HomeInv'     BY <1>2 DEF LifecycleInv, HomeInv
<1>7. TrackedInv'  BY <1>2 DEF LifecycleInv, TrackedInv
<1>8. RegionInv'
  BY <1>2 DEF LifecycleInv, RegionInv, RecordNamesRegion
<1>9. RemovedIsDropped'  BY <1>2 DEF LifecycleInv, RemovedIsDropped
<1> QED  BY <1>1, <1>3, <1>5, <1>6, <1>7, <1>8, <1>9, Assemble

LEMMA InitKept == Init => LifecycleInv
<1> SUFFICES ASSUME Init  PROVE  LifecycleInv
  OBVIOUS
<1>1. TypeInv
  BY IdleOK, LifecycleAssumption DEF Init, TypeInv, TypeOK, FrameInv, OKFrame
<1>2. ~Making(Idle) /\ Known(Idle) = {} /\ Delivering(Idle) = {}
      /\ Idle.pc = "idle" /\ Idle.copy = NoCred
  BY DEF Making, Known, Delivering, Idle
<1>3. NamesInv /\ PastInv /\ HomeInv /\ TrackedInv /\ RegionInv /\ RemovedIsDropped
  BY <1>2
  DEF Init, NamesInv, PastInv, HomeInv, TrackedInv, RegionInv, RecordNamesRegion,
      RemovedIsDropped
<1> QED  BY <1>1, <1>3 DEF TypeInv, LifecycleInv

LEMMA StepKept ==
  ASSUME RandomSuffixes, LifecycleInv, [Next]_vars
  PROVE  LifecycleInv'
<1>1. ASSUME NEW r \in Request, RequestStarts(r)  PROVE  LifecycleInv'
  <2>1. \A role \in Role : CredentialsOf(role) \subseteq Stored
    BY DEF CredentialsOf
  <2> QED
    BY <1>1, <2>1, AdmitKept, ExtendLeaseKept, StartKept
    DEF RequestStarts, RevokeRole, RevokeAll
<1>2. ASSUME NEW r \in Request, RequestContinues(r)  PROVE  LifecycleInv'
  BY <1>2, CreateUserKept, CreationStatementKept, RollbackKept, PutCredentialKept,
     CacheCredentialKept, PickTargetKept, LookupKept, FillCacheKept, ConnectKept,
     AlterPasswordKept, DropUserKept, DeleteCredentialKept, InvalidateCacheKept,
     PluginDiesKept
  DEF RequestContinues, NilRetryPanic
<1>3. CASE Crash
  BY <1>3, PluginDiesKept DEF Crash
<1>4. CASE (\E u \in User : CacheExpire(u)) \/ Tick \/ UNCHANGED vars
  BY <1>4, EnvironmentKept
<1> QED  BY <1>1, <1>2, <1>3, <1>4 DEF Next

\* Without username_suffix, the inductive invariant holds of every run of the
\* handlers, whatever fails, whenever the process dies, and whether or not a
\* nil retry configuration takes it down.
THEOREM LifecycleInvariant ==
  ASSUME RandomSuffixes
  PROVE  Spec => []LifecycleInv
<1>1. LifecycleInv /\ [Next]_vars => LifecycleInv'
  BY StepKept
<1> QED  BY <1>1, InitKept, PTL DEF Spec

\* A user that creds or creds/batch answered with has a record for as long as
\* a database has it (path_creds.go: the record is stored before the answer,
\* and path_revoke_creds.go, path_bulk_revoke.go and cleanupExpiredCredentials
\* delete it after DROP USER).
THEOREM HeldStaysTracked ==
  ASSUME RandomSuffixes
  PROVE  Spec => []HeldIsTracked
<1>1. LifecycleInv => HeldIsTracked
  BY DEF LifecycleInv, TrackedInv, HeldIsTracked, TypeOK
<1> QED  BY <1>1, LifecycleInvariant, PTL

\* The record and the cached copy of a user name the database that has it.
THEOREM RecordsNameRegions ==
  ASSUME RandomSuffixes
  PROVE  Spec => []RecordNamesRegion
<1>1. LifecycleInv => RecordNamesRegion
  BY DEF LifecycleInv, RegionInv
<1> QED  BY <1>1, LifecycleInvariant, PTL

\* What a revocation or cleanup reported as removed never comes back to a
\* database, although its record may.
THEOREM RemovedStaysDropped ==
  ASSUME RandomSuffixes
  PROVE  Spec => []RemovedIsDropped
<1>1. LifecycleInv => RemovedIsDropped
  BY DEF LifecycleInv
<1> QED  BY <1>1, LifecycleInvariant, PTL

\* storeCredential writes a record, never the absence of one.
LEMMA PutKeepsRecords ==
  ASSUME TypeInv, NEW r \in Request, PutCredential(r), NEW u \in User, store[u] # NoCred
  PROVE  store'[u] # NoCred
<1> DEFINE f    == req[r]
           cred == IF f.op = "create"
                   THEN [f.copy EXCEPT !.created = clock,
                                       !.expires = clock + DefaultTTL[f.copy.role]]
                   ELSE f.copy
<1>1. f.copy \in Credential /\ f.copy # NoCred
  BY FramesOK DEF PutCredential, OKFrame, FrameOK, Frame
<1>2. f.copy.role \in Role  BY <1>1 DEF Credential
<1>3. clock \in Nat /\ clock + DefaultTTL[f.copy.role] \in Nat
  BY <1>2, LifecycleAssumption DEF TypeInv, TypeOK
<1>4. cred # NoCred  BY <1>1, <1>3, NewTimes, NoCredAssumption
<1>5. store' = [store EXCEPT ![f.user] = cred] \/ store' = store
  BY DEF PutCredential
<1> HIDE DEF cred
<1> QED  BY <1>4, <1>5 DEF TypeInv, TypeOK

\* A step that removes a record is a revocation's or a cleanup's delete.
LEMMA OnlyDeleteRemoves ==
  ASSUME TypeInv, Next, NEW u \in User, store[u] # NoCred, store'[u] = NoCred
  PROVE  \E r \in Request : DeleteCredential(r) /\ u = req[r].user
<1>1. store' # store  OBVIOUS
<1>2. PICK r \in Request : RequestStarts(r) \/ RequestContinues(r)
  BY <1>1 DEF Next, Crash, PluginDies, CacheExpire, Tick
<1>3. ~RequestStarts(r)
  BY <1>1 DEF RequestStarts, CreateAdmit, ExtendLease, RevokeUsers, RevokeScan, RevokeRole,
              RevokeAll, CleanupStart, RenewStart, RenewBatch
<1>4. DeleteCredential(r) \/ PutCredential(r)
  BY <1>1, <1>2, <1>3
  DEF RequestContinues, CreateUser, CreationStatement, Rollback, CacheCredential,
      PickTarget, Lookup, FillCache, Connect, AlterPassword, DropUser, InvalidateCache,
      NilRetryPanic, PluginDies
<1>5. DeleteCredential(r)
  BY <1>4, PutKeepsRecords
<1>6. u = req[r].user
  BY <1>1, <1>5 DEF DeleteCredential, TypeInv, TypeOK
<1> QED  BY <1>5, <1>6

\* The record goes only after the user has gone, from every database: a
\* credential whose DROP USER failed can still be found and revoked again.
THEOREM DeletesFollowDrops ==
  ASSUME RandomSuffixes
  PROVE  Spec => DeleteOnlyAfterDrop
<1>1. LifecycleInv /\ [Next]_vars =>
        [\A u \in User : store[u] # NoCred /\ store'[u] = NoCred
            => \A g \in Region : u \notin db[g]]_vars
  <2> SUFFICES ASSUME LifecycleInv, Next, NEW u \in User,
                      store[u] # NoCred, store'[u] = NoCred
               PROVE  \A g \in Region : u \notin db[g]
    OBVIOUS
  <2>1. PICK r \in Request : DeleteCredential(r) /\ u = req[r].user
    BY InvTypes, OnlyDeleteRemoves
  <2> QED  BY <2>1 DEF DeleteCredential, LifecycleInv, HomeInv
<1> QED  BY <1>1, LifecycleInvariant, PTL DEF Spec, DeleteOnlyAfterDrop

-----------------------------------------------------------------------------
(* What a step does.  Each predicate below says of a step that takes request  *)
(* r from its frame to h what the invariants of the next sections need to     *)
(* know of it, in terms of the fields of the two frames.                      *)

\* Nothing of a frame changes but the call it makes next.
Kept(f, h) ==
  /\ h.user = f.user /\ h.copy = f.copy /\ h.op = f.op
  /\ h.users = f.users /\ h.left = f.left /\ h.now = f.now

\* The same, but for the copy of the record.
KeptButCopy(f, h) ==
  /\ h.user = f.user /\ h.copy # NoCred /\ h.op = f.op
  /\ h.users = f.users /\ h.left = f.left /\ h.now = f.now

\* The frame a loop goes on with.
Resumed(f) ==
  IF f.users = {} THEN Idle
  ELSE [f EXCEPT !.pc = "pick", !.user = NoUser, !.copy = NoCred]

Starting(r, h) ==
  /\ req[r].pc = "idle"
  /\ h.copy = NoCred /\ h.pc \in {"pick", "lookup"}
  /\ h.op \in {"renew", "renew_batch", "revoke", "scan", "cleanup"}
  /\ h.op = "cleanup" => h.pc = "pick" /\ h.users = Stored /\ h.now = clock
  /\ UNCHANGED <<clock, db, store, cache, used, held, removed>>

\* A creation begins with a name of its own.
Naming(h, role, g) ==
  /\ h.pc = "create_user" /\ h.op = "create"
  /\ h.user \in GeneratedNames(role) /\ h.copy = NewCredential(role, g)
  /\ used' = used \cup {h.user}

Admitting(r, h) ==
  /\ req[r].pc = "idle"
  /\ \E role \in Role, g \in Configured, n \in BatchSizes :
       /\ QuotaAllows(role)
       /\ Naming(h, role, g)
       /\ h.left = GrantedCount(role, n) - 1
  /\ UNCHANGED <<clock, db, store, cache, held, removed>>

Extending(r, h) ==
  /\ req[r].pc = "idle"
  /\ h.pc = "put" /\ h.op = "extend"
  /\ \E u \in User, requested \in RequestedTTLs :
       /\ h.user = u /\ store[u] # NoCred
       /\ h.copy = [store[u] EXCEPT !.expires = ExtendedExpiry(store[u], requested)]
  /\ UNCHANGED <<clock, db, store, cache, used, held, removed>>

Creating(r, h) ==
  /\ req[r].pc = "create_user"
  /\ \A g \in Region :
       db'[g] = db[g] \/ (g = req[r].copy.region /\ db'[g] = db[g] \cup {req[r].user})
  /\ \/ h = Idle
     \/ /\ Kept(req[r], h)
        /\ h.pc \in {"create_stmt", "put"}
        /\ req[r].user \in db'[req[r].copy.region]
  /\ UNCHANGED <<clock, store, cache, used, held, removed>>

Preparing(r, h) ==
  /\ req[r].pc = "create_stmt"
  /\ Kept(req[r], h) /\ h.pc \in {"put", "rollback"}
  /\ UNCHANGED <<clock, db, store, cache, used, held, removed>>

RollingBack(r, h) ==
  /\ req[r].pc = "rollback"
  /\ h = Idle
  /\ \A g \in Region : db'[g] = db[g] \/ db'[g] = db[g] \ {req[r].user}
  /\ UNCHANGED <<clock, store, cache, used, held, removed>>

Storing(r, h) ==
  /\ req[r].pc = "put"
  /\ \/ /\ KeptButCopy(req[r], h) /\ h.pc = "cache"
        /\ h.copy.role = req[r].copy.role /\ h.copy.region = req[r].copy.region
        /\ req[r].op # "create" => h.copy = req[r].copy
        /\ \A u \in User : store'[u] = IF u = req[r].user THEN h.copy ELSE store[u]
     \/ h \in {Idle, Resumed(req[r])} /\ store' = store
  /\ UNCHANGED <<clock, db, cache, used, held, removed>>

Caching(r, h) ==
  /\ req[r].pc = "cache"
  /\ \A u \in User : cache'[u] = IF u = req[r].user THEN req[r].copy ELSE cache[u]
  /\ \/ h \in {Idle, Resumed(req[r])} /\ used' = used
     \/ /\ req[r].op = "create" /\ req[r].left > 0 /\ h.left = req[r].left - 1
        /\ Naming(h, req[r].copy.role, req[r].copy.region)
  /\ UNCHANGED <<clock, db, store, removed>>

Picking(r, h) ==
  /\ req[r].pc = "pick"
  /\ \/ /\ req[r].op # "cleanup" /\ h.op = req[r].op
        /\ h.copy = NoCred /\ h.pc \in {"lookup", "connect"}
     \/ \E u \in req[r].users :
          /\ req[r].op = "cleanup" /\ h.copy = NoCred /\ store[u] # NoCred
          /\ h = [req[r] EXCEPT !.pc = "drop", !.user = u, !.users = req[r].users \ {u}]
     \/ \E u \in req[r].users :
          /\ req[r].op = "cleanup"
          /\ store[u] # NoCred => req[r].now <= store[u].expires
          /\ h = IF req[r].users = {u} THEN Idle
                 ELSE [req[r] EXCEPT !.users = req[r].users \ {u}]
  /\ UNCHANGED <<clock, db, store, cache, used, held, removed>>

LookingUp(r, h) ==
  /\ req[r].pc = "lookup"
  /\ \/ h = Resumed(req[r])
     \/ /\ KeptButCopy(req[r], h)
        /\ \/ h.pc = "fill" /\ h.copy = store[req[r].user]
           \/ h.pc \in {"connect", "alter"} /\ h.copy = cache[req[r].user]
  /\ UNCHANGED <<clock, db, store, cache, used, held, removed>>

Filling(r, h) ==
  /\ req[r].pc = "fill"
  /\ Kept(req[r], h) /\ h.pc \in {"connect", "alter"}
  /\ \A u \in User : cache'[u] = IF u = req[r].user THEN req[r].copy ELSE cache[u]
  /\ UNCHANGED <<clock, db, store, used, held, removed>>

Connecting(r, h) ==
  /\ req[r].pc = "connect"
  /\ \/ h = Resumed(req[r])
     \/ Kept(req[r], h) /\ h.pc \in {"alter", "drop"}
  /\ UNCHANGED <<clock, db, store, cache, used, held, removed>>

Altering(r, h) ==
  /\ req[r].pc = "alter" /\ ~NilRetryPanics
  /\ \/ h = Resumed(req[r]) /\ cache' = cache
     \/ /\ KeptButCopy(req[r], h) /\ h.pc = "put"
        /\ h.copy.role = req[r].copy.role
        /\ req[r].user \in db[DefaultRegion]
        /\ \A u \in User : cache'[u] = IF u = req[r].user /\ cache[u] = req[r].copy
                                       THEN h.copy ELSE cache[u]
  /\ UNCHANGED <<clock, db, store, used, held, removed>>

Dropping(r, h) ==
  /\ req[r].pc = "drop"
  /\ \A g \in Region : db'[g] = db[g] \/ db'[g] = db[g] \ {req[r].user}
  /\ \/ Kept(req[r], h) /\ h.pc = "delete"
     \/ h = Resumed(req[r]) /\ (CallsMayFail \/ req[r].user \notin db[DefaultRegion])
  /\ UNCHANGED <<clock, store, cache, used, held, removed>>

Deleting(r, h) ==
  /\ req[r].pc = "delete"
  /\ \/ /\ Kept(req[r], h) /\ h.pc = "invalidate"
        /\ \A u \in User : store'[u] = IF u = req[r].user THEN NoCred ELSE store[u]
     \/ CallsMayFail /\ h = Resumed(req[r]) /\ store' = store
  /\ UNCHANGED <<clock, db, cache, used, held, removed>>

Invalidating(r, h) ==
  /\ req[r].pc = "invalidate"
  /\ h = Resumed(req[r])
  /\ \A u \in User : cache'[u] = IF u = req[r].user THEN NoCred ELSE cache[u]
  /\ removed' = removed \cup {req[r].user}
  /\ UNCHANGED <<clock, db, store, used, held>>

Moving(r, h) ==
  \/ Starting(r, h) \/ Admitting(r, h) \/ Extending(r, h)
  \/ Creating(r, h) \/ Preparing(r, h) \/ RollingBack(r, h)
  \/ Storing(r, h) \/ Caching(r, h) \/ Picking(r, h) \/ LookingUp(r, h) \/ Filling(r, h)
  \/ Connecting(r, h) \/ Altering(r, h) \/ Dropping(r, h) \/ Deleting(r, h)
  \/ Invalidating(r, h)

\* A step of request r that leaves it at h.
MovesTo(r, h) ==
  /\ h \in OKFrame /\ req[r] \in OKFrame
  /\ req'[r] = h
  /\ \A s \in Request : s # r => req'[s] = req[s]
  /\ Moving(r, h)

\* A process that dies, killed or at a nil retry configuration.
Dying ==
  /\ CrashesHappen \/ \E r \in Request : req[r].pc \in {"connect", "alter"}
  /\ \A r \in Request : req'[r] = Idle
  /\ \A u \in User : cache'[u] = NoCred
  /\ UNCHANGED <<clock, db, store, used, held, removed>>

\* Time, and what it takes from the cache.
Drifting ==
  /\ UNCHANGED <<db, store, req, used, held, removed>>
  /\ \A u \in User : cache'[u] = cache[u] \/ cache'[u] = NoCred
  /\ clock' \in {clock, clock + 1}

LEMMA ReturnMoves ==
  ASSUME TypeInv, NEW r \in Request, Return(r)
  PROVE  req' = [req EXCEPT ![r] = Idle]
  BY DEF Return

LEMMA AdvanceMoves ==
  ASSUME TypeInv, NEW r \in Request, Advance(r)
  PROVE  req' = [req EXCEPT ![r] = Resumed(req[r])]
<1>1. CASE req[r].users = {}
  BY <1>1, FramesOK DEF Advance, Resumed
<1>2. CASE req[r].users # {}
  BY <1>2, FramesOK DEF Advance, Resumed
<1> QED  BY <1>1, <1>2

\* To place a step it is enough to say what it does and at which frame it ends.
LEMMA Placed ==
  ASSUME TypeInv, TypeInv', NEW r \in Request, NEW h,
         req' = [req EXCEPT ![r] = h], Moving(r, h)
  PROVE  \E x : MovesTo(r, x)
<1>1. /\ req'[r] = h /\ req[r] \in OKFrame
      /\ \A s \in Request : s # r => req'[s] = req[s]
  BY FramesOK
<1>2. h \in OKFrame
  BY <1>1 DEF TypeInv, TypeOK, FrameInv, OKFrame
<1> QED  BY <1>1, <1>2 DEF MovesTo

LEMMA StartsMove ==
  ASSUME TypeInv, TypeInv', NEW r \in Request, RequestStarts(r)
  PROVE  \E h : MovesTo(r, h)
<1>1. ASSUME NEW role \in Role, NEW g \in Region, NEW n \in BatchSizes, CreateAdmit(r, role, g, n)
      PROVE  \E h : MovesTo(r, h)
  <2>1. PICK u \in GeneratedNames(role) :
          /\ used' = used \cup {u}
          /\ req' = [req EXCEPT ![r] =
                       [Idle EXCEPT !.pc = "create_user", !.op = "create", !.user = u,
                          !.copy = NewCredential(role, g),
                          !.left = GrantedCount(role, n) - 1]]
    BY <1>1 DEF CreateAdmit
  <2> DEFINE h == [Idle EXCEPT !.pc = "create_user", !.op = "create", !.user = u,
                          !.copy = NewCredential(role, g),
                          !.left = GrantedCount(role, n) - 1]
  <2>2. /\ h.pc = "create_user" /\ h.op = "create" /\ h.user = u
        /\ h.copy = NewCredential(role, g) /\ h.left = GrantedCount(role, n) - 1
    BY DEF Idle
  <2> HIDE DEF h
  <2>3. Admitting(r, h)
    BY <1>1, <2>1, <2>2 DEF CreateAdmit, Admitting, Naming
  <2> QED  BY <2>1, <2>3, Placed DEF Moving, h
<1>2. ASSUME NEW u \in User, NEW requested \in RequestedTTLs, ExtendLease(r, u, requested)
      PROVE  \E h : MovesTo(r, h)
  <2> DEFINE c == [store[u] EXCEPT !.expires = ExtendedExpiry(store[u], requested)]
             h == [Idle EXCEPT !.pc = "put", !.op = "extend", !.user = u, !.copy = c]
  <2>1. req' = [req EXCEPT ![r] = h]
    BY <1>2 DEF ExtendLease
  <2>2. h.pc = "put" /\ h.op = "extend" /\ h.user = u /\ h.copy = c
    BY DEF Idle
  <2> HIDE DEF h
  <2>3. Extending(r, h)
    BY <1>2, <2>2 DEF ExtendLease, Extending
  <2> QED  BY <2>1, <2>3, Placed DEF Moving
<1>3. ASSUME NEW h, req' = [req EXCEPT ![r] = h], req[r].pc = "idle",
             h.copy = NoCred, h.pc \in {"pick", "lookup"},
             h.op \in {"renew", "renew_batch", "revoke", "scan", "cleanup"},
             h.op = "cleanup" => h.pc = "pick" /\ h.users = Stored /\ h.now = clock,
             UNCHANGED <<clock, db, store, cache, used, held, removed>>
      PROVE  \E x : MovesTo(r, x)
  BY <1>3, Placed DEF Moving, Starting
<1>4. ASSUME NEW users \in SUBSET User, RevokeUsers(r, users)
      PROVE  \E h : MovesTo(r, h)
  <2> DEFINE h == [Idle EXCEPT !.pc = "pick", !.op = "revoke", !.users = users]
  <2>1. req' = [req EXCEPT ![r] = h] /\ req[r].pc = "idle"
        /\ UNCHANGED <<clock, db, store, cache, used, held, removed>>
    BY <1>4 DEF RevokeUsers
  <2>2. h.pc = "pick" /\ h.op = "revoke" /\ h.copy = NoCred
    BY DEF Idle
  <2> HIDE DEF h
  <2> QED  BY <1>3, <2>1, <2>2
<1>5. ASSUME NEW users \in SUBSET User, RevokeScan(r, users)
      PROVE  \E h : MovesTo(r, h)
  <2> DEFINE h == [Idle EXCEPT !.pc = "pick", !.op = "scan", !.users = users]
  <2>1. req' = [req EXCEPT ![r] = h] /\ req[r].pc = "idle"
        /\ UNCHANGED <<clock, db, store, cache, used, held, removed>>
    BY <1>5 DEF RevokeScan
  <2>2. h.pc = "pick" /\ h.op = "scan" /\ h.copy = NoCred
    BY DEF Idle
  <2> HIDE DEF h
  <2> QED  BY <1>3, <2>1, <2>2
<1>6. ASSUME CleanupStart(r)
      PROVE  \E h : MovesTo(r, h)
  <2> DEFINE h == [Idle EXCEPT !.pc = "pick", !.op = "cleanup", !.users = Stored, !.now = clock]
  <2>1. req' = [req EXCEPT ![r] = h] /\ req[r].pc = "idle"
        /\ UNCHANGED <<clock, db, store, cache, used, held, removed>>
    BY <1>6 DEF CleanupStart
  <2>2. h.pc = "pick" /\ h.op = "cleanup" /\ h.copy = NoCred
        /\ h.users = Stored /\ h.now = clock
    BY DEF Idle
  <2> HIDE DEF h
  <2> QED  BY <1>3, <2>1, <2>2
<1>7. ASSUME NEW u \in User, RenewStart(r, u)
      PROVE  \E h : MovesTo(r, h)
  <2> DEFINE h == [Idle EXCEPT !.pc = "lookup", !.op = "renew", !.user = u]
  <2>1. req' = [req EXCEPT ![r] = h] /\ req[r].pc = "idle"
        /\ UNCHANGED <<clock, db, store, cache, used, held, removed>>
    BY <1>7 DEF RenewStart
  <2>2. h.pc = "lookup" /\ h.op = "renew" /\ h.copy = NoCred
    BY DEF Idle
  <2> HIDE DEF h
  <2> QED  BY <1>3, <2>1, <2>2
<1>8. ASSUME NEW role \in Role, NEW users \in SUBSET User, RenewBatch(r, role, users)
      PROVE  \E h : MovesTo(r, h)
  <2> DEFINE h == [Idle EXCEPT !.pc = "pick", !.op = "renew_batch", !.users = users,
                               !.ttl = DefaultTTL[role]]
  <2>1. req' = [req EXCEPT ![r] = h] /\ req[r].pc = "idle"
        /\ UNCHANGED <<clock, db, store, cache, used, held, removed>>
    BY <1>8 DEF RenewBatch
  <2>2. h.pc = "pick" /\ h.op = "renew_batch" /\ h.copy = NoCred
    BY DEF Idle
  <2> HIDE DEF h
  <2> QED  BY <1>3, <2>1, <2>2
<1>9. \A role \in Role : CredentialsOf(role) \in SUBSET User
  BY DEF CredentialsOf, Stored
<1>10. Stored \in SUBSET User
  BY DEF Stored
<1> QED
  BY <1>1, <1>2, <1>4, <1>5, <1>6, <1>7, <1>8, <1>9, <1>10
  DEF RequestStarts, RevokeRole, RevokeAll

LEMMA GotoMoves ==
  ASSUME TypeInv, NEW r \in Request, NEW pc \in PC, Goto(r, pc)
  PROVE  \E h : req' = [req EXCEPT ![r] = h] /\ h.pc = pc /\ Kept(req[r], h)
<1> DEFINE h == [req[r] EXCEPT !.pc = pc]
<1>1. req' = [req EXCEPT ![r] = h]
  BY FramesOK DEF Goto
<1>2. req[r] \in Frame
  BY FramesOK DEF OKFrame
<1>3. h.pc = pc /\ Kept(req[r], h)
  BY <1>2 DEF Frame, Kept
<1> QED  BY <1>1, <1>3

LEMMA CreationMoves ==
  ASSUME TypeInv, TypeInv', NEW r \in Request,
         CreateUser(r) \/ CreationStatement(r) \/ Rollback(r)
  PROVE  \E h : MovesTo(r, h)
<1>1. CASE CreateUser(r)
  <2>1. db \in [Region -> SUBSET User]
    BY DEF TypeInv, TypeOK
  <2>2. \A g \in Region :
          db'[g] = db[g] \/ (g = req[r].copy.region /\ db'[g] = db[g] \cup {req[r].user})
    <3>1. db' = db \/ db' = [db EXCEPT ![req[r].copy.region] = @ \cup {req[r].user}]
      BY <1>1 DEF CreateUser
    <3> QED  BY <2>1, <3>1
  <2>3. CASE Return(r)
    <3>1. Creating(r, Idle)
      BY <1>1, <2>2 DEF CreateUser, Creating
    <3> QED  BY <2>3, <3>1, ReturnMoves, Placed DEF Moving
  <2>4. CASE ~Return(r)
    <3>1. PICK pc \in {"create_stmt", "put"} :
            /\ Goto(r, pc)
            /\ db' = [db EXCEPT ![req[r].copy.region] = @ \cup {req[r].user}]
      BY <1>1, <2>4 DEF CreateUser
    <3>2. PICK h : req' = [req EXCEPT ![r] = h] /\ h.pc = pc /\ Kept(req[r], h)
      BY <3>1, GotoMoves DEF PC
    <3>3. req[r].copy.region \in Region
      BY <1>1, FramesOK DEF CreateUser, OKFrame, FrameOK, Frame, Credential
    <3>4. req[r].user \in db'[req[r].copy.region]
      BY <2>1, <3>1, <3>3
    <3>5. Creating(r, h)
      BY <1>1, <2>2, <3>2, <3>4 DEF CreateUser, Creating
    <3> QED  BY <3>2, <3>5, Placed DEF Moving
  <2> QED  BY <2>3, <2>4
<1>2. CASE CreationStatement(r)
  <2>1. PICK pc \in {"put", "rollback"} : Goto(r, pc)
    BY <1>2 DEF CreationStatement
  <2>2. PICK h : req' = [req EXCEPT ![r] = h] /\ h.pc = pc /\ Kept(req[r], h)
    BY <2>1, GotoMoves DEF PC
  <2>3. Preparing(r, h)
    BY <1>2, <2>2 DEF CreationStatement, Preparing
  <2> QED  BY <2>2, <2>3, Placed DEF Moving
<1>3. CASE Rollback(r)
  <2>1. \A g \in Region : db'[g] = db[g] \/ db'[g] = db[g] \ {req[r].user}
    BY <1>3 DEF Rollback, TypeInv, TypeOK
  <2>2. RollingBack(r, Idle)
    BY <1>3, <2>1 DEF Rollback, RollingBack
  <2> QED  BY <1>3, <2>2, ReturnMoves, Placed DEF Moving, Rollback
<1> QED  BY <1>1, <1>2, <1>3

LEMMA PutMoves ==
  ASSUME TypeInv, TypeInv', NEW r \in Request, PutCredential(r)
  PROVE  \E h : MovesTo(r, h)
<1> DEFINE f    == req[r]
           cred == IF f.op = "create"
                   THEN [f.copy EXCEPT !.created = clock,
                                       !.expires = clock + DefaultTTL[f.copy.role]]
                   ELSE f.copy
<1>1. f.copy \in Credential /\ f.copy.role \in Role
  BY FramesOK DEF PutCredential, OKFrame, FrameOK, Frame, Credential
<1>2. clock \in Nat /\ clock + DefaultTTL[f.copy.role] \in Nat
  BY <1>1, LifecycleAssumption DEF TypeInv, TypeOK
<1>3. /\ cred \in Credential
      /\ cred.role = f.copy.role /\ cred.region = f.copy.region
      /\ f.op # "create" => cred = f.copy
  BY <1>1, <1>2, NewTimes DEF Credential
<1>4. CASE /\ store' = [store EXCEPT ![f.user] = cred]
           /\ req' = [req EXCEPT ![r].pc = "cache", ![r].copy = cred]
  <2> DEFINE h == [f EXCEPT !.pc = "cache", !.copy = cred]
  <2> HIDE DEF cred
  <2>1. /\ req' = [req EXCEPT ![r] = h]
        /\ h.pc = "cache" /\ h.copy = cred /\ KeptButCopy(req[r], h)
    <3>1. req' = [req EXCEPT ![r] = h]
      BY <1>4, FramesOK
    <3>2. f \in Frame
      BY FramesOK DEF OKFrame
    <3>3. h.pc = "cache" /\ h.copy = cred /\ KeptButCopy(req[r], h)
      BY <1>3, <3>2, NoCredAssumption DEF Frame, KeptButCopy
    <3> QED  BY <3>1, <3>3
  <2> HIDE DEF h
  <2>2. \A u \in User : store'[u] = IF u = f.user THEN h.copy ELSE store[u]
    BY <1>4, <2>1 DEF TypeInv, TypeOK
  <2>3. Storing(r, h)
    BY <1>3, <2>1, <2>2 DEF PutCredential, Storing
  <2> QED  BY <2>1, <2>3, Placed DEF Moving
<1>5. CASE store' = store /\ (Return(r) \/ Advance(r))
  <2>1. PICK h \in {Idle, Resumed(f)} : req' = [req EXCEPT ![r] = h]
    BY <1>5, ReturnMoves, AdvanceMoves
  <2>2. Storing(r, h)
    BY <1>5, <2>1 DEF PutCredential, Storing
  <2> QED  BY <2>1, <2>2, Placed DEF Moving
<1> QED  BY <1>4, <1>5 DEF PutCredential

LEMMA CacheMoves ==
  ASSUME TypeInv, TypeInv', NEW r \in Request, CacheCredential(r)
  PROVE  \E h : MovesTo(r, h)
<1> DEFINE f    == req[r]
           made == f.users \cup {f.user}
           new  == NewCredential(f.copy.role, f.copy.region)
           h(u) == [f EXCEPT !.pc = "create_user", !.user = u, !.users = made,
                             !.left = f.left - 1, !.copy = new]
<1>1. f \in Frame /\ f.copy \in Credential
  BY FramesOK DEF CacheCredential, OKFrame, FrameOK, Frame
<1>2. \A u \in User : cache'[u] = IF u = f.user THEN f.copy ELSE cache[u]
  BY DEF CacheCredential, TypeInv, TypeOK
<1>3. CASE used' = used /\ (Return(r) \/ Advance(r))
  <2>1. PICK x \in {Idle, Resumed(f)} : req' = [req EXCEPT ![r] = x]
    BY <1>3, ReturnMoves, AdvanceMoves
  <2>2. Caching(r, x)
    BY <1>2, <1>3, <2>1 DEF CacheCredential, Caching
  <2> QED  BY <2>1, <2>2, Placed DEF Moving
<1>4. CASE /\ f.op = "create" /\ f.left > 0
           /\ \E u \in GeneratedNames(f.copy.role) :
                used' = used \cup {u} /\ req' = [req EXCEPT ![r] = h(u)]
  <2>1. PICK u \in GeneratedNames(f.copy.role) :
          used' = used \cup {u} /\ req' = [req EXCEPT ![r] = h(u)]
    BY <1>4
  <2>2. /\ h(u).pc = "create_user" /\ h(u).op = f.op /\ h(u).user = u
        /\ h(u).copy = new /\ h(u).left = f.left - 1
    BY <1>1 DEF Frame
  <2> HIDE DEF h
  <2>3. Caching(r, h(u))
    BY <1>2, <1>4, <2>1, <2>2 DEF CacheCredential, Caching, Naming
  <2> QED  BY <2>1, <2>3, Placed DEF Moving
<1> QED  BY <1>3, <1>4 DEF CacheCredential

LEMMA PickMoves ==
  ASSUME TypeInv, TypeInv', NEW r \in Request, PickTarget(r)
  PROVE  \E h : MovesTo(r, h)
<1> DEFINE f == req[r]
<1>1. f \in Frame /\ f.copy = NoCred
  BY FramesOK DEF PickTarget, OKFrame, FrameOK
<1>2. PICK u \in f.users :
        \/ \E pc \in {"lookup", "connect"} :
             /\ f.op # "cleanup"
             /\ req' = [req EXCEPT ![r] =
                          [f EXCEPT !.user = u, !.users = f.users \ {u}, !.pc = pc]]
        \/ /\ f.op = "cleanup" /\ store[u] # NoCred
           /\ req' = [req EXCEPT ![r] =
                        [f EXCEPT !.user = u, !.users = f.users \ {u}, !.pc = "drop"]]
        \/ /\ f.op = "cleanup" /\ (store[u] # NoCred => f.now <= store[u].expires)
           /\ req' = [req EXCEPT ![r] = IF f.users = {u} THEN Idle
                                        ELSE [f EXCEPT !.users = f.users \ {u}]]
  BY <1>1 DEF PickTarget
<1>3. ASSUME NEW pc \in {"lookup", "connect"}, f.op # "cleanup",
             req' = [req EXCEPT ![r] = [f EXCEPT !.user = u, !.users = f.users \ {u}, !.pc = pc]]
      PROVE  \E h : MovesTo(r, h)
  <2> DEFINE h == [f EXCEPT !.user = u, !.users = f.users \ {u}, !.pc = pc]
  <2>1. h.pc = pc /\ h.copy = NoCred /\ h.op = f.op
    BY <1>1 DEF Frame
  <2>2. req' = [req EXCEPT ![r] = h]
    BY <1>3
  <2> HIDE DEF h
  <2>3. Picking(r, h)
    BY <1>3, <2>1 DEF PickTarget, Picking
  <2> QED  BY <2>2, <2>3, Placed DEF Moving
<1>4. ASSUME f.op = "cleanup", store[u] # NoCred,
             req' = [req EXCEPT ![r] = [f EXCEPT !.user = u, !.users = f.users \ {u}, !.pc = "drop"]]
      PROVE  \E h : MovesTo(r, h)
  <2> DEFINE h == [f EXCEPT !.pc = "drop", !.user = u, !.users = f.users \ {u}]
  <2>1. h.copy = NoCred
    BY <1>1 DEF Frame
  <2>2. req' = [req EXCEPT ![r] = h]
    <3>1. h = [f EXCEPT !.user = u, !.users = f.users \ {u}, !.pc = "drop"]
      BY <1>1 DEF Frame
    <3> QED  BY <1>4, <3>1
  <2>3. \E v \in req[r].users :
          /\ req[r].op = "cleanup" /\ h.copy = NoCred /\ store[v] # NoCred
          /\ h = [req[r] EXCEPT !.pc = "drop", !.user = v, !.users = req[r].users \ {v}]
    BY <1>4, <2>1
  <2> HIDE DEF h
  <2>4. Picking(r, h)
    BY <2>3 DEF PickTarget, Picking
  <2> QED  BY <2>2, <2>4, Placed DEF Moving
<1>5. ASSUME f.op = "cleanup", store[u] # NoCred => f.now <= store[u].expires,
             req' = [req EXCEPT ![r] = IF f.users = {u} THEN Idle
                                       ELSE [f EXCEPT !.users = f.users \ {u}]]
      PROVE  \E h : MovesTo(r, h)
  <2> DEFINE h == IF f.users = {u} THEN Idle ELSE [f EXCEPT !.users = f.users \ {u}]
  <2>1. \E v \in req[r].users :
          /\ req[r].op = "cleanup"
          /\ store[v] # NoCred => req[r].now <= store[v].expires
          /\ h = IF req[r].users = {v} THEN Idle
                 ELSE [req[r] EXCEPT !.users = req[r].users \ {v}]
    BY <1>5
  <2>2. req' = [req EXCEPT ![r] = h]
    BY <1>5
  <2> HIDE DEF h
  <2>3. Picking(r, h)
    BY <2>1 DEF PickTarget, Picking
  <2> QED  BY <2>2, <2>3, Placed DEF Moving
<1> QED  BY <1>2, <1>3, <1>4, <1>5

LEMMA LookupMoves ==
  ASSUME TypeInv, TypeInv', NEW r \in Request, Lookup(r) \/ FillCache(r)
  PROVE  \E h : MovesTo(r, h)
<1> DEFINE f == req[r]
<1>0. f \in Frame /\ f.user \in User /\ AfterLookup(f) \in {"connect", "alter"}
  BY FramesOK DEF Lookup, FillCache, OKFrame, FrameOK, AfterLookup
<1>1. CASE Lookup(r) /\ Advance(r)
  <2>1. LookingUp(r, Resumed(f))
    BY <1>1 DEF Lookup, LookingUp
  <2> QED  BY <1>1, <2>1, AdvanceMoves, Placed DEF Moving
<1>2. CASE Lookup(r) /\ ~Advance(r)
  <2>1. PICK pc, c : /\ c # NoCred
                     /\ \/ pc = "fill" /\ c = store[f.user]
                        \/ pc \in {"connect", "alter"} /\ c = cache[f.user]
                     /\ req' = [req EXCEPT ![r].pc = pc, ![r].copy = c]
    BY <1>0, <1>2 DEF Lookup
  <2> DEFINE h == [f EXCEPT !.pc = pc, !.copy = c]
  <2>2. req' = [req EXCEPT ![r] = h]
    BY <2>1, FramesOK
  <2>3. h.pc = pc /\ h.copy = c /\ KeptButCopy(f, h)
    BY <1>0, <2>1 DEF Frame, KeptButCopy
  <2> HIDE DEF h
  <2>4. LookingUp(r, h)
    BY <1>2, <2>1, <2>3 DEF Lookup, LookingUp
  <2> QED  BY <2>2, <2>4, Placed DEF Moving
<1>3. CASE FillCache(r)
  <2>1. PICK h : req' = [req EXCEPT ![r] = h] /\ h.pc = AfterLookup(f) /\ Kept(f, h)
    BY <1>0, <1>3, GotoMoves DEF FillCache, PC
  <2>2. \A u \in User : cache'[u] = IF u = f.user THEN f.copy ELSE cache[u]
    BY <1>3 DEF FillCache, TypeInv, TypeOK
  <2>3. Filling(r, h)
    BY <1>0, <1>3, <2>1, <2>2 DEF FillCache, Filling
  <2> QED  BY <2>1, <2>3, Placed DEF Moving
<1> QED  BY <1>1, <1>2, <1>3

LEMMA AlterMoves ==
  ASSUME TypeInv, TypeInv', NEW r \in Request, AlterPassword(r)
  PROVE  \E h : MovesTo(r, h)
<1> DEFINE f    == req[r]
           ttl  == IF f.op = "renew_batch" THEN f.ttl ELSE DefaultTTL[f.copy.role]
           t    == clock + ttl
           cred == [f.copy EXCEPT !.expires = t]
           h    == [f EXCEPT !.pc = "put", !.copy = cred]
<1>1. f \in Frame /\ f.copy \in Credential /\ f.copy.role \in Role
  BY FramesOK DEF AlterPassword, OKFrame, FrameOK, Frame, Credential
<1>2. CASE Advance(r) /\ cache' = cache
  <2>1. Altering(r, Resumed(f))
    BY <1>2 DEF AlterPassword, Altering
  <2> QED  BY <1>2, <2>1, AdvanceMoves, Placed DEF Moving
<1>3. CASE /\ f.user \in db[DefaultRegion]
           /\ cache' = [cache EXCEPT ![f.user] = IF @ = f.copy THEN cred ELSE @]
           /\ req' = [req EXCEPT ![r].pc = "put", ![r].copy = cred]
  <2>1. t \in Nat
    <3>1. f.ttl \in Nat /\ DefaultTTL[f.copy.role] \in Nat /\ clock \in Nat
      BY <1>1, LifecycleAssumption DEF Frame, TypeInv, TypeOK
    <3> QED  BY <3>1
  <2>2. cred \in Credential /\ cred.role = f.copy.role
    <3> HIDE DEF t
    <3> QED  BY <1>1, <2>1 DEF Credential
  <2> HIDE DEF cred
  <2>3. req' = [req EXCEPT ![r] = h]
    BY <1>3, FramesOK
  <2>4. h.pc = "put" /\ h.copy = cred /\ KeptButCopy(f, h)
    BY <1>1, <2>2, NoCredAssumption DEF Frame, KeptButCopy
  <2>5. \A u \in User : cache'[u] = IF u = f.user /\ cache[u] = f.copy THEN cred ELSE cache[u]
    BY <1>3 DEF TypeInv, TypeOK
  <2> HIDE DEF h
  <2>6. Altering(r, h)
    BY <1>3, <2>2, <2>4, <2>5 DEF AlterPassword, Altering
  <2> QED  BY <2>3, <2>6, Placed DEF Moving
<1> QED  BY <1>2, <1>3 DEF AlterPassword

LEMMA RemovalMoves ==
  ASSUME TypeInv, TypeInv', NEW r \in Request,
         Connect(r) \/ DropUser(r) \/ DeleteCredential(r) \/ InvalidateCache(r)
  PROVE  \E h : MovesTo(r, h)
<1> DEFINE f == req[r]
<1>1. CASE Connect(r)
  <2>1. CASE Advance(r)
    <3>1. Connecting(r, Resumed(f))
      BY <1>1 DEF Connect, Connecting
    <3> QED  BY <2>1, <3>1, AdvanceMoves, Placed DEF Moving
  <2>2. CASE ~Advance(r)
    <3>1. PICK pc \in {"alter", "drop"} : Goto(r, pc)
      BY <1>1, <2>2 DEF Connect
    <3>2. PICK h : req' = [req EXCEPT ![r] = h] /\ h.pc = pc /\ Kept(f, h)
      BY <3>1, GotoMoves DEF PC
    <3>3. Connecting(r, h)
      BY <1>1, <3>2 DEF Connect, Connecting
    <3> QED  BY <3>2, <3>3, Placed DEF Moving
  <2> QED  BY <2>1, <2>2
<1>2. CASE DropUser(r)
  <2>1. \A g \in Region : db'[g] = db[g] \/ db'[g] = db[g] \ {f.user}
    BY <1>2 DEF DropUser, TypeInv, TypeOK
  <2>2. CASE Advance(r) /\ (CallsMayFail \/ f.user \notin db[DefaultRegion])
    <3>1. Dropping(r, Resumed(f))
      BY <1>2, <2>1, <2>2 DEF DropUser, Dropping
    <3> QED  BY <2>2, <3>1, AdvanceMoves, Placed DEF Moving
  <2>3. CASE Goto(r, "delete")
    <3>1. PICK h : req' = [req EXCEPT ![r] = h] /\ h.pc = "delete" /\ Kept(f, h)
      BY <2>3, GotoMoves DEF PC
    <3>2. Dropping(r, h)
      BY <1>2, <2>1, <3>1 DEF DropUser, Dropping
    <3> QED  BY <3>1, <3>2, Placed DEF Moving
  <2> QED  BY <1>2, <2>2, <2>3 DEF DropUser
<1>3. CASE DeleteCredential(r)
  <2>1. CASE Advance(r) /\ CallsMayFail /\ store' = store
    <3>1. Deleting(r, Resumed(f))
      BY <1>3, <2>1 DEF DeleteCredential, Deleting
    <3> QED  BY <2>1, <3>1, AdvanceMoves, Placed DEF Moving
  <2>2. CASE Goto(r, "invalidate") /\ store' = [store EXCEPT ![f.user] = NoCred]
    <3>1. PICK h : req' = [req EXCEPT ![r] = h] /\ h.pc = "invalidate" /\ Kept(f, h)
      BY <2>2, GotoMoves DEF PC
    <3>2. \A u \in User : store'[u] = IF u = f.user THEN NoCred ELSE store[u]
      BY <2>2 DEF TypeInv, TypeOK
    <3>3. Deleting(r, h)
      BY <1>3, <3>1, <3>2 DEF DeleteCredential, Deleting
    <3> QED  BY <3>1, <3>3, Placed DEF Moving
  <2> QED  BY <1>3, <2>1, <2>2 DEF DeleteCredential
<1>4. CASE InvalidateCache(r)
  <2>1. \A u \in User : cache'[u] = IF u = f.user THEN NoCred ELSE cache[u]
    BY <1>4 DEF InvalidateCache, TypeInv, TypeOK
  <2>2. Invalidating(r, Resumed(f))
    BY <1>4, <2>1 DEF InvalidateCache, Invalidating
  <2> QED  BY <1>4, <2>2, AdvanceMoves, Placed DEF InvalidateCache, Moving
<1> QED  BY <1>1, <1>2, <1>3, <1>4

\* Every step is a request's, or the process dies, or time passes.
LEMMA StepShape ==
  ASSUME TypeInv, [Next]_vars
  PROVE  (\E r \in Request : \E h : MovesTo(r, h)) \/ Dying \/ Drifting
<1>1. TypeInv'
  BY StepOK
<1>2. ASSUME Crash \/ \E r \in Request : NilRetryPanic(r)  PROVE  Dying
  BY <1>2 DEF Crash, NilRetryPanic, PluginDies, Dying
<1>3. ASSUME NEW r \in Request, RequestStarts(r) \/ RequestContinues(r)
      PROVE  (\E h : MovesTo(r, h)) \/ Dying
  BY <1>1, <1>2, <1>3, StartsMove, CreationMoves, PutMoves, CacheMoves, PickMoves,
     LookupMoves, AlterMoves, RemovalMoves
  DEF RequestContinues
<1>4. ASSUME (\E u \in User : CacheExpire(u)) \/ Tick \/ UNCHANGED vars
      PROVE  Drifting
  <2>1. \A u \in User : cache'[u] = cache[u] \/ cache'[u] = NoCred
    BY <1>4 DEF CacheExpire, Tick, vars, TypeInv, TypeOK
  <2> QED  BY <1>4, <2>1 DEF CacheExpire, Tick, vars, Drifting
<1> QED  BY <1>2, <1>3, <1>4 DEF Next

-----------------------------------------------------------------------------
(* However old, a copy of a record names the role that made the user.         *)

LEMMA CopyOf ==
  \A u, c : c \in Copies(u) <=>
    /\ c # NoCred
    /\ \/ c = store[u] \/ c = cache[u]
       \/ \E s \in Request : req[s].user = u /\ c = req[s].copy
  BY DEF Copies

LEMMA CopyOfNext ==
  \A u, c : c \in Copies(u)' <=>
    /\ c # NoCred
    /\ \/ c = store'[u] \/ c = cache'[u]
       \/ \E s \in Request : req'[s].user = u /\ c = req'[s].copy
  BY DEF Copies

\* A name that has not been generated yet is in no record.
LEMMA NewNameHasNoCopies ==
  ASSUME LifecycleInv, NEW u \in User, u \notin used
  PROVE  /\ store[u] = NoCred /\ cache[u] = NoCred
         /\ \A s \in Request : req[s].user = u => req[s].copy = NoCred
<1>1. store[u] = NoCred /\ cache[u] = NoCred
  BY DEF LifecycleInv, PastInv, Past
<1>2. ASSUME NEW s \in Request, req[s].user = u, req[s].copy # NoCred
      PROVE  FALSE
  <2>1. req[s] \in OKFrame
    BY FramesOK, InvTypes
  <2>2. ~Making(req[s])
    BY <1>2 DEF LifecycleInv, NamesInv
  <2>3. req[s].pc \notin {"idle", "pick", "lookup"}
    BY <1>2, <2>1 DEF OKFrame, FrameOK, Idle
  <2>4. u \in Known(req[s])
    BY <1>2, <2>2, <2>3 DEF Known
  <2> QED  BY <2>4, KnownIsPast DEF Past
<1> QED  BY <1>1, <1>2

\* A role that is named by some copy of the user's record.
Traced(u, c) == \E d \in Copies(u) : c.role = d.role

LEMMA TracedKeepsRoles ==
  ASSUME RoleInv,
         NEW new,
         \A u \in User : \A c \in Copies(u)' : Traced(u, c) \/ u = new,
         \A c, d \in Copies(new)' : c.role = d.role
  PROVE  RoleInv'
<1>1. ASSUME NEW u \in User, NEW c \in Copies(u)', NEW d \in Copies(u)', u # new
      PROVE  c.role = d.role
  BY <1>1 DEF RoleInv, Traced
<1>2. ASSUME NEW u \in User, NEW c \in Copies(u)', NEW d \in Copies(u)', u = new
      PROVE  c.role = d.role
  BY <1>2
<1> QED  BY <1>1, <1>2 DEF RoleInv

\* A step that writes only copies of the record it found keeps the roles.
LEMMA RolesTraced ==
  ASSUME RoleInv, NEW r \in Request, NEW h,
         req'[r] = h, \A s \in Request : s # r => req'[s] = req[s],
         h.copy # NoCred => Traced(h.user, h.copy),
         \A u \in User : store'[u] # NoCred => Traced(u, store'[u]),
         \A u \in User : cache'[u] # NoCred => Traced(u, cache'[u])
  PROVE  RoleInv'
<1>1. ASSUME NEW u \in User, NEW c \in Copies(u)'
      PROVE  Traced(u, c)
  <2>1. CASE c = store'[u] \/ c = cache'[u]
    BY <1>1, <2>1, CopyOfNext
  <2>2. CASE \E s \in Request : req'[s].user = u /\ c = req'[s].copy
    <3>1. PICK s \in Request : req'[s].user = u /\ c = req'[s].copy
      BY <2>2
    <3>2. CASE s = r
      BY <1>1, <3>1, <3>2, CopyOfNext
    <3>3. CASE s # r
      <4>1. c \in Copies(u)
        BY <1>1, <3>1, <3>3, CopyOf, CopyOfNext
      <4> QED  BY <4>1 DEF Traced
    <3> QED  BY <3>2, <3>3
  <2> QED  BY <1>1, <2>1, <2>2, CopyOfNext
<1>2. ASSUME NEW u \in User, NEW c \in Copies(u)', NEW d \in Copies(u)'
      PROVE  c.role = d.role
  BY <1>1 DEF RoleInv, Traced
<1> QED  BY <1>2 DEF RoleInv

LEMMA OwnCopiesTraced ==
  ASSUME NEW u
  PROVE  /\ store[u] # NoCred => Traced(u, store[u])
         /\ cache[u] # NoCred => Traced(u, cache[u])
         /\ \A s \in Request : req[s].user = u /\ req[s].copy # NoCred
              => Traced(u, req[s].copy)
  BY CopyOf DEF Traced

\* A new name gets its first copy.
LEMMA RolesNamed ==
  ASSUME LifecycleInv, RoleInv, NEW r \in Request, NEW h,
         req'[r] = h, \A s \in Request : s # r => req'[s] = req[s],
         h.user \in User \ used, store' = store,
         \A u \in User : cache'[u] # NoCred => Traced(u, cache'[u])
  PROVE  RoleInv'
<1>1. \A c \in Copies(h.user)' : c = h.copy
  <2>1. store'[h.user] = NoCred /\ cache'[h.user] = NoCred
    <3>1. ~\E c : Traced(h.user, c)
      BY NewNameHasNoCopies, CopyOf DEF Traced
    <3> QED  BY <3>1, NewNameHasNoCopies
  <2>2. \A s \in Request : s # r /\ req'[s].user = h.user => req'[s].copy = NoCred
    BY NewNameHasNoCopies
  <2> QED  BY <2>1, <2>2, CopyOfNext
<1>2. ASSUME NEW u \in User, NEW c \in Copies(u)', u # h.user
      PROVE  Traced(u, c)
  <2>1. \/ c # NoCred /\ (c = store[u] \/ c = cache'[u])
        \/ \E s \in Request : req[s].user = u /\ c = req[s].copy /\ c # NoCred
    BY <1>2, CopyOfNext
  <2> QED  BY <1>2, <2>1, OwnCopiesTraced
<1>3. \A c, d \in Copies(h.user)' : c.role = d.role
  BY <1>1
<1> QED  BY <1>2, <1>3, TracedKeepsRoles

LEMMA FreshNames ==
  ASSUME RandomSuffixes, NEW role \in Role
  PROVE  GeneratedNames(role) \subseteq User \ used
  BY DEF RandomSuffixes, GeneratedNames

\* A frame a handler leaves its user at has no copy and no name any more.
LEMMA LeftFields ==
  ASSUME NEW f \in OKFrame, NEW h \in {Idle, Resumed(f)}
  PROVE  /\ h.copy = NoCred /\ h.user = NoUser /\ h.pc \in {"idle", "pick"}
         /\ h.op \in {"none", f.op} /\ (h \in OKFrame => h.op # "create")
         /\ h = Idle \/ (h.users = f.users /\ h.now = f.now /\ h.left = f.left)
<1>1. f \in Frame
  BY DEF OKFrame
<1>2. CASE h = Idle
  BY <1>2 DEF Idle
<1>3. CASE f.users # {} /\ h = [f EXCEPT !.pc = "pick", !.user = NoUser, !.copy = NoCred]
  BY <1>1, <1>3 DEF Frame, OKFrame, FrameOK
<1> QED  BY <1>2, <1>3 DEF Resumed

\* The frame of a loop that has picked its next user.
LEMMA PickedFields ==
  ASSUME NEW r \in Request, NEW h, MovesTo(r, h), Picking(r, h)
  PROVE  /\ req[r].op # "create" /\ h.op \in {"none", req[r].op}
         /\ h.pc \in {"idle", "pick", "lookup", "connect", "drop"}
<1> DEFINE f == req[r]
<1>1. f \in Frame /\ f.op # "create" /\ f.pc = "pick"
  BY DEF MovesTo, OKFrame, FrameOK, Picking
<1>2. ASSUME NEW S, h = [f EXCEPT !.users = S]
      PROVE  h.op = f.op /\ h.pc = "pick"
  BY <1>1, <1>2 DEF Frame
<1>3. ASSUME NEW S, NEW u, h = [f EXCEPT !.pc = "drop", !.user = u, !.users = S]
      PROVE  h.op = f.op /\ h.pc = "drop"
  BY <1>1, <1>3 DEF Frame
<1>4. Idle.op = "none" /\ Idle.pc = "idle"
  BY DEF Idle
<1>5. \/ h.op = f.op /\ h.pc \in {"lookup", "connect"}
      \/ h = Idle
      \/ \E S, u : h = [f EXCEPT !.pc = "drop", !.user = u, !.users = S]
      \/ \E S : h = [f EXCEPT !.users = S]
  BY DEF Picking
<1> QED  BY <1>1, <1>2, <1>3, <1>4, <1>5

\* The copy a step of a request leaves in its frame: none, the one it had, or
\* one that the steps named here have made or found.
LEMMA CopyLeft ==
  ASSUME NEW r \in Request, NEW h, MovesTo(r, h)
  PROVE  \/ h.copy = NoCred
         \/ h.user = req[r].user /\ h.copy = req[r].copy
         \/ Admitting(r, h) \/ Extending(r, h) \/ LookingUp(r, h)
         \/ Storing(r, h) \/ Caching(r, h) \/ Altering(r, h)
<1> DEFINE f == req[r]
<1>1. f \in OKFrame /\ f \in Frame /\ Moving(r, h)
  BY DEF MovesTo, OKFrame
<1>2. Idle.copy = NoCred
  BY DEF Idle
<1>3. CASE h = Resumed(f) \/ h = Idle
  BY <1>1, <1>2, <1>3, LeftFields
<1>4. CASE Picking(r, h)
  <2>1. f.copy = NoCred
    BY <1>1, <1>4 DEF Picking, OKFrame, FrameOK
  <2>2. ASSUME NEW S, h = [f EXCEPT !.users = S]
        PROVE  h.copy = f.copy
    BY <1>1, <2>2 DEF Frame
  <2> QED  BY <1>2, <1>4, <2>1, <2>2 DEF Picking
<1> QED
  BY <1>1, <1>3, <1>4
  DEF Moving, Starting, Creating, Preparing, RollingBack, Filling, Connecting, Dropping,
      Deleting, Invalidating, Kept

LEMMA RoleStep ==
  ASSUME RandomSuffixes, LifecycleInv, RoleInv, [Next]_vars
  PROVE  RoleInv'
<1>0. (\E r \in Request : \E h : MovesTo(r, h)) \/ Dying \/ Drifting
  BY InvTypes, StepShape
<1>1. ASSUME NEW r \in Request, NEW h, MovesTo(r, h)
      PROVE  RoleInv'
  <2> DEFINE f == req[r]
  <2>0. /\ f \in OKFrame /\ req'[r] = h /\ Moving(r, h)
        /\ \A s \in Request : s # r => req'[s] = req[s]
    BY <1>1 DEF MovesTo
  <2>1. CASE Admitting(r, h)
    <3>1. PICK role \in Role : h.user \in GeneratedNames(role)
      BY <2>1 DEF Admitting, Naming
    <3>2. h.user \in User \ used
      BY <3>1, FreshNames
    <3> QED  BY <2>0, <2>1, <3>2, OwnCopiesTraced, RolesNamed DEF Admitting
  <2>2. CASE Caching(r, h)
    <3>1. f.user \in User /\ f.copy \in Credential /\ f.copy # NoCred
      BY <2>0, <2>2 DEF Caching, OKFrame, FrameOK, Frame
    <3>2. \A u \in User : cache'[u] # NoCred => Traced(u, cache'[u])
      BY <2>2, <3>1, OwnCopiesTraced DEF Caching
    <3>3. CASE h \in {Idle, Resumed(f)}
      <4>1. h.copy = NoCred
        BY <2>0, <3>3, LeftFields
      <4> QED  BY <2>0, <2>2, <3>2, <4>1, OwnCopiesTraced, RolesTraced DEF Caching
    <3>4. CASE Naming(h, f.copy.role, f.copy.region)
      <4>1. h.user \in User \ used
        BY <3>1, <3>4, FreshNames DEF Naming, Credential
      <4> QED  BY <2>0, <2>2, <3>2, <4>1, RolesNamed DEF Caching
    <3> QED  BY <2>2, <3>3, <3>4 DEF Caching
  <2>3. CASE Extending(r, h)
    <3>1. PICK u \in User, requested \in RequestedTTLs :
            /\ h.user = u /\ store[u] # NoCred
            /\ h.copy = [store[u] EXCEPT !.expires = ExtendedExpiry(store[u], requested)]
      BY <2>3 DEF Extending
    <3>2. store[u] \in Credential
      BY <3>1, InvTypes DEF TypeInv, TypeOK
    <3>3. h.copy.role = store[u].role
      BY <3>1, <3>2 DEF Credential
    <3>4. Traced(h.user, h.copy)
      BY <3>1, <3>3, CopyOf DEF Traced
    <3> QED  BY <2>0, <2>3, <3>4, OwnCopiesTraced, RolesTraced DEF Extending
  <2>4. CASE Storing(r, h)
    <3>1. f.copy # NoCred
      BY <2>0, <2>4 DEF Storing, OKFrame, FrameOK
    <3>2. h.copy # NoCred => Traced(f.user, h.copy) /\ h.user = f.user
      BY <2>0, <2>4, <3>1, LeftFields, CopyOf DEF Storing, KeptButCopy, Traced
    <3> QED  BY <2>0, <2>4, <3>2, OwnCopiesTraced, RolesTraced DEF Storing, KeptButCopy
  <2>5. CASE LookingUp(r, h)
    <3>1. h.copy # NoCred => Traced(h.user, h.copy)
      BY <2>0, <2>5, LeftFields, OwnCopiesTraced DEF LookingUp, KeptButCopy
    <3> QED  BY <2>0, <2>5, <3>1, OwnCopiesTraced, RolesTraced DEF LookingUp
  <2>6. CASE Altering(r, h)
    <3>1. f.copy # NoCred
      BY <2>0, <2>6 DEF Altering, OKFrame, FrameOK
    <3>2. h.copy # NoCred => Traced(f.user, h.copy) /\ h.user = f.user
      BY <2>0, <2>6, <3>1, LeftFields, CopyOf DEF Altering, KeptButCopy, Traced
    <3>3. \A u \in User : cache'[u] # NoCred => Traced(u, cache'[u])
      BY <2>6, <3>2, OwnCopiesTraced DEF Altering, KeptButCopy
    <3> QED  BY <2>0, <2>6, <3>2, <3>3, OwnCopiesTraced, RolesTraced DEF Altering
  <2>7. CASE ~(\/ Admitting(r, h) \/ Extending(r, h) \/ LookingUp(r, h)
               \/ Storing(r, h) \/ Caching(r, h) \/ Altering(r, h))
    <3>1. h.copy # NoCred => Traced(h.user, h.copy)
      BY <1>1, <2>7, CopyLeft, OwnCopiesTraced
    <3>2. \A u \in User : /\ store'[u] = store[u] \/ store'[u] = NoCred
                          /\ \/ cache'[u] = cache[u] \/ cache'[u] = NoCred
                             \/ u = f.user /\ cache'[u] = f.copy
      BY <2>0, <2>7
      DEF Moving, Starting, Creating, Preparing, RollingBack, Picking, Filling, Connecting,
          Dropping, Deleting, Invalidating
    <3> QED  BY <2>0, <3>1, <3>2, OwnCopiesTraced, RolesTraced
  <2> QED  BY <2>1, <2>2, <2>3, <2>4, <2>5, <2>6, <2>7
<1>2. CASE Dying
  <2>1. Idle.copy = NoCred
    BY DEF Idle
  <2>2. \A u \in User : \A c \in Copies(u)' : c \in Copies(u)
    BY <1>2, <2>1, CopyOf, CopyOfNext DEF Dying
  <2> QED  BY <2>2 DEF RoleInv
<1>3. CASE Drifting
  <2>1. \A u \in User : \A c \in Copies(u)' : c \in Copies(u)
    BY <1>3, CopyOf, CopyOfNext DEF Drifting
  <2> QED  BY <2>1 DEF RoleInv
<1> QED  BY <1>0, <1>1, <1>2, <1>3

LEMMA RoleInvariant ==
  ASSUME RandomSuffixes
  PROVE  Spec => []RoleInv
<1>1. Init => RoleInv
  BY DEF Init, RoleInv, Copies, Idle
<1>2. LifecycleInv /\ RoleInv /\ [Next]_vars => RoleInv'
  BY RoleStep
<1> QED  BY <1>1, <1>2, LifecycleInvariant, PTL DEF Spec

-----------------------------------------------------------------------------
(* max_ttl.  With the nil retry configuration of the code only an extension   *)
(* moves the expiry of a record.                                              *)

\* ExtendLease cuts the expiry to what max_ttl leaves.
LEMMA ExtendedExpiryIsCapped ==
  ASSUME NEW cred \in Credential, NEW requested \in RequestedTTLs, MaxTTL[cred.role] > 0,
         clock \in Nat
  PROVE  ExtendedExpiry(cred, requested) <= cred.created + MaxTTL[cred.role]
<1>1. cred.role \in Role /\ cred.created \in Nat
  BY DEF Credential
<1>2. MaxTTL[cred.role] \in Nat /\ DefaultTTL[cred.role] \in Nat /\ requested \in Nat
  BY <1>1, LifecycleAssumption
<1> QED  BY <1>1, <1>2 DEF ExtendedExpiry

LEMMA CappedKept ==
  ASSUME NilRetryPanics, TypeInv, NEW r \in Request, NEW h, MovesTo(r, h), Capped(req[r])
  PROVE  Capped(h)
<1> DEFINE f == req[r]
<1>0. f \in OKFrame /\ f \in Frame /\ Moving(r, h)
  BY DEF MovesTo, OKFrame
<1>1. CASE Extending(r, h)
  <2>1. PICK u \in User, requested \in RequestedTTLs :
          /\ store[u] # NoCred
          /\ h.copy = [store[u] EXCEPT !.expires = ExtendedExpiry(store[u], requested)]
    BY <1>1 DEF Extending
  <2>2. store[u] \in Credential /\ clock \in Nat
    BY <2>1 DEF TypeInv, TypeOK
  <2>3. /\ h.copy.role = store[u].role /\ h.copy.created = store[u].created
        /\ h.copy.expires = ExtendedExpiry(store[u], requested)
    BY <2>1, <2>2 DEF Credential
  <2>4. h.op = "extend" /\ h.pc = "put"
    BY <1>1 DEF Extending
  <2> QED  BY <2>2, <2>3, <2>4, ExtendedExpiryIsCapped DEF Capped
<1>2. CASE Creating(r, h) \/ Preparing(r, h)
  <2>1. f.op = "create"
    BY <1>0, <1>2 DEF Creating, Preparing, OKFrame, FrameOK
  <2>2. h.op \in {"create", "none"}
    BY <1>2, <2>1 DEF Creating, Preparing, Kept, Idle
  <2> QED  BY <2>2 DEF Capped
<1>3. CASE h \in {Idle, Resumed(f)}
  BY <1>0, <1>3, LeftFields DEF Capped
<1>4. CASE Storing(r, h) \/ Caching(r, h)
  BY <1>3, <1>4 DEF Storing, Caching, Naming, KeptButCopy, Capped
<1>5. CASE Picking(r, h)
  <2>1. ASSUME NEW S, h = [f EXCEPT !.users = S]
        PROVE  Capped(h)
    BY <1>0, <1>5, <2>1 DEF Picking, Frame, Capped
  <2>2. ASSUME NEW S, NEW u, h = [f EXCEPT !.pc = "drop", !.user = u, !.users = S]
        PROVE  Capped(h)
    BY <1>0, <2>2 DEF Frame, Capped
  <2> QED  BY <1>3, <1>5, <2>1, <2>2 DEF Picking, Capped
<1> QED
  BY <1>0, <1>1, <1>2, <1>3, <1>4, <1>5
  DEF Moving, Starting, Admitting, Naming, RollingBack, LookingUp, Filling, Connecting,
      Altering, Dropping, Deleting, Invalidating, Kept, KeptButCopy, Capped

LEMMA ExtensionStep ==
  ASSUME NilRetryPanics, TypeInv, ExtensionInv, [Next]_vars
  PROVE  ExtensionInv'
<1>1. ASSUME NEW r \in Request, NEW h, MovesTo(r, h)
      PROVE  ExtensionInv'
  <2>1. Capped(h)
    BY <1>1, CappedKept DEF ExtensionInv
  <2> QED  BY <1>1, <2>1 DEF MovesTo, ExtensionInv
<1>2. CASE Dying \/ Drifting
  <2>1. Capped(Idle)
    BY DEF Idle, Capped
  <2> QED  BY <1>2, <2>1 DEF Dying, Drifting, ExtensionInv
<1> QED  BY <1>1, <1>2, StepShape

\* Only a request that is past its other calls writes a record over another.
LEMMA OnlyStoringRewrites ==
  ASSUME LifecycleInv, [Next]_vars, NEW u \in User, store[u] # NoCred, store'[u] # NoCred,
         store'[u] # store[u]
  PROVE  \E r \in Request : /\ req[r].pc = "put" /\ req[r].user = u /\ ~Making(req[r])
                            /\ store'[u] = req[r].copy
<1>1. \E r \in Request : \E h : MovesTo(r, h)
  BY InvTypes, StepShape DEF Dying, Drifting
<1> PICK r \in Request : \E h : MovesTo(r, h)
  BY <1>1
<1> PICK h : MovesTo(r, h)
  OBVIOUS
<1>2. Storing(r, h)
  BY DEF MovesTo, Moving, Starting, Admitting, Extending, Creating, Preparing, RollingBack,
      Caching, Picking, LookingUp, Filling, Connecting, Altering, Dropping, Deleting, Invalidating
<1>3. u = req[r].user /\ store'[u] = h.copy
  BY <1>2 DEF Storing
<1>4. ~Making(req[r])
  BY <1>3, MakingIsUnknown
<1> QED  BY <1>2, <1>3, <1>4 DEF Storing, Making

\* leases/extend never moves an expiry beyond max_ttl, whatever ttl the caller
\* asks for and however late the record is written.  That no renewal does is
\* owed to the nil retry configuration, which keeps it from its write.
THEOREM ExtensionsRespectMaxTTL ==
  ASSUME RandomSuffixes, NilRetryPanics
  PROVE  Spec => ExtensionWithinMaxTTL
<1>1. Init => ExtensionInv
  BY DEF Init, ExtensionInv, Capped, Idle
<1>2. LifecycleInv /\ ExtensionInv /\ [Next]_vars => ExtensionInv'
  BY InvTypes, ExtensionStep
<1>3. LifecycleInv /\ RoleInv /\ ExtensionInv /\ [Next]_vars =>
        [\A u \in User :
          /\ store[u] # NoCred /\ store'[u] # NoCred
          /\ store'[u].expires > store[u].expires
          /\ MaxTTL[store[u].role] > 0
          => store'[u].expires <= store'[u].created + MaxTTL[store[u].role]]_vars
  <2> SUFFICES ASSUME LifecycleInv, RoleInv, ExtensionInv, [Next]_vars, NEW u \in User,
                      store[u] # NoCred, store'[u] # NoCred,
                      store'[u].expires > store[u].expires, MaxTTL[store[u].role] > 0
               PROVE  store'[u].expires <= store'[u].created + MaxTTL[store[u].role]
    OBVIOUS
  <2>1. store'[u] # store[u]
    <3>1. store[u] \in Credential
      BY InvTypes DEF TypeInv, TypeOK
    <3>2. store[u].expires \in Nat
      BY <3>1 DEF Credential
    <3> QED  BY <3>2
  <2>2. PICK r \in Request : /\ req[r].pc = "put" /\ req[r].user = u /\ ~Making(req[r])
                             /\ store'[u] = req[r].copy
    BY <2>1, OnlyStoringRewrites
  <2>3. req[r].op \in {"extend", "renew", "renew_batch"} /\ req[r].copy # NoCred
    BY <2>2, FramesOK, InvTypes DEF OKFrame, FrameOK, Making
  <2>4. req[r].op = "extend" /\ Capped(req[r])
    BY <2>2, <2>3 DEF ExtensionInv, Capped
  <2>5. req[r].copy.role = store[u].role
    BY <2>2, <2>3, CopyOf DEF RoleInv
  <2> QED  BY <2>2, <2>4, <2>5 DEF Capped
<1> QED
  BY <1>1, <1>2, <1>3, LifecycleInvariant, RoleInvariant, PTL DEF Spec, ExtensionWithinMaxTTL

-----------------------------------------------------------------------------
(* Users that are in a database and in somebody's hands have a record.        *)

\* Only what has been stored once can be shared.
LEMMA SharedIsPast ==
  ASSUME LifecycleInv, NEW u \in User, Shared(u)
  PROVE  Past(u)
<1>1. CASE cache[u] # NoCred
  BY <1>1 DEF LifecycleInv, PastInv
<1>2. ASSUME NEW s \in Request, req[s].user = u, req[s].copy # NoCred, ~Making(req[s])
      PROVE  Past(u)
  <2>1. req[s] \in OKFrame
    BY FramesOK, InvTypes
  <2>2. u \in Known(req[s])
    BY <1>2, <2>1 DEF Known, OKFrame, FrameOK, Idle
  <2> QED  BY <2>2, KnownIsPast
<1> QED  BY <1>1, <1>2 DEF Shared

LEMMA ListedKept ==
  ASSUME LifecycleInv, ListedInv, NEW r \in Request, NEW h,
         req'[r] = h, \A s \in Request : s # r => req'[s] = req[s],
         \A u \in User : cache'[u] # NoCred => Shared(u) \/ store'[u] # NoCred,
         h.copy # NoCred /\ ~Making(h) => Shared(h.user) \/ store'[h.user] # NoCred,
         \A u \in User, g \in Region :
           u \in db'[g] /\ Shared(u) => u \in db[g],
         \A u \in User, g \in Region :
           u \in db'[g] /\ store[u] # NoCred => store'[u] # NoCred
  PROVE  ListedInv'
<1> SUFFICES ASSUME NEW u \in User, NEW g \in Region, u \in db'[g], Shared(u)'
             PROVE  store'[u] # NoCred
  BY DEF ListedInv
<1>1. Shared(u) \/ store'[u] # NoCred
  <2>1. \/ cache'[u] # NoCred
        \/ \E s \in Request : req'[s].user = u /\ req'[s].copy # NoCred /\ ~Making(req'[s])
    BY DEF Shared, Making
  <2>2. ASSUME NEW s \in Request, s # r,
               req'[s].user = u, req'[s].copy # NoCred, ~Making(req'[s])
        PROVE  Shared(u)
    BY <2>2 DEF Shared
  <2> QED  BY <2>1, <2>2
<1>2. Shared(u) => store[u] # NoCred
  BY DEF ListedInv
<1> QED  BY <1>1, <1>2

LEMMA ListedStep ==
  ASSUME LifecycleInv, ListedInv, [Next]_vars
  PROVE  ListedInv'
<1>0. (\E r \in Request : \E h : MovesTo(r, h)) \/ Dying \/ Drifting
  BY InvTypes, StepShape
<1>1. ASSUME NEW r \in Request, NEW h, MovesTo(r, h)
      PROVE  ListedInv'
  <2> DEFINE f == req[r]
  <2>0. /\ f \in OKFrame /\ req'[r] = h /\ Moving(r, h)
        /\ \A s \in Request : s # r => req'[s] = req[s]
    BY <1>1 DEF MovesTo
  <2>1. \A u \in User, g \in Region : u \in db'[g] /\ Shared(u) => u \in db[g]
    <3>1. ASSUME NEW u \in User, Shared(u), Making(f)
          PROVE  u # f.user
      BY <3>1, SharedIsPast, MakingIsUnknown
    <3>2. CASE Creating(r, h)
      <4>1. Making(f)
        BY <2>0, <3>2 DEF Creating, Making, OKFrame, FrameOK
      <4> QED  BY <3>1, <3>2, <4>1 DEF Creating
    <3>3. CASE ~Creating(r, h)
      BY <2>0, <3>3
      DEF Moving, Starting, Admitting, Extending, Preparing, RollingBack, Storing,
          Caching, Picking, LookingUp, Filling, Connecting, Altering, Dropping, Deleting,
          Invalidating
    <3> QED  BY <3>2, <3>3
  <2>2. \A u \in User, g \in Region : u \in db'[g] /\ store[u] # NoCred => store'[u] # NoCred
    <3>1. CASE Storing(r, h)
      BY <3>1 DEF Storing, KeptButCopy
    <3>2. CASE Deleting(r, h)
      BY <3>2 DEF Deleting, LifecycleInv, HomeInv
    <3>3. CASE ~Storing(r, h) /\ ~Deleting(r, h)
      BY <2>0, <3>3
      DEF Moving, Starting, Admitting, Extending, Creating, Preparing, RollingBack,
          Caching, Picking, LookingUp, Filling, Connecting, Altering, Dropping,
          Invalidating
    <3> QED  BY <3>1, <3>2, <3>3
  <2>3. f.copy # NoCred /\ ~Making(f) => Shared(f.user)
    BY DEF Shared
  <2>4. \A u \in User : cache[u] # NoCred => Shared(u)
    BY DEF Shared
  <2>5. \A u \in User : cache'[u] # NoCred => Shared(u) \/ store'[u] # NoCred
    <3>1. CASE Caching(r, h) \/ Filling(r, h) \/ Altering(r, h)
      <4>1. ~Making(f) /\ f.copy # NoCred
        BY <2>0, <3>1 DEF Caching, Filling, Altering, Making, OKFrame, FrameOK
      <4> QED  BY <2>3, <2>4, <3>1, <4>1 DEF Caching, Filling, Altering
    <3>2. CASE ~(Caching(r, h) \/ Filling(r, h) \/ Altering(r, h))
      <4>1. \A u \in User : cache'[u] = cache[u] \/ cache'[u] = NoCred
        BY <2>0, <3>2
        DEF Moving, Starting, Admitting, Extending, Creating, Preparing, RollingBack,
            Storing, Picking, LookingUp, Connecting, Dropping, Deleting, Invalidating
      <4> QED  BY <2>4, <4>1
    <3> QED  BY <3>1, <3>2
  <2>6. h.copy # NoCred /\ ~Making(h) => Shared(h.user) \/ store'[h.user] # NoCred
    <3>1. CASE Admitting(r, h)
      BY <3>1 DEF Admitting, Naming, Making
    <3>2. CASE Extending(r, h)
      BY <3>2 DEF Extending
    <3>3. CASE LookingUp(r, h)
      <4>1. f.user \in User
        BY <2>0, <3>3 DEF LookingUp, OKFrame, FrameOK
      <4> QED  BY <2>0, <2>4, <3>3, <4>1, LeftFields DEF LookingUp, KeptButCopy
    <3>4. CASE Storing(r, h)
      <4>1. f.user \in User
        BY <2>0, <3>4 DEF Storing, OKFrame, FrameOK
      <4> QED  BY <2>0, <3>4, <4>1, LeftFields DEF Storing, KeptButCopy
    <3>5. CASE Caching(r, h)
      BY <2>0, <3>5, LeftFields DEF Caching, Naming, Making
    <3>6. CASE Altering(r, h)
      <4>1. ~Making(f) /\ f.copy # NoCred
        BY <2>0, <3>6 DEF Altering, Making, OKFrame, FrameOK
      <4> QED  BY <2>0, <2>3, <3>6, <4>1, LeftFields DEF Altering, KeptButCopy
    <3>7. CASE h.user = f.user /\ h.copy = f.copy
      <4>1. CASE Creating(r, h) \/ Preparing(r, h) \/ RollingBack(r, h)
        <5>1. f.op = "create"
          BY <2>0, <4>1 DEF Creating, Preparing, RollingBack, OKFrame, FrameOK
        <5> QED  BY <2>0, <4>1, <5>1, LeftFields DEF Creating, Preparing, RollingBack, Kept, Making
      <4>2. CASE Starting(r, h) \/ Picking(r, h)
        <5>1. h.copy = NoCred
          BY <2>0, <3>7, <4>2 DEF Starting, Picking, OKFrame, FrameOK
        <5> QED  BY <5>1
      <4>3. CASE ~Making(f)
        BY <2>3, <3>7, <4>3
      <4> QED
        BY <2>0, <3>1, <3>2, <3>3, <3>4, <3>5, <3>6, <4>1, <4>2, <4>3
        DEF Moving, Filling, Connecting, Dropping, Deleting, Invalidating, Making
    <3> QED  BY <1>1, <3>1, <3>2, <3>3, <3>4, <3>5, <3>6, <3>7, CopyLeft
  <2> QED  BY <2>0, <2>1, <2>2, <2>5, <2>6, ListedKept
<1>2. CASE Dying
  <2>1. \A u \in User : ~Shared(u)'
    BY <1>2 DEF Dying, Shared, Idle
  <2> QED  BY <2>1 DEF ListedInv
<1>3. CASE Drifting
  <2>1. \A u \in User : Shared(u)' => Shared(u)
    BY <1>3 DEF Drifting, Shared, Making
  <2> QED  BY <1>3, <2>1 DEF Drifting, ListedInv
<1> QED  BY <1>0, <1>1, <1>2, <1>3

-----------------------------------------------------------------------------
(* One request at a time: what a cleanup removes.                             *)

OneRequest == \A r, s \in Request : r = s

LEMMA RemovalKept ==
  ASSUME RandomSuffixes, OneRequest, LifecycleInv, RemovalInv,
         NEW r \in Request, NEW h, MovesTo(r, h)
  PROVE  RemovalInv'
<1> DEFINE f == req[r]
<1>0. /\ f \in OKFrame /\ f \in Frame /\ req'[r] = h /\ Moving(r, h)
      /\ \A s \in Request : s = r
  BY DEF MovesTo, OneRequest, OKFrame
<1>1. /\ \A u \in removed : u \in User /\ store[u] = NoCred /\ cache[u] = NoCred
      /\ f.copy # NoCred => f.user \notin removed
      /\ f.pc = "invalidate" => store[f.user] = NoCred
      /\ removed \subseteq used
  BY InvTypes DEF RemovalInv, LifecycleInv, PastInv, Past, TypeInv, TypeOK
<1> SUFFICES /\ \A u \in removed' : store'[u] = NoCred /\ cache'[u] = NoCred
             /\ h.copy # NoCred => h.user \notin removed'
             /\ h.pc = "invalidate" => store'[h.user] = NoCred
  BY <1>0 DEF RemovalInv
<1>2. CASE Starting(r, h)
  BY <1>1, <1>2 DEF Starting
<1>3. CASE Admitting(r, h)
  <2>1. h.user \notin used
    BY <1>3, FreshNames DEF Admitting, Naming
  <2> QED  BY <1>1, <1>3, <2>1 DEF Admitting, Naming
<1>4. CASE Extending(r, h)
  BY <1>1, <1>4 DEF Extending
<1>5. CASE Creating(r, h) \/ Preparing(r, h) \/ RollingBack(r, h)
  BY <1>0, <1>1, <1>5, LeftFields DEF Creating, Preparing, RollingBack, Kept
<1>6. CASE Storing(r, h)
  <2>1. f.copy # NoCred
    BY <1>0, <1>6 DEF Storing, OKFrame, FrameOK
  <2> QED  BY <1>0, <1>1, <1>6, <2>1, LeftFields DEF Storing, KeptButCopy
<1>7. CASE Caching(r, h)
  <2>1. f.copy # NoCred /\ f.copy.role \in Role
    BY <1>0, <1>7 DEF Caching, OKFrame, FrameOK, Frame, Credential
  <2>2. Naming(h, f.copy.role, f.copy.region) => h.user \notin used /\ h.pc = "create_user"
    BY <2>1, FreshNames DEF Naming
  <2> QED  BY <1>0, <1>1, <1>7, <2>1, <2>2, LeftFields DEF Caching
<1>8. CASE Picking(r, h)
  <2>1. h.copy = NoCred
    BY <1>0, <1>8, CopyLeft
    DEF Picking, OKFrame, FrameOK, Admitting, Extending, LookingUp, Storing, Caching, Altering
  <2>2. h.pc # "invalidate"
    BY <1>8, PickedFields
  <2> QED  BY <1>1, <1>8, <2>1, <2>2 DEF Picking
<1>9. CASE LookingUp(r, h)
  BY <1>0, <1>1, <1>9, LeftFields DEF LookingUp, KeptButCopy
<1>10. CASE Filling(r, h) \/ Altering(r, h)
  <2>1. f.copy # NoCred
    BY <1>0, <1>10 DEF Filling, Altering, OKFrame, FrameOK
  <2> QED  BY <1>0, <1>1, <1>10, <2>1, LeftFields DEF Filling, Altering, Kept, KeptButCopy
<1>11. CASE Connecting(r, h) \/ Dropping(r, h)
  BY <1>0, <1>1, <1>11, LeftFields DEF Connecting, Dropping, Kept
<1>12. CASE Deleting(r, h)
  <2>1. f.user \in User
    BY <1>0, <1>12 DEF Deleting, OKFrame, FrameOK
  <2> QED  BY <1>0, <1>1, <1>12, <2>1, LeftFields DEF Deleting, Kept
<1>13. CASE Invalidating(r, h)
  <2>1. f.user \in User
    BY <1>0, <1>13 DEF Invalidating, OKFrame, FrameOK
  <2> QED  BY <1>0, <1>1, <1>13, <2>1, LeftFields DEF Invalidating
<1> QED
  BY <1>0, <1>2, <1>3, <1>4, <1>5, <1>6, <1>7, <1>8, <1>9, <1>10, <1>11, <1>12, <1>13
  DEF Moving

\* What a revocation or a cleanup removed from storage stays removed as long as
\* no request that still holds a copy of the record runs beside it.
THEOREM CleanedUsersStayGone ==
  ASSUME RandomSuffixes, OneRequest
  PROVE  Spec => []CleanedStaysGone
<1>1. Init => RemovalInv
  BY DEF Init, RemovalInv, Idle
<1>2. LifecycleInv /\ RemovalInv /\ [Next]_vars => RemovalInv'
  <2> SUFFICES ASSUME LifecycleInv, RemovalInv, [Next]_vars  PROVE  RemovalInv'
    OBVIOUS
  <2>1. CASE Dying
    <3>1. removed \subseteq User
      BY InvTypes DEF TypeInv, TypeOK
    <3> QED  BY <2>1, <3>1 DEF Dying, RemovalInv, Idle
  <2>2. CASE Drifting
    <3>1. removed \subseteq User
      BY InvTypes DEF TypeInv, TypeOK
    <3> QED  BY <2>2, <3>1 DEF Drifting, RemovalInv
  <2> QED  BY <2>1, <2>2, InvTypes, StepShape, RemovalKept
<1>3. RemovalInv => CleanedStaysGone
  BY DEF RemovalInv, CleanedStaysGone
<1> QED  BY <1>1, <1>2, <1>3, LifecycleInvariant, PTL DEF Spec

-----------------------------------------------------------------------------
(* One database and calls that do not fail, besides.                          *)

OneDatabase == Configured \subseteq {DefaultRegion}

\* A record has its user, unless it is the one whose deletion comes next.
LEMMA BackedKept ==
  ASSUME OneDatabase, ~CallsMayFail, LifecycleInv,
         NEW r \in Request, NEW h, MovesTo(r, h), Backed(req[r])
  PROVE  Backed(h)'
<1> DEFINE f == req[r]
           D == DefaultRegion
<1>0. /\ f \in OKFrame /\ f \in Frame /\ req'[r] = h /\ Moving(r, h) /\ h \in OKFrame
  BY DEF MovesTo, OKFrame
<1>1. /\ \A u \in User : store[u] # NoCred => u \in db[D] \/ (f.pc = "delete" /\ f.user = u)
      /\ f.op = "create" => f.copy.region = D
      /\ f.pc \in {"create_stmt", "put"} => f.user \in db[D]
      /\ D \in Region
  BY LifecycleAssumption DEF Backed
<1> SUFFICES /\ \A u \in User : store'[u] # NoCred
                                  => u \in db'[D] \/ (h.pc = "delete" /\ h.user = u)
             /\ h.op = "create" => h.copy.region = D
             /\ h.pc \in {"create_stmt", "put"} => h.user \in db'[D]
  BY DEF Backed
<1>2. CASE Starting(r, h)
  BY <1>1, <1>2 DEF Starting
<1>3. CASE Admitting(r, h)
  BY <1>1, <1>3 DEF Admitting, Naming, NewCredential, OneDatabase
<1>4. CASE Extending(r, h)
  BY <1>1, <1>4 DEF Extending
<1>5. CASE Creating(r, h)
  <2>1. f.op = "create"
    BY <1>0, <1>5 DEF Creating, OKFrame, FrameOK
  <2>2. \A u \in db[D] : u \in db'[D]
    BY <1>1, <1>5 DEF Creating
  <2> QED  BY <1>1, <1>5, <2>1, <2>2 DEF Creating, Kept, Idle
<1>6. CASE Preparing(r, h)
  BY <1>1, <1>6 DEF Preparing, Kept
<1>7. CASE RollingBack(r, h)
  <2>1. Making(f)
    BY <1>0, <1>7 DEF RollingBack, Making, OKFrame, FrameOK
  <2>2. store[f.user] = NoCred
    BY <2>1, MakingIsUnknown
  <2> QED  BY <1>1, <1>7, <2>2 DEF RollingBack, Idle
<1>8. CASE Storing(r, h)
  BY <1>0, <1>1, <1>8, LeftFields DEF Storing, KeptButCopy
<1>9. CASE Caching(r, h)
  BY <1>0, <1>1, <1>9, LeftFields DEF Caching, Naming, NewCredential
<1>10. CASE Picking(r, h)
  <2>1. h.op # "create" /\ h.pc \notin {"create_stmt", "put"}
    BY <1>10, PickedFields
  <2> QED  BY <1>1, <1>10, <2>1 DEF Picking
<1>11. CASE LookingUp(r, h) \/ Filling(r, h) \/ Connecting(r, h)
  <2>1. f.op # "create"
    BY <1>0, <1>11 DEF LookingUp, Filling, Connecting, OKFrame, FrameOK
  <2> QED
    BY <1>0, <1>1, <1>11, <2>1, LeftFields DEF LookingUp, Filling, Connecting, Kept, KeptButCopy
<1>12. CASE Altering(r, h)
  <2>1. f.op # "create"
    BY <1>0, <1>12 DEF Altering, OKFrame, FrameOK
  <2> QED  BY <1>0, <1>1, <1>12, <2>1, LeftFields DEF Altering, KeptButCopy
<1>13. CASE Dropping(r, h)
  <2>1. f.op # "create"
    BY <1>0, <1>13 DEF Dropping, OKFrame, FrameOK
  <2>2. CASE Kept(f, h) /\ h.pc = "delete"
    BY <1>1, <1>13, <2>1, <2>2 DEF Dropping, Kept
  <2>3. CASE h = Resumed(f) /\ f.user \notin db[D]
    BY <1>0, <1>1, <1>13, <2>1, <2>3, LeftFields DEF Dropping
  <2> QED  BY <1>13, <2>2, <2>3 DEF Dropping
<1>14. CASE Deleting(r, h)
  <2>1. f.op # "create"
    BY <1>0, <1>14 DEF Deleting, OKFrame, FrameOK
  <2> QED  BY <1>1, <1>14, <2>1 DEF Deleting, Kept
<1>15. CASE Invalidating(r, h)
  <2>1. f.op # "create"
    BY <1>0, <1>15 DEF Invalidating, OKFrame, FrameOK
  <2> QED  BY <1>0, <1>1, <1>15, <2>1, LeftFields DEF Invalidating
<1> QED
  BY <1>0, <1>2, <1>3, <1>4, <1>5, <1>6, <1>7, <1>8, <1>9, <1>10, <1>11, <1>12, <1>13,
     <1>14, <1>15
  DEF Moving

\* Where a cleanup goes from one call to the next, and what is left when it ends.
LEMMA AheadKept ==
  ASSUME ~CallsMayFail, LifecycleInv, NEW r \in Request, NEW h, MovesTo(r, h),
         Backed(req[r]), Ahead(req[r])
  PROVE  /\ Ahead(h)'
         /\ req[r].op = "cleanup" /\ h = Idle =>
              \A u \in User : store'[u] # NoCred => ~(req[r].now > store'[u].expires)
<1> DEFINE f == req[r]
<1>0. /\ f \in OKFrame /\ f \in Frame /\ req'[r] = h /\ Moving(r, h)
  BY DEF MovesTo, OKFrame
<1>1. CASE f.op # "cleanup"
  <2>1. CASE Starting(r, h)
    <3>1. f.op = "none"
      BY <1>0, <2>1 DEF Starting, OKFrame, FrameOK, Idle
    <3> QED  BY <1>1, <2>1, <3>1 DEF Starting, Ahead, Stored
  <2>2. CASE ~Starting(r, h)
    <3>1. h.op # "cleanup"
      BY <1>0, <1>1, <2>2, LeftFields
      DEF Moving, Admitting, Naming, Extending, Creating, Preparing, RollingBack, Storing,
          Caching, Picking, LookingUp, Filling, Connecting, Altering, Dropping, Deleting,
          Invalidating, Kept, KeptButCopy
    <3> QED  BY <1>1, <3>1 DEF Ahead
  <2> QED  BY <2>1, <2>2
<1>2. CASE f.op = "cleanup"
  <2>1. /\ f.pc \in {"pick", "drop", "delete", "invalidate"}
        /\ f.pc = "drop" => store[f.user] # NoCred
        /\ \A u \in User : store[u] # NoCred /\ f.now > store[u].expires
             => u \in f.users \/ (u = f.user /\ f.pc \in {"drop", "delete"})
    BY <1>2 DEF Ahead
  <2>2. Picking(r, h) \/ Dropping(r, h) \/ Deleting(r, h) \/ Invalidating(r, h)
    BY <1>0, <2>1
    DEF Moving, Starting, Admitting, Extending, Creating, Preparing, RollingBack, Storing,
        Caching, LookingUp, Filling, Connecting, Altering
  <2>3. CASE Picking(r, h)
    <3>1. ASSUME NEW u \in f.users, store[u] # NoCred,
                 h = [f EXCEPT !.pc = "drop", !.user = u, !.users = f.users \ {u}]
          PROVE  Ahead(h)' /\ h # Idle
      <4>1. /\ h.pc = "drop" /\ h.user = u /\ h.users = f.users \ {u}
            /\ h.op = "cleanup" /\ h.now = f.now
        BY <1>0, <1>2, <3>1 DEF Frame
      <4> QED  BY <2>1, <2>3, <3>1, <4>1 DEF Picking, Ahead, Idle
    <3>2. ASSUME NEW u \in f.users, store[u] # NoCred => f.now <= store[u].expires,
                 h = IF f.users = {u} THEN Idle ELSE [f EXCEPT !.users = f.users \ {u}]
          PROVE  /\ Ahead(h)'
                 /\ h = Idle =>
                      \A v \in User : store'[v] # NoCred => ~(f.now > store'[v].expires)
      <4>1. u \in User /\ (store[u] # NoCred => store[u].expires \in Nat)
        BY <1>0, InvTypes DEF Frame, TypeInv, TypeOK, Credential
      <4>2. f.now \in Nat
        BY <1>0 DEF Frame
      <4>3. ~(store[u] # NoCred /\ f.now > store[u].expires)
        BY <3>2, <4>1, <4>2
      <4>4. store' = store
        BY <2>3 DEF Picking
      <4>5. CASE f.users = {u}
        BY <2>1, <2>3, <3>2, <4>3, <4>4, <4>5 DEF Picking, Ahead, Idle
      <4>6. CASE f.users # {u}
        <5>1. /\ h.users = f.users \ {u} /\ h.pc = "pick"
              /\ h.op = "cleanup" /\ h.now = f.now
          BY <1>0, <1>2, <2>3, <3>2, <4>6 DEF Picking, Frame
        <5>2. h # Idle
          BY <5>1 DEF Idle
        <5>3. \A v \in User : store[v] # NoCred /\ f.now > store[v].expires => v \in h.users
          BY <2>1, <2>3, <4>3, <5>1 DEF Picking
        <5> QED  BY <4>4, <5>1, <5>2, <5>3 DEF Ahead
      <4> QED  BY <4>5, <4>6
    <3> QED  BY <1>2, <2>3, <3>1, <3>2 DEF Picking
  <2>4. CASE Dropping(r, h)
    <3>1. f.user \in User /\ f.user \in db[DefaultRegion]
      BY <1>0, <2>1, <2>4 DEF Dropping, Backed, OKFrame, FrameOK
    <3>2. Kept(f, h) /\ h.pc = "delete" /\ store' = store
      BY <2>4, <3>1 DEF Dropping
    <3> QED  BY <1>2, <2>1, <2>4, <3>2 DEF Dropping, Kept, Ahead, Idle
  <2>5. CASE Deleting(r, h)
    BY <1>2, <2>1, <2>5 DEF Deleting, Kept, Ahead, Idle
  <2>6. CASE Invalidating(r, h)
    <3>1. /\ store' = store /\ f.pc = "invalidate" /\ h = Resumed(f)
      BY <2>6 DEF Invalidating
    <3>2. CASE f.users = {}
      BY <2>1, <3>1, <3>2 DEF Resumed, Ahead, Idle
    <3>3. CASE f.users # {}
      <4>1. h = [f EXCEPT !.pc = "pick", !.user = NoUser, !.copy = NoCred]
        BY <3>1, <3>3 DEF Resumed
      <4>2. /\ h.users = f.users /\ h.pc = "pick" /\ h.now = f.now
        BY <1>0, <4>1 DEF Frame
      <4> QED  BY <2>1, <3>1, <4>2 DEF Ahead, Idle
    <3> QED  BY <3>2, <3>3
  <2> QED  BY <2>2, <2>3, <2>4, <2>5, <2>6
<1> QED  BY <1>1, <1>2

\* A cleanup that runs to its end has removed every record that had expired when
\* it began, if nothing fails, every user is in the default database and no
\* other request runs beside it.
THEOREM CleanupsRemoveExpired ==
  ASSUME RandomSuffixes, OneRequest, OneDatabase, ~CallsMayFail, ~CrashesHappen
  PROVE  Spec => CleanupRemovesExpired
<1>1. Init => CleanupInv
  BY DEF Init, CleanupInv, Backed, Ahead, Idle
<1>2. ASSUME LifecycleInv, CleanupInv, [Next]_vars
      PROVE  /\ CleanupInv'
             /\ \A r \in Request :
                  req[r].op = "cleanup" /\ req'[r] = Idle =>
                    \A u \in User : store'[u] # NoCred => ~(req[r].now > store'[u].expires)
  <2>1. ASSUME NEW r \in Request, NEW h, MovesTo(r, h)
        PROVE  /\ CleanupInv'
               /\ req[r].op = "cleanup" /\ req'[r] = Idle =>
                    \A u \in User : store'[u] # NoCred => ~(req[r].now > store'[u].expires)
    <3>1. Backed(h)' /\ Ahead(h)' /\ req'[r] = h
      BY <1>2, <2>1, BackedKept, AheadKept DEF CleanupInv, MovesTo
    <3>2. \A s \in Request : s = r
      BY DEF OneRequest
    <3> QED  BY <1>2, <2>1, <3>1, <3>2, AheadKept DEF CleanupInv, Backed, Ahead
  <2>2. CASE Dying
    <3>1. PICK r \in Request : req[r].pc \in {"connect", "alter"}
      BY <2>2 DEF Dying
    <3>2. \A s \in Request : s = r
      BY DEF OneRequest
    <3>3. req[r].op # "cleanup"
      BY <1>2, <3>1 DEF CleanupInv, Ahead
    <3> QED  BY <1>2, <2>2, <3>1, <3>2, <3>3 DEF Dying, CleanupInv, Backed, Ahead, Idle
  <2>3. CASE Drifting
    <3>1. \A r \in Request : req[r].op = "cleanup" => req'[r] # Idle
      BY <2>3 DEF Drifting, Idle
    <3> QED  BY <1>2, <2>3, <3>1 DEF Drifting, CleanupInv, Backed, Ahead
  <2>4. \A r, s \in Request : r = s
    BY DEF OneRequest
  <2> QED  BY <1>2, <2>1, <2>2, <2>3, <2>4, InvTypes, StepShape
<1>3. ASSUME LifecycleInv, LifecycleInv', CleanupInv, [Next]_vars
      PROVE  [\A r \in Request :
               req[r].op = "cleanup" /\ req'[r] = Idle =>
                 \A u \in User : store'[u] # NoCred => req[r].now <= store'[u].expires]_vars
  <2>1. \A u \in User : store'[u] # NoCred => store'[u].expires \in Nat
    BY <1>3 DEF LifecycleInv, TypeOK, Credential
  <2>2. \A r \in Request : req[r].now \in Nat
    BY <1>3 DEF LifecycleInv, TypeOK, Frame
  <2> QED  BY <1>2, <1>3, <2>1, <2>2
<1>4. /\ LifecycleInv /\ CleanupInv /\ [Next]_vars => CleanupInv'
      /\ LifecycleInv /\ LifecycleInv' /\ CleanupInv /\ [Next]_vars
           => [\A r \in Request :
                req[r].op = "cleanup" /\ req'[r] = Idle =>
                  \A u \in User : store'[u] # NoCred => req[r].now <= store'[u].expires]_vars
  BY <1>2, <1>3
<1> QED
  BY <1>1, <1>4, LifecycleInvariant, PTL DEF Spec, CleanupRemovesExpired

-----------------------------------------------------------------------------
(* How far concurrent creations take a role past its quota.                   *)

\* A frame that is about to give its user a record of the role, and one of a
\* creation for the role.
Pends(f, role) ==
  f.pc \in {"create_user", "create_stmt", "rollback", "put"} /\ f.copy.role = role
Creates(f, role) == f.op = "create" /\ f.copy.role = role

Limited(role, n) == MaxCredentials[role] > 0 /\ \A m \in BatchSizes : m <= n

Fits(role, n) ==
  /\ Cardinality(Claimed(role)) + Cardinality(Slots(role))
       <= MaxCredentials[role] + (Cardinality(Request) - 1) * Most(role, n)
  /\ \A r \in Request : Creates(req[r], role) => req[r].left < Most(role, n)

LEMMA QuotaInvSplits ==
  /\ QuotaInv <=> \A role \in Role, n \in BatchSizes : Limited(role, n) => Fits(role, n)
  /\ QuotaInv' <=> \A role \in Role, n \in BatchSizes : Limited(role, n) => Fits(role, n)'
  BY DEF QuotaInv, Limited, Fits, Creates

LEMMA ClaimedBy ==
  \A role, u : u \in Claimed(role) <=>
    /\ u \in User
    /\ \/ store[u] # NoCred /\ store[u].role = role
       \/ \E s \in Request : Pends(req[s], role) /\ req[s].user = u
  BY DEF Claimed, CredentialsOf, Stored, Pends

LEMMA ClaimedByNext ==
  \A role, u : u \in Claimed(role)' <=>
    /\ u \in User
    /\ \/ store'[u] # NoCred /\ store'[u].role = role
       \/ \E s \in Request : Pends(req'[s], role) /\ req'[s].user = u
  BY DEF Claimed, CredentialsOf, Stored, Pends

LEMMA SlotOf ==
  \A role, p : p \in Slots(role) <=>
    \E s \in Request : Creates(req[s], role) /\ \E i \in 1 .. req[s].left : p = <<s, i>>
  BY DEF Slots, Creates

LEMMA SlotOfNext ==
  \A role, p : p \in Slots(role)' <=>
    \E s \in Request : Creates(req'[s], role) /\ \E i \in 1 .. req'[s].left : p = <<s, i>>
  BY DEF Slots, Creates

LEMMA OneMore ==
  ASSUME NEW S, IsFiniteSet(S), NEW x
  PROVE  /\ IsFiniteSet(S \cup {x})
         /\ Cardinality(S \cup {x}) \in Nat
         /\ Cardinality(S \cup {x}) <= Cardinality(S) + 1
<1>1. Cardinality(S) \in Nat
  BY FS_CardinalityType
<1>2. /\ IsFiniteSet(S \cup {x})
      /\ Cardinality(S \cup {x}) = IF x \in S THEN Cardinality(S) ELSE Cardinality(S) + 1
  BY FS_AddElement
<1> QED  BY <1>1, <1>2

\* The sets that are counted are finite.
LEMMA Countable ==
  ASSUME IsFiniteSet(Request), TypeInv, NEW role \in Role, NEW n \in BatchSizes,
         Limited(role, n), Fits(role, n)
  PROVE  /\ IsFiniteSet(Claimed(role)) /\ Cardinality(Claimed(role)) \in Nat
         /\ IsFiniteSet(Slots(role)) /\ Cardinality(Slots(role)) \in Nat
         /\ Most(role, n) \in Nat \ {0} /\ Cardinality(Request) \in Nat
         /\ MaxCredentials[role] \in Nat
<1>1. n \in Nat \ {0} /\ MaxCredentials[role] \in Nat \ {0} /\ Most(role, n) \in Nat \ {0}
  BY LifecycleAssumption DEF Limited, Most
<1>2. Claimed(role) \subseteq User
  BY ClaimedBy
<1>3. Slots(role) \subseteq Request \X (1 .. Most(role, n))
  <2> SUFFICES ASSUME NEW s \in Request, Creates(req[s], role), NEW i \in 1 .. req[s].left
               PROVE  i \in 1 .. Most(role, n)
    BY SlotOf
  <2>1. req[s].left \in Nat /\ req[s].left < Most(role, n)
    BY FramesOK DEF Fits, OKFrame, Frame
  <2> QED  BY <1>1, <2>1
<1>4. IsFiniteSet(1 .. Most(role, n))
  BY <1>1, FS_Interval
<1>5. IsFiniteSet(Request \X (1 .. Most(role, n)))
  BY <1>4, FS_Product
<1>6. IsFiniteSet(Claimed(role)) /\ IsFiniteSet(Slots(role))
  BY <1>2, <1>3, <1>5, FS_Subset, LifecycleAssumption
<1> QED  BY <1>1, <1>6, FS_CardinalityType

\* A step that claims nothing and opens no slot.
LEMMA FitsLess ==
  ASSUME IsFiniteSet(Request), TypeInv, NEW role \in Role, NEW n \in BatchSizes,
         Limited(role, n), Fits(role, n),
         Claimed(role)' \subseteq Claimed(role), Slots(role)' \subseteq Slots(role),
         \A s \in Request : Creates(req'[s], role) => req'[s].left < Most(role, n)
  PROVE  Fits(role, n)'
<1>1. /\ Cardinality(Claimed(role)') <= Cardinality(Claimed(role))
      /\ Cardinality(Slots(role)') <= Cardinality(Slots(role))
      /\ Cardinality(Claimed(role)') \in Nat /\ Cardinality(Slots(role)') \in Nat
  BY Countable, FS_Subset, FS_CardinalityType
<1> DEFINE b == (Cardinality(Request) - 1) * Most(role, n)
<1>2. b \in Int
  BY Countable
<1>3. Cardinality(Claimed(role)) + Cardinality(Slots(role)) <= MaxCredentials[role] + b
  BY DEF Fits
<1> HIDE DEF b
<1>4. Cardinality(Claimed(role)') + Cardinality(Slots(role)') <= MaxCredentials[role] + b
  BY <1>1, <1>2, <1>3, Countable
<1> QED  BY <1>4 DEF b, Fits, Most, Creates

LEMMA ClaimsLess ==
  ASSUME TypeInv, NEW role \in Role, NEW r \in Request, NEW h,
         req'[r] = h, \A s \in Request : s # r => req'[s] = req[s],
         \A u \in User : store'[u] # NoCred /\ store'[u].role = role => u \in Claimed(role),
         Pends(h, role) => h.user \in Claimed(role),
         Creates(h, role) => Creates(req[r], role) /\ h.left \in Nat /\ h.left <= req[r].left
  PROVE  /\ Claimed(role)' \subseteq Claimed(role)
         /\ Slots(role)' \subseteq Slots(role)
         /\ \A k \in Nat :
              (\A s \in Request : Creates(req[s], role) => req[s].left < k)
              => \A s \in Request : Creates(req'[s], role) => req'[s].left < k
<1>0. \A s \in Request : req[s].left \in Nat
  BY FramesOK DEF OKFrame, Frame
<1>1. Claimed(role)' \subseteq Claimed(role)
  BY ClaimedBy, ClaimedByNext
<1>2. ASSUME NEW s \in Request, Creates(req'[s], role), NEW i \in 1 .. req'[s].left
      PROVE  <<s, i>> \in Slots(role)
  <2>1. Creates(req[s], role) /\ i \in 1 .. req[s].left
    BY <1>0, <1>2
  <2> QED  BY <2>1, SlotOf
<1>3. Slots(role)' \subseteq Slots(role)
  BY <1>2, SlotOfNext
<1> QED  BY <1>0, <1>1, <1>3

\* A batch goes on to its next name.
LEMMA FitsNamed ==
  ASSUME IsFiniteSet(Request), TypeInv, NEW role \in Role, NEW n \in BatchSizes,
         Limited(role, n), Fits(role, n), NEW r \in Request, NEW h,
         req'[r] = h, \A s \in Request : s # r => req'[s] = req[s], store' = store,
         Creates(req[r], role), req[r].left > 0, h.left = req[r].left - 1
  PROVE  Fits(role, n)'
<1> DEFINE C == Claimed(role) \cup {h.user}
           S == Slots(role) \ {<<r, req[r].left>>}
           b == (Cardinality(Request) - 1) * Most(role, n)
<1>0. \A s \in Request : req[s].left \in Nat
  BY FramesOK DEF OKFrame, Frame
<1>1. Claimed(role)' \subseteq C
  BY ClaimedBy, ClaimedByNext
<1>2. Slots(role)' \subseteq S
  <2> SUFFICES ASSUME NEW s \in Request, Creates(req'[s], role), NEW i \in 1 .. req'[s].left
               PROVE  <<s, i>> \in S
    BY SlotOfNext
  <2>1. CASE s = r
    <3>1. i \in 1 .. req[r].left /\ i # req[r].left
      BY <1>0, <2>1
    <3> QED  BY <2>1, <3>1, SlotOf
  <2>2. CASE s # r
    BY <2>2, SlotOf
  <2> QED  BY <2>1, <2>2
<1>3. <<r, req[r].left>> \in Slots(role)
  BY <1>0, SlotOf
<1> DEFINE c == Claimed(role)
           o == Slots(role)
<1>10. /\ IsFiniteSet(c) /\ Cardinality(c) \in Nat
      /\ IsFiniteSet(o) /\ Cardinality(o) \in Nat
  BY Countable
<1>4. IsFiniteSet(C) /\ Cardinality(C) <= Cardinality(Claimed(role)) + 1
  <2> DEFINE x == h.user
  <2> HIDE DEF c, x
  <2>1. IsFiniteSet(c \cup {x}) /\ Cardinality(c \cup {x}) <= Cardinality(c) + 1
    BY <1>10, OneMore
  <2> QED  BY <2>1 DEF c, x
<1>5. IsFiniteSet(S) /\ Cardinality(S) = Cardinality(Slots(role)) - 1
  <2> DEFINE p == <<r, req[r].left>>
  <2>1. p \in o
    BY <1>3
  <2> HIDE DEF o, p
  <2>2. IsFiniteSet(o \ {p}) /\ Cardinality(o \ {p}) = Cardinality(o) - 1
    BY <1>10, <2>1, FS_RemoveElement
  <2> QED  BY <2>2 DEF o, p
<1> HIDE DEF C, S
<1>6. /\ Cardinality(Claimed(role)') <= Cardinality(C)
      /\ Cardinality(Slots(role)') <= Cardinality(S)
      /\ Cardinality(Claimed(role)') \in Nat /\ Cardinality(Slots(role)') \in Nat
      /\ Cardinality(C) \in Nat /\ Cardinality(S) \in Nat
  BY <1>1, <1>2, <1>4, <1>5, FS_Subset, FS_CardinalityType
<1>7. b \in Int
  BY Countable
<1>8. Cardinality(Claimed(role)) + Cardinality(Slots(role)) <= MaxCredentials[role] + b
  BY DEF Fits
<1> HIDE DEF b
<1>9. Cardinality(Claimed(role)') + Cardinality(Slots(role)') <= MaxCredentials[role] + b
  BY <1>4, <1>5, <1>6, <1>7, <1>8, Countable
<1>11. \A s \in Request : Creates(req'[s], role) => req'[s].left < Most(role, n)
  BY <1>0, Countable DEF Fits
<1> QED  BY <1>9, <1>11 DEF b, Fits, Most, Creates

\* The other requests have at most one user each at hand.
LEMMA OthersPend ==
  ASSUME IsFiniteSet(Request), NEW role, NEW r \in Request
  PROVE  LET T == {u \in User : \E s \in Request \ {r} :
                                  Pends(req[s], role) /\ req[s].user = u}
         IN  /\ IsFiniteSet(T)
             /\ Cardinality(T) \in Nat
             /\ Cardinality(T) <= Cardinality(Request) - 1
<1> DEFINE P == {s \in Request \ {r} : Pends(req[s], role) /\ req[s].user \in User}
           T == {u \in User : \E s \in Request \ {r} :
                                Pends(req[s], role) /\ req[s].user = u}
           f == [s \in P |-> req[s].user]
<1>1. /\ IsFiniteSet(Request \ {r}) /\ Cardinality(Request) \in Nat
      /\ Cardinality(Request \ {r}) = Cardinality(Request) - 1
  BY FS_RemoveElement, FS_CardinalityType
<1>2. P \subseteq Request \ {r}
  OBVIOUS
<1>3. f \in Surjection(P, T)
  <2>1. f \in [P -> T]
    OBVIOUS
  <2>2. \A t \in T : \E s \in P : f[s] = t
    OBVIOUS
  <2> QED  BY <2>1, <2>2 DEF Surjection
<1>4. IsFiniteSet(P) /\ Cardinality(P) <= Cardinality(Request) - 1 /\ Cardinality(P) \in Nat
  BY <1>1, <1>2, FS_Subset, FS_CardinalityType
<1>5. IsFiniteSet(T) /\ Cardinality(T) <= Cardinality(P) /\ Cardinality(T) \in Nat
  BY <1>3, <1>4, FS_Surjection, FS_CardinalityType
<1> QED  BY <1>1, <1>4, <1>5

\* A creation was granted what the count left: with one user at hand for each
\* other request and the slots of its batch, that is the bound.
LEMMA FitsAdmitted ==
  ASSUME IsFiniteSet(Request), TypeInv, NEW role \in Role, NEW n \in BatchSizes,
         Limited(role, n), Fits(role, n), NEW r \in Request, NEW h, NEW m \in BatchSizes,
         req'[r] = h, \A s \in Request : s # r => req'[s] = req[s], store' = store,
         QuotaAllows(role), h.left = GrantedCount(role, m) - 1
  PROVE  Fits(role, n)'
<1> DEFINE C == CredentialsOf(role)
           T == {u \in User : \E s \in Request \ {r} : Pends(req[s], role) /\ req[s].user = u}
           k == Cardinality(Request) - 1
           most == Most(role, n)
           A == {r} \X (1 .. h.left)
           B == (Request \ {r}) \X (1 .. (most - 1))
           max == MaxCredentials[role]
<1>0. /\ \A s \in Request : req[s].left \in Nat
      /\ most \in Nat \ {0} /\ max \in Nat \ {0} /\ Cardinality(C) \in Nat
      /\ m \in Nat \ {0} /\ n \in Nat \ {0} /\ m <= n
  BY FramesOK, Countable, CountIsNat, LifecycleAssumption DEF OKFrame, Frame, Limited
<1>1. h.left \in Nat /\ h.left < most /\ Cardinality(C) + h.left + 1 <= max
  <2>1. h.left + 1 = IF m > max - Cardinality(C) THEN max - Cardinality(C) ELSE m
    BY <1>0 DEF GrantedCount
  <2>2. Cardinality(C) < max
    BY <1>0 DEF QuotaAllows
  <2> QED  BY <1>0, <2>1, <2>2, GrantedIsPositive DEF Most
<1>2. Claimed(role)' \subseteq (C \cup {h.user}) \cup T
  <2>1. \A u : u \in C <=> u \in User /\ store[u] # NoCred /\ store[u].role = role
    BY DEF CredentialsOf, Stored
  <2> QED  BY <2>1, ClaimedByNext
<1>3. Slots(role)' \subseteq A \cup B
  <2> SUFFICES ASSUME NEW s \in Request, Creates(req'[s], role), NEW i \in 1 .. req'[s].left
               PROVE  <<s, i>> \in A \cup B
    BY SlotOfNext
  <2>1. CASE s = r
    BY <2>1
  <2>2. CASE s # r
    <3>1. req[s].left < most
      BY <2>2 DEF Fits
    <3>2. i \in 1 .. (most - 1)
      BY <1>0, <2>2, <3>1
    <3> QED  BY <2>2, <3>2
  <2> QED  BY <2>1, <2>2
<1>4. /\ IsFiniteSet(C) /\ IsFiniteSet(T) /\ Cardinality(T) \in Nat /\ Cardinality(T) <= k
  <2>1. C \subseteq User
    BY DEF CredentialsOf, Stored
  <2> QED  BY <2>1, OthersPend, LifecycleAssumption, FS_Subset
<1>5. k \in Nat /\ IsFiniteSet(Request \ {r}) /\ Cardinality(Request \ {r}) = k
  <2>1. IsFiniteSet(Request \ {r}) /\ Cardinality(Request \ {r}) = k
    BY FS_RemoveElement
  <2>2. Cardinality(Request \ {r}) \in Nat
    BY <2>1, FS_CardinalityType
  <2> QED  BY <2>1, <2>2
<1> HIDE DEF C, T, k, most, max
<1>6. Cardinality(Claimed(role)') \in Nat /\ Cardinality(Claimed(role)') <= Cardinality(C) + 1 + k
  <2>1. /\ IsFiniteSet(C \cup {h.user})
        /\ Cardinality(C \cup {h.user}) <= Cardinality(C) + 1
        /\ Cardinality(C \cup {h.user}) \in Nat
    <3> DEFINE x == h.user
    <3> HIDE DEF x
    <3>1. /\ IsFiniteSet(C \cup {x})
          /\ Cardinality(C \cup {x}) <= Cardinality(C) + 1
          /\ Cardinality(C \cup {x}) \in Nat
      BY <1>4, OneMore
    <3> QED  BY <3>1 DEF x
  <2>2. /\ IsFiniteSet((C \cup {h.user}) \cup T)
        /\ Cardinality((C \cup {h.user}) \cup T) <= Cardinality(C \cup {h.user}) + Cardinality(T)
        /\ Cardinality((C \cup {h.user}) \cup T) \in Nat
    <3> DEFINE D == C \cup {h.user}
    <3>0. IsFiniteSet(D) /\ Cardinality(D) \in Nat
      BY <2>1
    <3> HIDE DEF D
    <3>1. IsFiniteSet(D \cap T)
      BY <3>0, FS_Intersection
    <3>2. Cardinality(D \cap T) \in Nat
      BY <3>1, FS_CardinalityType
    <3>3. /\ IsFiniteSet(D \cup T)
          /\ Cardinality(D \cup T) = Cardinality(D) + Cardinality(T) - Cardinality(D \cap T)
      BY <1>4, <3>0, FS_Union
    <3>4. Cardinality(D \cup T) \in Nat
      BY <3>3, FS_CardinalityType
    <3> QED  BY <1>4, <3>0, <3>2, <3>3, <3>4 DEF D
  <2>3. /\ Cardinality(Claimed(role)') <= Cardinality((C \cup {h.user}) \cup T)
        /\ Cardinality(Claimed(role)') \in Nat
    BY <1>2, <2>2, FS_Subset, FS_CardinalityType
  <2> QED  BY <1>0, <1>4, <1>5, <2>1, <2>2, <2>3
<1>7. Cardinality(Slots(role)') \in Nat /\ Cardinality(Slots(role)') <= h.left + k * (most - 1)
  <2>1. /\ IsFiniteSet(1 .. h.left) /\ Cardinality(1 .. h.left) = h.left
        /\ IsFiniteSet(1 .. (most - 1)) /\ Cardinality(1 .. (most - 1)) = most - 1
        /\ IsFiniteSet({r}) /\ Cardinality({r}) = 1
    <3> DEFINE a == h.left
               b == most - 1
    <3>1. a \in Nat /\ b \in Nat
      BY <1>0, <1>1
    <3> HIDE DEF a, b
    <3>2. /\ IsFiniteSet(1 .. a) /\ Cardinality(1 .. a) = a
          /\ IsFiniteSet(1 .. b) /\ Cardinality(1 .. b) = b
      BY <3>1, FS_Interval
    <3> QED  BY <3>2, FS_Singleton DEF a, b
  <2>2. IsFiniteSet(A) /\ Cardinality(A) = 1 * h.left
    <3> DEFINE I == 1 .. h.left
               X == {r}
    <3>1. IsFiniteSet(I) /\ Cardinality(I) = h.left /\ IsFiniteSet(X) /\ Cardinality(X) = 1
      BY <2>1
    <3> HIDE DEF I, X
    <3>2. IsFiniteSet(X \X I) /\ Cardinality(X \X I) = 1 * h.left
      BY <3>1, FS_Product
    <3> QED  BY <3>2 DEF X, I
  <2>3. IsFiniteSet(B) /\ Cardinality(B) = k * (most - 1)
    BY <1>5, <2>1, FS_Product
  <2> HIDE DEF A, B
  <2>4. IsFiniteSet(A \cup B) /\ Cardinality(A \cup B) = Cardinality(A) + Cardinality(B) - Cardinality(A \cap B)
    BY <2>2, <2>3, FS_Union
  <2>5. Cardinality(A \cap B) \in Nat
    BY <2>2, FS_Intersection, FS_CardinalityType
  <2>6. Cardinality(Slots(role)') \in Nat /\ Cardinality(Slots(role)') <= Cardinality(A \cup B)
    BY <1>3, <2>4, FS_Subset, FS_CardinalityType
  <2>7. k * (most - 1) \in Nat
    BY <1>0, <1>5
  <2>8. Cardinality(A) = h.left
    BY <1>1, <2>2
  <2>9. Cardinality(A \cup B) \in Nat
    BY <2>4, FS_CardinalityType
  <2> QED  BY <1>1, <2>3, <2>4, <2>5, <2>6, <2>7, <2>8, <2>9
<1>8. Cardinality(Claimed(role)') + Cardinality(Slots(role)') <= max + k * most
  <2>1. k * (most - 1) = k * most - k
    BY <1>0, <1>5
  <2>2. k * most \in Nat
    BY <1>0, <1>5
  <2> QED  BY <1>0, <1>1, <1>5, <1>6, <1>7, <2>1, <2>2
<1>9. \A s \in Request : Creates(req'[s], role) => req'[s].left < most
  BY <1>1 DEF Fits, most
<1> QED  BY <1>8, <1>9 DEF k, most, max, Fits, Most, Creates

LEMMA FitsStep ==
  ASSUME RandomSuffixes, IsFiniteSet(Request), LifecycleInv, RoleInv, ListedInv,
         NEW role \in Role, NEW n \in BatchSizes, Limited(role, n), Fits(role, n),
         NEW r \in Request, NEW h, MovesTo(r, h)
  PROVE  Fits(role, n)'
<1> DEFINE f == req[r]
<1>0. /\ f \in OKFrame /\ h \in OKFrame /\ req'[r] = h /\ Moving(r, h) /\ TypeInv
      /\ \A s \in Request : s # r => req'[s] = req[s]
      /\ h.left \in Nat /\ f.left \in Nat
  BY InvTypes DEF MovesTo, OKFrame, Frame
<1>1. ASSUME \A u \in User : store'[u] # NoCred /\ store'[u].role = role => u \in Claimed(role),
             Pends(h, role) => h.user \in Claimed(role),
             Creates(h, role) => Creates(f, role) /\ h.left <= f.left
      PROVE  Fits(role, n)'
  <2>1. /\ Claimed(role)' \subseteq Claimed(role)
        /\ Slots(role)' \subseteq Slots(role)
        /\ \A k \in Nat :
             (\A s \in Request : Creates(req[s], role) => req[s].left < k)
             => \A s \in Request : Creates(req'[s], role) => req'[s].left < k
    BY <1>0, <1>1, ClaimsLess
  <2>2. \A s \in Request : Creates(req'[s], role) => req'[s].left < Most(role, n)
    BY <1>0, <2>1, Countable DEF Fits
  <2> QED  BY <1>0, <2>1, <2>2, FitsLess
<1>2. \A u \in User : store[u] # NoCred /\ store[u].role = role => u \in Claimed(role)
  BY ClaimedBy
<1>3. Pends(f, role) /\ f.user \in User => f.user \in Claimed(role)
  BY ClaimedBy
<1>4. ASSUME NEW rl, NEW g, Naming(h, rl, g)
      PROVE  h.copy.role = rl /\ h.op = "create"
  BY <1>4 DEF Naming, NewCredential
<1>5. CASE h \in {Idle, Resumed(f)} /\ (store' = store)
  <2>1. ~Pends(h, role) /\ ~Creates(h, role)
    BY <1>0, <1>5, LeftFields DEF Pends, Creates
  <2> QED  BY <1>1, <1>2, <1>5, <2>1
<1>6. CASE Starting(r, h)
  BY <1>1, <1>2, <1>6 DEF Starting, Pends, Creates
<1>7. CASE Admitting(r, h)
  <2>1. PICK rl \in Role, g \in Configured, m \in BatchSizes :
          QuotaAllows(rl) /\ Naming(h, rl, g) /\ h.left = GrantedCount(rl, m) - 1
    BY <1>7 DEF Admitting
  <2>2. CASE rl = role
    BY <1>0, <1>7, <2>1, <2>2, FitsAdmitted DEF Admitting
  <2>3. CASE rl # role
    BY <1>1, <1>2, <1>4, <1>7, <2>1, <2>3 DEF Admitting, Pends, Creates
  <2> QED  BY <2>2, <2>3
<1>8. CASE Extending(r, h)
  <2>1. PICK u \in User, requested \in RequestedTTLs :
          /\ h.user = u /\ store[u] # NoCred
          /\ h.copy = [store[u] EXCEPT !.expires = ExtendedExpiry(store[u], requested)]
    BY <1>8 DEF Extending
  <2>2. store[u] \in Credential
    BY <1>0, <2>1 DEF TypeInv, TypeOK
  <2>3. h.copy.role = store[u].role
    BY <2>1, <2>2 DEF Credential
  <2> QED  BY <1>1, <1>2, <1>8, <2>1, <2>3 DEF Extending, Pends, Creates
<1>9. CASE Creating(r, h) \/ Preparing(r, h) \/ RollingBack(r, h)
  <2>1. f.user \in User /\ (f.copy.role = role => Pends(f, role))
    BY <1>0, <1>9 DEF Creating, Preparing, RollingBack, OKFrame, FrameOK, Pends
  <2>2. store' = store
    BY <1>9 DEF Creating, Preparing, RollingBack
  <2>3. CASE Kept(f, h)
    BY <1>0, <1>1, <1>2, <1>3, <2>1, <2>2, <2>3 DEF Kept, Pends, Creates
  <2> QED  BY <1>5, <1>9, <2>2, <2>3 DEF Creating, Preparing, RollingBack
<1>10. CASE Storing(r, h) /\ KeptButCopy(f, h) /\ h.pc = "cache"
  <2>1. f.user \in User /\ (f.copy.role = role => Pends(f, role))
    BY <1>0, <1>10 DEF Storing, OKFrame, FrameOK, Pends
  <2>2. CASE h.copy.role = f.copy.role
        /\ \A u \in User : store'[u] = IF u = f.user THEN h.copy ELSE store[u]
    BY <1>0, <1>1, <1>2, <1>3, <1>10, <2>1, <2>2 DEF KeptButCopy, Pends, Creates
  <2> QED  BY <1>5, <1>10, <2>2 DEF Storing
<1>11. CASE Caching(r, h)
  <2>1. store' = store
    BY <1>11 DEF Caching
  <2>2. CASE /\ f.op = "create" /\ f.left > 0 /\ h.left = f.left - 1
             /\ Naming(h, f.copy.role, f.copy.region)
    <3>1. CASE f.copy.role = role
      <4>1. Creates(f, role)
        BY <2>2, <3>1 DEF Creates
      <4> QED  BY <1>0, <2>1, <2>2, <4>1, FitsNamed
    <3>2. CASE f.copy.role # role
      BY <1>1, <1>2, <1>4, <2>1, <2>2, <3>2 DEF Pends, Creates
    <3> QED  BY <3>1, <3>2
  <2> QED  BY <1>5, <1>11, <2>1, <2>2 DEF Caching
<1>12. CASE Picking(r, h)
  BY <1>1, <1>2, <1>12, PickedFields DEF Picking, Pends, Creates
<1>13. CASE Altering(r, h) /\ KeptButCopy(f, h)
  <2>1. /\ f.user \in User /\ f.op # "create" /\ f.copy # NoCred /\ ~Making(f)
        /\ f.pc = "alter" /\ store' = store /\ DefaultRegion \in Region
    BY <1>0, <1>13, LifecycleAssumption DEF Altering, OKFrame, FrameOK, Making
  <2>2. CASE f.user \in db[DefaultRegion] /\ h.copy.role = f.copy.role
    <3>1. store[f.user] # NoCred
      BY <2>1, <2>2 DEF ListedInv, Shared
    <3>2. store[f.user].role = f.copy.role
      BY <2>1, <3>1, CopyOf DEF RoleInv
    <3> QED  BY <1>1, <1>2, <1>13, <2>1, <2>2, <3>1, <3>2 DEF KeptButCopy, Pends, Creates
  <2> QED  BY <1>5, <1>13, <2>1, <2>2 DEF Altering
<1>14. CASE /\ LookingUp(r, h) \/ Filling(r, h) \/ Connecting(r, h) \/ Dropping(r, h)
               \/ Deleting(r, h)
            /\ Kept(f, h) \/ KeptButCopy(f, h)
  <2>1. h.pc \notin {"create_user", "create_stmt", "rollback", "put"} \/ h = Resumed(f)
    BY <1>14 DEF LookingUp, Filling, Connecting, Dropping, Deleting
  <2>2. ~Pends(h, role)
    BY <1>0, <2>1, LeftFields DEF Pends
  <2>3. f.op # "create" /\ h.op = f.op
    BY <1>0, <1>14
    DEF LookingUp, Filling, Connecting, Dropping, Deleting, OKFrame, FrameOK, Kept, KeptButCopy
  <2>4. \A u \in User : store'[u] = store[u] \/ store'[u] = NoCred
    BY <1>14 DEF LookingUp, Filling, Connecting, Dropping, Deleting
  <2> QED  BY <1>1, <1>2, <2>2, <2>3, <2>4 DEF Creates
<1> QED
  BY <1>0, <1>5, <1>6, <1>7, <1>8, <1>9, <1>10, <1>11, <1>12, <1>13, <1>14
  DEF Moving, Storing, LookingUp, Filling, Connecting, Altering, Dropping, Deleting, Invalidating

\* Creations that counted a role's records before others stored theirs take it
\* past its quota by no more than one batch for each of the other requests.
THEOREM QuotaOvershootIsBounded ==
  ASSUME RandomSuffixes, IsFiniteSet(Request)
  PROVE  Spec => []QuotaOvershootBounded
<1>1. Init => ListedInv
  BY DEF Init, ListedInv, Shared, Idle
<1>2. LifecycleInv /\ ListedInv /\ [Next]_vars => ListedInv'
  BY ListedStep
<1>3. Init => QuotaInv
  <2> SUFFICES ASSUME Init, NEW role \in Role, NEW n \in BatchSizes, Limited(role, n)
               PROVE  Fits(role, n)
    BY QuotaInvSplits
  <2>1. Claimed(role) = {}
    BY ClaimedBy DEF Init, Pends, Idle
  <2>2. \A s \in Request : ~Creates(req[s], role)
    BY DEF Init, Creates, Idle
  <2>3. Slots(role) = {}
    BY <2>2, SlotOf
  <2>4. /\ MaxCredentials[role] \in Nat /\ Most(role, n) \in Nat
        /\ Most(role, n) <= MaxCredentials[role]
    BY LifecycleAssumption DEF Most, Limited
  <2>5. 0 <= MaxCredentials[role] + (Cardinality(Request) - 1) * Most(role, n)
    <3> DEFINE k == Cardinality(Request)
               m == Most(role, n)
    <3>1. k \in Nat
      BY FS_CardinalityType
    <3> HIDE DEF k, m
    <3>2. (k - 1) * m = k * m - m /\ k * m \in Nat
      BY <2>4, <3>1 DEF m
    <3> QED  BY <2>4, <3>2 DEF k, m
  <2> QED  BY <2>1, <2>2, <2>3, <2>5, FS_EmptySet DEF Fits
<1>4. LifecycleInv /\ RoleInv /\ ListedInv /\ QuotaInv /\ [Next]_vars => QuotaInv'
  <2> SUFFICES ASSUME LifecycleInv, RoleInv, ListedInv, [Next]_vars,
                      NEW role \in Role, NEW n \in BatchSizes,
                      Limited(role, n), Fits(role, n)
               PROVE  Fits(role, n)'
    BY QuotaInvSplits
  <2>1. ASSUME store' = store, \A s \in Request : req'[s] \in {req[s], Idle}
        PROVE  Fits(role, n)'
    <3>1. \A s \in Request : ~Pends(Idle, role) /\ ~Creates(Idle, role)
      BY DEF Pends, Creates, Idle
    <3>2. Claimed(role)' \subseteq Claimed(role)
      BY <2>1, <3>1, ClaimedBy, ClaimedByNext
    <3>3. Slots(role)' \subseteq Slots(role)
      BY <2>1, <3>1, SlotOf, SlotOfNext
    <3>4. \A s \in Request : Creates(req'[s], role) => req'[s].left < Most(role, n)
      BY <2>1, <3>1 DEF Fits
    <3> QED  BY <3>2, <3>3, <3>4, InvTypes, FitsLess
  <2>2. CASE Dying \/ Drifting
    BY <2>1, <2>2 DEF Dying, Drifting
  <2> QED  BY <2>2, InvTypes, StepShape, FitsStep
<1>5. LifecycleInv /\ QuotaInv => QuotaOvershootBounded
  <2> SUFFICES ASSUME LifecycleInv, NEW role \in Role, NEW n \in BatchSizes,
                      Limited(role, n), Fits(role, n)
               PROVE  Cardinality(CredentialsOf(role))
                        <= MaxCredentials[role] + (Cardinality(Request) - 1) * Most(role, n)
    BY QuotaInvSplits DEF QuotaOvershootBounded, Limited, Most
  <2> DEFINE b == (Cardinality(Request) - 1) * Most(role, n)
  <2>1. CredentialsOf(role) \subseteq Claimed(role)
    BY DEF Claimed
  <2>2. /\ IsFiniteSet(Claimed(role)) /\ Cardinality(Claimed(role)) \in Nat
        /\ Cardinality(Slots(role)) \in Nat /\ MaxCredentials[role] \in Nat /\ b \in Int
    BY InvTypes, Countable
  <2>3. Cardinality(CredentialsOf(role)) <= Cardinality(Claimed(role))
    BY <2>1, <2>2, FS_Subset
  <2>4. Cardinality(Claimed(role)) + Cardinality(Slots(role)) <= MaxCredentials[role] + b
    BY DEF Fits
  <2> HIDE DEF b
  <2>5. Cardinality(CredentialsOf(role)) <= MaxCredentials[role] + b
    BY <2>2, <2>3, <2>4, CountIsNat
  <2> QED  BY <2>5 DEF b
<1> QED
  BY <1>1, <1>2, <1>3, <1>4, <1>5, LifecycleInvariant, RoleInvariant, PTL DEF Spec

\* The quota of a role is kept exactly while creations do not overlap: what exceeds
\* it comes from a creation that counted the records (countCredentialsByRole) before
\* another one stored its own, and from nothing else that a renewal, an extension, a
\* batch that is cut down, a failure or a crash does.
THEOREM QuotaKeptWithoutOverlap ==
  ASSUME RandomSuffixes, IsFiniteSet(Request), Cardinality(Request) = 1,
         \E n \in BatchSizes : \A m \in BatchSizes : m <= n
  PROVE  Spec => []QuotaRespected
<1>1. QuotaOvershootBounded => QuotaRespected
  <2> SUFFICES ASSUME QuotaOvershootBounded, NEW role \in Role, MaxCredentials[role] > 0
               PROVE  Cardinality(CredentialsOf(role)) <= MaxCredentials[role]
    BY DEF QuotaRespected
  <2> PICK n \in BatchSizes : \A m \in BatchSizes : m <= n
    OBVIOUS
  <2> DEFINE k == Cardinality(CredentialsOf(role))
             most == IF n > MaxCredentials[role] THEN MaxCredentials[role] ELSE n
  <2>1. k <= MaxCredentials[role] + (1 - 1) * most
    BY DEF QuotaOvershootBounded
  <2>2. most \in Nat /\ MaxCredentials[role] \in Nat
    BY LifecycleAssumption
  <2> HIDE DEF k, most
  <2>3. MaxCredentials[role] + (1 - 1) * most = MaxCredentials[role]
    BY <2>2
  <2>4. k <= MaxCredentials[role]
    BY <2>1, <2>3
  <2> QED  BY <2>4 DEF k
<1> QED
  BY <1>1, QuotaOvershootIsBounded, PTL

-----------------------------------------------------------------------------
(* The handlers implement LeasedUsers.                                        *)

LEMMA UnmadeBy ==
  /\ \A u : u \in Unmade <=>
       \/ u \in User \ used
       \/ \E s \in Request : req[s].pc = "create_user" /\ req[s].user = u
  /\ \A u : u \in Unmade' <=>
       \/ u \in User \ used'
       \/ \E s \in Request : req'[s].pc = "create_user" /\ req'[s].user = u
  BY DEF Unmade

LEMMA RecordsSame ==
  ASSUME store' = store
  PROVE  Records' = Records
  BY DEF Records

\* A name that is past, or made by a request that is beyond CREATE USER.
LEMMA MadeNames ==
  ASSUME LifecycleInv, NEW u \in User,
         \/ Past(u)
         \/ \E s \in Request : Making(req[s]) /\ req[s].pc # "create_user" /\ req[s].user = u
  PROVE  u \notin Unmade
<1>1. \A t \in Request : req[t].pc = "create_user" => Making(req[t])
  BY FramesOK, InvTypes DEF Making, OKFrame, FrameOK
<1>2. CASE Past(u)
  BY <1>1, <1>2, UnmadeBy DEF Past
<1>3. ASSUME NEW r \in Request, Making(req[r]), req[r].pc # "create_user", req[r].user = u
      PROVE  u \notin Unmade
  BY <1>1, <1>3, UnmadeBy, MakingIsUnknown
<1> QED  BY <1>2, <1>3

\* The user a frame works on, past CREATE USER.
LEMMA MadeByThen ==
  ASSUME LifecycleInv, NEW r \in Request, req[r] \in OKFrame,
         req[r].pc \in {"create_stmt", "rollback", "put", "cache", "drop", "delete", "invalidate"}
  PROVE  req[r].user \in User \ Unmade
<1> DEFINE f == req[r]
<1>1. f.user \in User
  BY DEF OKFrame, FrameOK
<1>2. CASE Making(f)
  BY <1>1, <1>2, MadeNames DEF Making
<1>3. CASE ~Making(f)
  <2>1. f.user \in Known(f)
    BY <1>3 DEF Known
  <2> QED  BY <1>1, <2>1, KnownIsPast, MadeNames
<1> QED  BY <1>2, <1>3

\* A step that neither begins nor ends a CREATE USER leaves the unmade names.
LEMMA UnmadeSame ==
  ASSUME NEW r \in Request, NEW h,
         req'[r] = h, \A s \in Request : s # r => req'[s] = req[s],
         req[r].pc # "create_user", h.pc # "create_user", used' = used
  PROVE  Unmade' = Unmade
<1>1. \A s \in Request : req'[s].pc = "create_user" <=> req[s].pc = "create_user"
  OBVIOUS
<1>2. \A s \in Request : req[s].pc = "create_user" => req'[s] = req[s]
  OBVIOUS
<1>3. \A u : (\E s \in Request : req'[s].pc = "create_user" /\ req'[s].user = u)
              <=> (\E s \in Request : req[s].pc = "create_user" /\ req[s].user = u)
  BY <1>1, <1>2
<1>4. \A u : u \in Unmade' <=> u \in Unmade
  BY <1>3, UnmadeBy
<1> QED  BY <1>4

\* A name that has just been generated is still to be made.
LEMMA UnmadeNamed ==
  ASSUME NEW r \in Request, NEW h,
         req'[r] = h, \A s \in Request : s # r => req'[s] = req[s],
         req[r].pc # "create_user", h.pc = "create_user",
         h.user \in User \ used, used' = used \cup {h.user}
  PROVE  Unmade' = Unmade
<1>1. \A s \in Request : req[s].pc = "create_user" => req'[s] = req[s]
  OBVIOUS
<1>2. \A s \in Request : req'[s].pc = "create_user" => s = r \/ req'[s] = req[s]
  OBVIOUS
<1>3. \A u : (\E s \in Request : req'[s].pc = "create_user" /\ req'[s].user = u)
              <=> \/ u = h.user
                  \/ \E s \in Request : req[s].pc = "create_user" /\ req[s].user = u
  BY <1>1, <1>2
<1>4. \A u : u \in Unmade' <=> u \in Unmade
  BY <1>3, UnmadeBy
<1> QED  BY <1>4

\* What leaves one database leaves the only one that has it.
LEMMA Dropped ==
  ASSUME LifecycleInv, TypeOK', NEW u \in User \ Unmade,
         \A g \in Region : db'[g] = db[g] \/ db'[g] = db[g] \ {u},
         UNCHANGED <<Unmade, store, held, removed>>
  PROVE  [Leases!Next]_(Leases!vars)
<1>1. db \in [Region -> SUBSET User] /\ db' \in [Region -> SUBSET User]
  BY DEF LifecycleInv, TypeOK
<1>2. CASE \E g \in Region : u \in db[g] /\ u \notin db'[g]
  <2>1. \A g \in Region : db'[g] = db[g] \ {u}
    BY <1>2 DEF LifecycleInv, HomeInv
  <2>2. db' = [g \in Region |-> db[g] \ {u}]
    BY <1>1, <2>1
  <2>3. Leases!Drop(u)
    BY <2>2, RecordsSame DEF Leases!Drop
  <2> QED  BY <2>3 DEF Leases!Next
<1>3. CASE \A g \in Region : u \in db[g] => u \in db'[g]
  <2>1. \A g \in Region : db'[g] = db[g]
    BY <1>3
  <2>2. db' = db
    BY <1>1, <2>1
  <2> QED  BY <2>2, RecordsSame DEF Leases!vars
<1> QED  BY <1>2, <1>3

LEMMA Quiet ==
  ASSUME UNCHANGED <<Unmade, db, store, held, removed>>
  PROVE  [Leases!Next]_(Leases!vars)
  BY RecordsSame DEF Leases!vars

\* A creation's users reach its caller when its last one has been cached.
LEMMA HandsOut ==
  ASSUME TypeInv, [Next]_vars, held' # held
  PROVE  \E r \in Request :
           /\ req[r].pc = "cache" /\ req[r].op = "create"
           /\ held' = held \cup Delivering(req[r])
           /\ req'[r] = Idle /\ \A s \in Request : s # r => req'[s] = req[s]
           /\ UNCHANGED <<db, store, removed, used>>
<1>1. PICK r \in Request : CacheCredential(r)
  BY DEF Next, vars, Crash, PluginDies, NilRetryPanic, CacheExpire, Tick,
         RequestStarts, CreateAdmit, ExtendLease, RevokeUsers, RevokeScan, RevokeRole,
         RevokeAll, CleanupStart, RenewStart, RenewBatch,
         RequestContinues, CreateUser, CreationStatement, Rollback, PutCredential,
         PickTarget, Lookup, FillCache, Connect, AlterPassword, DropUser, DeleteCredential,
         InvalidateCache
<1>2. req[r].pc = "cache" /\ req[r].op = "create"
      /\ held' = held \cup (req[r].users \cup {req[r].user}) /\ used' = used /\ Return(r)
      /\ UNCHANGED <<db, store, removed>>
  BY <1>1 DEF CacheCredential
<1>3. req'[r] = Idle /\ \A s \in Request : s # r => req'[s] = req[s]
  BY <1>2, FramesOK DEF Return
<1>4. Delivering(req[r]) = req[r].users \cup {req[r].user}
  BY <1>2 DEF Delivering
<1> QED  BY <1>2, <1>3, <1>4

LEMMA GivesRecorded ==
  ASSUME LifecycleInv, [Next]_vars, held' # held
  PROVE  [Leases!Next]_(Leases!vars)
<1>1. PICK r \in Request :
           /\ req[r].pc = "cache" /\ req[r].op = "create"
           /\ held' = held \cup Delivering(req[r])
           /\ req'[r] = Idle /\ \A s \in Request : s # r => req'[s] = req[s]
           /\ UNCHANGED <<db, store, removed, used>>
  BY InvTypes, HandsOut
<1> DEFINE S == Delivering(req[r])
<1>2. S \subseteq Known(req[r])
  BY <1>1 DEF Delivering, Known, Making
<1>3. S \subseteq User \ Unmade
  BY <1>2, KnownIsPast, MadeNames
<1>4. ASSUME NEW u \in S  PROVE  Leases!Home(u) \subseteq Records[u]
  <2>1. ASSUME NEW g \in Region, u \in db[g]  PROVE  store[u] # NoCred /\ store[u].region = g
    BY <1>3, <2>1 DEF LifecycleInv, TrackedInv, RegionInv, RecordNamesRegion
  <2> QED  BY <1>3, <2>1 DEF Leases!Home, Records
<1>5. Unmade' = Unmade
  <2>1. Idle.pc # "create_user"
    BY DEF Idle
  <2> QED  BY <1>1, <2>1, UnmadeSame
<1>6. Leases!Give(S)
  BY <1>1, <1>3, <1>4, <1>5, RecordsSame DEF Leases!Give
<1>7. S \in SUBSET User
  BY <1>3
<1> HIDE DEF S
<1> QED  BY <1>6, <1>7 DEF Leases!Next

LEMMA MovesLease ==
  ASSUME RandomSuffixes, LifecycleInv, TypeOK', held' = held,
         NEW r \in Request, NEW h, MovesTo(r, h)
  PROVE  [Leases!Next]_(Leases!vars)
<1> DEFINE f == req[r]
<1>0. /\ f \in OKFrame /\ f \in Frame /\ h \in OKFrame /\ req'[r] = h /\ Moving(r, h)
      /\ \A s \in Request : s # r => req'[s] = req[s]
      /\ db \in [Region -> SUBSET User] /\ db' \in [Region -> SUBSET User]
  BY DEF MovesTo, OKFrame, LifecycleInv, TypeOK
<1>1. Idle.pc = "idle" /\ (h = Idle \/ h = Resumed(f) => h.pc # "create_user")
  BY <1>0, LeftFields DEF Idle
<1>2. f.pc # "create_user" /\ h.pc # "create_user" /\ used' = used => Unmade' = Unmade
  BY <1>0, UnmadeSame
<1>3. ASSUME f.pc # "create_user", NEW role \in Role, NEW g, Naming(h, role, g)
      PROVE  Unmade' = Unmade
  <2>1. h.user \in User \ used
    BY <1>3, FreshNames DEF Naming
  <2> QED  BY <1>0, <1>3, <2>1, UnmadeNamed DEF Naming
<1>4. CASE Starting(r, h) \/ Extending(r, h) \/ Preparing(r, h) \/ Picking(r, h)
           \/ LookingUp(r, h) \/ Filling(r, h) \/ Connecting(r, h) \/ Altering(r, h)
  <2>1. f.pc # "create_user" /\ h.pc # "create_user"
    <3>1. CASE Picking(r, h)
      BY <3>1, PickedFields DEF Picking
    <3>2. CASE ~Picking(r, h)
      BY <1>1, <1>4, <3>2
      DEF Starting, Extending, Preparing, LookingUp, Filling, Connecting, Altering
    <3> QED  BY <3>1, <3>2
  <2>2. UNCHANGED <<db, store, used, removed>>
    BY <1>4
    DEF Starting, Extending, Preparing, Picking, LookingUp, Filling, Connecting, Altering
  <2> QED  BY <1>2, <2>1, <2>2, Quiet
<1>5. CASE Admitting(r, h)
  <2>1. Unmade' = Unmade
    BY <1>3, <1>5 DEF Admitting
  <2> QED  BY <1>5, <2>1, Quiet DEF Admitting
<1>6. CASE Caching(r, h)
  <2>1. f.copy.role \in Role /\ f.pc = "cache"
    BY <1>0, <1>6 DEF Caching, OKFrame, FrameOK, Frame, Credential
  <2>2. Unmade' = Unmade
    BY <1>1, <1>2, <1>3, <1>6, <2>1 DEF Caching
  <2> QED  BY <1>6, <2>2, Quiet DEF Caching
<1>7. CASE Creating(r, h)
  <2> DEFINE u == f.user
             g == f.copy.region
  <2>1. u \in User /\ g \in Region /\ Making(f) /\ f.pc = "create_user"
    BY <1>0, <1>7 DEF Creating, OKFrame, FrameOK, Frame, Credential, Making
  <2>2. h.pc # "create_user"
    BY <1>1, <1>7 DEF Creating
  <2>3. u \in used /\ u \in Unmade
        /\ \A s \in Request : s # r /\ req[s].pc = "create_user" => req[s].user # u
    <3>1. \A s \in Request : req[s].pc = "create_user" => Making(req[s])
      BY FramesOK, InvTypes DEF Making, OKFrame, FrameOK
    <3> QED  BY <2>1, <3>1, UnmadeBy, MakingIsUnknown
  <2>4. Unmade' = Unmade \ {u}
    BY <1>0, <1>7, <2>1, <2>2, <2>3, UnmadeBy DEF Creating
  <2>5. UNCHANGED <<Records, held, removed>>
    BY <1>7, RecordsSame DEF Creating
  <2>6. CASE db' = db
    <3>1. Leases!Abandon({u})
      BY <2>3, <2>4, <2>5, <2>6 DEF Leases!Abandon
    <3> QED  BY <2>1, <3>1 DEF Leases!Next
  <2>7. CASE db' # db
    <3>1. db' = [db EXCEPT ![g] = @ \cup {u}]
      <4>1. db'[g] = db[g] \cup {u} /\ \A x \in Region : x # g => db'[x] = db[x]
        BY <1>0, <1>7, <2>1, <2>7 DEF Creating
      <4> QED  BY <1>0, <2>1, <4>1
    <3>2. Leases!Make(u, g)
      BY <2>3, <2>4, <2>5, <3>1 DEF Leases!Make
    <3> QED  BY <2>1, <3>2 DEF Leases!Next
  <2> QED  BY <2>6, <2>7
<1>8. CASE RollingBack(r, h) \/ Dropping(r, h)
  <2>1. f.user \in User \ Unmade
    BY <1>0, <1>8, MadeByThen DEF RollingBack, Dropping
  <2>2. Unmade' = Unmade
    BY <1>1, <1>2, <1>8 DEF RollingBack, Dropping
  <2> QED  BY <1>8, <2>1, <2>2, Dropped DEF RollingBack, Dropping
<1>9. CASE Storing(r, h)
  <2> DEFINE u == f.user
             g == f.copy.region
  <2>1. /\ u \in User \ Unmade /\ f.copy # NoCred /\ f.copy \in Credential /\ g \in Region
        /\ f.pc = "put"
    BY <1>0, <1>9, MadeByThen DEF Storing, OKFrame, FrameOK, Frame, Credential
  <2>2. Unmade' = Unmade
    BY <1>1, <1>2, <1>9 DEF Storing
  <2>3. CASE store' = store
    BY <1>9, <2>2, <2>3, Quiet DEF Storing
  <2>4. CASE /\ h.copy # NoCred /\ h.copy.region = g
             /\ \A x \in User : store'[x] = IF x = u THEN h.copy ELSE store[x]
    <3>1. Leases!Home(u) \subseteq {g}
      BY <2>1 DEF Leases!Home, LifecycleInv, RegionInv
    <3>2. Records' = [Records EXCEPT ![u] = {g}]
      BY <2>1, <2>4 DEF Records
    <3>3. Leases!Write(u, g)
      BY <1>9, <2>1, <2>2, <3>1, <3>2 DEF Leases!Write, Storing
    <3> QED  BY <2>1, <3>3 DEF Leases!Next
  <2> QED  BY <1>9, <2>3, <2>4 DEF Storing, KeptButCopy
<1>10. CASE Deleting(r, h)
  <2> DEFINE u == f.user
  <2>1. u \in User \ Unmade /\ f.pc = "delete"
    BY <1>0, <1>10, MadeByThen DEF Deleting
  <2>2. Unmade' = Unmade
    BY <1>1, <1>2, <1>10 DEF Deleting
  <2>3. CASE store' = store
    BY <1>10, <2>2, <2>3, Quiet DEF Deleting
  <2>4. CASE \A x \in User : store'[x] = IF x = u THEN NoCred ELSE store[x]
    <3>1. Leases!Home(u) = {}
      BY <2>1 DEF Leases!Home, LifecycleInv, HomeInv
    <3>2. Records' = [Records EXCEPT ![u] = {}]
      BY <2>1, <2>4 DEF Records
    <3>3. Leases!Forget(u)
      BY <1>10, <2>1, <2>2, <3>1, <3>2 DEF Leases!Forget, Deleting
    <3> QED  BY <2>1, <3>3 DEF Leases!Next
  <2> QED  BY <1>10, <2>3, <2>4 DEF Deleting
<1>11. CASE Invalidating(r, h)
  <2> DEFINE u == f.user
  <2>1. u \in User \ Unmade /\ f.pc = "invalidate"
    BY <1>0, <1>11, MadeByThen DEF Invalidating
  <2>2. Unmade' = Unmade
    BY <1>1, <1>2, <1>11 DEF Invalidating
  <2>3. Leases!Home(u) = {}
    BY <2>1 DEF Leases!Home, LifecycleInv, HomeInv
  <2>4. Leases!Remove(u)
    BY <1>11, <2>1, <2>2, <2>3, RecordsSame DEF Leases!Remove, Invalidating
  <2> QED  BY <2>1, <2>4 DEF Leases!Next
<1> QED
  BY <1>0, <1>4, <1>5, <1>6, <1>7, <1>8, <1>9, <1>10, <1>11 DEF Moving

\* Every behaviour of the handlers is one of LeasedUsers.
THEOREM LeasesImplemented ==
  ASSUME RandomSuffixes
  PROVE  Spec => ImplementsLeases
<1>1. Init => Leases!Init
  BY DEF Init, Leases!Init, Unmade, Records, Idle
<1>2. LifecycleInv /\ LifecycleInv' /\ [Next]_vars => [Leases!Next]_(Leases!vars)
  <2> SUFFICES ASSUME LifecycleInv, LifecycleInv', [Next]_vars
               PROVE  [Leases!Next]_(Leases!vars)
    OBVIOUS
  <2>0. TypeOK'
    BY DEF LifecycleInv
  <2>1. CASE held' # held
    BY <2>1, GivesRecorded
  <2>2. CASE held' = held /\ Dying
    <3> DEFINE S == Unmade \ Unmade'
    <3>1. Unmade' \subseteq Unmade
      BY <2>2, UnmadeBy DEF Dying, Idle
    <3>2. Unmade \subseteq User
      <4>1. \A s \in Request : req[s].pc = "create_user" => req[s].user \in User
        BY FramesOK, InvTypes DEF OKFrame, FrameOK
      <4> QED  BY <4>1, UnmadeBy
    <3>3. Leases!Abandon(S)
      BY <2>2, <3>1, RecordsSame DEF Leases!Abandon, Dying
    <3>4. S \in SUBSET User
      BY <3>2
    <3> HIDE DEF S
    <3> QED  BY <3>3, <3>4 DEF Leases!Next
  <2>3. CASE held' = held /\ Drifting
    <3>1. Unmade' = Unmade
      BY <2>3, UnmadeBy DEF Drifting
    <3> QED  BY <2>3, <3>1, Quiet DEF Drifting
  <2> QED  BY <2>0, <2>1, <2>2, <2>3, InvTypes, StepShape, MovesLease
<1> QED
  BY <1>1, <1>2, LifecycleInvariant, PTL DEF Spec, ImplementsLeases, Leases!Spec

\* So a user that has left the databases never comes back, in any of them,
\* whatever was in flight when it was dropped.
THEOREM UsersNeverReturn ==
  ASSUME RandomSuffixes
  PROVE  Spec => Leases!NeverReturns
<1> DEFINE Stays == \A u \in User : u \notin Unmade
                      => u \notin Unmade' /\ Leases!Home(u)' \subseteq Leases!Home(u)
<1>1. LifecycleInv /\ LifecycleInv' /\ [Leases!Next]_(Leases!vars) => [Stays]_(Leases!vars)
  <2> SUFFICES ASSUME LifecycleInv, Leases!Next, NEW u \in User, u \notin Unmade
               PROVE  u \notin Unmade' /\ \A g \in Region : u \in db'[g] => u \in db[g]
    BY DEF Leases!Home
  <2>1. db \in [Region -> SUBSET User]
    BY DEF LifecycleInv, TypeOK
  <2>2. CASE \E x \in User, g \in Region : Leases!Make(x, g)
    BY <2>1, <2>2 DEF Leases!Make
  <2>3. CASE \E x \in User : Leases!Drop(x)
    BY <2>1, <2>3 DEF Leases!Drop
  <2>4. CASE \E S \in SUBSET User : Leases!Abandon(S) \/ Leases!Give(S)
    BY <2>4 DEF Leases!Abandon, Leases!Give
  <2>5. CASE \/ \E x \in User : Leases!Forget(x) \/ Leases!Remove(x)
             \/ \E x \in User, g \in Region : Leases!Write(x, g)
    BY <2>5 DEF Leases!Forget, Leases!Remove, Leases!Write
  <2> QED  BY <2>2, <2>3, <2>4, <2>5 DEF Leases!Next
<1>2. [Stays]_(Leases!vars)
        => [\A u \in User : u \notin Unmade
              => u \notin Unmade' /\ Leases!Home(u)' \subseteq Leases!Home(u)]_(Leases!vars)
  OBVIOUS
<1> QED
  BY <1>1, <1>2, LifecycleInvariant, LeasesImplemented, PTL
  DEF ImplementsLeases, Leases!Spec, Leases!NeverReturns

\* What LeasedUsers promises a caller and an administrator: whoever was given a
\* user can have it found in the database that has it, and what a revocation or a
\* cleanup reported as removed is in no database and will not be made again.
THEOREM PromisesKept ==
  ASSUME RandomSuffixes
  PROVE  Spec => [](Leases!Findable /\ Leases!Gone)
<1>1. LifecycleInv => Leases!Findable /\ Leases!Gone
  <2> SUFFICES ASSUME LifecycleInv  PROVE  Leases!Findable /\ Leases!Gone
    OBVIOUS
  <2>1. ASSUME NEW u \in held \cup removed  PROVE  u \in User \ Unmade
    BY <2>1, MadeNames DEF LifecycleInv, PastInv, TypeOK
  <2>2. ASSUME NEW u \in held, NEW g \in Region, u \in db[g]  PROVE  g \in Records[u]
    <3>1. store[u] # NoCred /\ store[u].region = g
      BY <2>1, <2>2 DEF LifecycleInv, TrackedInv, RegionInv, RecordNamesRegion
    <3> QED  BY <2>1, <2>2, <3>1 DEF Records
  <2>3. Leases!Findable
    BY <2>1, <2>2 DEF Leases!Findable, Leases!Home
  <2>4. Leases!Gone
    BY <2>1 DEF Leases!Gone, Leases!Home, LifecycleInv, RemovedIsDropped
  <2> QED  BY <2>3, <2>4
<1> QED  BY <1>1, LifecycleInvariant, PTL
=============================================================================

-------------------------- MODULE StaticRoles_proofs --------------------------
(***************************************************************************)
(* The passwords of static roles, for every number of requests, roles,     *)
(* users and databases.                                                    *)
(***************************************************************************)
EXTENDS StaticRoles, TLAPS

USE StaticAssumption

\* In the initial states nothing is stored and no request is in flight.
LEMMA InitInv == Init => StaticInv
<1> SUFFICES ASSUME Init
             PROVE  StaticInv
  OBVIOUS
<1>1. TypeOK
  BY DEF Init, TypeOK, Idle, Frame, Secret
<1>2. AloneInv
  BY DEF Init, AloneInv, Idle
<1>3. ASSUME NEW r \in Request
      PROVE  RequestOK(r)
  BY <1>3 DEF Init, RequestOK, FrameOK, ForceOK, RotateOK, PhaseOK, Changed, Idle
<1>4. ASSUME NEW n \in Name
      PROVE  NameOK(n)
  BY <1>4 DEF Init, NameOK, Settled, Works
<1> QED
  BY <1>1, <1>2, <1>3, <1>4 DEF StaticInv

\* What a step for the name n leaves alone: the records of other names, the
\* passwords of their users, and the other requests.
Elsewhere(r, n) ==
  /\ \A m \in Name \ {n} :
       /\ roles'[m] = roles[m]
       /\ creds'[m] = creds[m]
       /\ m \in disturbed' <=> m \in disturbed
       /\ \A u \in UsersOf[m], d \in Database : pw'[d][u] = pw[d][u]
  /\ \A s \in Request \ {r} : req'[s] = req[s]
  /\ accepted \subseteq accepted'

\* A step of a request that is for n, or done, when it ends, disturbs no other
\* request and no other name.
LEMMA OthersOK ==
  ASSUME StaticInv, NEW r \in Request, NEW n \in Name, req[r].name = n,
         Elsewhere(r, n),
         req'[r].name \in {n, None},
         req'[r].name = n => req'[r].alone = req[r].alone,
         n \in disturbed => n \in disturbed' \/ req[r].alone
  PROVE  /\ AloneInv'
         /\ \A s \in Request \ {r} : RequestOK(s)'
         /\ \A m \in Name \ {n} : NameOK(m)'
<1>1. AloneInv'
  BY DEF StaticInv, AloneInv, Elsewhere
<1>2. ASSUME NEW s \in Request \ {r}
      PROVE  RequestOK(s)'
  <2>1. req'[s] = req[s] /\ RequestOK(s) /\ req[s] \in Frame
    BY DEF Elsewhere, StaticInv, TypeOK
  <2>2. CASE req[s].name = None
    BY <2>1, <2>2 DEF RequestOK, FrameOK, ForceOK, RotateOK, PhaseOK, Changed
  <2>3. CASE req[s].name = n
    <3>1. ~req[s].alone /\ ~req[r].alone
      BY <2>3 DEF StaticInv, AloneInv
    <3>2. n \in disturbed'
      BY <2>1, <2>3, <3>1 DEF RequestOK, PhaseOK, FrameOK
    <3>3. FrameOK(s)' /\ RotateOK(s)' /\ PhaseOK(s)'
      BY <2>1, <2>3, <3>1, <3>2 DEF RequestOK, FrameOK, RotateOK, PhaseOK
    <3>4. ForceOK(s)'
      BY <2>1 DEF RequestOK, ForceOK, Changed, Target, Elsewhere
    <3> QED
      BY <3>3, <3>4 DEF RequestOK
  <2>4. ASSUME NEW m \in Name \ {n}, req[s].name = m
        PROVE  RequestOK(s)'
    <3>1. /\ roles'[m] = roles[m]
          /\ creds'[m] = creds[m]
          /\ m \in disturbed' <=> m \in disturbed
          /\ \A u \in UsersOf[m], d \in Database : pw'[d][u] = pw[d][u]
      BY <2>4 DEF Elsewhere
    <3>2. /\ req[s].role \in Role
          /\ req[s].role.user \in UsersOf[m]
          /\ req[s].role.db \in Database
      BY <2>1, <2>4 DEF RequestOK, FrameOK, Role
    <3>3. FrameOK(s)'
      BY <2>1 DEF RequestOK, FrameOK
    <3>4. ForceOK(s)'
      BY <2>1 DEF RequestOK, ForceOK, Changed, Target, Elsewhere
    <3>5. RotateOK(s)'
      BY <2>1, <2>4, <3>1, <3>2 DEF RequestOK, RotateOK, Changed
    <3>6. Settled(m) => Settled(m)'
      <4>1. creds[m] # None => creds[m].user \in UsersOf[m]
        BY <2>4 DEF StaticInv, NameOK
      <4> QED
        BY <3>1, <4>1 DEF Settled, Works
    <3>7. PhaseOK(s)'
      BY <2>1, <2>4, <3>1, <3>2, <3>6 DEF RequestOK, PhaseOK
    <3> QED
      BY <3>3, <3>4, <3>5, <3>7 DEF RequestOK
  <2> QED
    BY <2>1, <2>2, <2>3, <2>4 DEF Frame
<1>3. ASSUME NEW m \in Name \ {n}
      PROVE  NameOK(m)'
  <2>1. /\ roles'[m] = roles[m]
        /\ creds'[m] = creds[m]
        /\ m \in disturbed' <=> m \in disturbed
        /\ \A u \in UsersOf[m], d \in Database : pw'[d][u] = pw[d][u]
        /\ accepted \subseteq accepted'
        /\ NameOK(m)
    BY DEF Elsewhere, StaticInv
  <2>2. InFlight(m)' = {} => InFlight(m) = {}
    BY DEF InFlight, Elsewhere
  <2>3. Settled(m) => Settled(m)'
    BY <2>1 DEF NameOK, Settled, Works
  <2> QED
    BY <2>1, <2>2, <2>3 DEF NameOK
<1> QED
  BY <1>1, <1>2, <1>3

\* What is known of a request that is about to take the next step for its name.
LEMMA AtWork ==
  ASSUME StaticInv, NEW r \in Request, req[r].pc # "idle"
  PROVE  /\ req[r] \in Frame
         /\ req[r].name \in Name
         /\ req[r].role \in Role
         /\ req[r].role.user \in UsersOf[req[r].name]
         /\ req[r].role.user \in User
         /\ Target(req[r]) \in Database
         /\ RequestOK(r)
         /\ NameOK(req[r].name)
         /\ req[r].name \notin disturbed => InFlight(req[r].name) = {r}
         /\ req[r].alone => InFlight(req[r].name) = {r}
<1>1. /\ req[r] \in Frame
      /\ RequestOK(r)
  BY DEF StaticInv, TypeOK
<1>2. /\ req[r].name \in Name
      /\ req[r].role \in Role
      /\ req[r].role.user \in UsersOf[req[r].name]
  BY <1>1 DEF RequestOK, FrameOK, Frame
<1>3. req[r].role.user \in User /\ Target(req[r]) \in Database
  BY <1>2 DEF Role, Target
<1>4. req[r].alone => InFlight(req[r].name) = {r}
  BY <1>2 DEF StaticInv, AloneInv, InFlight
<1>5. req[r].name \notin disturbed => req[r].alone
  BY <1>1 DEF RequestOK, PhaseOK
<1> QED
  BY <1>1, <1>2, <1>3, <1>4, <1>5 DEF StaticInv

\* A name is as it should be when the request in flight for it goes on.
LEMMA StillInFlight ==
  ASSUME StaticInv, NEW r \in Request, NEW n \in Name, req'[r].name = n,
         roles'[n] # None => roles'[n].user \in UsersOf[n],
         creds' = creds, accepted \subseteq accepted'
  PROVE  NameOK(n)'
<1>1. InFlight(n)' # {}
  BY DEF InFlight
<1> QED
  BY <1>1 DEF StaticInv, NameOK

\* A request that has ended owes nothing.
LEMMA EndedOK ==
  ASSUME NEW r \in Request, req'[r] = Idle
  PROVE  RequestOK(r)' /\ req'[r].name = None
BY DEF RequestOK, FrameOK, ForceOK, RotateOK, PhaseOK, Changed, Idle

\* A request that ends with its name disturbed, and leaves records of the right
\* users, keeps the invariant.
LEMMA FailsInv ==
  ASSUME StaticInv, NEW r \in Request, req[r].pc # "idle", Fail(r), TypeOK',
         Elsewhere(r, req[r].name), UNCHANGED <<roles, creds>>
  PROVE  StaticInv'
<1>1. PICK n \in Name : n = req[r].name /\ NameOK(n)
  BY AtWork
<1>2. req'[r] = Idle /\ n \in disturbed'
  BY <1>1 DEF Fail, Return, StaticInv, TypeOK
<1>3. NameOK(n)'
  BY <1>1, <1>2 DEF NameOK, Elsewhere
<1>4. /\ AloneInv'
      /\ \A s \in Request \ {r} : RequestOK(s)'
      /\ \A m \in Name \ {n} : NameOK(m)'
  BY <1>1, <1>2, OthersOK DEF Idle
<1> QED
  BY <1>2, <1>3, <1>4, EndedOK DEF StaticInv

\* The parts of a step of one request, put together.
LEMMA StepInv ==
  ASSUME StaticInv, NEW r \in Request, NEW n \in Name, req[r].name = n, TypeOK',
         Elsewhere(r, n),
         req'[r].name \in {n, None},
         req'[r].name = n => req'[r].alone = req[r].alone,
         n \in disturbed => n \in disturbed' \/ req[r].alone,
         RequestOK(r)', NameOK(n)'
  PROVE  StaticInv'
<1>1. /\ AloneInv'
      /\ \A s \in Request \ {r} : RequestOK(s)'
      /\ \A m \in Name \ {n} : NameOK(m)'
  BY OthersOK
<1> QED
  BY <1>1 DEF StaticInv

-----------------------------------------------------------------------------
(* Requests start *)

\* A request that starts while another is in flight for its name disturbs the
\* name; one that starts alone finds it settled, or disturbed before.
LEMMA StartKeepsInv ==
  ASSUME StaticInv, NEW r \in Request, NEW n \in Name, NEW op, NEW pc, NEW role \in Role,
         Start(r, n, op, pc, role), role.user \in UsersOf[n],
         \/ op = "create" /\ pc = "role" /\ roles[n] = None
         \/ op = "update" /\ pc = "role" /\ roles[n] # None
         \/ op = "rotate" /\ pc = "modify" /\ roles[n] # None
         \/ op = "delete" /\ pc = "drop" /\ roles[n] # None
  PROVE  StaticInv'
<1> DEFINE new == [pc |-> pc, op |-> op, name |-> n, role |-> role,
                   password |-> None, alone |-> InFlight(n) = {}]
<1>1. /\ req'[r] = new
      /\ \A s \in Request \ {r} :
           req'[s] = IF req[s].name = n THEN [req[s] EXCEPT !.alone = FALSE] ELSE req[s]
      /\ disturbed' = IF InFlight(n) = {} THEN disturbed ELSE disturbed \cup {n}
      /\ UNCHANGED <<pw, roles, creds, accepted>>
  BY DEF Start
<1>11. /\ req'[r].pc = pc /\ req'[r].op = op /\ req'[r].name = n /\ req'[r].role = role
       /\ InFlight(n) = {} => req'[r].alone
       /\ InFlight(n) # {} => ~req'[r].alone
  <2>1. req'[r].pc = pc /\ req'[r].op = op /\ req'[r].name = n /\ req'[r].role = role
    BY <1>1
  <2> DEFINE free == InFlight(n) = {}
  <2>2. req'[r] = [pc |-> pc, op |-> op, name |-> n, role |-> role,
                   password |-> None, alone |-> free]
    BY <1>1
  <2> HIDE DEF free
  <2>3. req'[r].alone = free
    BY <2>2
  <2>4. free <=> InFlight(n) = {}
    BY DEF free
  <2> QED
    BY <2>1, <2>3, <2>4
<1>2. req[r].pc = "idle" /\ req[r].name = None
  BY DEF Start, StaticInv, RequestOK, FrameOK
<1>3. TypeOK /\ \A s \in Request : req[s] \in Frame
  BY DEF StaticInv, TypeOK
<1>4. new \in Frame
  BY DEF Frame
<1>5. TypeOK'
  <2>1. ASSUME NEW s \in Request
        PROVE  req'[s] \in Frame
    <3>1. CASE s = r
      BY <1>1, <1>4, <3>1
    <3>2. CASE s # r
      <4>1. [req[s] EXCEPT !.alone = FALSE] \in Frame
        BY <1>3 DEF Frame
      <4> QED
        BY <1>1, <1>3, <3>2, <4>1
    <3> QED
      BY <3>1, <3>2
  <2>2. req' \in [Request -> Frame]
    BY <2>1 DEF Start
  <2> QED
    BY <1>1, <1>3, <2>2 DEF TypeOK
<1>6. AloneInv'
  <2>1. \A s \in Request \ {r} : req'[s].name = req[s].name
    BY <1>1, <1>3 DEF Frame
  <2>2. ASSUME NEW s \in Request \ {r}, req'[s].name = n
        PROVE  ~req'[s].alone /\ ~req'[r].alone
    <3>1. s \in InFlight(n)
      BY <2>1, <2>2 DEF InFlight
    <3>2. ~req'[r].alone
      BY <1>11, <3>1
    <3>3. req'[s].alone = FALSE
      BY <1>1, <1>3, <2>1, <2>2 DEF Frame
    <3> QED
      BY <3>2, <3>3
  <2>3. \A s \in Request \ {r} : req'[s].alone => req[s].alone
    BY <1>1, <1>3 DEF Frame
  <2> QED
    BY <1>1, <2>1, <2>2, <2>3 DEF AloneInv, StaticInv
<1>7. InFlight(n) = {} /\ n \notin disturbed => Settled(n)
  BY DEF StaticInv, NameOK
<1>8. RequestOK(r)'
  <2>1. FrameOK(r)'
    BY <1>1 DEF FrameOK
  <2>2. ~Changed(r)'
    BY <1>1 DEF Changed
  <2>3. n \notin disturbed' => InFlight(n) = {} /\ Settled(n) /\ Settled(n)'
    BY <1>1, <1>7 DEF Settled, Works
  <2>5. PhaseOK(r)'
    BY <1>1, <1>11, <2>3 DEF PhaseOK, Settled
  <2> QED
    BY <2>1, <2>2, <2>5 DEF RequestOK, ForceOK, RotateOK
<1>9. ASSUME NEW s \in Request \ {r}
      PROVE  RequestOK(s)'
  <2>1. RequestOK(s)
    BY DEF StaticInv
  <2>2. CASE req[s].name = n
    <3>1. /\ req'[s] = [req[s] EXCEPT !.alone = FALSE]
          /\ n \in disturbed'
          /\ req[s] \in Frame
      BY <1>1, <1>3, <2>2 DEF InFlight
    <3>2. FrameOK(s)'
      BY <2>1, <3>1 DEF RequestOK, FrameOK, Frame
    <3>3. ForceOK(s)'
      BY <1>1, <2>1, <3>1 DEF RequestOK, ForceOK, Changed, Target, Frame
    <3>4. RotateOK(s)' /\ PhaseOK(s)'
      BY <2>2, <3>1 DEF RotateOK, PhaseOK, Frame
    <3> QED
      BY <3>2, <3>3, <3>4 DEF RequestOK
  <2>3. CASE req[s].name # n
    <3>1. /\ req'[s] = req[s]
          /\ req[s].name \in disturbed' <=> req[s].name \in disturbed
      BY <1>1, <2>3
    <3> QED
      BY <1>1, <2>1, <3>1
      DEF RequestOK, FrameOK, ForceOK, RotateOK, PhaseOK, Changed, Target, Settled, Works
  <2> QED
    BY <2>2, <2>3
<1>10. ASSUME NEW m \in Name
       PROVE  NameOK(m)'
  <2>1. NameOK(m)
    BY DEF StaticInv
  <2>2. CASE m = n
    <3>1. r \in InFlight(n)'
      BY <1>1 DEF InFlight
    <3> QED
      BY <1>1, <2>1, <2>2, <3>1 DEF NameOK
  <2>3. CASE m # n
    <3>1. ASSUME NEW s \in Request
          PROVE  req'[s].name = m <=> req[s].name = m
      <4>1. CASE s = r
        BY <1>2, <1>11, <2>3, <4>1
      <4>2. CASE s # r
        BY <1>1, <1>3, <4>2 DEF Frame
      <4> QED
        BY <4>1, <4>2
    <3>2. InFlight(m)' = InFlight(m)
      BY <3>1 DEF InFlight
    <3> QED
      BY <1>1, <2>1, <2>3, <3>2 DEF NameOK, Settled, Works
  <2> QED
    BY <2>2, <2>3
<1> QED
  BY <1>5, <1>6, <1>8, <1>9, <1>10 DEF StaticInv

\* Each way for a request to begin is such a start.
LEMMA BeginKeepsInv ==
  ASSUME StaticInv, NEW r \in Request, Begin(r)
  PROVE  StaticInv'
<1>1. PICK n \in Name :
        \/ \E u \in UsersOf[n], d \in Database :
             \/ StaticRoleCreate(r, n, [user |-> u, db |-> d])
             \/ StaticRoleUpdate(r, n, [user |-> u, db |-> d])
        \/ RotateStaticRole(r, n)
        \/ StaticRoleDelete(r, n)
  BY DEF Begin
<1>2. ASSUME NEW u \in UsersOf[n], NEW d \in Database,
             \/ StaticRoleCreate(r, n, [user |-> u, db |-> d])
             \/ StaticRoleUpdate(r, n, [user |-> u, db |-> d])
      PROVE  StaticInv'
  <2>1. [user |-> u, db |-> d] \in Role
    BY DEF Role
  <2> QED
    BY <1>2, <2>1, StartKeepsInv DEF StaticRoleCreate, StaticRoleUpdate
<1>3. roles[n] # None => roles[n] \in Role /\ roles[n].user \in UsersOf[n]
  BY DEF StaticInv, TypeOK, NameOK
<1>4. CASE RotateStaticRole(r, n)
  BY <1>3, <1>4, StartKeepsInv DEF RotateStaticRole
<1>5. CASE StaticRoleDelete(r, n)
  BY <1>3, <1>5, StartKeepsInv DEF StaticRoleDelete
<1> QED
  BY <1>1, <1>2, <1>4, <1>5

-----------------------------------------------------------------------------
(* Requests go on *)

\* MODIFY USER changes one password of a user of this name alone.
LEMMA PasswordOfName ==
  ASSUME TypeOK, NEW n \in Name, NEW d \in Database, NEW u \in User, NEW p \in Password,
         u \in UsersOf[n], SetPassword(d, u, p)
  PROVE  /\ pw' \in [Database -> [User -> Secret \cup {None}]]
         /\ accepted' \subseteq Database \X User \X Password
         /\ accepted \subseteq accepted'
         /\ <<d, u, p>> \in accepted'
         /\ pw'[d][u] = p
         /\ \A m \in Name \ {n} : \A v \in UsersOf[m], e \in Database : pw'[e][v] = pw[e][v]
<1>1. /\ pw' = [pw EXCEPT ![d][u] = p]
      /\ accepted' = accepted \cup {<<d, u, p>>}
      /\ pw \in [Database -> [User -> Secret \cup {None}]]
      /\ accepted \subseteq Database \X User \X Password
  BY DEF SetPassword, TypeOK
<1>2. pw' \in [Database -> [User -> Secret \cup {None}]] /\ pw'[d][u] = p
  BY <1>1 DEF Secret
<1>3. ASSUME NEW m \in Name \ {n}, NEW v \in UsersOf[m], NEW e \in Database
      PROVE  pw'[e][v] = pw[e][v]
  <2>1. v # u /\ v \in User
    OBVIOUS
  <2> QED
    BY <1>1, <2>1
<1> QED
  BY <1>1, <1>2, <1>3

\* The calls that end a request with an error, having changed nothing or the
\* password alone.
LEMMA FailuresKeepInv ==
  ASSUME StaticInv, NEW r \in Request,
         PutRoleFails(r) \/ ModifyUserFails(r) \/ PutCredFails(r) \/ DeleteRoleFails(r)
  PROVE  StaticInv'
<1>1. /\ req[r].pc # "idle"
      /\ Fail(r)
      /\ UNCHANGED <<roles, creds>>
  BY DEF PutRoleFails, ModifyUserFails, PutCredFails, DeleteRoleFails
<1>2. PICK n \in Name : n = req[r].name /\ req[r].role.user \in UsersOf[n]
  BY <1>1, AtWork
<1>3. /\ req' \in [Request -> Frame]
      /\ disturbed' = disturbed \cup {n}
      /\ \A s \in Request \ {r} : req'[s] = req[s]
  BY <1>1, <1>2 DEF Fail, Return, StaticInv, TypeOK, Idle, Frame
<1>4. TypeOK
  BY DEF StaticInv
<1>5. CASE UNCHANGED <<pw, accepted>>
  <2>1. TypeOK'
    BY <1>1, <1>3, <1>4, <1>5 DEF TypeOK
  <2>2. Elsewhere(r, n)
    BY <1>1, <1>3, <1>5 DEF Elsewhere
  <2> QED
    BY <1>1, <1>2, <2>1, <2>2, FailsInv
<1>6. ASSUME NEW p \in Password, SetPassword(Target(req[r]), req[r].role.user, p)
      PROVE  StaticInv'
  <2>1. /\ pw' \in [Database -> [User -> Secret \cup {None}]]
        /\ accepted' \subseteq Database \X User \X Password
        /\ accepted \subseteq accepted'
        /\ \A m \in Name \ {n} : \A v \in UsersOf[m], e \in Database : pw'[e][v] = pw[e][v]
    BY <1>1, <1>2, <1>4, <1>6, AtWork, PasswordOfName
  <2>2. TypeOK'
    BY <1>1, <1>3, <1>4, <2>1 DEF TypeOK
  <2>3. Elsewhere(r, n)
    BY <1>1, <1>3, <2>1 DEF Elsewhere
  <2> QED
    BY <1>1, <1>2, <2>2, <2>3, FailsInv
<1> QED
  BY <1>5, <1>6 DEF PutRoleFails, ModifyUserFails, PutCredFails, DeleteRoleFails

\* The record of the role is stored: a creation's or an update's, or a
\* rotation's that has changed the password.
LEMMA PutRoleKeepsInv ==
  ASSUME StaticInv, NEW r \in Request, PutRole(r)
  PROVE  StaticInv'
<1>1. PICK n \in Name : n = req[r].name
  BY AtWork DEF PutRole
<1>2. /\ req[r] \in Frame
      /\ req[r].pc = "role"
      /\ req[r].op \in {"create", "update", "rotate"}
      /\ req[r].role \in Role
      /\ req[r].role # None
      /\ req[r].role.user \in UsersOf[n]
      /\ RequestOK(r)
      /\ NameOK(n)
      /\ n \notin disturbed => InFlight(n) = {r} /\ req[r].alone
  BY <1>1, AtWork DEF PutRole, RequestOK, FrameOK, PhaseOK, Role
<1>3. TypeOK
  BY DEF StaticInv
<1>4. /\ roles' = [roles EXCEPT ![n] = req[r].role]
      /\ UNCHANGED <<pw, creds, accepted, disturbed>>
      /\ \/ req[r].op = "create" /\ req' = [req EXCEPT ![r].pc = "check"]
         \/ req[r].op = "update" /\ req' = [req EXCEPT ![r] = Idle]
         \/ req[r].op = "rotate" /\ req' = [req EXCEPT ![r].pc = "cred"]
  BY <1>1, <1>2 DEF PutRole, Goto, Return
<1>5. /\ TypeOK'
      /\ roles'[n] = req[r].role
  <2>1. [req[r] EXCEPT !.pc = "check"] \in Frame /\ [req[r] EXCEPT !.pc = "cred"] \in Frame
    BY <1>2 DEF Frame
  <2>2. Idle \in Frame
    BY DEF Idle, Frame
  <2>3. req' \in [Request -> Frame]
    BY <1>3, <1>4, <2>1, <2>2 DEF TypeOK
  <2>4. roles' \in [Name -> Role \cup {None}] /\ roles'[n] = req[r].role
    BY <1>2, <1>3, <1>4 DEF TypeOK
  <2> QED
    BY <1>3, <1>4, <2>3, <2>4 DEF TypeOK
<1>6. Elsewhere(r, n)
  BY <1>3, <1>4 DEF Elsewhere, TypeOK
<1>7. /\ req'[r].name \in {n, None}
      /\ req'[r].name = n => req'[r].alone = req[r].alone
  BY <1>1, <1>2, <1>3, <1>4 DEF Idle, TypeOK, Frame
<1>8. RequestOK(r)' /\ NameOK(n)'
  <2>1. CASE req[r].op = "update"
    <3>1. req'[r] = Idle
      BY <1>3, <1>4, <2>1 DEF TypeOK
    <3>2. n \notin disturbed => Settled(n)'
      BY <1>1, <1>2, <1>4, <1>5, <2>1 DEF RequestOK, PhaseOK, Settled, Works
    <3>3. NameOK(n)'
      BY <1>2, <1>4, <1>5, <3>2 DEF NameOK
    <3> QED
      BY <3>1, <3>3, EndedOK
  <2>2. CASE req[r].op # "update"
    <3>1. /\ req'[r] = [req[r] EXCEPT !.pc = IF req[r].op = "create" THEN "check" ELSE "cred"]
          /\ req'[r].name = n
      <4>1. CASE req[r].op = "create"
        BY <1>1, <1>2, <1>3, <1>4, <4>1 DEF TypeOK, Frame
      <4>2. CASE req[r].op = "rotate"
        BY <1>1, <1>2, <1>3, <1>4, <4>2 DEF TypeOK, Frame
      <4> QED
        BY <1>2, <2>2, <4>1, <4>2
    <3>2. NameOK(n)'
      BY <1>2, <1>4, <1>5, <3>1, StillInFlight
    <3>3. FrameOK(r)'
      BY <1>1, <1>2, <2>2, <3>1 DEF RequestOK, FrameOK, Frame
    <3>4. ForceOK(r)'
      BY <1>2, <1>4, <2>2, <3>1 DEF RequestOK, ForceOK, Changed, Target, Frame
    <3>5. RotateOK(r)'
      BY <1>1, <1>2, <1>4, <1>5, <2>2, <3>1 DEF RequestOK, RotateOK, Changed, Frame
    <3>6. PhaseOK(r)'
      BY <1>1, <1>2, <1>4, <1>5, <2>2, <3>1 DEF RequestOK, PhaseOK, Frame
    <3> QED
      BY <3>2, <3>3, <3>4, <3>5, <3>6 DEF RequestOK
  <2> QED
    BY <2>1, <2>2
<1> QED
  BY <1>1, <1>4, <1>5, <1>6, <1>7, <1>8, StepInv

\* A creation that finds a credential is a creation of a disturbed name.
LEMMA CheckKeepsInv ==
  ASSUME StaticInv, NEW r \in Request, CheckExistingCred(r)
  PROVE  StaticInv'
<1>1. PICK n \in Name : n = req[r].name
  BY AtWork DEF CheckExistingCred
<1>2. /\ req[r] \in Frame
      /\ req[r].pc = "check" /\ req[r].op = "create"
      /\ RequestOK(r) /\ NameOK(n)
      /\ TypeOK
  BY <1>1, AtWork DEF CheckExistingCred, RequestOK, FrameOK, StaticInv
<1>3. UNCHANGED <<pw, roles, creds, accepted, disturbed>>
  BY DEF CheckExistingCred
<1>4. CASE creds[n] # None /\ Return(r)
  <2>1. req' = [req EXCEPT ![r] = Idle] /\ req'[r] = Idle
    BY <1>2, <1>4 DEF Return, TypeOK
  <2>2. n \in disturbed
    BY <1>1, <1>2, <1>4 DEF RequestOK, PhaseOK
  <2>3. TypeOK' /\ Elsewhere(r, n)
    BY <1>2, <1>3, <2>1 DEF TypeOK, Idle, Frame, Elsewhere
  <2>4. NameOK(n)'
    BY <1>2, <1>3, <2>2 DEF NameOK
  <2>5. RequestOK(r)' /\ req'[r].name = None
    BY <2>1, EndedOK
  <2> QED
    BY <1>1, <1>3, <2>3, <2>4, <2>5, StepInv
<1>5. CASE Goto(r, "modify")
  <2>1. /\ req' = [req EXCEPT ![r].pc = "modify"]
        /\ req'[r] = [req[r] EXCEPT !.pc = "modify"]
    BY <1>2, <1>5 DEF Goto, TypeOK
  <2>2. req'[r] \in Frame /\ req'[r].name = n /\ req'[r].alone = req[r].alone
    BY <1>1, <1>2, <2>1 DEF Frame
  <2>3. TypeOK' /\ Elsewhere(r, n)
    BY <1>2, <1>3, <2>1, <2>2 DEF TypeOK, Elsewhere
  <2>4. NameOK(n)'
    BY <1>2, <1>3, <2>2, StillInFlight DEF NameOK
  <2>5. RequestOK(r)'
    BY <1>1, <1>2, <1>3, <2>1
    DEF RequestOK, FrameOK, ForceOK, RotateOK, PhaseOK, Changed, Frame
  <2> QED
    BY <1>1, <1>3, <2>2, <2>3, <2>4, <2>5, StepInv
<1> QED
  BY <1>1, <1>4, <1>5 DEF CheckExistingCred

\* The database takes the new password, which the request now carries.
LEMMA ModifyKeepsInv ==
  ASSUME StaticInv, NEW r \in Request, ModifyUser(r)
  PROVE  StaticInv'
<1>1. PICK n \in Name : n = req[r].name
  BY AtWork DEF ModifyUser
<1>2. /\ req[r] \in Frame
      /\ req[r].pc = "modify" /\ req[r].op \in {"create", "rotate"}
      /\ req[r].role \in Role
      /\ req[r].role.user \in User /\ req[r].role.user \in UsersOf[n]
      /\ Target(req[r]) \in Database
      /\ RequestOK(r) /\ NameOK(n)
      /\ TypeOK
  BY <1>1, AtWork DEF ModifyUser, RequestOK, FrameOK, StaticInv
<1>3. PICK p \in Password :
        /\ SetPassword(Target(req[r]), req[r].role.user, p)
        /\ req' = [req EXCEPT ![r].password = p,
                              ![r].pc = IF req[r].op = "create" THEN "cred" ELSE "role"]
  BY DEF ModifyUser
<1>4. UNCHANGED <<roles, creds, disturbed>>
  BY DEF ModifyUser
<1>5. /\ pw' \in [Database -> [User -> Secret \cup {None}]]
      /\ accepted' \subseteq Database \X User \X Password
      /\ accepted \subseteq accepted'
      /\ <<Target(req[r]), req[r].role.user, p>> \in accepted'
      /\ pw'[Target(req[r])][req[r].role.user] = p
      /\ \A m \in Name \ {n} : \A v \in UsersOf[m], e \in Database : pw'[e][v] = pw[e][v]
  BY <1>2, <1>3, PasswordOfName
<1>6. req'[r] = [req[r] EXCEPT !.password = p,
                               !.pc = IF req[r].op = "create" THEN "cred" ELSE "role"]
  BY <1>2, <1>3 DEF TypeOK
<1>7. /\ req'[r] \in Frame
      /\ req'[r].name = n /\ req'[r].alone = req[r].alone /\ req'[r].op = req[r].op
      /\ req'[r].role = req[r].role /\ req'[r].password = p
      /\ req'[r].pc = IF req[r].op = "create" THEN "cred" ELSE "role"
  BY <1>1, <1>2, <1>6 DEF Frame
<1>8. TypeOK'
  <2>1. req' \in [Request -> Frame]
    BY <1>2, <1>3, <1>7 DEF TypeOK
  <2> QED
    BY <1>2, <1>4, <1>5, <2>1 DEF TypeOK
<1>9. Elsewhere(r, n)
  BY <1>2, <1>3, <1>4, <1>5 DEF TypeOK, Elsewhere
<1>10. NameOK(n)'
  BY <1>2, <1>4, <1>5, <1>7, StillInFlight DEF NameOK
<1>11. RequestOK(r)'
  <2>1. FrameOK(r)'
    BY <1>1, <1>2, <1>7 DEF RequestOK, FrameOK
  <2>2. Target(req'[r]) = Target(req[r])
    BY <1>7 DEF Target
  <2>3. ForceOK(r)'
    BY <1>5, <1>7, <2>2 DEF ForceOK
  <2>4. RotateOK(r)'
    BY <1>2, <1>5, <1>7 DEF RotateOK, Changed, Target
  <2>5. PhaseOK(r)'
    BY <1>1, <1>2, <1>4, <1>5, <1>7 DEF RequestOK, PhaseOK, Target
  <2> QED
    BY <2>1, <2>3, <2>4, <2>5 DEF RequestOK
<1> QED
  BY <1>1, <1>4, <1>7, <1>8, <1>9, <1>10, <1>11, StepInv

\* The credential is stored: what the database took last, unless the name is
\* disturbed, and then it was taken at some time.
LEMMA PutCredKeepsInv ==
  ASSUME StaticInv, NEW r \in Request, PutCred(r)
  PROVE  StaticInv'
<1>1. PICK n \in Name : n = req[r].name
  BY AtWork DEF PutCred
<1>2. /\ req[r] \in Frame
      /\ req[r].pc = "cred" /\ req[r].op \in {"create", "rotate"}
      /\ req[r].role \in Role
      /\ req[r].role.user \in UsersOf[n]
      /\ RequestOK(r) /\ NameOK(n)
      /\ TypeOK
  BY <1>1, AtWork DEF PutCred, RequestOK, FrameOK, StaticInv
<1> DEFINE c == [user |-> req[r].role.user, db |-> req[r].role.db, password |-> req[r].password]
<1>3. /\ creds' = [creds EXCEPT ![n] = c]
      /\ disturbed' = IF req[r].op = "rotate" /\ req[r].alone THEN disturbed \ {n} ELSE disturbed
      /\ req' = [req EXCEPT ![r] = Idle]
      /\ UNCHANGED <<pw, roles, accepted>>
  BY <1>1 DEF PutCred, Return
<1>4. /\ <<Target(req[r]), req[r].role.user, req[r].password>> \in accepted
      /\ req[r].password \in Password
  BY <1>2 DEF RequestOK, ForceOK, Changed, TypeOK
<1>5. c \in Cred /\ c # None
  BY <1>2, <1>4 DEF Cred, Role
<1>6. req'[r] = Idle /\ creds'[n] = c
  BY <1>2, <1>3, <1>5 DEF TypeOK
<1>7. TypeOK' /\ Elsewhere(r, n)
  <2>1. req' \in [Request -> Frame] /\ creds' \in [Name -> Cred \cup {None}]
    BY <1>2, <1>3, <1>5 DEF TypeOK, Idle, Frame
  <2> QED
    BY <1>2, <1>3, <2>1 DEF TypeOK, Elsewhere
<1>8. NameOK(n)'
  <2>1. Target(req[r]) \in {c.db, Default}
    BY <1>2 DEF Target
  <2>2. n \notin disturbed' => roles[n] # None /\ Works(n)'
    <3>1. CASE req[r].op = "rotate" /\ req[r].alone
      BY <1>1, <1>2, <1>3, <1>6, <3>1 DEF RequestOK, RotateOK, Changed, Works
    <3>2. CASE ~(req[r].op = "rotate" /\ req[r].alone)
      BY <1>1, <1>2, <1>3, <1>6, <3>2 DEF RequestOK, PhaseOK, Works
    <3> QED
      BY <3>1, <3>2
  <2> QED
    BY <1>2, <1>3, <1>4, <1>5, <1>6, <2>1, <2>2 DEF NameOK, Settled
<1>9. RequestOK(r)' /\ req'[r].name = None
  BY <1>6, EndedOK
<1>10. n \in disturbed => n \in disturbed' \/ req[r].alone
  BY <1>3
<1> QED
  BY <1>1, <1>7, <1>8, <1>9, <1>10, StepInv

\* The user is dropped, or not; nobody looks.
LEMMA DropKeepsInv ==
  ASSUME StaticInv, NEW r \in Request, DropUser(r)
  PROVE  StaticInv'
<1>1. PICK n \in Name : n = req[r].name
  BY AtWork DEF DropUser
<1>2. /\ req[r] \in Frame
      /\ req[r].pc = "drop" /\ req[r].op = "delete"
      /\ req[r].role.user \in User /\ req[r].role.user \in UsersOf[n]
      /\ RequestOK(r) /\ NameOK(n)
      /\ TypeOK
  BY <1>1, AtWork DEF DropUser, RequestOK, FrameOK, StaticInv
<1>3. /\ req' = [req EXCEPT ![r].pc = "delrole"]
      /\ UNCHANGED <<roles, creds, accepted, disturbed>>
      /\ pw' = [pw EXCEPT ![Default][req[r].role.user] = None] \/ pw' = pw
  BY DEF DropUser, Goto
<1>4. req'[r] = [req[r] EXCEPT !.pc = "delrole"]
  BY <1>2, <1>3 DEF TypeOK
<1>5. req'[r] \in Frame /\ req'[r].name = n /\ req'[r].alone = req[r].alone
  BY <1>1, <1>2, <1>4 DEF Frame
<1>6. ASSUME NEW m \in Name \ {n}, NEW v \in UsersOf[m], NEW e \in Database
      PROVE  pw'[e][v] = pw[e][v]
  <2>1. v # req[r].role.user /\ v \in User
    BY <1>2
  <2> QED
    BY <1>2, <1>3, <2>1 DEF TypeOK
<1>7. TypeOK' /\ Elsewhere(r, n)
  <2>1. pw' \in [Database -> [User -> Secret \cup {None}]]
    BY <1>2, <1>3 DEF TypeOK
  <2>2. req' \in [Request -> Frame]
    BY <1>2, <1>3, <1>5 DEF TypeOK
  <2>3. \A s \in Request \ {r} : req'[s] = req[s]
    BY <1>2, <1>3 DEF TypeOK
  <2> QED
    BY <1>2, <1>3, <1>6, <2>1, <2>2, <2>3 DEF TypeOK, Elsewhere
<1>8. NameOK(n)'
  BY <1>2, <1>3, <1>5, StillInFlight DEF NameOK
<1>9. RequestOK(r)'
  BY <1>1, <1>2, <1>3, <1>4
  DEF RequestOK, FrameOK, ForceOK, RotateOK, PhaseOK, Changed, Frame
<1> QED
  BY <1>1, <1>3, <1>5, <1>7, <1>8, <1>9, StepInv

\* The record of the role is gone, the credential not yet.
LEMMA DeleteRoleKeepsInv ==
  ASSUME StaticInv, NEW r \in Request, DeleteRole(r)
  PROVE  StaticInv'
<1>1. PICK n \in Name : n = req[r].name
  BY AtWork DEF DeleteRole
<1>2. /\ req[r] \in Frame
      /\ req[r].pc = "delrole" /\ req[r].op = "delete"
      /\ RequestOK(r) /\ NameOK(n)
      /\ TypeOK
  BY <1>1, AtWork DEF DeleteRole, RequestOK, FrameOK, StaticInv
<1>3. /\ roles' = [roles EXCEPT ![n] = None]
      /\ req' = [req EXCEPT ![r].pc = "delcred"]
      /\ UNCHANGED <<pw, creds, accepted, disturbed>>
  BY <1>1 DEF DeleteRole, Goto
<1>4. /\ req'[r] = [req[r] EXCEPT !.pc = "delcred"]
      /\ roles'[n] = None
  BY <1>2, <1>3 DEF TypeOK
<1>5. req'[r] \in Frame /\ req'[r].name = n /\ req'[r].alone = req[r].alone
  BY <1>1, <1>2, <1>4 DEF Frame
<1>6. TypeOK' /\ Elsewhere(r, n)
  BY <1>2, <1>3, <1>5 DEF TypeOK, Elsewhere
<1>7. NameOK(n)'
  BY <1>2, <1>3, <1>4, <1>5, StillInFlight
<1>8. RequestOK(r)'
  BY <1>1, <1>2, <1>3, <1>4
  DEF RequestOK, FrameOK, ForceOK, RotateOK, PhaseOK, Changed, Frame
<1> QED
  BY <1>1, <1>3, <1>5, <1>6, <1>7, <1>8, StepInv

\* The credential is gone as well, or its name is disturbed.
LEMMA DeleteCredKeepsInv ==
  ASSUME StaticInv, NEW r \in Request, DeleteCred(r)
  PROVE  StaticInv'
<1>1. PICK n \in Name : n = req[r].name
  BY AtWork DEF DeleteCred
<1>2. /\ req[r].pc = "delcred"
      /\ RequestOK(r) /\ NameOK(n)
      /\ TypeOK
  BY <1>1, AtWork DEF DeleteCred, StaticInv
<1>3. /\ req' = [req EXCEPT ![r] = Idle]
      /\ UNCHANGED <<pw, roles, accepted>>
      /\ \/ creds' = [creds EXCEPT ![n] = None] /\ disturbed' = disturbed
         \/ creds' = creds /\ disturbed' = disturbed \cup {n}
  BY <1>1 DEF DeleteCred, Return
<1>4. req'[r] = Idle
  BY <1>2, <1>3 DEF TypeOK
<1>5. TypeOK' /\ Elsewhere(r, n)
  <2>1. req' \in [Request -> Frame] /\ creds' \in [Name -> Cred \cup {None}]
    BY <1>2, <1>3 DEF TypeOK, Idle, Frame
  <2> QED
    BY <1>2, <1>3, <2>1 DEF TypeOK, Elsewhere
<1>6. NameOK(n)'
  <2>1. CASE disturbed' = disturbed \cup {n} /\ creds' = creds
    BY <1>2, <1>3, <2>1 DEF NameOK
  <2>2. CASE creds' = [creds EXCEPT ![n] = None] /\ disturbed' = disturbed
    <3>1. creds'[n] = None
      BY <1>2, <2>2 DEF TypeOK
    <3>2. n \notin disturbed => roles[n] = None
      BY <1>1, <1>2 DEF RequestOK, PhaseOK
    <3> QED
      BY <1>2, <1>3, <2>2, <3>1, <3>2 DEF NameOK, Settled, Works
  <2> QED
    BY <1>3, <2>1, <2>2
<1>7. RequestOK(r)' /\ req'[r].name = None
  BY <1>4, EndedOK
<1> QED
  BY <1>1, <1>3, <1>5, <1>6, <1>7, StepInv

\* A crash ends every request and disturbs the names they were for.
LEMMA CrashKeepsInv ==
  ASSUME StaticInv, Crash
  PROVE  StaticInv'
<1>1. /\ \A r \in Request : req'[r] = Idle
      /\ disturbed' = disturbed \cup {req[r].name : r \in {s \in Request : req[s].pc # "idle"}}
      /\ UNCHANGED <<pw, roles, creds, accepted>>
  BY DEF Crash
<1>2. \A r \in Request : req[r].pc # "idle" => req[r].name \in Name
  BY AtWork
<1>3. TypeOK'
  BY <1>1, <1>2 DEF Crash, StaticInv, TypeOK, Idle, Frame
<1>4. AloneInv'
  BY <1>1 DEF AloneInv, Idle
<1>5. ASSUME NEW r \in Request
      PROVE  RequestOK(r)'
  BY <1>1, EndedOK
<1>6. ASSUME NEW n \in Name
      PROVE  NameOK(n)'
  <2>1. NameOK(n)
    BY DEF StaticInv
  <2>2. n \notin disturbed' => n \notin disturbed /\ InFlight(n) = {}
    BY <1>1 DEF InFlight, StaticInv, RequestOK, FrameOK
  <2> QED
    BY <1>1, <2>1, <2>2 DEF NameOK, Settled, Works
<1> QED
  BY <1>3, <1>4, <1>5, <1>6 DEF StaticInv

-----------------------------------------------------------------------------
(* The theorems *)

\* What the requests in flight carry agrees with database and storage, and names
\* without a request or a disturbance are settled, at every call of the handlers.
THEOREM StaticInvariant == Spec => []StaticInv
<1>1. StaticInv /\ [Next]_vars => StaticInv'
  <2> SUFFICES ASSUME StaticInv, [Next]_vars
               PROVE  StaticInv'
    OBVIOUS
  <2>1. ASSUME NEW r \in Request, Begin(r)
        PROVE  StaticInv'
    BY <2>1, BeginKeepsInv
  <2>2. ASSUME NEW r \in Request, Continue(r)
        PROVE  StaticInv'
    BY <2>2, FailuresKeepInv, PutRoleKeepsInv, CheckKeepsInv, ModifyKeepsInv, PutCredKeepsInv,
       DropKeepsInv, DeleteRoleKeepsInv, DeleteCredKeepsInv
    DEF Continue
  <2>3. CASE Crash
    BY <2>3, CrashKeepsInv
  <2>4. CASE UNCHANGED vars
    BY <2>4
    DEF vars, StaticInv, TypeOK, AloneInv, RequestOK, FrameOK, ForceOK, RotateOK, PhaseOK,
        Changed, NameOK, Settled, Works, InFlight
  <2> QED
    BY <2>1, <2>2, <2>3, <2>4 DEF Next
<1> QED
  BY <1>1, InitInv, PTL DEF Spec

\* Create and rotate never store a password that no database has accepted for
\* the user, however requests interleave, fail or are cut off.
THEOREM OnlyPasswordsInForce == Spec => []StoredWasInForce
<1>1. StaticInv => StoredWasInForce
  BY DEF StaticInv, NameOK, StoredWasInForce
<1> QED
  BY <1>1, StaticInvariant, PTL

\* A credential stored for the default database opens a session there, unless a
\* change of its name failed half-way or overlapped another.
THEOREM StoredPasswordsWork == Spec => []StoredPasswordWorks
<1>1. StaticInv => StoredPasswordWorks
  BY DEF StaticInv, NameOK, Settled, Works, StoredPasswordWorks
<1> QED
  BY <1>1, StaticInvariant, PTL

\* Under the same condition no credential is without its role and no role
\* without its credential.
THEOREM RolesHaveCredentials == Spec => []RoleAndCredTogether
<1>1. StaticInv => RoleAndCredTogether
  BY DEF StaticInv, NameOK, Settled, RoleAndCredTogether
<1> QED
  BY <1>1, StaticInvariant, PTL

\* A rotation that is alone from its start to its end repairs its name, whatever
\* failed, crashed or overlapped before: when its last Put is done, the role has
\* its credential, and a credential for the default database opens a session.
Repairs(r, n) == req[r].op = "rotate" /\ req[r].alone /\ req[r].name = n /\ PutCred(r)

RotationRepairs == [][\A r \in Request, n \in Name : Repairs(r, n) => Settled(n)']_vars

THEOREM LoneRotationRepairs == Spec => RotationRepairs
<1>1. StaticInv => [\A r \in Request, n \in Name : Repairs(r, n) => Settled(n)']_vars
  <2> SUFFICES ASSUME StaticInv, NEW r \in Request, NEW n \in Name, Repairs(r, n)
               PROVE  Settled(n)'
    OBVIOUS
  <2> DEFINE c == [user |-> req[r].role.user, db |-> req[r].role.db, password |-> req[r].password]
  <2>1. RequestOK(r) /\ req[r] \in Frame /\ creds \in [Name -> Cred \cup {None}]
    BY DEF StaticInv, TypeOK
  <2>2. req[r].role \in Role /\ Changed(r) /\ req[r].pc = "cred"
    BY <2>1 DEF RequestOK, FrameOK, Repairs, PutCred, Changed
  <2>3. pw[Default][req[r].role.user] = req[r].password /\ roles[n] # None
    BY <2>1, <2>2 DEF RequestOK, RotateOK, Repairs
  <2>4. creds'[n] = c /\ pw' = pw /\ roles' = roles
    BY <2>1, <2>2 DEF Repairs, PutCred
  <2>5. c.user = req[r].role.user /\ c.password = req[r].password
    OBVIOUS
  <2>6. c # None
    <3>1. req[r].password \in Password
      BY <2>1, <2>2 DEF RequestOK, ForceOK, StaticInv, TypeOK
    <3> QED  BY <2>2, <3>1, StaticAssumption DEF Role
  <2> QED
    BY <2>3, <2>4, <2>5, <2>6 DEF Settled, Works
<1> QED
  BY <1>1, StaticInvariant, PTL DEF RotationRepairs
=============================================================================

----------------------------- MODULE StaticRoles -----------------------------
(***************************************************************************)
(* Static roles: src/plugin/path_static_roles.go.                          *)
(*                                                                         *)
(* A static role manages the password of a user that exists already.  The  *)
(* password lives in two places, the database and static-creds/<name>,     *)
(* and a handler changes them one after the other, with the role's own     *)
(* record in between; nothing undoes the first change when a later one     *)
(* fails.                                                                  *)
(***************************************************************************)
EXTENDS Naturals, FiniteSets

CONSTANTS
  Request,   \* requests served concurrently
  Name,      \* names of static roles
  User,      \* users of the databases
  UsersOf,   \* [Name -> SUBSET User]: the users a role is ever given
  Database,  \* configured databases
  Default,   \* the one getConfig reads: the storage key "config"
  Password,  \* what generatePassword returns (bound: each is used once)
  None       \* no password, no role, no credential

\* Two roles for one user would change each other's password: an administrator
\* does not do that.  generatePassword draws 20 or more random characters.
ASSUME StaticAssumption ==
  /\ UsersOf \in [Name -> SUBSET User]
  /\ \A m, n \in Name : m # n => UsersOf[m] \cap UsersOf[n] = {}
  /\ Default \in Database
  /\ None \notin Password \cup Name
  /\ None \notin [user: User, db: Database]
  /\ None \notin [user: User, db: Database, password: Password]

VARIABLES
  pw,        \* [Database -> [User -> password]]: 0 is one the plugin does not know, None no user
  roles,     \* [Name -> static-roles/<name>]
  creds,     \* [Name -> static-creds/<name>]
  req,       \* [Request -> Frame]
  accepted,  \* history: the <<database, user, password>> a database took
  disturbed  \* history: names whose last changes failed half-way or overlapped

vars == <<pw, roles, creds, req, accepted, disturbed>>

Secret == Password \cup {0}
Role   == [user: User, db: Database]
Cred   == [user: User, db: Database, password: Password]

\* alone: no other request for the name was in flight since this one started.
Frame ==
  [pc: {"idle", "role", "check", "modify", "cred", "drop", "delrole", "delcred"},
   op: {"none", "create", "update", "rotate", "delete"},
   name: Name \cup {None}, role: Role \cup {None}, password: Password \cup {None},
   alone: BOOLEAN]

Idle == [pc |-> "idle", op |-> "none", name |-> None, role |-> None,
         password |-> None, alone |-> FALSE]

Return(r) == req' = [req EXCEPT ![r] = Idle]
Goto(r, pc) == req' = [req EXCEPT ![r].pc = pc]
InFlight(n) == {r \in Request : req[r].name = n}

\* A call failed: the handler returns an error and leaves what it has done.
Fail(r) == /\ disturbed' = disturbed \cup {req[r].name}
           /\ Return(r)

\* PasswordsLeft is a bound: every request in flight may still draw one.
Issued == {a[3] : a \in accepted} \cup {req[r].password : r \in Request}
PasswordsLeft ==
  Cardinality(Password \ Issued) > Cardinality({r \in Request : req[r].pc # "idle"})

\* The users exist already, in the default database at least.
Init ==
  /\ pw \in [Database -> [User -> {0, None}]]
  /\ \A u \in User : pw[Default][u] = 0
  /\ roles = [n \in Name |-> None]
  /\ creds = [n \in Name |-> None]
  /\ req = [r \in Request |-> Idle]
  /\ accepted = {}
  /\ disturbed = {}

-----------------------------------------------------------------------------
(* Requests start: the existence check chooses between create and update,   *)
(* and update, rotate and delete begin with a read of the role              *)

Start(r, n, op, pc, role) ==
  /\ req[r].pc = "idle"
  /\ req' = [s \in Request |->
              IF s = r
              THEN [pc |-> pc, op |-> op, name |-> n, role |-> role,
                    password |-> None, alone |-> InFlight(n) = {}]
              ELSE IF req[s].name = n THEN [req[s] EXCEPT !.alone = FALSE] ELSE req[s]]
  /\ disturbed' = IF InFlight(n) = {} THEN disturbed ELSE disturbed \cup {n}
  /\ UNCHANGED <<pw, roles, creds, accepted>>

StaticRoleCreate(r, n, role) ==
  /\ roles[n] = None
  /\ PasswordsLeft
  /\ Start(r, n, "create", "role", role)

\* Absent fields keep their value; any combination of the two may change.
StaticRoleUpdate(r, n, role) ==
  /\ roles[n] # None
  /\ Start(r, n, "update", "role", role)

RotateStaticRole(r, n) ==
  /\ roles[n] # None
  /\ PasswordsLeft
  /\ Start(r, n, "rotate", "modify", roles[n])

StaticRoleDelete(r, n) ==
  /\ roles[n] # None
  /\ Start(r, n, "delete", "drop", roles[n])

-----------------------------------------------------------------------------
(* The calls of create, update and rotate *)

\* Put of static-roles/<name>: first in a creation, after the password has
\* changed in a rotation, the only call of an update.
PutRole(r) ==
  LET f == req[r]
  IN
  /\ f.pc = "role"
  /\ roles' = [roles EXCEPT ![f.name] = f.role]
  /\ CASE f.op = "create" -> Goto(r, "check")
       [] f.op = "update" -> Return(r)
       [] f.op = "rotate" -> Goto(r, "cred")
  /\ UNCHANGED <<pw, creds, accepted, disturbed>>

PutRoleFails(r) ==
  /\ req[r].pc = "role"
  /\ Fail(r)
  /\ UNCHANGED <<pw, roles, creds, accepted>>

\* A creation leaves a credential that is there alone; a read that fails counts
\* as none.
CheckExistingCred(r) ==
  LET f == req[r]
  IN
  /\ f.pc = "check"
  /\ \/ creds[f.name] # None /\ Return(r)
     \/ Goto(r, "modify")
  /\ UNCHANGED <<pw, roles, creds, accepted, disturbed>>

\* A creation takes the role's database, a rotation the default one.
Target(f) == IF f.op = "create" THEN f.role.db ELSE Default

SetPassword(d, u, p) ==
  /\ pw[d][u] # None
  /\ pw' = [pw EXCEPT ![d][u] = p]
  /\ accepted' = accepted \cup {<<d, u, p>>}

\* Mutation of ModifyUser: the error of executeSQL is not looked at.
ModifyUserUnchecked(r) ==
  LET f == req[r]
  IN
  /\ f.pc = "modify"
  /\ \E p \in Password \ Issued :
       /\ \/ SetPassword(Target(f), f.role.user, p)
          \/ UNCHANGED <<pw, accepted>>
       /\ req' = [req EXCEPT ![r].password = p,
                             ![r].pc = IF f.op = "create" THEN "cred" ELSE "role"]
  /\ UNCHANGED <<roles, creds, disturbed>>

\* MODIFY USER ... AS PASSWORD.  Rotation statements run next and their errors
\* are ignored; replaceStaticRoleVars leaves no statement a database accepts.
ModifyUser(r) ==
  LET f == req[r]
  IN
  /\ f.pc = "modify"
  /\ \E p \in Password \ Issued :
       /\ SetPassword(Target(f), f.role.user, p)
       /\ req' = [req EXCEPT ![r].password = p,
                             ![r].pc = IF f.op = "create" THEN "cred" ELSE "role"]
  /\ UNCHANGED <<roles, creds, disturbed>>

\* executeSQL reports an error, for a statement that failed or one that took
\* effect and whose answer was lost.
ModifyUserFails(r) ==
  LET f == req[r]
  IN
  /\ f.pc = "modify"
  /\ \/ \E p \in Password \ Issued : SetPassword(Target(f), f.role.user, p)
     \/ UNCHANGED <<pw, accepted>>
  /\ Fail(r)
  /\ UNCHANGED <<roles, creds>>

\* Put of static-creds/<name>, the last call.  A rotation that was alone from
\* start to end leaves the name undisturbed, whatever went wrong before.
PutCred(r) ==
  LET f == req[r]
  IN
  /\ f.pc = "cred"
  /\ creds' = [creds EXCEPT ![f.name] =
                 [user |-> f.role.user, db |-> f.role.db, password |-> f.password]]
  /\ disturbed' = IF f.op = "rotate" /\ f.alone THEN disturbed \ {f.name} ELSE disturbed
  /\ Return(r)
  /\ UNCHANGED <<pw, roles, accepted>>

PutCredFails(r) ==
  /\ req[r].pc = "cred"
  /\ Fail(r)
  /\ UNCHANGED <<pw, roles, creds, accepted>>

-----------------------------------------------------------------------------
(* The calls of delete *)

\* DROP USER in the default database.  Its error is ignored, and without a
\* default configuration it is not sent.
DropUser(r) ==
  LET f == req[r]
  IN
  /\ f.pc = "drop"
  /\ \/ pw' = [pw EXCEPT ![Default][f.role.user] = None]
     \/ pw' = pw
  /\ Goto(r, "delrole")
  /\ UNCHANGED <<roles, creds, accepted, disturbed>>

DeleteRole(r) ==
  LET f == req[r]
  IN
  /\ f.pc = "delrole"
  /\ roles' = [roles EXCEPT ![f.name] = None]
  /\ Goto(r, "delcred")
  /\ UNCHANGED <<pw, creds, accepted, disturbed>>

DeleteRoleFails(r) ==
  /\ req[r].pc = "delrole"
  /\ Fail(r)
  /\ UNCHANGED <<pw, roles, creds, accepted>>

\* Mutation of DeleteCred: the credential is left behind.
DeleteCredForgotten(r) ==
  LET f == req[r]
  IN
  /\ f.pc = "delcred"
  /\ UNCHANGED <<creds, disturbed>>
  /\ Return(r)
  /\ UNCHANGED <<pw, roles, accepted>>

\* The error of this delete is ignored: the handler answers that all is well.
DeleteCred(r) ==
  LET f == req[r]
  IN
  /\ f.pc = "delcred"
  /\ \/ creds' = [creds EXCEPT ![f.name] = None] /\ disturbed' = disturbed
     \/ creds' = creds /\ disturbed' = disturbed \cup {f.name}
  /\ Return(r)
  /\ UNCHANGED <<pw, roles, accepted>>

\* The process ends; database and storage stay.
Crash ==
  /\ \E r \in Request : req[r].pc # "idle"
  /\ req' = [r \in Request |-> Idle]
  /\ disturbed' = disturbed \cup {req[r].name : r \in {s \in Request : req[s].pc # "idle"}}
  /\ UNCHANGED <<pw, roles, creds, accepted>>

-----------------------------------------------------------------------------
Begin(r) ==
  \E n \in Name :
    \/ \E u \in UsersOf[n], d \in Database :
         \/ StaticRoleCreate(r, n, [user |-> u, db |-> d])
         \/ StaticRoleUpdate(r, n, [user |-> u, db |-> d])
    \/ RotateStaticRole(r, n)
    \/ StaticRoleDelete(r, n)

Continue(r) ==
  \/ PutRole(r) \/ PutRoleFails(r) \/ CheckExistingCred(r)
  \/ ModifyUser(r) \/ ModifyUserFails(r) \/ PutCred(r) \/ PutCredFails(r)
  \/ DropUser(r) \/ DeleteRole(r) \/ DeleteRoleFails(r) \/ DeleteCred(r)

Next == (\E r \in Request : Begin(r) \/ Continue(r)) \/ Crash

Spec == Init /\ [][Next]_vars

-----------------------------------------------------------------------------
(* What holds of the code *)

\* Every variable has its type (models.StaticRole, models.StaticCredential).
TypeOK ==
  /\ pw \in [Database -> [User -> Secret \cup {None}]]
  /\ roles \in [Name -> Role \cup {None}]
  /\ creds \in [Name -> Cred \cup {None}]
  /\ req \in [Request -> Frame]
  /\ accepted \subseteq Database \X User \X Password
  /\ disturbed \subseteq Name

\* Create and rotate store a password only after a database has taken it for
\* that user: failures, crashes and races may leave an old password in
\* static-creds, never one that was not in force at some time.
StoredWasInForce ==
  \A n \in Name : creds[n] # None =>
    \E d \in {creds[n].db, Default} : <<d, creds[n].user, creds[n].password>> \in accepted

\* Once every request for a name has ended, a credential stored for the default
\* database opens a session there, unless one of the changes failed half-way or
\* two of them overlapped; a rotation that runs alone to its end repairs both.
StoredPasswordWorks ==
  \A n \in Name :
    creds[n] # None /\ creds[n].db = Default /\ InFlight(n) = {} /\ n \notin disturbed
      => pw[Default][creds[n].user] = creds[n].password

\* Under the same condition a role has a credential and a credential a role:
\* a role that static-creds cannot answer for, or a credential a later role of
\* that name would take over, comes from a failure or an overlap alone.
RoleAndCredTogether ==
  \A n \in Name :
    InFlight(n) = {} /\ n \notin disturbed => (roles[n] # None <=> creds[n] # None)

-----------------------------------------------------------------------------
(* The inductive invariant: what is true of a request at each of its calls, *)
(* and of a name between requests                                           *)

Works(n) ==
  creds[n] # None /\ creds[n].db = Default => pw[Default][creds[n].user] = creds[n].password

Settled(n) == Works(n) /\ (roles[n] # None <=> creds[n] # None)

\* Where a request is, and what it carries.
FrameOK(r) ==
  LET f == req[r]
  IN
  /\ f.pc = "idle" <=> f.name = None
  /\ f.pc # "idle" => f.role \in Role /\ f.role.user \in UsersOf[f.name]
  /\ f.pc = "role" => f.op \in {"create", "update", "rotate"}
  /\ f.pc = "check" => f.op = "create"
  /\ f.pc \in {"modify", "cred"} => f.op \in {"create", "rotate"}
  /\ f.pc \in {"drop", "delrole", "delcred"} => f.op = "delete"

\* The request has changed the password and not stored it yet.
Changed(r) == req[r].pc = "cred" \/ (req[r].pc = "role" /\ req[r].op = "rotate")

ForceOK(r) ==
  Changed(r) => <<Target(req[r]), req[r].role.user, req[r].password>> \in accepted

\* A rotation that is alone carries the password in force, disturbed name or not.
RotateOK(r) ==
  LET f == req[r]
  IN  f.op = "rotate" /\ f.alone /\ Changed(r) =>
        /\ pw[Default][f.role.user] = f.password
        /\ f.pc = "cred" => roles[f.name] # None

\* The phases of the requests for a name nothing has disturbed.
PhaseOK(r) ==
  LET f == req[r]
      n == req[r].name
  IN
  f.pc # "idle" /\ n \notin disturbed =>
    /\ f.alone
    /\ f.op = "create" => creds[n] = None /\ (roles[n] # None <=> f.pc # "role")
    /\ f.op = "create" /\ f.pc = "cred" => pw[f.role.db][f.role.user] = f.password
    /\ f.op = "update" \/ (f.pc \in {"modify", "drop"} /\ f.op # "create") =>
         Settled(n) /\ roles[n] # None
    /\ f.pc = "delcred" => roles[n] = None

RequestOK(r) == FrameOK(r) /\ ForceOK(r) /\ RotateOK(r) /\ PhaseOK(r)

AloneInv ==
  \A r, s \in Request : r # s /\ req[r].name = req[s].name /\ req[r].name # None => ~req[r].alone

NameOK(n) ==
  /\ roles[n] # None => roles[n].user \in UsersOf[n]
  /\ creds[n] # None =>
       /\ creds[n].user \in UsersOf[n]
       /\ \E d \in {creds[n].db, Default} : <<d, creds[n].user, creds[n].password>> \in accepted
  /\ InFlight(n) = {} /\ n \notin disturbed => Settled(n)

\* At every call of a handler of path_static_roles.go: what the requests in
\* flight carry agrees with database and storage, and names without a request
\* or a disturbance are settled.
StaticInv ==
  /\ TypeOK
  /\ AloneInv
  /\ \A r \in Request : RequestOK(r)
  /\ \A n \in Name : NameOK(n)
=============================================================================

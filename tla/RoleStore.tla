----------------------------- MODULE RoleStore -----------------------------
(***************************************************************************)
(* The roles and the statement templates, and what a creation of           *)
(* credentials reads of them: src/plugin/path_roles.go,                    *)
(* src/plugin/role_migrations.go, src/plugin/path_statements.go.           *)
(*                                                                         *)
(* A role lives under one storage key, a template under another.  No       *)
(* handler takes a lock: a write of a role is an existence check, which    *)
(* decides between creation and update, for an update a read, and a Put    *)
(* of the whole role; a creation of credentials reads the role and then    *)
(* the template the role names.  Other requests come in between.           *)
(***************************************************************************)
EXTENDS Naturals

CONSTANTS
  RoleRequest,      \* requests served concurrently
  Role,             \* names of roles
  Statement,        \* names of statement templates
  Naming,           \* values of username_prefix and username_suffix
  Session,          \* values of session_variables
  NotGiven,         \* a field, or a part of a frame, without a value
  NoRole,           \* no entry under roles/<name>
  LegacyVersions    \* versions of the roles an earlier release has stored

\* models.RoleVersion, and the keys of roleMigrations.
RoleVersion == 4
Migrations == {1, 2}

VARIABLES
  role,        \* [Role -> RoleRecord \cup {NoRole}]: the entries roles/<name>
  template,    \* [Statement -> Template]: the entries statements/<name>
  frame,       \* [RoleRequest -> Frame]: the requests under way
  overlapped   \* history: requests during which another one wrote what they read

roleVars == <<role, template, frame, overlapped>>

\* What a request gives; names, template and session stand for the fields of a
\* role by where an update takes them from: from the stored role, from the
\* request, from the request if it gives them.
Ask == [names: Naming, template: Statement \cup {NotGiven},
        session: Session \cup {NotGiven}]

RoleRecord == [version: 0 .. RoleVersion, names: Naming \cup {NotGiven},
               template: Statement \cup {NotGiven},
               session: Session \cup {NotGiven}]

ASSUME RoleAssumption ==
  /\ LegacyVersions \subseteq 0 .. (RoleVersion - 1)
  /\ NotGiven \notin Session \cup Statement \cup Role
  /\ Statement \cap {"pending", "refused", "own"} = {}
  /\ NotGiven \notin Ask /\ NoRole \notin RoleRecord

\* A template is abstracted to whether it is stored and has a creation statement.
Template == {"absent", "empty", "full"}

\* The statement a new user gets: that of the role, that of a template, or none
\* because the request is refused.
Outcome == {"pending", "refused", "own"} \cup Statement

Frame == [pc: {"idle", "create", "read", "write", "role", "text", "done"},
          role: Role \cup {NotGiven}, ask: Ask \cup {NotGiven},
          held: RoleRecord \cup {NoRole}, due: Outcome, out: Outcome]

\* A role with version 0 counts as version 1; each version below the current
\* one needs its migration.
Migratable(v) == (IF v = 0 THEN 1 ELSE v) .. (RoleVersion - 1) \subseteq Migrations

\* What getRole can return: no role, or a role it has brought to the current
\* version.  The migrations fill in fields that are not modelled.
Readable(entry) == entry = NoRole \/ Migratable(entry.version)
\* (GetRoleTooFar: the loop over the versions runs once too often.)
GetRoleTooFar(entry) ==
  IF entry = NoRole THEN NoRole ELSE [entry EXCEPT !.version = RoleVersion + 1]
GetRole(entry) ==
  IF entry = NoRole THEN NoRole ELSE [entry EXCEPT !.version = RoleVersion]

NewRole(ask) ==
  [version |-> RoleVersion, names |-> ask.names, template |-> ask.template,
   session |-> ask.session]

\* The names of the existing role stay, whatever the request says; so do its
\* session variables if the request has none.
\* (UpdatedRoleAfresh: session variables are taken from the request alone.)
UpdatedRoleAfresh(ask, existing) ==
  IF existing = NoRole
  THEN [NewRole(ask) EXCEPT !.names = NotGiven]
  ELSE [NewRole(ask) EXCEPT !.names = existing.names]
UpdatedRole(ask, existing) ==
  IF existing = NoRole
  THEN [NewRole(ask) EXCEPT !.names = NotGiven]
  ELSE [NewRole(ask) EXCEPT
          !.names = existing.names,
          !.session = IF ask.session = NotGiven THEN existing.session ELSE ask.session]

\* The creation statement of a role that was read, given the template it names.
StatementOf(held, text) ==
  CASE held.template = NotGiven -> "own"
    [] held.template # NotGiven /\ text[held.template] = "absent" -> "refused"
    [] held.template # NotGiven /\ text[held.template] = "empty" -> "own"
    [] held.template # NotGiven /\ text[held.template] = "full" -> held.template

\* Reference: the same, read from the store in one step.
Due(r) ==
  IF role[r] = NoRole \/ ~Readable(role[r]) THEN "refused"
  ELSE StatementOf(GetRole(role[r]), template)

AtRest == [pc |-> "idle", role |-> NotGiven, ask |-> NotGiven, held |-> NoRole,
           due |-> "pending", out |-> "pending"]

\* An earlier release has left roles of its version.
Legacy == {entry \in RoleRecord : entry.version \in LegacyVersions}

RoleInit ==
  /\ role \in [Role -> Legacy \cup {NoRole}]
  /\ template \in [Statement -> Template]
  /\ frame = [p \in RoleRequest |-> AtRest]
  /\ overlapped = {}

Goto(p, f) == frame' = [frame EXCEPT ![p] = f]

\* The requests other than p that have read the role r, or are about to.
ReadersOf(r, p) ==
  {q \in RoleRequest \ {p} : frame[q].pc # "idle" /\ frame[q].role = r}

-----------------------------------------------------------------------------
\* The existence check of roles/<name>: the framework makes a write of a role
\* that is there an update, and of one that is not a creation.
CheckRole(p, r, ask) ==
  /\ frame[p].pc = "idle"
  /\ Goto(p, [AtRest EXCEPT !.pc = IF role[r] = NoRole THEN "create" ELSE "read",
                            !.role = r, !.ask = ask])
  /\ UNCHANGED <<role, template, overlapped>>

StoreRole(p, entry) ==
  /\ role' = [role EXCEPT ![frame[p].role] = entry]
  /\ overlapped' = (overlapped \cup ReadersOf(frame[p].role, p)) \ {p}
  /\ Goto(p, AtRest)
  /\ UNCHANGED template

CreateRole(p) == frame[p].pc = "create" /\ StoreRole(p, NewRole(frame[p].ask))

\* An update reads the role; one that cannot be migrated ends it.
\* (ReadForUpdateUnchecked: the error of getRole is dropped, as it is in
\* path_leases.go.)
ReadForUpdateUnchecked(p) ==
  LET entry == role[frame[p].role]
  IN /\ frame[p].pc = "read"
     /\ Goto(p, [frame[p] EXCEPT !.pc = "write",
                   !.held = IF Readable(entry) THEN GetRole(entry) ELSE NoRole])
     /\ UNCHANGED <<role, template, overlapped>>
ReadForUpdate(p) ==
  LET entry == role[frame[p].role]
  IN /\ frame[p].pc = "read"
     /\ IF Readable(entry)
        THEN /\ Goto(p, [frame[p] EXCEPT !.pc = "write", !.held = GetRole(entry)])
             /\ UNCHANGED overlapped
        ELSE /\ Goto(p, AtRest)
             /\ overlapped' = overlapped \ {p}
     /\ UNCHANGED <<role, template>>

UpdateRole(p) ==
  /\ frame[p].pc = "write"
  /\ StoreRole(p, UpdatedRole(frame[p].ask, frame[p].held))

\* Statements or session variables that do not validate, and a storage call
\* that fails, end a request; none of them comes after a Put.
FailRequest(p) ==
  /\ frame[p].pc \in {"create", "read", "write", "role", "text"}
  /\ Goto(p, AtRest)
  /\ overlapped' = overlapped \ {p}
  /\ UNCHANGED <<role, template>>

DeleteRole(p, r) ==
  /\ frame[p].pc = "idle"
  /\ role' = [role EXCEPT ![r] = NoRole]
  /\ overlapped' = overlapped \cup ReadersOf(r, p)
  /\ UNCHANGED <<template, frame>>

\* A read answers with what getRole returns and writes nothing: migrateRole works
\* on the role it is given, so the versions pathRoleRead compares are the same.
ReadRole(p, r) ==
  /\ frame[p].pc = "idle"
  /\ Goto(p, [AtRest EXCEPT !.pc = "done", !.role = r,
                 !.held = IF Readable(role[r]) THEN GetRole(role[r]) ELSE NoRole])
  /\ UNCHANGED <<role, template, overlapped>>

\* Creations of credentials may be reading any template.
WriteStatement(p, s, text) ==
  /\ frame[p].pc = "idle"
  /\ template' = [template EXCEPT ![s] = text]
  /\ overlapped' = overlapped \cup {q \in RoleRequest : frame[q].pc \in {"role", "text", "done"}}
  /\ UNCHANGED <<role, frame>>

PutStatement(p, s) == \E text \in {"empty", "full"} : WriteStatement(p, s, text)
DeleteStatement(p, s) == WriteStatement(p, s, "absent")

-----------------------------------------------------------------------------
\* A creation of credentials, as far as it reads roles and templates.
StartGrant(p, r) ==
  /\ frame[p].pc = "idle"
  /\ Goto(p, [AtRest EXCEPT !.pc = "role", !.role = r, !.due = Due(r)])
  /\ UNCHANGED <<role, template, overlapped>>

GrantRole(p) ==
  LET entry == role[frame[p].role]
  IN /\ frame[p].pc = "role"
     /\ Goto(p, IF entry = NoRole \/ ~Readable(entry)
                THEN [frame[p] EXCEPT !.pc = "done", !.out = "refused"]
                ELSE [frame[p] EXCEPT !.pc = "text", !.held = GetRole(entry)])
     /\ UNCHANGED <<role, template, overlapped>>

\* (GrantStatementAnyway: a template that is not there is not an error.)
GrantStatementAnyway(p) ==
  LET out == StatementOf(frame[p].held, template)
  IN /\ frame[p].pc = "text"
     /\ Goto(p, [frame[p] EXCEPT !.pc = "done",
                                 !.out = IF out = "refused" THEN "own" ELSE out])
     /\ UNCHANGED <<role, template, overlapped>>
GrantStatement(p) ==
  /\ frame[p].pc = "text"
  /\ Goto(p, [frame[p] EXCEPT !.pc = "done", !.out = StatementOf(frame[p].held, template)])
  /\ UNCHANGED <<role, template, overlapped>>

AnswerRequest(p) ==
  /\ frame[p].pc = "done"
  /\ Goto(p, AtRest)
  /\ overlapped' = overlapped \ {p}
  /\ UNCHANGED <<role, template>>

RoleNext ==
  \E p \in RoleRequest :
    \/ \E r \in Role : \/ \E ask \in Ask : CheckRole(p, r, ask)
                       \/ DeleteRole(p, r)
                       \/ ReadRole(p, r)
                       \/ StartGrant(p, r)
    \/ \E s \in Statement : PutStatement(p, s) \/ DeleteStatement(p, s)
    \/ CreateRole(p)
    \/ ReadForUpdate(p)
    \/ UpdateRole(p)
    \/ FailRequest(p)
    \/ GrantRole(p)
    \/ GrantStatement(p)
    \/ AnswerRequest(p)

RoleSpec == RoleInit /\ [][RoleNext]_roleVars
-----------------------------------------------------------------------------
\* Every variable has its type, and a request under way has what its next step
\* works with.
RoleTypeOK ==
  /\ role \in [Role -> RoleRecord \cup {NoRole}]
  /\ template \in [Statement -> Template]
  /\ frame \in [RoleRequest -> Frame]
  /\ overlapped \subseteq RoleRequest
  /\ \A p \in RoleRequest :
       /\ frame[p].pc # "idle" => frame[p].role \in Role
       /\ frame[p].pc \in {"create", "read", "write"} => frame[p].ask \in Ask
       /\ frame[p].pc = "text" => frame[p].held \in RoleRecord

InPlace(r) == role[r] # NoRole /\ role'[r] # NoRole /\ role'[r] # role[r]

\* A role that stays keeps the names its users are given, and its session
\* variables unless the request gives others: pathRoleUpdate reads the role,
\* carries them over and puts the whole role back.  Only a request that
\* another write of the role has overlapped may change them otherwise.
CarriedOver ==
  [][\A r \in Role : InPlace(r) =>
       \E p \in RoleRequest :
         /\ frame[p].role = r
         /\ frame[p].pc \in {"create", "write"}
         /\ \/ p \in overlapped
            \/ /\ role'[r].names = role[r].names
               /\ role'[r].session \in {role[r].session, frame[p].ask.session}
               /\ role'[r].session = NotGiven => role[r].session = NotGiven]_roleVars

\* A role of an earlier release that the migrations do not bring to the current
\* version is never rewritten, whatever requests overlap: it stays as it is
\* until it is deleted, and no other role takes its version (getRole returns the
\* error of migrateRole to an update as well).
LegacyStays ==
  [][\A r \in Role :
       /\ ~Readable(role[r]) => role'[r] \in {role[r], NoRole}
       /\ ~Readable(role'[r]) => role'[r] = role[r]]_roleVars

\* What a request knows of the store holds until another one overlaps it: a
\* creation that there is no role, an update what the role is, a grant which
\* statement is due.  And however they overlap, no write meets a role that
\* cannot be read.
KnowsTheStore ==
  /\ \A p \in RoleRequest \ overlapped :
       LET f == frame[p]
       IN /\ f.pc = "create" => role[f.role] = NoRole
          /\ f.pc = "write" => f.held = GetRole(role[f.role])
          /\ f.pc = "role" => f.due = Due(f.role)
          /\ f.pc = "text" => f.due = StatementOf(f.held, template)
  /\ \A p \in RoleRequest :
       frame[p].pc \in {"create", "write"} => Readable(role[frame[p].role])

\* The role and the template a creation of credentials reads one after the other
\* give the statement that one look at the store would have given when the
\* request came, or refuse it as that look would have, unless a write of the
\* role or of a template has overlapped the request (pathCredsRead).
GrantAsDue ==
  \A p \in RoleRequest \ overlapped :
    frame[p].out # "pending" => frame[p].out = frame[p].due

\* The inductive invariant of the proofs: what pathRoleUpdate and pathCredsRead
\* hold in hand from one storage call to the next is typed and true.
RoleInv == RoleTypeOK /\ KnowsTheStore /\ GrantAsDue
=============================================================================

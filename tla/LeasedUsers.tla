----------------------------- MODULE LeasedUsers -----------------------------
(***************************************************************************)
(* What the handlers of dynamic credentials promise an administrator,      *)
(* however they overlap, fail or end in a crash.                           *)
(*                                                                         *)
(* A name is made in one database, once.  From then on the database may    *)
(* only lose it, and storage may forget it only after that; a caller is    *)
(* given a user that is recorded where it is, or that has gone already.    *)
(* So whoever has been given a working user, a revocation can find it, and *)
(* what was removed never works again.                                     *)
(***************************************************************************)
CONSTANTS
  User,    \* database user names
  Region   \* databases

VARIABLES
  fresh,    \* names that no database has been asked to make
  db,       \* [Region -> SUBSET User]: the users each database has
  record,   \* [User -> SUBSET Region]: the database its record names, if there is one
  given,    \* users whose credentials a caller has
  removed   \* users that were reported as removed

vars == <<fresh, db, record, given, removed>>

Home(u) == {g \in Region : u \in db[g]}

Init ==
  /\ fresh = User
  /\ db = [g \in Region |-> {}]
  /\ record = [u \in User |-> {}]
  /\ given = {}
  /\ removed = {}

Make(u, g) ==
  /\ u \in fresh
  /\ fresh' = fresh \ {u}
  /\ db' = [db EXCEPT ![g] = @ \cup {u}]
  /\ UNCHANGED <<record, given, removed>>

\* Creations that end before the database has made anything: their names are lost.
Abandon(S) ==
  /\ S \subseteq fresh
  /\ fresh' = fresh \ S
  /\ UNCHANGED <<db, record, given, removed>>

Drop(u) ==
  /\ u \notin fresh
  /\ db' = [g \in Region |-> db[g] \ {u}]
  /\ UNCHANGED <<fresh, record, given, removed>>

\* A record is written with the database that has the user, or after it has gone.
Write(u, g) ==
  /\ u \notin fresh
  /\ Home(u) \subseteq {g}
  /\ record' = [record EXCEPT ![u] = {g}]
  /\ UNCHANGED <<fresh, db, given, removed>>

Forget(u) ==
  /\ u \notin fresh
  /\ Home(u) = {}
  /\ record' = [record EXCEPT ![u] = {}]
  /\ UNCHANGED <<fresh, db, given, removed>>

Give(S) ==
  /\ S \subseteq User \ fresh
  /\ \A u \in S : Home(u) \subseteq record[u]
  /\ given' = given \cup S
  /\ UNCHANGED <<fresh, db, record, removed>>

Remove(u) ==
  /\ u \notin fresh
  /\ Home(u) = {}
  /\ removed' = removed \cup {u}
  /\ UNCHANGED <<fresh, db, record, given>>

Next ==
  \/ \E S \in SUBSET User : Abandon(S) \/ Give(S)
  \/ \E u \in User : Drop(u) \/ Forget(u) \/ Remove(u)
  \/ \E u \in User, g \in Region : Make(u, g) \/ Write(u, g)

Spec == Init /\ [][Next]_vars

-----------------------------------------------------------------------------
(* What follows *)

\* A user that a caller was given is recorded, under the database that has it, for
\* as long as one does.
Findable == \A u \in given : u \in User \ fresh /\ Home(u) \subseteq record[u]

\* A user that was reported as removed is in no database and will not be made again.
Gone == \A u \in removed : u \in User \ fresh /\ Home(u) = {}

\* A user that left the databases never comes back, in any of them.
NeverReturns == [][\A u \in User : u \notin fresh => u \notin fresh' /\ Home(u)' \subseteq Home(u)]_vars
=============================================================================

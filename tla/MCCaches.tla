------------------------------- MODULE MCCaches -------------------------------
(***************************************************************************)
(* CredentialCache and QueryCache for TLC.  The two caches of the backend  *)
(* share no key and no lock, so a behaviour here serves the callers of one *)
(* of them, with the other at rest, and the run covers both.               *)
(***************************************************************************)
EXTENDS CredentialCache, QueryCache

CONSTANTS v1, v2

VARIABLE served  \* the cache this behaviour serves

TwoRoles == [v \in Value |-> v]

\* Only the stored keys begin alike.
Prefixes == {StoredKey}

CachesInit ==
  /\ served \in {"credentials", "queries"}
  /\ Init
  /\ QueryInit
  /\ served = "credentials" => records = [k \in StoredKey |-> Nothing]

ServeCredentials(A) == served = "credentials" /\ A /\ UNCHANGED <<served, queryVars>>

CachesNext ==
  \/ ServeCredentials(Next)
  \/ served = "queries" /\ QueryNext /\ UNCHANGED <<served, vars>>

CachesSpec ==
  /\ CachesInit
  /\ [][CachesNext]_<<served, vars, queryVars>>
  /\ WF_vars(ServeCredentials(CleanupExpired))
=============================================================================

-------------------------- MODULE MCAdministration --------------------------
(***************************************************************************)
(* RoleStore and Configuration for TLC.  The two share no storage key and  *)
(* no other state, so a step of one is invisible to the other: a behaviour *)
(* here serves the requests of one of them, with the other at rest, and    *)
(* the run covers both.                                                    *)
(***************************************************************************)
EXTENDS RoleStore, Configuration, TLC

VARIABLE served  \* the requests this behaviour serves

AdminInit ==
  /\ served \in {"roles", "configurations"}
  /\ RoleInit
  /\ ConfigInit
  /\ served = "configurations" =>
       role = [r \in Role |-> NoRole] /\ template = [s \in Statement |-> "absent"]
  /\ served = "roles" => config = [n \in ConfigName |-> NoConfig]

AdminNext ==
  \/ served = "roles" /\ RoleNext /\ UNCHANGED <<served, configVars>>
  \/ served = "configurations" /\ ConfigNext /\ UNCHANGED <<served, roleVars>>

AdminSpec == AdminInit /\ [][AdminNext]_<<served, roleVars, configVars>>

Symmetry ==
  UNION {Permutations(S) : S \in {RoleRequest, Naming, ConfigRequest, ConfigName}}
=============================================================================

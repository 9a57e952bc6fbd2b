------------------------ MODULE MCConnectionRegistry ------------------------
(* Small instances of ConnectionRegistry for TLC. *)
EXTENDS ConnectionRegistry, TLC

EveryJob == {"health", "cleanup", "minconns"}
JustHealth == {"health"}
NoneKept == [n \in Name |-> 0]
OneKept  == [n \in Name |-> 1]

\* Requests and pools have no order among them; registries have a first one.
Alike == Permutations(Request) \cup Permutations(Pool)
=============================================================================

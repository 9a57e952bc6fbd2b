---------------------------- MODULE MCStaticRoles ----------------------------
(* Small instances of StaticRoles for TLC. *)
EXTENDS StaticRoles, TLC

CONSTANTS u1, u2

OneUserEach == [n \in Name |-> User]
Symmetry == Permutations(Request) \cup Permutations(Password)
=============================================================================

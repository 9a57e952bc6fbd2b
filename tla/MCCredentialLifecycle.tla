----------------------- MODULE MCCredentialLifecycle -----------------------
(* Small instances of CredentialLifecycle for TLC. *)
EXTENDS CredentialLifecycle, TLC

Both == {DefaultRegion, "east"}
JustDefault == {DefaultRegion}

EveryRole == [g \in Region |-> Role]
Unlimited == [role \in Role |-> 0]
One       == [role \in Role |-> 1]
Two       == [role \in Role |-> 2]
RandomNames == [role \in Role |-> NoUser]
SuffixedNames == [role \in Role |-> CHOOSE u \in User : TRUE]

Symmetry == Permutations(Request) \cup Permutations(User)
=============================================================================

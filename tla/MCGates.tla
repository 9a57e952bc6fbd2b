------------------------------- MODULE MCGates -------------------------------
(***************************************************************************)
(* Degradation and RateLimit for TLC: the two gates in front of a handler. *)
(* They share no state, so a behaviour here looks at one of them, with the *)
(* other at rest, and the run covers both.                                 *)
(***************************************************************************)
EXTENDS Degradation, RateLimit, TLC

VARIABLE served  \* the gate this behaviour looks at

\* An exempt path, one that begins like it and is no route, one that only contains
\* its word, and the switch of the limiter itself.
Paths == { <<"health">>, <<"healthz">>, <<"roles", "health">>, <<"rate-limit", "config">> }

GatesInit ==
  /\ served \in {"degradation", "limiter"}
  /\ Init
  /\ RateInit
  /\ served = "limiter" => pool = [r \in Region |-> "absent"]

GatesNext ==
  \/ served = "degradation" /\ Next /\ UNCHANGED <<served, rateVars>>
  \/ served = "limiter" /\ RateNext /\ UNCHANGED <<served, vars>>

GatesSpec == GatesInit /\ [][GatesNext]_<<served, vars, rateVars>>

\* Requests of a kind, pools and addresses are interchangeable.
Symmetry == UNION {Permutations(S) : S \in {Operator, Region, Sender, Address}}
=============================================================================

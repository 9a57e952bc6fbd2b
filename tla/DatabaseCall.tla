---------------------------- MODULE DatabaseCall ----------------------------
(***************************************************************************)
(* What a caller of executeSQL may rely on, whatever its loops repeat: the *)
(* one-step call of the other modules, done, not done, or failed although  *)
(* done.                                                                   *)
(*                                                                         *)
(* The statements of a text take effect one after the other.  When one     *)
(* that a database accepts only once took effect and its pass failed, it   *)
(* is lost: nothing takes effect any more and the call fails.  A call that *)
(* succeeds has executed its whole text and lost nothing.                  *)
(***************************************************************************)
EXTENDS Naturals

VARIABLES
  length,  \* how many statements the text has
  done,    \* those that took effect
  lost,    \* one of them that cannot be repeated was in a pass that failed
  result   \* what the caller gets

vars == <<length, done, lost, result>>

Init ==
  /\ length \in Nat
  /\ done = {}
  /\ lost = FALSE
  /\ result = "none"

\* The first statement that has not taken effect does.
TakeNext ==
  /\ ~lost
  /\ \E k \in 1..length :
       /\ k \notin done /\ 1..(k - 1) \subseteq done
       /\ done' = done \cup {k}

\* The call is sending, and may lose what took effect.
Working ==
  /\ result = "none"
  /\ TakeNext \/ done' = done
  /\ lost' \in BOOLEAN
  /\ lost => lost'
  /\ lost' => done' # {}
  /\ UNCHANGED length

GoesOn == Working /\ result' = "none"

Fails == Working /\ result' = "error"

Succeeds ==
  /\ Working
  /\ ~lost'
  /\ done' = 1..length
  /\ result' = "ok"

Next == GoesOn \/ Fails \/ Succeeds

Spec == Init /\ [][Next]_vars

-----------------------------------------------------------------------------
(* What follows *)

\* After the answer, or once a statement is lost, the database is left alone.
NothingMore == [][result # "none" \/ lost => done' = done]_vars
=============================================================================

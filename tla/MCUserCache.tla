----------------------------- MODULE MCUserCache -----------------------------
(***************************************************************************)
(* An instance of UserCache for TLC: how many writes and failures.         *)
(***************************************************************************)
EXTENDS UserCache, TLC

\* Two profile updates, two password changes or one of each, and a failure.
TwoWrites == [write |-> 2, abort |-> 1]
=============================================================================

------------------------------ MODULE MCSessions ------------------------------
(***************************************************************************)
(* The instance of Sessions for TLC: the clients can be exchanged.         *)
(***************************************************************************)
EXTENDS Sessions, TLC

Symmetric == Permutations(Clients)
=============================================================================

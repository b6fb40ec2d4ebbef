------------------------------ MODULE MCS3Upload ------------------------------
(***************************************************************************)
(* Instances of S3Upload for TLC.                                          *)
(***************************************************************************)
EXTENDS S3Upload, TLC

\* Two sessions of a tag: three chunks, two merges, one failure.
TwoSessions == [chunk |-> 3, merge |-> 2, fail |-> 1]

Symmetric == Permutations(Workers) \cup Permutations(Uploads)
=============================================================================

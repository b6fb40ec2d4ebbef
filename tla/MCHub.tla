-------------------------------- MODULE MCHub --------------------------------
(***************************************************************************)
(* Instances of ImageHub for TLC: how many requests of which endpoints,    *)
(* and the symmetries of the constants.                                    *)
(***************************************************************************)
EXTENDS ImageHub, TLC

NoEvent == [e \in Events |-> 0]
Upto(n, events) == [e \in Events |-> IF e \in events THEN n ELSE 0]

\* Two chunked uploads of a tag, merges and chunks that race, one failure.
MergeRaces ==
  {[Upto(2, {"startChunk", "merge"}) EXCEPT !["chunk"] = 3, !["abort"] = 1]}

\* Chunked uploads of two tags, and a delete of one or of their repository,
\* which the next upload makes again.
TagMix == {[Upto(2, {"startChunk", "chunk", "merge"}) EXCEPT ![op] = 1] :
             op \in {"delete", "deleteRepo"}}

\* Uploads of both kinds that race with each other, and with a delete or a
\* failure.
UploadMix ==
  {[Upto(1, {"startChunk", "startSingle"}) EXCEPT !["chunk"] = 2, !["merge"] = 2,
                                                  !["upload"] = 2]}
  \cup {[Upto(1, {"startChunk", "startSingle", "chunk", "merge", e})
            EXCEPT !["upload"] = 2] : e \in {"delete", "deleteRepo", "abort"}}

\* While readers go on, an image is uploaded, deleted with its repository and
\* uploaded again, or uploaded and deleted, both ways.
ReadersDeletes ==
  {[Upto(1, {"read", "deleteRepo"}) EXCEPT !["startSingle"] = 2, !["upload"] = 2],
   Upto(1, {"read", "deleteRepo", "delete", "startSingle", "upload"})}

Symmetric == Permutations(Workers) \cup Permutations(Uploads)
               \cup Permutations(Payloads)
SymmetricTags == Symmetric \cup Permutations(Tags)
=============================================================================

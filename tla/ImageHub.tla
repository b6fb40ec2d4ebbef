------------------------------ MODULE ImageHub ------------------------------
(***************************************************************************)
(* The image service: every endpoint of ChunkUpload, SingleUpload and      *)
(* ImageAccess over one database, one redis and one store, in requests     *)
(* that interleave at every call they make and can fail at every call.     *)
(***************************************************************************)
EXTENDS ChunkUpload, SingleUpload, ImageAccess

Request(w) == ChunkRequest(w) \/ SingleRequest(w) \/ AccessRequest(w)

Step(w) == Lookup(w) \/ ChunkStep(w) \/ SingleStep(w) \/ AccessStep(w)

Expire == ExpireRepo \/ \E t \in Tags : ExpireImage(t)

\* No request is being handled: the service may stay like that.
Quiet ==
  /\ \A w \in Workers : pc[w] = "idle"
  /\ UNCHANGED vars

Next ==
  \/ \E w \in Workers : Request(w) \/ Step(w) \/ Abort(w)
  \/ Expire
  \/ Quiet

Spec == Init /\ [][Next]_vars

\* A handler that is running gets to its next call or fails; every cached
\* copy reaches the end of its life.
Fairness ==
  /\ \A w \in Workers : WF_vars(Step(w) \/ Abort(w))
  /\ WF_vars(ExpireRepo)
  /\ \A t \in Tags : WF_vars(ExpireImage(t))

FairSpec == Spec /\ Fairness

-----------------------------------------------------------------------------
(* Properties *)

\* What the database says of an image is a digest that some upload of that
\* tag announced when it was started: a merge compares before it saves.
RowDigestDeclared ==
  \A r \in imageRows : \E o \in declared[r.tag] : o.digest = r.digest

\* As long as nothing is deleted, an image that can be found can be read: the
\* store is written before the row is committed, wherever a request fails.
RowHasFile == \A r \in imageRows : full[r.tag] # NoFile

\* The row id that a session took from the database, or from a stale copy in
\* redis, never becomes the id of another tag's image: the UPDATE of a merge
\* hits the image of its own tag or nothing.
UpdateHitsOwnTag ==
  \A u \in Uploads, r \in imageRows :
    info[u].kind # "none" /\ info[u].imgId = r.id => r.tag = info[u].tag

\* The rows of the images that can be found.
Listed(t) == {r \in imageRows : repoRow # 0 /\ r.repoId = repoRow /\ r.tag = t}

\* The file of an image is the file its row describes, whatever requests race
\* and fail, unless the file is not the work of the request that committed the
\* row: another merge, upload or delete has replaced it and has not committed
\* (it is still running, or it failed, or another one committed after it), or
\* a chunk changed the slice file between its comparison and its copy.
FileMatchesRow ==
  \A t \in Tags : \A r \in Listed(t) : t \notin torn => full[t] = r.digest

\* In the database an image is replaced only by an upload that was started
\* with force, even when several uploads of the tag race.
RowReplacedOnlyByForce ==
  [][\A r \in imageRows, s \in imageRows' :
       s.id = r.id /\ s.digest # r.digest =>
         \E w \in Workers : /\ tx.owner = w /\ loc[w].img.force
                           /\ loc[w].img.tag = r.tag]_vars

\* Once the last writer is done, the copies in redis become the rows of the
\* database and stay so, although readers go on filling them.
CacheFresh ==
  /\ repoCache \in {0, repoRow}
  /\ \A t \in Tags : imgCache[t] # NoRow => imgCache[t] \in imageRows
CacheBecomesFresh == <>[]CacheFresh

\* Chunked uploads and deletes implement the catalog of one repository: the
\* images of the repository that exists, whatever races, stale copies and
\* failures there are.
CatalogNow == [t \in Tags |-> IF Listed(t) = {} THEN NoFile
                              ELSE (CHOOSE r \in Listed(t) : TRUE).digest]

Abstract == INSTANCE Catalog WITH NoImage <- NoFile, catalog <- CatalogNow,
                                  offered <- declared
ImplementsCatalog == Abstract!Spec
=============================================================================

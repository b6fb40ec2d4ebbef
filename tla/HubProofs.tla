------------------------------ MODULE HubProofs ------------------------------
(***************************************************************************)
(* Theorems of ImageHub for every value of its constants, any number of    *)
(* requests of every endpoint and any failures:                            *)
(*                                                                         *)
(*   - types (TypeCorrect);                                                *)
(*   - without deletes, the image of every row has a file (RowHasFile);    *)
(*   - an image id stays with the tag it was inserted for, wherever it is  *)
(*     kept: rows, open transaction, copies, sessions, handlers            *)
(*     (UpdateHitsOwnTag);                                                 *)
(*   - a row gets another digest only from the transaction of a forced     *)
(*     upload of its tag (RowReplacedOnlyByForce);                         *)
(*   - the digests of rows are ones that an upload of their tag announced  *)
(*     (RowDigestDeclared), as long as no single upload meets a merge;     *)
(*   - with chunked uploads and deletes the service implements the catalog *)
(*     (ImplementsCatalog);                                                *)
(*   - the rows of the images that can be found describe the files in the  *)
(*     store (FileMatchesRow), unless another request came between the     *)
(*     file of an image and its commit.                                    *)
(***************************************************************************)
EXTENDS ImageHub, TLAPS

-----------------------------------------------------------------------------
(* Type correctness *)

\* The values that handlers start from have the type of handlers' values.
LEMMA NoValuesType ==
  /\ NoSession \in Image
  /\ WorkerOK(NoLocal, "idle")
  /\ NoTx \in Tx
  /\ NoFile \in Content
BY ConstantsAssumption
   DEF NoSession, Image, WorkerOK, Resolved, NoLocal, Local, NoTx, Tx, NoFile,
       Content, Cell, Ops, PC, UploadOps, UploadPC, Announced, Begin

\* What the type invariant says of one worker.
LEMMA WorkerType ==
  ASSUME WorkersOK, NEW w \in Workers
  PROVE  WorkerOK(loc[w], pc[w]) /\ loc[w].img \in Image
BY DEF WorkersOK, WorkerOK, Local

\* A jump keeps the types of the workers.
LEMMA JumpType ==
  ASSUME WorkersOK, NEW w \in Workers, NEW l, NEW p, WorkerOK(l, p), Jump(w, l, p)
  PROVE  WorkersOK'
BY DEF WorkersOK, WorkerOK, Jump, Resolved

\* So does the step of a handler that goes on or answers.
LEMMA GoType ==
  ASSUME TypeOK, NEW w \in Workers, NEW l, NEW p, WorkerOK(l, p), Go(w, l, p)
  PROVE  WorkersOK' /\ (left \in [Events -> Nat])'
BY JumpType DEF TypeOK, Go

LEMMA FinishType ==
  ASSUME TypeOK, NEW w \in Workers, Finish(w)
  PROVE  WorkersOK' /\ (left \in [Events -> Nat])'
BY GoType, NoValuesType DEF Finish

\* A handler that goes on with the image it has, to a place of its own part.
LEMMA GoOnType ==
  ASSUME TypeOK, NEW w \in Workers, NEW p \in PC, pc[w] \in UploadPC,
         Go(w, loc[w], p)
  PROVE  WorkersOK' /\ (left \in [Events -> Nat])'
<1>1. WorkerOK(loc[w], p)
  BY WorkerType DEF TypeOK, WorkerOK, Resolved
<1> QED BY <1>1, GoType

\* Spending an event keeps the type of the budget.
LEMMA SpendType ==
  ASSUME left \in [Events -> Nat], NEW e \in Events, Spend(e)
  PROVE  left' \in [Events -> Nat]
BY DEF Spend

\* Writing a chunk into a file makes a file.
LEMMA WriteAtType ==
  ASSUME NEW file \in Content, NEW idx \in Nat, NEW d \in Cell
  PROVE  WriteAt(file, idx, d) \in Content
BY DEF WriteAt, Content, Cell

\* The digest of a file of equal chunks is a content.
LEMMA FileOfType ==
  ASSUME NEW n \in Nat, NEW d \in Payloads
  PROVE  FileOf(d, n) \in Content
BY DEF FileOf, Content, Cell

\* The image that a look-up found, and the row that goes into the cache.
LEMMA HoldingType ==
  ASSUME NEW l \in Local, NEW row \in ImageRow
  PROVE  /\ Holding(l, row) \in Local
         /\ Holding(l, row).op = l.op
         /\ Holding(l, row).img.tag \in Tags
BY DEF Holding, Local, Image, ImageRow

LEMMA HeldRowType ==
  ASSUME NEW l \in Local, l.img.tag \in Tags
  PROVE  HeldRow(l) \in ImageRow
BY DEF HeldRow, Local, Image, ImageRow

\* What a look-up leads to: the start of a session, a delete or the answer.
LEMMA ContinueType ==
  ASSUME TypeOK, NEW w \in Workers, NEW l \in Local, l.img.tag \in Tags,
         Continue(w, l)
  PROVE  WorkersOK' /\ (left \in [Events -> Nat])'
<1>1. CASE AfterImage(l) = "idle"
  BY <1>1, FinishType DEF Continue
<1>2. CASE AfterImage(l) # "idle"
  <2>1. WorkerOK(l, AfterImage(l))
    BY <1>2 DEF AfterImage, IsStart, WorkerOK, Resolved, PC, UploadPC, UploadOps
  <2> QED BY <1>2, <2>1, GoType DEF Continue
<1> QED BY <1>1, <1>2

\* The steps of a look-up keep the types.
LEMMA LookupType ==
  ASSUME TypeOK, NEW w \in Workers, Lookup(w)
  PROVE  TypeOK'
<1> USE DEF dbVars, cacheVars, fileVars, sessVars, histVars
<1>0. WorkerOK(loc[w], pc[w]) /\ loc[w].img \in Image
  BY WorkerType DEF TypeOK
<1>1. ASSUME NEW r \in Nat, NEW p \in {"img", "fillRepo"}
      PROVE  WorkerOK([loc[w] EXCEPT !.repo = r], p)
  BY <1>0 DEF WorkerOK, Local, Resolved, PC, UploadPC
<1>2. CASE RepoCached(w)
  <2>1. WorkersOK' /\ (left \in [Events -> Nat])'
    BY <1>1, <1>2, GoType DEF RepoCached, TypeOK, SharedOK
  <2> QED BY <1>2, <2>1 DEF RepoCached, TypeOK, SharedOK
<1>3. CASE RepoSelected(w)
  <2>1. WorkersOK' /\ (left \in [Events -> Nat])'
    BY <1>1, <1>3, GoType DEF RepoSelected, TypeOK, SharedOK
  <2> QED BY <1>3, <2>1 DEF RepoSelected, TypeOK, SharedOK
<1>4. CASE RepoMissing(w)
  <2>1. IsStart(loc[w].op) => WorkerOK(loc[w], "session")
    BY <1>0 DEF IsStart, WorkerOK, Resolved, PC, UploadOps
  <2>2. WorkersOK' /\ (left \in [Events -> Nat])'
    BY <1>4, <2>1, GoType, FinishType DEF RepoMissing
  <2> QED BY <1>4, <2>2 DEF RepoMissing, TypeOK, SharedOK
<1>5. CASE FillRepo(w)
  <2>1. WorkerOK(loc[w], "img") /\ loc[w].repo \in Nat
    BY <1>0 DEF WorkerOK, Resolved, PC, UploadPC, Local
  <2>2. WorkersOK' /\ (left \in [Events -> Nat])'
    BY <1>5, <2>1, GoType DEF FillRepo
  <2> QED BY <1>5, <2>1, <2>2 DEF FillRepo, TypeOK, SharedOK
<1>6. CASE ImageCached(w)
  <2>1. loc[w].img.tag \in Tags
    BY <1>0, <1>6 DEF ImageCached, CacheHit, Image
  <2>2. imgCache[loc[w].img.tag] \in ImageRow
    BY <1>6, <2>1 DEF ImageCached, CacheHit, TypeOK, SharedOK
  <2>3. WorkersOK' /\ (left \in [Events -> Nat])'
    BY <1>0, <1>6, <2>2, HoldingType, ContinueType DEF ImageCached, WorkerOK
  <2> QED BY <1>6, <2>3 DEF ImageCached, TypeOK, SharedOK
<1>7. CASE ImageSelected(w)
  <2>1. PICK row \in Selected(loc[w].repo, loc[w].img.tag) :
          Go(w, Holding(loc[w], row), "fillImg")
    BY <1>7 DEF ImageSelected
  <2>2. row \in ImageRow
    BY DEF Selected, TypeOK, SharedOK
  <2>3. WorkerOK(Holding(loc[w], row), "fillImg")
    BY <1>0, <2>2, HoldingType DEF WorkerOK, Resolved, PC, UploadPC
  <2>4. WorkersOK' /\ (left \in [Events -> Nat])'
    BY <2>1, <2>3, GoType
  <2> QED BY <1>7, <2>4 DEF ImageSelected, TypeOK, SharedOK
<1>8. CASE ImageMissing(w)
  <2>1. IsStart(loc[w].op) =>
          WorkerOK([loc[w] EXCEPT !.img.repoId = loc[w].repo], "session")
    BY <1>0 DEF IsStart, WorkerOK, Resolved, PC, UploadOps, Local, Image
  <2>2. WorkersOK' /\ (left \in [Events -> Nat])'
    BY <1>8, <2>1, GoType, FinishType DEF ImageMissing
  <2> QED BY <1>8, <2>2 DEF ImageMissing, TypeOK, SharedOK
<1>9. CASE FillImage(w)
  <2>1. loc[w].img.tag \in Tags /\ loc[w] \in Local
    BY <1>0, <1>9 DEF FillImage, WorkerOK, Resolved
  <2>2. (imgCache \in [Tags -> ImageRow \cup {NoRow}])'
    BY <1>9, <2>1, HeldRowType DEF FillImage, TypeOK, SharedOK
  <2>3. WorkersOK' /\ (left \in [Events -> Nat])'
    BY <1>9, <2>1, ContinueType DEF FillImage
  <2> QED BY <1>9, <2>2, <2>3 DEF FillImage, TypeOK, SharedOK
<1>10. CASE Conflict(w)
  BY <1>10, FinishType DEF Conflict, TypeOK, SharedOK
<1> QED BY <1>2, <1>3, <1>4, <1>5, <1>6, <1>7, <1>8, <1>9, <1>10 DEF Lookup

\* A request that arrives keeps the types.
LEMMA ArriveType ==
  ASSUME TypeOK, NEW w \in Workers, NEW l, NEW p, WorkerOK(l, p), l.op # "none",
         Arrive(w, l, p),
         UNCHANGED <<dbVars, cacheVars, fileVars, sessVars, histVars>>
  PROVE  TypeOK'
<1>1. l.op \in Events
  BY DEF WorkerOK, Local, Events
<1>2. WorkersOK'
  BY JumpType DEF Arrive, TypeOK
<1>3. left' \in [Events -> Nat]
  BY <1>1, SpendType DEF Arrive, TypeOK
<1> QED BY <1>2, <1>3
        DEF TypeOK, SharedOK, dbVars, cacheVars, fileVars, sessVars, histVars

\* The local variables that handlers begin with.
LEMMA BeginType ==
  ASSUME NEW op \in Ops, NEW u \in Uploads \cup {NoUpload}, NEW img \in Image,
         NEW idx \in 0 .. MaxChunks - 1, NEW d \in Cell, NEW p \in PC,
         p \in UploadPC => op \in UploadOps,
         op \in UploadOps => img.tag \in Tags,
         p \notin {"fillImg", "file", "txImage"}
  PROVE  WorkerOK(Begin(op, u, img, idx, d), p) /\ Begin(op, u, img, idx, d).op # "none"
BY DEF WorkerOK, Resolved, Begin, Local, Ops

LEMMA AnnouncedType ==
  ASSUME NEW kind \in {"chunk", "single"}, NEW t \in Tags, NEW d \in Content,
         NEW n \in Nat, NEW f \in BOOLEAN
  PROVE  Announced(kind, t, d, n, f) \in Image /\ Announced(kind, t, d, n, f).tag \in Tags
BY DEF Announced, Image

\* Requests keep the types.
LEMMA RequestType ==
  ASSUME TypeOK, NEW w \in Workers, Request(w)
  PROVE  TypeOK'
<1> USE ArriveType, BeginType, AnnouncedType DEF Ops, UploadOps, UploadPC, PC
<1>0. 0 \in 0 .. MaxChunks - 1 /\ Hole \in Cell /\ Payloads \subseteq Cell
  BY ConstantsAssumption DEF Cell
<1>1. \A u \in Uploads : info[u] # NoSession =>
                         info[u] \in Image /\ info[u].tag \in Tags
  BY DEF TypeOK, SharedOK, Session
<1>2. ASSUME NEW t \in Tags, NEW d \in Payloads, NEW n \in 1 .. MaxChunks,
             NEW f \in BOOLEAN, StartChunk(w, t, d, n, f)
      PROVE  TypeOK'
  <2>1. FileOf(d, n) \in Content /\ n \in Nat
    BY FileOfType
  <2> QED BY <1>0, <1>2, <2>1 DEF StartChunk
<1>3. ASSUME NEW u \in Uploads, NEW idx \in 0 .. MaxChunks - 1,
             NEW d \in Payloads, ChunkArrives(w, u, idx, d)
      PROVE  TypeOK'
  <2>1. info[u] # NoSession
    BY <1>3 DEF ChunkArrives, NoSession, Announced
  <2> QED BY <1>0, <1>1, <1>3, <2>1 DEF ChunkArrives
<1>4. ASSUME NEW u \in Uploads, MergeArrives(w, u)
      PROVE  TypeOK'
  BY <1>0, <1>1, <1>4 DEF MergeArrives
<1>5. ASSUME NEW t \in Tags, NEW d \in Payloads, NEW f \in BOOLEAN,
             StartSingle(w, t, d, f)
      PROVE  TypeOK'
  <2>1. <<d>> \in Content
    BY DEF Content, Cell
  <2> QED BY <1>0, <1>5, <2>1 DEF StartSingle
<1>6. ASSUME NEW u \in Uploads, NEW d \in Payloads, UploadArrives(w, u, d)
      PROVE  TypeOK'
  <2>1. info[u] # NoSession
    BY <1>6 DEF UploadArrives, NoSession, Announced
  <2> QED BY <1>0, <1>1, <1>6, <2>1 DEF UploadArrives
<1>7. ASSUME NEW t \in Tags \cup {Latest}, Read(w, t) \/ Delete(w, t)
      PROVE  TypeOK'
  <2>1. Named(t) \in Image
    BY NoValuesType DEF Named, Image
  <2> QED BY <1>0, <1>7, <2>1 DEF Read, Delete
<1>8. ASSUME DeleteRepository(w)
      PROVE  TypeOK'
  BY <1>0, <1>8, NoValuesType DEF DeleteRepository
<1> QED BY <1>2, <1>3, <1>4, <1>5, <1>6, <1>7, <1>8
        DEF Request, ChunkRequest, SingleRequest, AccessRequest

\* What a transaction is going to commit, and its commit.
LEMMA SaveRowsType ==
  ASSUME TypeOK, NEW w \in Workers, NEW always \in BOOLEAN,
         SaveRows(w, always) \/ SaveRejected(w, always)
  PROVE  TypeOK'
<1> USE DEF dbVars, cacheVars, fileVars, sessVars, histVars
<1>0. loc[w].img \in Image /\ pc[w] = "tx" /\ loc[w].img.tag \in Tags
  BY WorkerType DEF TypeOK, SaveRows, SaveRejected, WorkerOK, Resolved, UploadPC
<1>1. CASE SaveRejected(w, always)
  BY <1>1, FinishType DEF SaveRejected, ForgetRepo, TypeOK, SharedOK
<1>2. CASE SaveRows(w, always)
  <2> DEFINE img == loc[w].img
             new == [id |-> nextImageId, repoId |-> RepoIdFor(img),
                     tag |-> img.tag, digest |-> img.digest]
  <2>1. new \in ImageRow
    BY <1>0 DEF ImageRow, Image, RepoIdFor, TypeOK, SharedOK
  <2>2. UpdateDigest(imageRows, img.imgId, img.digest) \subseteq ImageRow
    <3>1. \A r \in imageRows : [r EXCEPT !.digest = img.digest] \in ImageRow
      BY <1>0 DEF TypeOK, SharedOK, ImageRow, Image
    <3> QED BY <3>1 DEF UpdateDigest, TypeOK, SharedOK
  <2>3. tx' \in Tx
    BY <1>2, <2>1, <2>2 DEF SaveRows, TypeOK, SharedOK, Tx
  <2>4. (imgCache \in [Tags -> ImageRow \cup {NoRow}])' /\ repoCache' \in Nat
    BY <1>2 DEF SaveRows, ForgetRepo, ForgetImage, TypeOK, SharedOK
  <2>5. nextRepoId' \in Nat \ {0} /\ nextImageId' \in Nat \ {0}
    BY <1>2 DEF SaveRows, TypeOK, SharedOK
  <2>6. WorkersOK' /\ (left \in [Events -> Nat])'
    BY <1>0, <1>2, GoOnType DEF SaveRows, PC, UploadPC
  <2> QED BY <1>2, <2>3, <2>4, <2>5, <2>6 DEF SaveRows, TypeOK, SharedOK
<1> QED BY <1>1, <1>2

LEMMA InstallType ==
  ASSUME TypeOK, NEW w \in Workers, Install(w),
         WorkersOK', (left \in [Events -> Nat])',
         torn' \subseteq Tags, UNCHANGED <<declared, author, sure>>
  PROVE  TypeOK'
BY NoValuesType
   DEF Install, TypeOK, SharedOK, Tx, cacheVars, fileVars, sessVars

\* The history of a commit and of a file that is replaced.
LEMMA SettleType ==
  ASSUME TypeOK, NEW w \in Workers, Settle(w), loc[w].img.tag \in Tags
  PROVE  torn' \subseteq Tags /\ UNCHANGED <<declared, author, sure>>
BY DEF Settle, TypeOK, SharedOK

LEMMA ReplacedType ==
  ASSUME TypeOK, NEW t \in Tags, NEW w \in Workers \cup {Nobody}, Replaced(t, w)
  PROVE  torn' \subseteq Tags /\ (author \in [Tags -> Workers \cup {Nobody}])'
BY DEF Replaced, TypeOK, SharedOK

\* The start of a session.
LEMMA OpenSessionType ==
  ASSUME TypeOK, NEW w \in Workers, NEW u \in Uploads, NEW e \in BOOLEAN,
         OpenSession(w, u, e)
  PROVE  TypeOK'
<1>1. loc[w].img \in Image /\ loc[w].img.tag \in Tags
  BY WorkerType DEF OpenSession, TypeOK, WorkerOK, Resolved, UploadPC
<1>2. OfferOf(loc[w].img) \in Offer /\ loc[w].img \in Session
  BY <1>1 DEF OfferOf, Offer, Image, Session
<1>3. WorkersOK' /\ (left \in [Events -> Nat])'
  BY FinishType DEF OpenSession
<1> QED BY <1>1, <1>2, <1>3
        DEF OpenSession, TypeOK, SharedOK, dbVars, cacheVars, fileVars

\* The steps of the chunked upload keep the types.
LEMMA ChunkStepType ==
  ASSUME TypeOK, NEW w \in Workers, ChunkStep(w)
  PROVE  TypeOK'
<1> USE DEF dbVars, cacheVars, fileVars, sessVars, histVars
<1>0. WorkerOK(loc[w], pc[w]) /\ loc[w] \in Local
  BY WorkerType DEF TypeOK, WorkerOK
<1>1. ASSUME pc[w] \in UploadPC
      PROVE  loc[w].img \in Image /\ loc[w].img.tag \in Tags
  BY <1>0, <1>1 DEF WorkerOK, Resolved, Local
<1>2. ASSUME NEW u \in Uploads, OpenChunked(w, u)
      PROVE  TypeOK'
  BY <1>2, OpenSessionType DEF OpenChunked
<1>3. CASE WriteChunk(w)
  <2>1. loc[w].idx \in Nat /\ loc[w].data \in Cell
    BY <1>0, ConstantsAssumption DEF Local
  <2>2. slice' \in [Tags -> Content]
    BY <1>3, <2>1, WriteAtType DEF WriteChunk, TypeOK, SharedOK
  <2>3. WorkersOK' /\ (left \in [Events -> Nat])'
    BY <1>3, GoOnType DEF WriteChunk, PC, UploadPC
  <2> QED BY <1>3, <2>2, <2>3 DEF WriteChunk, TypeOK, SharedOK
<1>4. CASE RecordChunk(w)
  <2>1. loc[w].idx \in 0 .. MaxChunks - 1
    BY <1>0 DEF Local
  <2>2. (chunks \in [Uploads -> SUBSET (0 .. MaxChunks - 1)])'
    BY <1>4, <2>1 DEF RecordChunk, TypeOK, SharedOK
  <2> QED BY <1>4, <2>2, FinishType DEF RecordChunk, TypeOK, SharedOK
<1>5. CASE CheckSlices(w)
  <2>1. WorkersOK' /\ (left \in [Events -> Nat])'
    BY <1>5, GoOnType, FinishType DEF CheckSlices, PC, UploadPC
  <2> QED BY <1>5, <2>1 DEF CheckSlices, TypeOK, SharedOK
<1>6. CASE CheckDigest(w)
  <2> DEFINE l == [loc[w] EXCEPT !.img.digest = slice[loc[w].img.tag]]
  <2>1. slice[loc[w].img.tag] \in Content
    BY <1>1, <1>6 DEF CheckDigest, TypeOK, SharedOK, UploadPC
  <2>2. WorkerOK(l, "copy")
    BY <1>0, <1>6, <2>1
       DEF CheckDigest, WorkerOK, Resolved, Local, Image, PC, UploadPC
  <2>3. WorkersOK' /\ (left \in [Events -> Nat])'
    BY <1>6, <2>2, GoType, FinishType DEF CheckDigest
  <2>4. (sure \subseteq Workers)'
    BY <1>6 DEF CheckDigest, TypeOK, SharedOK
  <2> QED BY <1>6, <2>3, <2>4 DEF CheckDigest, TypeOK, SharedOK
<1>7. CASE CopySlice(w)
  <2>1. loc[w].img.tag \in Tags
    BY <1>1, <1>7 DEF CopySlice, UploadPC
  <2>2. WorkersOK' /\ (left \in [Events -> Nat])'
    BY <1>7, GoOnType DEF CopySlice, PC, UploadPC
  <2>3. (torn \subseteq Tags /\ author \in [Tags -> Workers \cup {Nobody}])'
    BY <1>7, <2>1, ReplacedType DEF CopySlice
  <2> QED BY <1>7, <2>1, <2>2, <2>3 DEF CopySlice, TypeOK, SharedOK
<1>8. CASE RemoveSlice(w)
  <2>1. WorkersOK' /\ (left \in [Events -> Nat])'
    BY <1>8, GoOnType, FinishType DEF RemoveSlice, PC, UploadPC
  <2> QED BY <1>8, <2>1, NoValuesType DEF RemoveSlice, TypeOK, SharedOK
<1>9. CASE CopyFails(w)
  BY <1>9, FinishType DEF CopyFails, TypeOK, SharedOK
<1>10. CASE SaveMerged(w)
  BY <1>10, SaveRowsType DEF SaveMerged
<1>11. ASSUME loc[w].op = "merge", Go(w, loc[w], "del")
       PROVE  WorkersOK' /\ (left \in [Events -> Nat])'
  <2>1. WorkerOK(loc[w], "del")
    BY <1>0, <1>11 DEF WorkerOK, Resolved, PC, UploadOps
  <2> QED BY <1>11, <2>1, GoType
<1>12. CASE CommitMerge(w)
  <2>1. loc[w].img.tag \in Tags
    BY <1>0, <1>12 DEF CommitMerge, WorkerOK, Resolved, UploadOps
  <2> QED BY <1>11, <1>12, <2>1, InstallType, SettleType DEF CommitMerge
<1>13. CASE LoseCommit(w)
  BY <1>11, <1>13, NoValuesType DEF LoseCommit, TypeOK, SharedOK
<1>14. CASE DeleteKeys(w)
  BY <1>14, FinishType DEF DeleteKeys, TypeOK, SharedOK
<1> QED BY <1>2, <1>3, <1>4, <1>5, <1>6, <1>7, <1>8, <1>9, <1>10, <1>12,
           <1>13, <1>14 DEF ChunkStep

\* The steps of the single upload keep the types.
LEMMA SingleStepType ==
  ASSUME TypeOK, NEW w \in Workers, SingleStep(w)
  PROVE  TypeOK'
<1> USE DEF dbVars, cacheVars, fileVars, sessVars, histVars
<1>0. WorkerOK(loc[w], pc[w]) /\ loc[w] \in Local
  BY WorkerType DEF TypeOK, WorkerOK
<1>1. ASSUME NEW u \in Uploads, OpenSingle(w, u)
      PROVE  TypeOK'
  BY <1>1, OpenSessionType DEF OpenSingle
<1>2. CASE PutFile(w)
  <2>1. loc[w].img.tag \in Tags /\ <<loc[w].data>> \in Content
    BY <1>0, <1>2 DEF PutFile, WorkerOK, Resolved, UploadPC, Local, Content
  <2>2. WorkersOK' /\ (left \in [Events -> Nat])'
    BY <1>2, GoOnType DEF PutFile, PC, UploadPC
  <2>3. (torn \subseteq Tags /\ author \in [Tags -> Workers \cup {Nobody}])'
    BY <1>2, <2>1, ReplacedType DEF PutFile
  <2> QED BY <1>2, <2>1, <2>2, <2>3 DEF PutFile, TypeOK, SharedOK
<1>3. CASE VerifyFile(w)
  <2>1. WorkersOK' /\ (left \in [Events -> Nat])'
    BY <1>3, GoOnType, FinishType DEF VerifyFile, PC, UploadPC
  <2> QED BY <1>3, <2>1 DEF VerifyFile, TypeOK, SharedOK
<1>4. CASE SaveUploaded(w)
  BY <1>4, SaveRowsType DEF SaveUploaded
<1>5. CASE CommitUpload(w)
  <2>1. loc[w].img.tag \in Tags
    BY <1>0, <1>5 DEF CommitUpload, WorkerOK, Resolved, UploadOps
  <2> QED BY <1>5, <2>1, FinishType, InstallType, SettleType DEF CommitUpload
<1> QED BY <1>1, <1>2, <1>3, <1>4, <1>5 DEF SingleStep

\* The steps of the deletes keep the types.
LEMMA AccessStepType ==
  ASSUME TypeOK, NEW w \in Workers, AccessStep(w)
  PROVE  TypeOK'
<1> USE NoValuesType DEF dbVars, cacheVars, fileVars, sessVars, histVars
<1>0. WorkerOK(loc[w], pc[w]) /\ loc[w] \in Local
  BY WorkerType DEF TypeOK, WorkerOK
<1>u. ASSUME NEW t \in Tags, Unlink(t)
      PROVE  /\ (full \in [Tags -> Content])' /\ torn' \subseteq Tags
             /\ (author \in [Tags -> Workers \cup {Nobody}])'
             /\ UNCHANGED <<declared, sure>>
  BY <1>u, ReplacedType DEF Unlink, TypeOK, SharedOK
<1>1. ASSUME NEW removed \in BOOLEAN, DeleteFile(w, removed)
      PROVE  TypeOK'
  <2>1. WorkerOK(loc[w], "txImage")
    BY <1>0, <1>1 DEF DeleteFile, WorkerOK, Resolved, PC, UploadPC
  <2>2. WorkersOK' /\ (left \in [Events -> Nat])'
    BY <1>1, <2>1, GoType DEF DeleteFile
  <2>3. loc[w].img.tag \in Tags
    BY <1>0, <1>1 DEF DeleteFile, WorkerOK, Resolved
  <2> QED BY <1>1, <1>u, <2>2, <2>3 DEF DeleteFile, TypeOK, SharedOK
<1>2. ASSUME NEW removed \in BOOLEAN, DeleteFiles(w, removed)
      PROVE  TypeOK'
  <2>1. PICK t \in loc[w].todo :
          /\ IF removed THEN Unlink(t) ELSE UNCHANGED <<full, histVars>>
          /\ Go(w, [loc[w] EXCEPT !.todo = @ \ {t}], "files")
    BY <1>2 DEF DeleteFiles
  <2>2. WorkerOK([loc[w] EXCEPT !.todo = @ \ {t}], "files")
    BY <1>0 DEF WorkerOK, Resolved, PC, UploadPC, Local
  <2>3. WorkersOK' /\ (left \in [Events -> Nat])'
    BY <2>1, <2>2, GoType
  <2>4. t \in Tags
    BY <1>0 DEF Local
  <2> QED BY <1>2, <1>u, <2>1, <2>3, <2>4 DEF DeleteFiles, TypeOK, SharedOK
<1>3. ASSUME Go(w, loc[w], "commit")
      PROVE  WorkersOK' /\ (left \in [Events -> Nat])'
  <2>1. WorkerOK(loc[w], "commit")
    BY <1>0 DEF WorkerOK, Resolved, PC, UploadPC
  <2> QED BY <1>3, <2>1, GoType
<1>4. CASE DeleteRow(w)
  <2>1. tx' \in Tx
    BY <1>4 DEF DeleteRow, TypeOK, SharedOK, Tx
  <2> QED BY <1>3, <1>4, <2>1 DEF DeleteRow, ForgetImage, TypeOK, SharedOK
<1>5. ASSUME NEW listed \in BOOLEAN, ListImages(w, listed)
      PROVE  TypeOK'
  <2> DEFINE tags == {t \in Tags : listed /\ \E r \in imageRows :
                                     r.repoId = loc[w].repo /\ r.tag = t}
  <2>1. WorkerOK([loc[w] EXCEPT !.todo = tags], "files")
    <3>1. tags \in SUBSET Tags
      OBVIOUS
    <3> HIDE DEF tags
    <3> QED BY <1>0, <3>1 DEF WorkerOK, Resolved, PC, UploadPC, Local
  <2>2. WorkersOK' /\ (left \in [Events -> Nat])'
    BY <1>5, <2>1, GoType DEF ListImages
  <2> QED BY <1>5, <2>2 DEF ListImages, TypeOK, SharedOK
<1>6. CASE DeleteRows(w)
  <2>1. tx' \in Tx
    BY <1>6 DEF DeleteRows, TypeOK, SharedOK, Tx
  <2> QED BY <1>3, <1>6, <2>1 DEF DeleteRows, ForgetRepo, TypeOK, SharedOK
<1>7. CASE CommitDelete(w)
  BY <1>7, FinishType, InstallType DEF CommitDelete, TypeOK, SharedOK
<1> QED BY <1>1, <1>2, <1>4, <1>5, <1>6, <1>7 DEF AccessStep

\* A failed request keeps the types.
LEMMA AbortType ==
  ASSUME TypeOK, NEW w \in Workers, Abort(w)
  PROVE  TypeOK'
<1>1. WorkersOK' /\ (left \in [Events -> Nat])'
  BY JumpType, NoValuesType, SpendType DEF Abort, TypeOK, Events
<1> QED BY <1>1, NoValuesType
        DEF Abort, TypeOK, SharedOK, cacheVars, fileVars, sessVars, histVars

LEMMA InitType == Init => TypeOK
BY NoValuesType, ConstantsAssumption
   DEF Init, TypeOK, SharedOK, WorkersOK, WorkerOK

LEMMA NextType ==
  ASSUME TypeOK, [Next]_vars
  PROVE  TypeOK'
<1>1. ASSUME NEW w \in Workers, Request(w) \/ Step(w) \/ Abort(w)
      PROVE  TypeOK'
  BY <1>1, RequestType, LookupType, ChunkStepType, SingleStepType,
     AccessStepType, AbortType DEF Step
<1>2. CASE Expire
  BY <1>2 DEF Expire, ExpireRepo, ExpireImage, TypeOK, SharedOK, WorkersOK,
              dbVars, fileVars, sessVars, histVars
<1>3. CASE UNCHANGED vars
  BY <1>3 DEF vars, TypeOK, SharedOK, WorkersOK,
              dbVars, cacheVars, fileVars, sessVars, histVars
<1> QED BY <1>1, <1>2, <1>3 DEF Next, Quiet

\* Every reachable state of the service is well typed: whatever handlers
\* interleave, every row, cached copy, file, session and local variable has
\* the form the code gives it.
THEOREM TypeCorrect == Spec => []TypeOK
BY InitType, NextType, PTL DEF Spec

-----------------------------------------------------------------------------
(* An image that can be found can be read *)

\* Without deletes no handler gets to where files are deleted, and the file
\* of a tag is there from the moment a handler has written it: before the
\* row that names it is put into a transaction.
NoDelete ==
  /\ left["delete"] = 0 /\ left["deleteRepo"] = 0
  /\ \A w \in Workers : /\ loc[w].op \notin {"delete", "deleteRepo"}
                        /\ pc[w] \notin {"file", "files", "txImage"}

Written(t) == full[t] # NoFile

FilesFirst ==
  /\ \A r \in imageRows \cup tx.images : Written(r.tag)
  /\ \A w \in Workers : pc[w] \in {"remove", "verify", "tx"} =>
                          Written(loc[w].img.tag)

\* Without deletes no step removes a file.
LEMMA FilesStay ==
  ASSUME TypeOK, NoDelete, NEW w \in Workers, Request(w) \/ Step(w) \/ Abort(w)
  PROVE  \A t \in Tags : Written(t) => Written(t)'
<1> USE DEF fileVars
<1>1. ASSUME CopySlice(w)
      PROVE  \A t \in Tags : Written(t) => Written(t)'
  BY <1>1 DEF CopySlice, Written, TypeOK, SharedOK
<1>2. ASSUME PutFile(w)
      PROVE  \A t \in Tags : Written(t) => Written(t)'
  BY <1>2 DEF PutFile, Written, NoFile, TypeOK, SharedOK
<1>3. CASE Request(w)
  BY <1>3 DEF Request, ChunkRequest, SingleRequest, AccessRequest, StartChunk,
              ChunkArrives, MergeArrives, StartSingle, UploadArrives, Read,
              Delete, DeleteRepository, Written
<1>4. CASE Lookup(w)
  BY <1>4 DEF Lookup, RepoCached, RepoSelected, RepoMissing, FillRepo,
              ImageCached, ImageSelected, ImageMissing, FillImage, Conflict,
              Written
<1>5. CASE ChunkStep(w)
  BY <1>1, <1>5 DEF ChunkStep, OpenChunked, OpenSession, WriteChunk, RecordChunk,
              CheckSlices, CheckDigest, RemoveSlice, CopyFails, SaveMerged,
              SaveRows, SaveRejected, CommitMerge, Install, LoseCommit,
              DeleteKeys, Written
<1>6. CASE SingleStep(w)
  BY <1>2, <1>6 DEF SingleStep, OpenSingle, OpenSession, VerifyFile,
              SaveUploaded, SaveRows, SaveRejected, CommitUpload, Install, Written
<1>7. CASE AccessStep(w)
  BY <1>7 DEF AccessStep, DeleteFile, DeleteFiles, DeleteRow, ListImages,
              DeleteRows, CommitDelete, Install, Written, NoDelete
<1>8. CASE Abort(w)
  BY <1>8 DEF Abort, Written
<1> QED BY <1>3, <1>4, <1>5, <1>6, <1>7, <1>8 DEF Step

\* How requests come in.
LEMMA RequestShape ==
  ASSUME NEW w \in Workers, Request(w)
  PROVE  \E l, p : /\ Arrive(w, l, p) /\ l.op \in Ops
                   /\ p \in {"repo", "chunkWrite", "check", "put"}
<1>1. \A op \in Ops : \A u, img, idx, d : Begin(op, u, img, idx, d).op \in Ops
  BY DEF Begin
<1> QED BY <1>1
        DEF Request, ChunkRequest, StartChunk, ChunkArrives, MergeArrives,
            SingleRequest, StartSingle, UploadArrives,
            AccessRequest, Read, Delete, DeleteRepository, Ops

\* Only requests spend what a budget has, and none has any left for deletes.
LEMMA NoDeleteStays ==
  ASSUME TypeOK, NoDelete, NEW w \in Workers, Request(w) \/ Step(w) \/ Abort(w)
  PROVE  NoDelete'
<1>1. ASSUME NEW l, NEW p, Jump(w, l, p), l.op \notin {"delete", "deleteRepo"},
             p \notin {"file", "files", "txImage"},
             left' = left \/ \E e \in Events : Spend(e)
      PROVE  NoDelete'
  <2>1. "delete" \in Events /\ "deleteRepo" \in Events
    BY DEF Events, Ops
  <2>2. left'["delete"] = 0 /\ left'["deleteRepo"] = 0
    BY <1>1, <2>1 DEF Spend, NoDelete, TypeOK
  <2> QED BY <1>1, <2>2 DEF Jump, NoDelete, TypeOK, WorkersOK
<1>2. NoLocal.op = "none"
  BY DEF NoLocal, Begin
<1>3. CASE Request(w)
  <2>1. PICK l, p : /\ Arrive(w, l, p) /\ l.op \in Ops
                    /\ p \in {"repo", "chunkWrite", "check", "put"}
    BY <1>3, RequestShape
  <2>2. l.op \in Events /\ l.op \notin {"delete", "deleteRepo"}
    BY <2>1 DEF Arrive, Spend, NoDelete, Events
  <2> QED BY <1>1, <2>1, <2>2 DEF Arrive
<1>5. ASSUME Finish(w) PROVE NoDelete'
  BY <1>1, <1>2, <1>5 DEF Finish, Go
<1>6. ASSUME NEW l, NEW p, Go(w, l, p), l.op = loc[w].op,
             p \notin {"file", "files", "txImage"}
      PROVE  NoDelete'
  BY <1>1, <1>6 DEF Go, NoDelete
<1>7. CASE Lookup(w)
  <2>1. ASSUME NEW l, l.op = loc[w].op, Continue(w, l) PROVE NoDelete'
    BY <1>5, <1>6, <2>1 DEF Continue, AfterImage, NoDelete
  <2>2. loc[w] \in Local
    BY DEF TypeOK, WorkersOK
  <2>3. \A row : Holding(loc[w], row).op = loc[w].op
    BY <2>2 DEF Holding, Local
  <2> QED BY <1>5, <1>6, <1>7, <2>1, <2>2, <2>3
          DEF Lookup, RepoCached, RepoSelected, RepoMissing, FillRepo,
              ImageCached, ImageSelected, ImageMissing, FillImage, Conflict, Local
<1>8. CASE ChunkStep(w)
  <2>1. CASE CheckDigest(w)
    <3> DEFINE l == [loc[w] EXCEPT !.img.digest = slice[loc[w].img.tag]]
    <3>1. l.op = loc[w].op
      BY DEF Local, TypeOK, WorkersOK
    <3>2. Go(w, l, "copy") \/ Finish(w)
      BY <2>1 DEF CheckDigest
    <3> HIDE DEF l
    <3> QED BY <1>5, <1>6, <3>1, <3>2
  <2>2. ASSUME ChunkStep(w), ~CheckDigest(w) PROVE NoDelete'
    BY <1>5, <1>6, <2>2
       DEF ChunkStep, OpenChunked, OpenSession, WriteChunk, RecordChunk,
           CheckSlices, CopySlice, RemoveSlice, CopyFails,
           SaveMerged, SaveRows, SaveRejected, CommitMerge, LoseCommit, DeleteKeys
  <2> QED BY <1>8, <2>1, <2>2
<1>9. CASE SingleStep(w)
  BY <1>5, <1>6, <1>9 DEF SingleStep, OpenSingle, OpenSession, PutFile,
              VerifyFile, SaveUploaded, SaveRows, SaveRejected, CommitUpload
<1>10. CASE AccessStep(w)
  BY <1>10 DEF NoDelete, AccessStep, DeleteFile, DeleteFiles, DeleteRow,
              ListImages, DeleteRows, CommitDelete
<1>11. CASE Abort(w)
  BY <1>1, <1>2, <1>11 DEF Abort, Events
<1> QED BY <1>3, <1>7, <1>8, <1>9, <1>10, <1>11 DEF Step
\* A step keeps the claims on the workers it does not move, and on w if w
\* goes on to a place with no claim.
LEMMA FilesFirstWorkers ==
  ASSUME TypeOK, FilesFirst, NEW w \in Workers, NEW l, NEW p, Jump(w, l, p),
         \A t \in Tags : Written(t) => Written(t)',
         p \in {"remove", "verify", "tx"} => full'[l.img.tag] # NoFile
  PROVE  (\A v \in Workers : pc[v] \in {"remove", "verify", "tx"} =>
                               Written(loc[v].img.tag))'
<1> SUFFICES ASSUME NEW v \in Workers, pc'[v] \in {"remove", "verify", "tx"}
             PROVE  Written(loc[v].img.tag)'
  OBVIOUS
<1>1. CASE v = w
  BY <1>1 DEF Jump, TypeOK, WorkersOK, Written
<1>2. CASE v # w
  <2>1. pc[v] = pc'[v] /\ loc[v] = loc'[v]
    BY <1>2 DEF Jump, TypeOK, WorkersOK
  <2>2. Written(loc[v].img.tag)
    BY <2>1 DEF FilesFirst
  <2>3. loc[v].img.tag \in Tags
    BY <2>1 DEF TypeOK, WorkersOK, Resolved, UploadPC
  <2>4. Written(loc[v].img.tag)' = (full'[loc[v].img.tag] # NoFile)
    BY <2>1 DEF Written
  <2> QED BY <2>2, <2>3, <2>4 DEF Written
<1> QED BY <1>1, <1>2

\* The rows of the database and of an open transaction have their file as
\* long as they are of tags that had it.
LEMMA FilesFirstRows ==
  ASSUME TypeOK, FilesFirst, \A t \in Tags : Written(t) => Written(t)',
         \A r \in (imageRows \cup tx.images)' :
           \E s \in imageRows \cup tx.images : s.tag = r.tag
  PROVE  (\A r \in imageRows \cup tx.images : Written(r.tag))'
<1>1. \A s \in imageRows \cup tx.images : s.tag \in Tags /\ Written(s.tag)
  BY DEF FilesFirst, TypeOK, SharedOK, Tx, ImageRow
<1> QED BY <1>1 DEF Written

LEMMA FilesFirstStays ==
  ASSUME TypeOK, TypeOK', NoDelete, FilesFirst, NEW w \in Workers,
         Request(w) \/ Step(w) \/ Abort(w)
  PROVE  FilesFirst'
<1>0. \A t \in Tags : Written(t) => Written(t)'
  BY FilesStay
<1>1. ASSUME imageRows' = imageRows, tx' = tx \/ tx' = NoTx
      PROVE  (\A r \in imageRows \cup tx.images : Written(r.tag))'
  BY <1>0, <1>1, FilesFirstRows DEF NoTx
<1>2. ASSUME NEW l, NEW p, Jump(w, l, p), p \notin {"remove", "verify", "tx"}
      PROVE  (\A v \in Workers : pc[v] \in {"remove", "verify", "tx"} =>
                                   Written(loc[v].img.tag))'
  BY <1>0, <1>2, FilesFirstWorkers
<1>3. ASSUME Finish(w)
      PROVE  (\A v \in Workers : pc[v] \in {"remove", "verify", "tx"} =>
                                   Written(loc[v].img.tag))'
  BY <1>2, <1>3 DEF Finish, Go
<1>4. ASSUME NEW always \in BOOLEAN, SaveRows(w, always) \/ SaveRejected(w, always)
      PROVE  FilesFirst'
  <2>1. CASE SaveRejected(w, always)
    BY <1>1, <1>3, <2>1 DEF SaveRejected, FilesFirst, dbVars
  <2>2. CASE SaveRows(w, always)
    <3> DEFINE img == loc[w].img
    <3>1. Written(img.tag) /\ img.tag \in Tags
      BY <2>2 DEF SaveRows, FilesFirst, TypeOK, WorkersOK, Resolved, UploadPC
    <3>2. \A r \in tx'.images : r.tag = img.tag \/ \E s \in imageRows : s.tag = r.tag
      <4>1. \A r \in imageRows : [r EXCEPT !.digest = img.digest].tag = r.tag
        BY DEF TypeOK, SharedOK, ImageRow
      <4>2. CASE img.imgId = 0
        <5> DEFINE new == [id |-> nextImageId, repoId |-> RepoIdFor(img),
                           tag |-> img.tag, digest |-> img.digest]
        <5>1. tx'.images = imageRows \cup {new}
          BY <2>2, <4>2 DEF SaveRows
        <5>2. new.tag = img.tag
          OBVIOUS
        <5> QED BY <5>1, <5>2
      <4>3. CASE img.imgId # 0
        <5>1. tx'.images = UpdateDigest(imageRows, img.imgId, img.digest)
          BY <2>2, <4>3 DEF SaveRows
        <5> QED BY <4>1, <5>1 DEF UpdateDigest
      <4> QED BY <4>2, <4>3
    <3>3. \A r \in imageRows : Written(r.tag)' /\ r.tag \in Tags
      BY <1>0 DEF FilesFirst, TypeOK, SharedOK, ImageRow
    <3>4. imageRows' = imageRows
      BY <2>2 DEF SaveRows
    <3>5. (\A r \in imageRows \cup tx.images : Written(r.tag))'
      BY <1>0, <3>1, <3>2, <3>3, <3>4 DEF Written
    <3>6. Jump(w, loc[w], "commit")
      BY <2>2 DEF SaveRows, Go
    <3> QED BY <1>2, <3>5, <3>6 DEF FilesFirst
  <2> QED BY <1>4, <2>1, <2>2
<1>5. ASSUME Install(w), NEW l, NEW p, Go(w, l, p), p \in {"idle", "del"}
      PROVE  FilesFirst'
  <2>1. (\A r \in imageRows \cup tx.images : Written(r.tag))'
    BY <1>0, <1>5, FilesFirstRows DEF Install, NoTx
  <2> QED BY <1>2, <1>5, <2>1 DEF Go, FilesFirst
<1>6. CASE Request(w)
  <2>1. PICK l, p : /\ Arrive(w, l, p) /\ l.op \in Ops
                    /\ p \in {"repo", "chunkWrite", "check", "put"}
    BY <1>6, RequestShape
  <2>2. imageRows' = imageRows /\ tx' = tx
    BY <1>6 DEF Request, ChunkRequest, SingleRequest, AccessRequest, StartChunk,
                ChunkArrives, MergeArrives, StartSingle, UploadArrives, Read,
                Delete, DeleteRepository, dbVars
  <2> QED BY <1>1, <1>2, <2>1, <2>2 DEF Arrive, FilesFirst
<1>7. CASE Lookup(w)
  <2>1. ASSUME NEW l, Continue(w, l)
        PROVE  (\A v \in Workers : pc[v] \in {"remove", "verify", "tx"} =>
                                     Written(loc[v].img.tag))'
    BY <1>2, <1>3, <2>1 DEF Continue, AfterImage, Go
  <2>2. (\A v \in Workers : pc[v] \in {"remove", "verify", "tx"} =>
                              Written(loc[v].img.tag))'
    BY <1>2, <1>3, <1>7, <2>1
       DEF Lookup, RepoCached, RepoSelected, RepoMissing, FillRepo, ImageCached,
           ImageSelected, ImageMissing, FillImage, Conflict, Go
  <2>3. imageRows' = imageRows /\ tx' = tx
    BY <1>7
       DEF Lookup, RepoCached, RepoSelected, RepoMissing, FillRepo, ImageCached,
           ImageSelected, ImageMissing, FillImage, Conflict, dbVars
  <2> QED BY <1>1, <2>2, <2>3 DEF FilesFirst
<1>8. CASE ChunkStep(w)
  <2>1. CASE SaveMerged(w)
    BY <1>4, <2>1 DEF SaveMerged
  <2>2. CASE CommitMerge(w)
    BY <1>5, <2>2 DEF CommitMerge
  <2>3. CASE CopySlice(w)
    <3>1. loc[w].img.tag \in Tags
      BY <2>3 DEF CopySlice, TypeOK, WorkersOK, Resolved, UploadPC
    <3>2. full'[loc[w].img.tag] # NoFile
      BY <2>3, <3>1 DEF CopySlice, TypeOK, SharedOK
    <3>3. Jump(w, loc[w], "remove")
      BY <2>3 DEF CopySlice, Go
    <3>4. (\A v \in Workers : pc[v] \in {"remove", "verify", "tx"} =>
                                Written(loc[v].img.tag))'
      BY <1>0, <3>2, <3>3, FilesFirstWorkers
    <3> QED BY <1>1, <2>3, <3>4 DEF CopySlice, dbVars, FilesFirst
  <2>4. CASE RemoveSlice(w)
    <3>1. loc[w].img.tag \in Tags /\ Written(loc[w].img.tag)
      BY <2>4 DEF RemoveSlice, FilesFirst, TypeOK, WorkersOK, Resolved, UploadPC
    <3>2. full' = full
      BY <2>4 DEF RemoveSlice
    <3>3. (\A v \in Workers : pc[v] \in {"remove", "verify", "tx"} =>
                                Written(loc[v].img.tag))'
      <4>1. CASE Go(w, loc[w], "tx")
        BY <1>0, <3>1, <3>2, <4>1, FilesFirstWorkers DEF Written, Go
      <4> QED BY <1>3, <2>4, <4>1 DEF RemoveSlice
    <3> QED BY <1>1, <2>4, <3>3 DEF RemoveSlice, dbVars, FilesFirst
  <2>5. ASSUME \/ \E u \in Uploads : OpenChunked(w, u)
               \/ WriteChunk(w) \/ RecordChunk(w)
               \/ CheckSlices(w) \/ CheckDigest(w)
               \/ CopyFails(w) \/ LoseCommit(w) \/ DeleteKeys(w)
        PROVE  FilesFirst'
    <3>1. (\A v \in Workers : pc[v] \in {"remove", "verify", "tx"} =>
                                Written(loc[v].img.tag))'
      BY <1>2, <1>3, <2>5
         DEF OpenChunked, OpenSession, WriteChunk, RecordChunk, CheckSlices,
             CheckDigest, CopyFails, LoseCommit, DeleteKeys, Go
    <3>2. imageRows' = imageRows /\ (tx' = tx \/ tx' = NoTx)
      BY <2>5
         DEF OpenChunked, OpenSession, WriteChunk, RecordChunk, CheckSlices,
             CheckDigest, CopyFails, LoseCommit, DeleteKeys, dbVars
    <3> QED BY <1>1, <3>1, <3>2 DEF FilesFirst
  <2> QED BY <1>8, <2>1, <2>2, <2>3, <2>4, <2>5 DEF ChunkStep
<1>9. CASE SingleStep(w)
  <2>1. ASSUME NEW u \in Uploads, OpenSingle(w, u)
        PROVE  FilesFirst'
    BY <1>1, <1>3, <2>1 DEF OpenSingle, OpenSession, FilesFirst, dbVars
  <2>2. CASE PutFile(w)
    <3>1. loc[w].img.tag \in Tags
      BY <2>2 DEF PutFile, TypeOK, WorkersOK, Resolved, UploadPC
    <3>2. full'[loc[w].img.tag] # NoFile
      BY <2>2, <3>1 DEF PutFile, TypeOK, SharedOK, NoFile
    <3>3. Jump(w, loc[w], "verify")
      BY <2>2 DEF PutFile, Go
    <3>4. (\A v \in Workers : pc[v] \in {"remove", "verify", "tx"} =>
                                Written(loc[v].img.tag))'
      BY <1>0, <3>2, <3>3, FilesFirstWorkers
    <3> QED BY <1>1, <2>2, <3>4 DEF PutFile, dbVars, FilesFirst
  <2>3. CASE VerifyFile(w)
    <3>1. loc[w].img.tag \in Tags /\ Written(loc[w].img.tag)
      BY <2>3 DEF VerifyFile, FilesFirst, TypeOK, WorkersOK, Resolved, UploadPC
    <3>2. full' = full
      BY <2>3 DEF VerifyFile, fileVars
    <3>3. (\A v \in Workers : pc[v] \in {"remove", "verify", "tx"} =>
                                Written(loc[v].img.tag))'
      <4>1. CASE Go(w, loc[w], "tx")
        BY <1>0, <3>1, <3>2, <4>1, FilesFirstWorkers DEF Written, Go
      <4> QED BY <1>3, <2>3, <4>1 DEF VerifyFile
    <3> QED BY <1>1, <2>3, <3>3 DEF VerifyFile, dbVars, FilesFirst
  <2>4. CASE SaveUploaded(w)
    BY <1>4, <2>4 DEF SaveUploaded
  <2>5. CASE CommitUpload(w)
    BY <1>5, <2>5 DEF CommitUpload, Finish
  <2> QED BY <1>9, <2>1, <2>2, <2>3, <2>4, <2>5 DEF SingleStep
<1>10. CASE AccessStep(w)
  BY <1>10 DEF AccessStep, DeleteFile, DeleteFiles, DeleteRow, ListImages,
               DeleteRows, CommitDelete, NoDelete
<1>11. CASE Abort(w)
  BY <1>1, <1>2, <1>11 DEF Abort, FilesFirst
<1> QED BY <1>6, <1>7, <1>8, <1>9, <1>10, <1>11 DEF Step

\* As long as no client deletes, the file of every image in the database is
\* there: the uploads write the store before the row, whatever requests
\* race, are repeated or fail between any two of their calls.
THEOREM ImagesHaveFiles ==
  ASSUME \A b \in Budgets : b["delete"] = 0 /\ b["deleteRepo"] = 0
  PROVE  Spec => []RowHasFile
<1> DEFINE Inv == TypeOK /\ NoDelete /\ FilesFirst
<1>1. Init => Inv
  <2>1. Init => TypeOK
    BY InitType
  <2> QED BY <2>1 DEF Init, NoDelete, FilesFirst, NoTx, NoLocal, Begin
<1>2. Inv /\ [Next]_vars => Inv'
  <2> SUFFICES ASSUME Inv, [Next]_vars
               PROVE  Inv'
    OBVIOUS
  <2>1. TypeOK'
    BY NextType
  <2>2. ASSUME NEW w \in Workers, Request(w) \/ Step(w) \/ Abort(w)
        PROVE  Inv'
    BY <2>1, <2>2, NoDeleteStays, FilesFirstStays
  <2>3. CASE Expire \/ UNCHANGED vars
    BY <2>1, <2>3
       DEF Expire, ExpireRepo, ExpireImage, NoDelete, FilesFirst, Written,
           vars, dbVars, fileVars
  <2> QED BY <2>2, <2>3 DEF Next, Quiet
<1>3. Inv => RowHasFile
  BY DEF FilesFirst, RowHasFile, Written
<1> QED BY <1>1, <1>2, <1>3, PTL DEF Spec

-----------------------------------------------------------------------------
(* Image ids and tags *)

\* own says which tag an image id was inserted for; a pair of an id and a tag
\* that is kept somewhere agrees with it, 0 being no id.
Known(own, i, t)  == i \in DOMAIN own /\ own[i] = t
Agrees(own, i, t) == i # 0 => Known(own, i, t)

RowsAgree(own)     == \A r \in imageRows \cup tx.images : Known(own, r.id, r.tag)
CopiesAgree(own)   == \A t \in Tags : Agrees(own, imgCache[t].id, imgCache[t].tag)
SessionsAgree(own) == \A u \in Uploads : Agrees(own, info[u].imgId, info[u].tag)
WorkersAgree(own)  == \A w \in Workers : Agrees(own, loc[w].img.imgId, loc[w].img.tag)

Agreed(own) == /\ RowsAgree(own) /\ CopiesAgree(own)
               /\ SessionsAgree(own) /\ WorkersAgree(own)

\* There is such a map, for the ids below the counter: the inductive form of
\* UpdateHitsOwnTag.
IdTags == [1 .. nextImageId - 1 -> Tags]
IdsHaveTags == \E own \in IdTags : Agreed(own)

LEMMA NoValuesAgree ==
  ASSUME NEW own
  PROVE  /\ Agrees(own, NoLocal.img.imgId, NoLocal.img.tag)
         /\ Agrees(own, NoSession.imgId, NoSession.tag)
         /\ Agrees(own, NoRow.id, NoRow.tag)
BY DEF Agrees, NoLocal, NoSession, NoRow, Begin, Announced

\* What keeps the four parts: the handler that moves holds an image that
\* agrees; sessions and copies stay or go; rows keep id and tag, or go.
LEMMA WorkersStayAgreed ==
  ASSUME TypeOK, NEW own, WorkersAgree(own),
         NEW w \in Workers, NEW l, NEW p, Jump(w, l, p),
         Agrees(own, l.img.imgId, l.img.tag)
  PROVE  WorkersAgree(own)'
<1> SUFFICES ASSUME NEW v \in Workers
             PROVE  Agrees(own, loc'[v].img.imgId, loc'[v].img.tag)
  BY DEF WorkersAgree, Agrees, Known
<1>1. CASE v = w
  BY <1>1 DEF Jump, TypeOK, WorkersOK
<1>2. CASE v # w
  BY <1>2 DEF Jump, TypeOK, WorkersOK, WorkersAgree
<1> QED BY <1>1, <1>2

LEMMA FinishAgrees ==
  ASSUME TypeOK, NEW own, WorkersAgree(own), NEW w \in Workers, Finish(w)
  PROVE  WorkersAgree(own)'
BY WorkersStayAgreed, NoValuesAgree DEF Finish, Go

LEMMA GoOnAgrees ==
  ASSUME TypeOK, NEW own, WorkersAgree(own), NEW w \in Workers,
         NEW l, NEW p, Go(w, l, p), l.img.imgId = loc[w].img.imgId,
         l.img.tag = loc[w].img.tag
  PROVE  WorkersAgree(own)'
<1>1. Agrees(own, l.img.imgId, l.img.tag)
  BY DEF WorkersAgree
<1> QED BY <1>1, WorkersStayAgreed DEF Go

LEMMA SessionsStayAgreed ==
  ASSUME NEW own, SessionsAgree(own),
         \A u \in Uploads : info'[u] = info[u] \/ info'[u] = NoSession
  PROVE  SessionsAgree(own)'
BY NoValuesAgree DEF SessionsAgree, Agrees, Known

LEMMA CopiesStayAgreed ==
  ASSUME NEW own, CopiesAgree(own),
         \A t \in Tags : imgCache'[t] = imgCache[t] \/ imgCache'[t] = NoRow
  PROVE  CopiesAgree(own)'
BY NoValuesAgree DEF CopiesAgree, Agrees, Known

LEMMA RowsStayAgreed ==
  ASSUME NEW own, RowsAgree(own),
         \A r \in (imageRows \cup tx.images)' :
           \E s \in imageRows \cup tx.images : s.id = r.id /\ s.tag = r.tag
  PROVE  RowsAgree(own)'
BY DEF RowsAgree, Known

\* A row that a handler takes over brings its id together with its tag.
LEMMA HoldingAgrees ==
  ASSUME TypeOK, NEW own, NEW w \in Workers, NEW row, Agrees(own, row.id, row.tag)
  PROVE  Agrees(own, Holding(loc[w], row).img.imgId, Holding(loc[w], row).img.tag)
<1>1. loc[w] \in Local
  BY DEF TypeOK, WorkersOK
<1>2. /\ Holding(loc[w], row).img.imgId = row.id
      /\ Holding(loc[w], row).img.tag = row.tag
  BY <1>1 DEF Holding, Local, Image
<1> QED BY <1>2

LEMMA RequestAgrees ==
  ASSUME TypeOK, NEW own, Agreed(own), NEW w \in Workers, Request(w)
  PROVE  Agreed(own)'
<1>1. UNCHANGED <<imageRows, tx, imgCache, info>>
  BY DEF Request, ChunkRequest, SingleRequest, AccessRequest, StartChunk,
         ChunkArrives, MergeArrives, StartSingle, UploadArrives, Read, Delete,
         DeleteRepository, dbVars, cacheVars, sessVars
<1>2. ASSUME NEW op, NEW u, NEW img, NEW idx, NEW d, NEW p,
             Arrive(w, Begin(op, u, img, idx, d), p),
             Agrees(own, img.imgId, img.tag)
      PROVE  WorkersAgree(own)'
  BY <1>2, WorkersStayAgreed DEF Arrive, Agreed, Begin
<1>3. \A kind, t, d, n, f :
        Agrees(own, Announced(kind, t, d, n, f).imgId, Announced(kind, t, d, n, f).tag)
  BY DEF Announced, Agrees
<1>4. \A t : Agrees(own, Named(t).imgId, Named(t).tag)
  BY DEF Named, NoSession, Announced, Agrees
<1>5. WorkersAgree(own)'
  <2>1. CASE ChunkRequest(w)
    BY <1>2, <1>3, <2>1
       DEF ChunkRequest, StartChunk, ChunkArrives, MergeArrives, Agreed, SessionsAgree
  <2>2. CASE SingleRequest(w)
    BY <1>2, <1>3, <2>2
       DEF SingleRequest, StartSingle, UploadArrives, Agreed, SessionsAgree
  <2>3. CASE AccessRequest(w)
    BY <1>2, <1>4, <2>3, NoValuesAgree
       DEF AccessRequest, Read, Delete, DeleteRepository
  <2> QED BY <2>1, <2>2, <2>3 DEF Request
<1> QED BY <1>1, <1>5 DEF Agreed, RowsAgree, CopiesAgree, SessionsAgree, Known, Agrees

LEMMA LookupAgrees ==
  ASSUME TypeOK, NEW own, Agreed(own), NEW w \in Workers, Lookup(w)
  PROVE  Agreed(own)'
<1>1. UNCHANGED <<imageRows, tx, info>>
  BY DEF Lookup, RepoCached, RepoSelected, RepoMissing, FillRepo, ImageCached,
         ImageSelected, ImageMissing, FillImage, Conflict, dbVars, sessVars
<1>2. loc[w] \in Local
  BY DEF TypeOK, WorkersOK
<1>3. ASSUME NEW l, Continue(w, l), Agrees(own, l.img.imgId, l.img.tag)
      PROVE  WorkersAgree(own)'
  BY <1>3, FinishAgrees, WorkersStayAgreed DEF Continue, Go, Agreed
<1>4. CASE FillImage(w)
  <2>1. Agrees(own, loc[w].img.imgId, loc[w].img.tag)
    BY DEF Agreed, WorkersAgree
  <2>2. CopiesAgree(own)'
    <3> SUFFICES ASSUME NEW t \in Tags
                 PROVE  Agrees(own, imgCache'[t].id, imgCache'[t].tag)
      BY DEF CopiesAgree, Agrees, Known
    <3>1. CASE t = loc[w].img.tag
      <4>1. imgCache'[t] = HeldRow(loc[w])
        BY <1>4, <3>1 DEF FillImage, TypeOK, SharedOK
      <4> QED BY <2>1, <4>1 DEF HeldRow
    <3>2. CASE t # loc[w].img.tag
      BY <1>4, <3>2 DEF FillImage, TypeOK, SharedOK, Agreed, CopiesAgree
    <3> QED BY <3>1, <3>2
  <2>3. WorkersAgree(own)'
    BY <1>3, <1>4, <2>1 DEF FillImage
  <2> QED BY <1>1, <2>2, <2>3 DEF Agreed, RowsAgree, SessionsAgree, Known, Agrees
<1>5. CASE ImageCached(w)
  <2>1. PICK t \in Tags : /\ imgCache[t] # NoRow
                          /\ Continue(w, Holding(loc[w], imgCache[t]))
    <3>1. loc[w].img.tag \in Tags
      BY <1>2, <1>5 DEF ImageCached, CacheHit, Local, Image
    <3> QED BY <1>5, <3>1 DEF ImageCached, CacheHit
  <2>2. WorkersAgree(own)'
    BY <1>3, <2>1, HoldingAgrees DEF Agreed, CopiesAgree
  <2> QED BY <1>1, <1>5, <2>2
          DEF ImageCached, cacheVars, Agreed, RowsAgree, CopiesAgree,
              SessionsAgree, Known, Agrees
<1>6. CASE ImageSelected(w)
  <2>1. PICK row \in imageRows : Go(w, Holding(loc[w], row), "fillImg")
    BY <1>6 DEF ImageSelected, Selected
  <2>2. WorkersAgree(own)'
    <3>1. Agrees(own, row.id, row.tag)
      BY DEF Agreed, RowsAgree, Agrees
    <3> QED BY <2>1, <3>1, HoldingAgrees, WorkersStayAgreed DEF Go, Agreed
  <2> QED BY <1>1, <1>6, <2>2
          DEF ImageSelected, cacheVars, Agreed, RowsAgree, CopiesAgree,
              SessionsAgree, Known, Agrees
<1>7. ASSUME RepoCached(w) \/ RepoSelected(w) \/ RepoMissing(w) \/ FillRepo(w)
             \/ ImageMissing(w) \/ Conflict(w)
      PROVE  Agreed(own)'
  <2>1. \A i \in Nat : /\ [loc[w] EXCEPT !.repo = i].img = loc[w].img
                       /\ [loc[w] EXCEPT !.img.repoId = i].img.imgId = loc[w].img.imgId
                       /\ [loc[w] EXCEPT !.img.repoId = i].img.tag = loc[w].img.tag
    BY <1>2 DEF Local, Image
  <2>2. repoCache \in Nat /\ repoRow \in Nat /\ loc[w].repo \in Nat
    BY <1>2 DEF TypeOK, SharedOK, Local
  <2>3. WorkersAgree(own)'
    BY <1>7, <2>1, <2>2, FinishAgrees, GoOnAgrees
       DEF RepoCached, RepoSelected, RepoMissing, FillRepo, ImageMissing,
           Conflict, Agreed
  <2>4. imgCache' = imgCache
    BY <1>7 DEF RepoCached, RepoSelected, RepoMissing, FillRepo, ImageMissing,
                Conflict, cacheVars
  <2> QED BY <1>1, <2>3, <2>4
          DEF Agreed, RowsAgree, CopiesAgree, SessionsAgree, Known, Agrees
<1> QED BY <1>4, <1>5, <1>6, <1>7 DEF Lookup

\* A transaction that updates a row keeps its id and tag; one that inserts a
\* row takes an id that no tag had.
LEMMA SaveAgrees ==
  ASSUME TypeOK, IdsHaveTags, NEW w \in Workers, NEW always \in BOOLEAN,
         SaveRows(w, always)
  PROVE  IdsHaveTags'
<1> DEFINE img == loc[w].img
           new == [id |-> nextImageId, repoId |-> RepoIdFor(img), tag |-> img.tag,
                   digest |-> img.digest]
<1>1. PICK own \in IdTags : Agreed(own)
  BY DEF IdsHaveTags
<1>2. img.tag \in Tags
  BY DEF SaveRows, TypeOK, WorkersOK, Resolved, UploadPC
<1>3. UNCHANGED <<imageRows, info>>
  BY DEF SaveRows, sessVars
<1>4. \A t \in Tags : imgCache'[t] = imgCache[t] \/ imgCache'[t] = NoRow
  BY DEF SaveRows, ForgetImage, TypeOK, SharedOK
<1>5. ASSUME NEW f, Agreed(f), \A r \in tx'.images : Known(f, r.id, r.tag)
      PROVE  Agreed(f)'
  <2>1. RowsAgree(f)'
    BY <1>3, <1>5 DEF Agreed, RowsAgree, Known
  <2>2. WorkersAgree(f)'
    BY <1>5, GoOnAgrees DEF SaveRows, Agreed
  <2> QED BY <1>3, <1>4, <1>5, <2>1, <2>2, CopiesStayAgreed, SessionsStayAgreed
          DEF Agreed
<1>6. CASE img.imgId # 0
  <2>1. tx'.images = UpdateDigest(imageRows, img.imgId, img.digest)
        /\ nextImageId' = nextImageId
    BY <1>6 DEF SaveRows
  <2>2. \A r \in imageRows : /\ [r EXCEPT !.digest = img.digest].id = r.id
                             /\ [r EXCEPT !.digest = img.digest].tag = r.tag
    BY DEF TypeOK, SharedOK, ImageRow
  <2>3. \A r \in tx'.images : \E s \in imageRows : s.id = r.id /\ s.tag = r.tag
    BY <2>1, <2>2 DEF UpdateDigest
  <2>4. Agreed(own)'
    BY <1>1, <1>5, <2>3 DEF Agreed, RowsAgree
  <2> QED BY <1>1, <2>1, <2>4 DEF IdsHaveTags, IdTags
<1>7. CASE img.imgId = 0
  <2>1. tx'.images = imageRows \cup {new} /\ nextImageId' = nextImageId + 1
    BY <1>7 DEF SaveRows
  <2>2. nextImageId \in Nat \ {0}
    BY DEF TypeOK, SharedOK
  <2>3. PICK f \in [1 .. nextImageId -> Tags] :
          f = [i \in 1 .. nextImageId |-> IF i = nextImageId THEN img.tag ELSE own[i]]
    <3>1. \A i \in 1 .. nextImageId :
            (IF i = nextImageId THEN img.tag ELSE own[i]) \in Tags
      BY <1>1, <1>2, <2>2 DEF IdTags
    <3> QED BY <3>1
  <2>4. \A i, t : Known(own, i, t) => Known(f, i, t)
    BY <1>1, <2>2, <2>3 DEF Known, IdTags
  <2>5. Known(f, new.id, new.tag)
    BY <2>2, <2>3 DEF Known
  <2>6. f \in IdTags'
    BY <2>1, <2>2, <2>3 DEF IdTags
  <2> HIDE DEF new
  <2>7. Agreed(f)
    BY <1>1, <2>4
       DEF Agreed, RowsAgree, CopiesAgree, SessionsAgree, WorkersAgree, Agrees
  <2>8. \A r \in tx'.images : Known(f, r.id, r.tag)
    BY <2>1, <2>5, <2>7 DEF Agreed, RowsAgree
  <2>9. Agreed(f)'
    BY <1>5, <2>7, <2>8
  <2> QED BY <2>6, <2>9 DEF IdsHaveTags
<1> QED BY <1>6, <1>7

\* So does a request that a unique key refuses.
LEMMA RejectedAgrees ==
  ASSUME TypeOK, NEW own, Agreed(own), NEW w \in Workers, NEW always \in BOOLEAN,
         SaveRejected(w, always)
  PROVE  Agreed(own)'
<1>1. UNCHANGED <<imageRows, tx, imgCache, info>>
  BY DEF SaveRejected, dbVars, sessVars
<1>2. WorkersAgree(own)'
  BY FinishAgrees DEF SaveRejected, Agreed
<1> QED BY <1>1, <1>2
        DEF Agreed, RowsAgree, CopiesAgree, SessionsAgree, Known, Agrees

\* A commit installs the rows that the transaction had.
LEMMA InstallAgrees ==
  ASSUME TypeOK, NEW own, Agreed(own), NEW w \in Workers, Install(w),
         Go(w, loc[w], "del") \/ Finish(w)
  PROVE  Agreed(own)'
<1>1. RowsAgree(own)'
  BY RowsStayAgreed DEF Install, NoTx, Agreed
<1>2. WorkersAgree(own)'
  BY FinishAgrees, GoOnAgrees DEF Agreed
<1> QED BY <1>1, <1>2
        DEF Install, cacheVars, sessVars, Agreed, CopiesAgree, SessionsAgree,
            Known, Agrees

\* A session is opened with the image of the handler that opens it.
LEMMA OpenAgrees ==
  ASSUME TypeOK, NEW own, Agreed(own), NEW w \in Workers, NEW u \in Uploads,
         NEW expires, OpenSession(w, u, expires)
  PROVE  Agreed(own)'
<1>1. SessionsAgree(own)'
  BY DEF OpenSession, TypeOK, SharedOK, Agreed, SessionsAgree, WorkersAgree,
         Agrees, Known
<1>2. WorkersAgree(own)'
  BY FinishAgrees DEF OpenSession, Agreed
<1> QED BY <1>1, <1>2
        DEF OpenSession, dbVars, cacheVars, Agreed, RowsAgree, CopiesAgree,
            Known, Agrees

\* The other steps of the uploads, and of deletes, move no id.
LEMMA StepAgrees ==
  ASSUME TypeOK, NEW own, Agreed(own), NEW w \in Workers,
         ChunkStep(w) \/ SingleStep(w) \/ AccessStep(w) \/ Abort(w),
         ~SaveMerged(w), ~SaveUploaded(w)
  PROVE  Agreed(own)'
<1>0. loc[w] \in Local
  BY DEF TypeOK, WorkersOK
<1>1. ASSUME \A r \in (imageRows \cup tx.images)' :
               \E s \in imageRows \cup tx.images : s.id = r.id /\ s.tag = r.tag,
             \A t \in Tags : imgCache'[t] = imgCache[t] \/ imgCache'[t] = NoRow,
             \A u \in Uploads : info'[u] = info[u] \/ info'[u] = NoSession,
             WorkersAgree(own)'
      PROVE  Agreed(own)'
  BY <1>1, RowsStayAgreed, CopiesStayAgreed, SessionsStayAgreed DEF Agreed
<1>2. CASE ChunkStep(w)
  <2>1. CASE \E u \in Uploads : OpenChunked(w, u)
    BY <2>1, OpenAgrees DEF OpenChunked
  <2>2. CASE CommitMerge(w)
    BY <2>2, InstallAgrees DEF CommitMerge
  <2>3. ASSUME \/ WriteChunk(w) \/ RecordChunk(w) \/ CheckSlices(w)
               \/ CheckDigest(w) \/ CopySlice(w) \/ RemoveSlice(w)
               \/ CopyFails(w) \/ LoseCommit(w) \/ DeleteKeys(w)
        PROVE  Agreed(own)'
    <3>1. UNCHANGED <<imageRows, imgCache>> /\ (tx' = tx \/ tx' = NoTx)
      BY <2>3 DEF WriteChunk, RecordChunk, CheckSlices, CheckDigest, CopySlice,
                  RemoveSlice, CopyFails, LoseCommit, DeleteKeys, dbVars, cacheVars
    <3>2. \A u \in Uploads : info'[u] = info[u] \/ info'[u] = NoSession
      BY <2>3 DEF WriteChunk, RecordChunk, CheckSlices, CheckDigest, CopySlice,
                  RemoveSlice, CopyFails, LoseCommit, DeleteKeys, sessVars,
                  TypeOK, SharedOK
    <3>3. \A d : LET l == [loc[w] EXCEPT !.img.digest = d]
                 IN l.img.imgId = loc[w].img.imgId /\ l.img.tag = loc[w].img.tag
      BY <1>0 DEF Local, Image
    <3>4. WorkersAgree(own)'
      BY <2>3, <3>3, FinishAgrees, GoOnAgrees
         DEF WriteChunk, RecordChunk, CheckSlices, CheckDigest, CopySlice,
             RemoveSlice, CopyFails, LoseCommit, DeleteKeys, Agreed
    <3> QED BY <1>1, <3>1, <3>2, <3>4 DEF NoTx
  <2> QED BY <1>2, <2>1, <2>2, <2>3 DEF ChunkStep
<1>3. CASE SingleStep(w)
  <2>1. CASE \E u \in Uploads : OpenSingle(w, u)
    BY <2>1, OpenAgrees DEF OpenSingle
  <2>2. CASE CommitUpload(w)
    BY <2>2, InstallAgrees DEF CommitUpload
  <2>3. CASE PutFile(w) \/ VerifyFile(w)
    <3>1. WorkersAgree(own)'
      BY <2>3, FinishAgrees, GoOnAgrees DEF PutFile, VerifyFile, Agreed
    <3> QED BY <1>1, <2>3, <3>1
            DEF PutFile, VerifyFile, dbVars, cacheVars, sessVars
  <2> QED BY <1>3, <2>1, <2>2, <2>3 DEF SingleStep
<1>4. CASE AccessStep(w)
  <2>1. CASE CommitDelete(w)
    BY <2>1, InstallAgrees DEF CommitDelete
  <2>2. ASSUME \/ \E removed \in BOOLEAN : DeleteFile(w, removed) \/ DeleteFiles(w, removed)
               \/ \E listed \in BOOLEAN : ListImages(w, listed)
               \/ DeleteRow(w) \/ DeleteRows(w)
        PROVE  Agreed(own)'
    <3>1. imageRows' = imageRows /\ tx'.images \subseteq imageRows \cup tx.images
      <4>1. CASE DeleteRow(w) \/ DeleteRows(w)
        BY <4>1 DEF DeleteRow, DeleteRows
      <4>2. CASE ~DeleteRow(w) /\ ~DeleteRows(w)
        BY <2>2, <4>2 DEF DeleteFile, DeleteFiles, ListImages, dbVars
      <4> QED BY <4>1, <4>2
    <3>2. \A t \in Tags : imgCache'[t] = imgCache[t] \/ imgCache'[t] = NoRow
      BY <2>2 DEF DeleteFile, DeleteFiles, ListImages, DeleteRow, DeleteRows,
                  ForgetImage, cacheVars, TypeOK, SharedOK
    <3>3. info' = info
      BY <2>2 DEF DeleteFile, DeleteFiles, ListImages, DeleteRow, DeleteRows, sessVars
    <3>4. \A S : [loc[w] EXCEPT !.todo = S].img = loc[w].img
      BY <1>0 DEF Local
    <3>5. WorkersAgree(own)'
      BY <2>2, <3>4, GoOnAgrees
         DEF DeleteFile, DeleteFiles, ListImages, DeleteRow, DeleteRows, Agreed
    <3> QED BY <1>1, <3>1, <3>2, <3>3, <3>5
  <2> QED BY <1>4, <2>1, <2>2 DEF AccessStep
<1>5. CASE Abort(w)
  <2>1. WorkersAgree(own)'
    BY <1>5, WorkersStayAgreed, NoValuesAgree DEF Abort, Agreed
  <2>2. tx' = tx \/ tx' = NoTx
    BY <1>5 DEF Abort
  <2> QED BY <1>1, <1>5, <2>1, <2>2 DEF Abort, NoTx, cacheVars, sessVars
<1> QED BY <1>2, <1>3, <1>4, <1>5

LEMMA InitIdsHaveTags == Init => IdsHaveTags
<1> SUFFICES ASSUME Init PROVE IdsHaveTags
  OBVIOUS
<1>1. PICK own \in IdTags : TRUE
  <2>1. [i \in {} |-> 0] \in IdTags
    BY DEF Init, IdTags
  <2> QED BY <2>1
<1>2. Agreed(own)
  BY NoValuesAgree
     DEF Init, Agreed, RowsAgree, CopiesAgree, SessionsAgree, WorkersAgree, NoTx
<1> QED BY <1>2 DEF IdsHaveTags

\* Only an upload that saves its rows takes an image id or a repository id.
LEMMA CounterStays ==
  ASSUME NEW w \in Workers, Request(w) \/ Step(w) \/ Abort(w),
         ~SaveMerged(w), ~SaveUploaded(w)
  PROVE  nextImageId' = nextImageId /\ nextRepoId' = nextRepoId
<1>1. CASE Request(w)
  BY <1>1 DEF Request, ChunkRequest, SingleRequest, AccessRequest, StartChunk,
              ChunkArrives, MergeArrives, StartSingle, UploadArrives, Read,
              Delete, DeleteRepository, dbVars
<1>2. CASE Lookup(w)
  BY <1>2 DEF Lookup, RepoCached, RepoSelected, RepoMissing, FillRepo,
              ImageCached, ImageSelected, ImageMissing, FillImage, Conflict, dbVars
<1>3. CASE ChunkStep(w)
  BY <1>3 DEF ChunkStep, OpenChunked, OpenSession, WriteChunk, RecordChunk,
              CheckSlices, CheckDigest, CopySlice, RemoveSlice, CopyFails,
              CommitMerge, Install, LoseCommit, DeleteKeys, dbVars
<1>4. CASE SingleStep(w)
  BY <1>4 DEF SingleStep, OpenSingle, OpenSession, PutFile, VerifyFile,
              CommitUpload, Install, dbVars
<1>5. CASE AccessStep(w)
  BY <1>5 DEF AccessStep, DeleteFile, DeleteFiles, ListImages, DeleteRow,
              DeleteRows, CommitDelete, Install, dbVars
<1>6. CASE Abort(w)
  BY <1>6 DEF Abort
<1> QED BY <1>1, <1>2, <1>3, <1>4, <1>5, <1>6 DEF Step

LEMMA NextIdsHaveTags ==
  ASSUME TypeOK, IdsHaveTags, [Next]_vars
  PROVE  IdsHaveTags'
<1>1. PICK own \in IdTags : Agreed(own)
  BY DEF IdsHaveTags
<1>2. ASSUME NEW w \in Workers, SaveMerged(w) \/ SaveUploaded(w)
      PROVE  IdsHaveTags'
  <2>1. PICK always \in BOOLEAN : SaveRows(w, always) \/ SaveRejected(w, always)
    BY <1>2 DEF SaveMerged, SaveUploaded
  <2>2. CASE SaveRows(w, always)
    BY <2>2, SaveAgrees
  <2>3. CASE SaveRejected(w, always)
    <3>1. Agreed(own)'
      BY <1>1, <2>3, RejectedAgrees
    <3> QED BY <1>1, <2>3, <3>1 DEF SaveRejected, dbVars, IdsHaveTags, IdTags
  <2> QED BY <2>1, <2>2, <2>3
<1>3. ASSUME NEW w \in Workers, Request(w) \/ Step(w) \/ Abort(w),
             ~SaveMerged(w), ~SaveUploaded(w)
      PROVE  IdsHaveTags'
  <2>1. Agreed(own)'
    BY <1>1, <1>3, RequestAgrees, LookupAgrees, StepAgrees DEF Step
  <2>2. nextImageId' = nextImageId
    BY <1>3, CounterStays
  <2> QED BY <1>1, <2>1, <2>2 DEF IdsHaveTags, IdTags
<1>4. CASE Expire \/ UNCHANGED vars
  <2>1. UNCHANGED <<imageRows, tx, nextImageId, info, loc>>
    BY <1>4 DEF Expire, ExpireRepo, ExpireImage, vars, dbVars, sessVars
  <2>2. \A t \in Tags : imgCache'[t] = imgCache[t] \/ imgCache'[t] = NoRow
    BY <1>4 DEF Expire, ExpireRepo, ExpireImage, vars, cacheVars, TypeOK, SharedOK
  <2>3. CopiesAgree(own)'
    BY <1>1, <2>2, CopiesStayAgreed DEF Agreed
  <2>4. Agreed(own)'
    BY <1>1, <2>1, <2>3
       DEF Agreed, RowsAgree, SessionsAgree, WorkersAgree, Known, Agrees
  <2> QED BY <1>1, <2>1, <2>4 DEF IdsHaveTags, IdTags
<1> QED BY <1>2, <1>3, <1>4 DEF Next, Quiet

\* The row id that a session took from the database, or from a stale copy in
\* redis, never becomes the id of another tag's image, however long the
\* session lives and whatever is deleted and uploaded meanwhile.
THEOREM SessionsHitOwnTag == Spec => []UpdateHitsOwnTag
<1>1. Init => TypeOK /\ IdsHaveTags
  BY InitType, InitIdsHaveTags
<1>2. TypeOK /\ IdsHaveTags /\ [Next]_vars => (TypeOK /\ IdsHaveTags)'
  BY NextType, NextIdsHaveTags
<1>3. IdsHaveTags => UpdateHitsOwnTag
  <2> SUFFICES ASSUME IdsHaveTags, NEW u \in Uploads, NEW r \in imageRows,
                      info[u].imgId = r.id
               PROVE  r.tag = info[u].tag
    BY DEF UpdateHitsOwnTag
  <2>1. PICK own \in IdTags : Agreed(own)
    BY DEF IdsHaveTags
  <2>2. Known(own, r.id, r.tag) /\ r.id # 0
    BY <2>1 DEF Agreed, RowsAgree, Known, IdTags
  <2> QED BY <2>1, <2>2 DEF Agreed, SessionsAgree, Agrees, Known
<1> QED BY <1>1, <1>2, <1>3, PTL DEF Spec

-----------------------------------------------------------------------------
(* A row is replaced only by force *)

\* The five things that a step of a request can do to rows and transaction.
LEMMA DatabaseSteps ==
  ASSUME TypeOK, NEW w \in Workers, Request(w) \/ Step(w) \/ Abort(w)
  PROVE  \/ /\ UNCHANGED <<imageRows, tx>>
            /\ pc[w] # "commit" \/ tx.owner # w
            /\ \E l, p : Jump(w, l, p)
         \/ imageRows' = imageRows /\ tx' = NoTx
         \/ Install(w)
         \/ /\ \E always \in BOOLEAN : SaveRows(w, always)
            /\ loc[w].op \in {"merge", "upload"}
         \/ DeleteRow(w) \/ DeleteRows(w)
<1>1. CASE Request(w)
  <2>1. \E l, p : Arrive(w, l, p)
    BY <1>1, RequestShape
  <2>2. UNCHANGED <<imageRows, tx>>
    BY <1>1 DEF Request, ChunkRequest, SingleRequest, AccessRequest, StartChunk,
                ChunkArrives, MergeArrives, StartSingle, UploadArrives, Read,
                Delete, DeleteRepository, dbVars
  <2> QED BY <2>1, <2>2 DEF Arrive
<1>2. ASSUME NEW l, Continue(w, l)
      PROVE  \E m, p : Jump(w, m, p)
  BY <1>2 DEF Continue, Finish, Go
<1>3. CASE Lookup(w)
  <2>1. UNCHANGED <<imageRows, tx>> /\ pc[w] # "commit"
    BY <1>3 DEF Lookup, RepoCached, RepoSelected, RepoMissing, FillRepo,
                ImageCached, ImageSelected, ImageMissing, FillImage, Conflict,
                GetsImage, dbVars
  <2>2. \E l, p : Jump(w, l, p)
    BY <1>2, <1>3
       DEF Lookup, RepoCached, RepoSelected, RepoMissing, FillRepo, ImageCached,
           ImageSelected, ImageMissing, FillImage, Conflict, Finish, Go
  <2> QED BY <2>1, <2>2
<1>4. CASE SaveMerged(w) \/ SaveUploaded(w)
  <2>1. CASE \E always \in BOOLEAN : SaveRejected(w, always)
    BY <2>1 DEF SaveRejected, dbVars, Finish, Go
  <2> QED BY <1>4, <2>1 DEF SaveMerged, SaveUploaded
<1>5. CASE ChunkStep(w)
  <2>1. ASSUME \/ \E u \in Uploads : OpenChunked(w, u)
               \/ WriteChunk(w) \/ RecordChunk(w)
               \/ CheckSlices(w) \/ CheckDigest(w)
               \/ CopySlice(w) \/ RemoveSlice(w) \/ CopyFails(w) \/ DeleteKeys(w)
        PROVE  UNCHANGED <<imageRows, tx>> /\ pc[w] # "commit"
    BY <2>1 DEF OpenChunked, OpenSession, WriteChunk, RecordChunk, CheckSlices,
                CheckDigest, CopySlice, RemoveSlice, CopyFails, DeleteKeys, dbVars
  <2>2. ASSUME \/ \E u \in Uploads : OpenChunked(w, u)
               \/ WriteChunk(w) \/ RecordChunk(w)
               \/ CheckSlices(w) \/ CheckDigest(w)
               \/ CopySlice(w) \/ RemoveSlice(w) \/ CopyFails(w) \/ DeleteKeys(w)
        PROVE  \E l, p : Jump(w, l, p)
    BY <2>2 DEF OpenChunked, OpenSession, WriteChunk, RecordChunk, CheckSlices,
                CheckDigest, CopySlice, RemoveSlice, CopyFails, DeleteKeys,
                Finish, Go
  <2>3. CASE CommitMerge(w) \/ LoseCommit(w)
    BY <2>3 DEF CommitMerge, LoseCommit
  <2> QED BY <1>4, <1>5, <2>1, <2>2, <2>3 DEF ChunkStep
<1>6. CASE SingleStep(w)
  <2>1. ASSUME (\E u \in Uploads : OpenSingle(w, u)) \/ PutFile(w) \/ VerifyFile(w)
        PROVE  /\ UNCHANGED <<imageRows, tx>> /\ pc[w] # "commit"
               /\ \E l, p : Jump(w, l, p)
    BY <2>1 DEF OpenSingle, OpenSession, PutFile, VerifyFile, dbVars, Finish, Go
  <2> QED BY <1>4, <1>6, <2>1 DEF SingleStep, CommitUpload
<1>7. CASE AccessStep(w)
  <2>1. ASSUME \/ \E removed \in BOOLEAN : DeleteFile(w, removed) \/ DeleteFiles(w, removed)
               \/ \E listed \in BOOLEAN : ListImages(w, listed)
        PROVE  /\ UNCHANGED <<imageRows, tx>> /\ pc[w] # "commit"
               /\ \E l, p : Jump(w, l, p)
    BY <2>1 DEF DeleteFile, DeleteFiles, ListImages, dbVars, Go
  <2> QED BY <1>7, <2>1 DEF AccessStep, CommitDelete
<1>8. CASE Abort(w)
  BY <1>8 DEF Abort
<1> QED BY <1>1, <1>3, <1>5, <1>6, <1>7, <1>8 DEF Step

\* No two rows have one id, in the table and in what will be committed.
SameId(rows) == \A r, s \in rows : r.id = s.id => r = s
IdsUnique == SameId(imageRows) /\ SameId(tx.images)

LEMMA IdsUniqueStay ==
  ASSUME TypeOK, IdsHaveTags, IdsUnique, NEW w \in Workers,
         Request(w) \/ Step(w) \/ Abort(w)
  PROVE  IdsUnique'
<1>1. SameId({})
  BY DEF SameId
<1>2. ASSUME NEW always \in BOOLEAN, SaveRows(w, always)
      PROVE  IdsUnique'
  <2> DEFINE img == loc[w].img
             new == [id |-> nextImageId, repoId |-> RepoIdFor(img), tag |-> img.tag,
                     digest |-> img.digest]
  <2>1. imageRows' = imageRows
    BY <1>2 DEF SaveRows
  <2>2. CASE img.imgId = 0
    <3>1. tx'.images = imageRows \cup {new}
      BY <1>2, <2>2 DEF SaveRows
    <3>2. \A r \in imageRows : r.id # new.id
      BY DEF IdsHaveTags, IdTags, Agreed, RowsAgree, Known, TypeOK, SharedOK
    <3> HIDE DEF new
    <3> QED BY <2>1, <3>1, <3>2 DEF IdsUnique, SameId
  <2>3. CASE img.imgId # 0
    <3>1. tx'.images = UpdateDigest(imageRows, img.imgId, img.digest)
      BY <1>2, <2>3 DEF SaveRows
    <3>2. \A r \in imageRows : [r EXCEPT !.digest = img.digest].id = r.id
      BY DEF TypeOK, SharedOK, ImageRow
    <3>3. ASSUME NEW r \in tx'.images
          PROVE  \E s \in imageRows :
                   r.id = s.id /\ r = IF s.id = img.imgId
                                     THEN [s EXCEPT !.digest = img.digest] ELSE s
      BY <3>1, <3>2 DEF UpdateDigest
    <3> HIDE DEF img
    <3>4. SameId(tx'.images)
      BY <3>3 DEF IdsUnique, SameId
    <3> QED BY <2>1, <3>4 DEF IdsUnique, SameId
  <2> QED BY <2>2, <2>3
<1>3. CASE DeleteRow(w) \/ DeleteRows(w)
  BY <1>3 DEF DeleteRow, DeleteRows, IdsUnique, SameId
<1>4. CASE Install(w)
  BY <1>1, <1>4 DEF Install, IdsUnique, NoTx, SameId
<1>5. CASE imageRows' = imageRows /\ (tx' = tx \/ tx' = NoTx)
  BY <1>1, <1>5 DEF IdsUnique, NoTx, SameId
<1> QED BY <1>2, <1>3, <1>4, <1>5, DatabaseSteps

\* A session or an upload that holds the id of a row was started with force.
\* Only requests that start an upload, read or delete look rows up.
Forced(img) == img.imgId # 0 => img.force
Uploading   == {"chunk", "merge", "upload"}
LookupPC    == {"repo", "fillRepo", "img", "fillImg"}
PinsForced ==
  /\ \A u \in Uploads : Forced(info[u])
  /\ \A w \in Workers : loc[w].op \in Uploading =>
                          Forced(loc[w].img) /\ pc[w] \notin LookupPC

\* It stays like that when a session stays or goes, and the handler that
\* moves does not upload, or uploads a forced image outside of the look-up.
LEMMA ForcedStay ==
  ASSUME TypeOK, PinsForced, NEW w \in Workers, NEW l, NEW p, Jump(w, l, p),
         l.op \in Uploading => Forced(l.img) /\ p \notin LookupPC,
         \A u \in Uploads : info'[u] = info[u] \/ Forced(info'[u])
  PROVE  PinsForced'
<1>1. \A u \in Uploads : Forced(info'[u])
  BY DEF PinsForced
<1>2. ASSUME NEW v \in Workers, loc'[v].op \in Uploading
      PROVE  Forced(loc'[v].img) /\ pc'[v] \notin LookupPC
  BY <1>2 DEF PinsForced, Jump, TypeOK, WorkersOK
<1> QED BY <1>1, <1>2 DEF PinsForced, Forced

LEMMA PinsForcedStay ==
  ASSUME TypeOK, PinsForced, NEW w \in Workers, Request(w) \/ Step(w) \/ Abort(w)
  PROVE  PinsForced'
<1>0. loc[w] \in Local
  BY DEF TypeOK, WorkersOK
<1>1. ASSUME Finish(w) \/ Jump(w, NoLocal, "idle"),
             \A u \in Uploads : info'[u] = info[u] \/ Forced(info'[u])
      PROVE  PinsForced'
  <2>1. NoLocal.op \notin Uploading
    BY DEF NoLocal, Begin, Uploading
  <2> QED BY <1>1, <2>1, ForcedStay DEF Finish, Go
<1>2. ASSUME NEW l, NEW p, Go(w, l, p), l.op = loc[w].op, l.img.imgId = loc[w].img.imgId,
             l.img.force = loc[w].img.force, p \notin LookupPC,
             \A u \in Uploads : info'[u] = info[u] \/ Forced(info'[u])
      PROVE  PinsForced'
  BY <1>2, ForcedStay DEF Go, PinsForced, Forced
<1>3. CASE Request(w)
  <2>1. info' = info
    BY <1>3 DEF Request, ChunkRequest, SingleRequest, AccessRequest, StartChunk,
                ChunkArrives, MergeArrives, StartSingle, UploadArrives, Read,
                Delete, DeleteRepository, sessVars
  <2>2. ASSUME NEW op, NEW u, NEW img, NEW idx, NEW d, NEW p,
               Arrive(w, Begin(op, u, img, idx, d), p),
               op \in Uploading => Forced(img) /\ p \notin LookupPC
        PROVE  PinsForced'
    BY <2>1, <2>2, ForcedStay DEF Arrive, Begin
  <2>3. CASE ChunkRequest(w)
    BY <2>2, <2>3 DEF ChunkRequest, StartChunk, ChunkArrives, MergeArrives,
                      PinsForced, Uploading, LookupPC
  <2>4. CASE SingleRequest(w)
    BY <2>2, <2>4 DEF SingleRequest, StartSingle, UploadArrives,
                      PinsForced, Uploading, LookupPC
  <2>5. CASE AccessRequest(w)
    BY <2>2, <2>5 DEF AccessRequest, Read, Delete, DeleteRepository, Uploading
  <2> QED BY <1>3, <2>3, <2>4, <2>5 DEF Request
<1>4. CASE Lookup(w)
  <2>1. info' = info
    BY <1>4 DEF Lookup, RepoCached, RepoSelected, RepoMissing, FillRepo,
                ImageCached, ImageSelected, ImageMissing, FillImage, Conflict, sessVars
  <2>2. CASE Conflict(w)
    BY <1>1, <2>1, <2>2 DEF Conflict
  <2>3. ASSUME ~Conflict(w)
        PROVE  loc[w].op \notin Uploading
    BY <1>4, <2>3
       DEF Lookup, RepoCached, RepoSelected, RepoMissing, FillRepo, ImageCached,
           ImageSelected, ImageMissing, FillImage, GetsImage, PinsForced, LookupPC
  <2>4. ASSUME NEW l, NEW p, Go(w, l, p), l.op \notin Uploading
        PROVE  PinsForced'
    BY <2>1, <2>4, ForcedStay DEF Go
  <2>5. ASSUME NEW l, Continue(w, l), l.op \notin Uploading
        PROVE  PinsForced'
    BY <1>1, <2>1, <2>4, <2>5 DEF Continue
  <2>6. /\ \A row : Holding(loc[w], row).op = loc[w].op
        /\ \A i : /\ [loc[w] EXCEPT !.repo = i].op = loc[w].op
                  /\ [loc[w] EXCEPT !.img.repoId = i].op = loc[w].op
    BY <1>0 DEF Holding, Local
  <2> QED BY <1>1, <1>4, <2>1, <2>2, <2>3, <2>4, <2>5, <2>6
          DEF Lookup, RepoCached, RepoSelected, RepoMissing, FillRepo,
              ImageCached, ImageSelected, ImageMissing, FillImage
<1>5. ASSUME NEW u \in Uploads, NEW expires, OpenSession(w, u, expires)
      PROVE  PinsForced'
  <2>1. \A v \in Uploads : info'[v] = info[v] \/ Forced(info'[v])
    BY <1>5 DEF OpenSession, Forced, TypeOK, SharedOK
  <2> QED BY <1>1, <1>5, <2>1 DEF OpenSession
<1>6. ASSUME NEW always, SaveRows(w, always) \/ SaveRejected(w, always)
      PROVE  PinsForced'
  BY <1>1, <1>2, <1>6 DEF SaveRows, SaveRejected, sessVars, LookupPC
<1>7. ASSUME Install(w), Finish(w) \/ Go(w, loc[w], "del")
      PROVE  PinsForced'
  BY <1>1, <1>2, <1>7 DEF Install, sessVars, LookupPC
<1>8. CASE ChunkStep(w)
  <2>1. CASE DeleteKeys(w)
    <3>1. Forced(NoSession)
      BY DEF Forced, NoSession, Announced
    <3>2. \A u \in Uploads : info'[u] = info[u] \/ Forced(info'[u])
      BY <2>1, <3>1 DEF DeleteKeys, TypeOK, SharedOK
    <3> QED BY <1>1, <2>1, <3>2 DEF DeleteKeys
  <2>2. CASE CheckDigest(w)
    <3> DEFINE l == [loc[w] EXCEPT !.img.digest = slice[loc[w].img.tag]]
    <3>1. /\ l.op = loc[w].op /\ l.img.imgId = loc[w].img.imgId
          /\ l.img.force = loc[w].img.force
      BY <1>0 DEF Local, Image
    <3>2. Go(w, l, "copy") \/ Finish(w)
      BY <2>2 DEF CheckDigest
    <3>3. info' = info
      BY <2>2 DEF CheckDigest, sessVars
    <3> HIDE DEF l
    <3> QED BY <1>1, <1>2, <3>1, <3>2, <3>3 DEF LookupPC
  <2>3. ASSUME \/ WriteChunk(w) \/ RecordChunk(w) \/ CheckSlices(w) \/ CopySlice(w)
               \/ RemoveSlice(w) \/ CopyFails(w) \/ LoseCommit(w)
        PROVE  PinsForced'
    BY <1>1, <1>2, <2>3
       DEF WriteChunk, RecordChunk, CheckSlices, CopySlice, RemoveSlice,
           CopyFails, LoseCommit, sessVars, LookupPC
  <2> QED BY <1>5, <1>6, <1>7, <1>8, <2>1, <2>2, <2>3
          DEF ChunkStep, OpenChunked, SaveMerged, CommitMerge
<1>9. CASE SingleStep(w)
  <2>1. CASE PutFile(w) \/ VerifyFile(w)
    BY <1>1, <1>2, <2>1 DEF PutFile, VerifyFile, sessVars, LookupPC
  <2> QED BY <1>5, <1>6, <1>7, <1>9, <2>1
          DEF SingleStep, OpenSingle, SaveUploaded, CommitUpload
<1>10. CASE AccessStep(w)
  <2>1. \A S : /\ [loc[w] EXCEPT !.todo = S].op = loc[w].op
               /\ [loc[w] EXCEPT !.todo = S].img = loc[w].img
    BY <1>0 DEF Local
  <2>2. ASSUME ~CommitDelete(w)
        PROVE  info' = info
    BY <1>10, <2>2 DEF AccessStep, DeleteFile, DeleteFiles, ListImages,
                       DeleteRow, DeleteRows, sessVars
  <2>3. CASE CommitDelete(w)
    BY <1>7, <2>3 DEF CommitDelete
  <2>4. ASSUME NEW p \in PC \ LookupPC, ~CommitDelete(w),
               \/ Go(w, loc[w], p)
               \/ \E S : Go(w, [loc[w] EXCEPT !.todo = S], p)
        PROVE  PinsForced'
    BY <1>2, <2>1, <2>2, <2>4
  <2>5. {"txImage", "files", "commit"} \subseteq PC \ LookupPC
    BY DEF PC, LookupPC
  <2> QED BY <1>10, <2>3, <2>4, <2>5
          DEF AccessStep, DeleteFile, DeleteFiles, ListImages, DeleteRow, DeleteRows
<1>11. CASE Abort(w)
  BY <1>1, <1>11 DEF Abort, sessVars
<1> QED BY <1>3, <1>4, <1>8, <1>9, <1>10, <1>11 DEF Step

\* The owner of a transaction is about to commit it, and where the rows of the
\* transaction differ from those of the table the owner was forced to by its
\* client: the inductive form of RowReplacedOnlyByForce.
TxHonest ==
  /\ \A w \in Workers : tx.owner = w => pc[w] = "commit"
  /\ \A r \in imageRows, s \in tx.images : s.id = r.id /\ s.digest # r.digest =>
       \E w \in Workers : /\ tx.owner = w /\ loc[w].img.force
                         /\ loc[w].img.tag = r.tag

LEMMA NoTxHonest ==
  ASSUME tx' = NoTx
  PROVE  TxHonest'
BY ConstantsAssumption DEF TxHonest, NoTx

LEMMA TxHonestStays ==
  ASSUME TypeOK, IdsHaveTags, IdsUnique, PinsForced, TxHonest, NEW w \in Workers,
         Request(w) \/ Step(w) \/ Abort(w)
  PROVE  TxHonest'
<1>1. ASSUME UNCHANGED <<imageRows, tx>>, pc[w] # "commit" \/ tx.owner # w,
             NEW l, NEW p, Jump(w, l, p)
      PROVE  TxHonest'
  <2>1. tx.owner # w
    BY <1>1 DEF TxHonest
  <2>2. \A v \in Workers : tx.owner = v => loc'[v] = loc[v] /\ pc'[v] = pc[v]
    BY <1>1, <2>1 DEF Jump, TypeOK, WorkersOK
  <2> QED BY <1>1, <2>2 DEF TxHonest
<1>2. ASSUME NEW l, tx'.owner = w, imageRows' = imageRows, Go(w, l, "commit"),
             \A r \in imageRows, s \in tx'.images :
               s.id = r.id /\ s.digest # r.digest => l.img.force /\ l.img.tag = r.tag
      PROVE  TxHonest'
  <2>1. loc'[w] = l /\ pc'[w] = "commit"
    BY <1>2 DEF Go, Jump, TypeOK, WorkersOK
  <2> QED BY <1>2, <2>1 DEF TxHonest
<1>3. ASSUME NEW always \in BOOLEAN, SaveRows(w, always),
             loc[w].op \in {"merge", "upload"}
      PROVE  TxHonest'
  <2> DEFINE img == loc[w].img
             new == [id |-> nextImageId, repoId |-> RepoIdFor(img), tag |-> img.tag,
                     digest |-> img.digest]
  <2>1. PICK own \in IdTags : Agreed(own)
    BY DEF IdsHaveTags
  <2>2. CASE img.imgId = 0
    <3>1. tx'.images = imageRows \cup {new}
      BY <1>3, <2>2 DEF SaveRows
    <3>2. \A r \in imageRows : r.id # new.id
      BY <2>1 DEF IdTags, Agreed, RowsAgree, Known, TypeOK, SharedOK
    <3> HIDE DEF new
    <3>3. \A r \in imageRows, s \in tx'.images : s.id = r.id => s = r
      BY <3>1, <3>2 DEF IdsUnique, SameId
    <3> QED BY <1>2, <1>3, <3>3 DEF SaveRows
  <2>3. CASE img.imgId # 0
    <3>1. tx'.images = UpdateDigest(imageRows, img.imgId, img.digest)
      BY <1>3, <2>3 DEF SaveRows
    <3>2. \A r \in imageRows : [r EXCEPT !.digest = img.digest].id = r.id
      BY DEF TypeOK, SharedOK, ImageRow
    <3>3. img.force
      BY <1>3, <2>3 DEF PinsForced, Forced, Uploading
    <3>4. \A r \in imageRows : r.id = img.imgId => r.tag = img.tag
      BY <2>1, <2>3 DEF Agreed, RowsAgree, WorkersAgree, Agrees, Known
    <3>5. ASSUME NEW r \in imageRows, NEW s \in tx'.images,
                 s.id = r.id, s.digest # r.digest
          PROVE  r.id = img.imgId
      <4>1. PICK q \in imageRows : s = IF q.id = img.imgId
                                      THEN [q EXCEPT !.digest = img.digest] ELSE q
        BY <3>1 DEF UpdateDigest
      <4>2. q.id = s.id
        BY <3>2, <4>1
      <4>3. q = r
        BY <3>5, <4>2 DEF IdsUnique, SameId
      <4> QED BY <3>5, <4>1, <4>3
    <3>6. \A r \in imageRows, s \in tx'.images :
            s.id = r.id /\ s.digest # r.digest => img.force /\ img.tag = r.tag
      BY <3>3, <3>4, <3>5
    <3> QED BY <1>2, <1>3, <3>6 DEF SaveRows
  <2> QED BY <2>2, <2>3
<1>4. CASE DeleteRow(w) \/ DeleteRows(w)
  <2>1. tx'.owner = w /\ imageRows' = imageRows /\ tx'.images \subseteq imageRows
    BY <1>4 DEF DeleteRow, DeleteRows
  <2>2. Go(w, loc[w], "commit")
    BY <1>4 DEF DeleteRow, DeleteRows
  <2> QED BY <1>2, <2>1, <2>2 DEF IdsUnique, SameId
<1>5. CASE Install(w) \/ tx' = NoTx
  BY <1>5, NoTxHonest DEF Install
<1> QED BY <1>1, <1>3, <1>4, <1>5, DatabaseSteps

\* What the commit of a transaction does to a row it was forced to do.
LEMMA CommitByForce ==
  ASSUME TypeOK, IdsUnique, TxHonest, NEW w \in Workers,
         Request(w) \/ Step(w) \/ Abort(w),
         NEW r \in imageRows, NEW s \in imageRows', s.id = r.id, s.digest # r.digest
  PROVE  \E v \in Workers : /\ tx.owner = v /\ loc[v].img.force
                            /\ loc[v].img.tag = r.tag
<1>1. imageRows' = imageRows \/ Install(w)
  BY DatabaseSteps DEF SaveRows, DeleteRow, DeleteRows
<1>2. imageRows' # imageRows
  BY DEF IdsUnique, SameId
<1> QED BY <1>1, <1>2 DEF Install, TxHonest

\* Whatever uploads of a tag race, are repeated or fail, and whatever is
\* deleted meanwhile: the database gives an image another digest only for an
\* upload that was started with force.
THEOREM OnlyForceReplaces == Spec => RowReplacedOnlyByForce
<1> DEFINE Inv == TypeOK /\ IdsHaveTags /\ IdsUnique /\ PinsForced /\ TxHonest
<1>1. Init => Inv
  <2> SUFFICES ASSUME Init PROVE Inv
    OBVIOUS
  <2>1. IdsUnique
    BY DEF Init, NoTx, IdsUnique, SameId
  <2>2. PinsForced
    BY DEF Init, PinsForced, Forced, Uploading, NoSession, Announced, NoLocal, Begin
  <2>3. TxHonest
    BY ConstantsAssumption DEF Init, TxHonest, NoTx
  <2> QED BY <2>1, <2>2, <2>3, InitType, InitIdsHaveTags
<1>2. Inv /\ [Next]_vars => Inv'
  <2> SUFFICES ASSUME Inv, [Next]_vars PROVE Inv'
    OBVIOUS
  <2>1. TypeOK' /\ IdsHaveTags'
    BY NextType, NextIdsHaveTags
  <2>2. ASSUME NEW w \in Workers, Request(w) \/ Step(w) \/ Abort(w)
        PROVE  IdsUnique' /\ PinsForced' /\ TxHonest'
    BY <2>2, IdsUniqueStay, PinsForcedStay, TxHonestStays
  <2>3. ASSUME Expire \/ UNCHANGED vars
        PROVE  IdsUnique' /\ PinsForced' /\ TxHonest'
    <3>1. UNCHANGED <<imageRows, tx, info, loc, pc>>
      BY <2>3 DEF Expire, ExpireRepo, ExpireImage, vars, dbVars, sessVars
    <3> QED BY <3>1 DEF IdsUnique, PinsForced, Forced, TxHonest
  <2> QED BY <2>1, <2>2, <2>3 DEF Next, Quiet
<1>3. Inv /\ [Next]_vars =>
        [\A r \in imageRows, s \in imageRows' :
           s.id = r.id /\ s.digest # r.digest =>
             \E w \in Workers : /\ tx.owner = w /\ loc[w].img.force
                               /\ loc[w].img.tag = r.tag]_vars
  <2> SUFFICES ASSUME Inv, [Next]_vars,
                      NEW r \in imageRows, NEW s \in imageRows',
                      s.id = r.id, s.digest # r.digest
               PROVE  \E w \in Workers : /\ tx.owner = w /\ loc[w].img.force
                                         /\ loc[w].img.tag = r.tag
    OBVIOUS
  <2>1. imageRows' # imageRows
    BY DEF IdsUnique, SameId
  <2>2. PICK w \in Workers : Request(w) \/ Step(w) \/ Abort(w)
    BY <2>1 DEF Next, Expire, ExpireRepo, ExpireImage, Quiet, vars, dbVars
  <2> QED BY <2>2, CommitByForce
<1> QED BY <1>1, <1>2, <1>3, PTL DEF Spec, RowReplacedOnlyByForce

-----------------------------------------------------------------------------
(* The digests of rows are announced *)

\* dec says what was announced for every tag: a digest, and what an image
\* asks for or has.
Said(dec, t, d)     == t \in Tags /\ \E o \in dec[t] : o.digest = d
Offered(dec, img)   == img.tag \in Tags /\ OfferOf(img) \in dec[img.tag]
HasDigest(dec, img) == img.digest = img.request \/ Said(dec, img.tag, img.digest)

\* Where a merge can stand, and where it has compared the digest.
MergePC   == {"check", "digest", "copy", "remove", "tx", "commit", "del"}
CheckedPC == {"copy", "remove", "tx", "commit"}

SessionSaid(dec, s) == s # NoSession => Offered(dec, s) /\ HasDigest(dec, s)
CopySaid(dec, c)    == c # NoRow => Said(dec, c.tag, c.digest)
WorkerSaid(dec, l, p) ==
  /\ HasDigest(dec, l.img)
  /\ l.op \in Uploading => Offered(dec, l.img)
  /\ p = "fillImg" => Said(dec, l.img.tag, l.img.digest)
  /\ l.op = "merge" => p \in MergePC
  /\ l.op = "merge" /\ p \in CheckedPC => l.img.digest = l.img.request

\* Every digest that is kept was announced for the tag it is kept with: the
\* inductive form of RowDigestDeclared.
DigestsSaid ==
  /\ \A r \in imageRows \cup tx.images : Said(declared, r.tag, r.digest)
  /\ \A t \in Tags : CopySaid(declared, imgCache[t])
  /\ \A u \in Uploads : SessionSaid(declared, info[u])
  /\ \A w \in Workers : WorkerSaid(declared, loc[w], pc[w])

\* A merge takes the digest of the slice file for granted when its session
\* has none to compare it with.  That is so for the sessions of single
\* uploads: either there are none, or there are no merges.
Chunked(img) == img.kind = "chunk" /\ img.request # <<>>
NoSingles ==
  /\ left["startSingle"] = 0
  /\ \A u \in Uploads : info[u] # NoSession => Chunked(info[u])
  /\ \A w \in Workers : loc[w].op \in UploadOps =>
                          Chunked(loc[w].img) /\ loc[w].op # "upload"
NoMerges ==
  /\ left["merge"] = 0
  /\ \A w \in Workers : pc[w] \notin {"check", "digest"}
Compared == NoSingles \/ NoMerges

\* Nothing that was announced is taken back.
Grows(dec, after) == \A t \in Tags : dec[t] \subseteq after[t]

LEMMA GrowingSays ==
  ASSUME NEW dec, NEW after, Grows(dec, after)
  PROVE  /\ \A t, d : Said(dec, t, d) => Said(after, t, d)
         /\ \A c : CopySaid(dec, c) => CopySaid(after, c)
         /\ \A s : SessionSaid(dec, s) => SessionSaid(after, s)
         /\ \A l, p : WorkerSaid(dec, l, p) => WorkerSaid(after, l, p)
<1>1. \A t, d : Said(dec, t, d) => Said(after, t, d)
  BY DEF Said, Grows
<1>2. \A img : Offered(dec, img) => Offered(after, img)
  BY DEF Offered, Grows
<1>3. \A img : HasDigest(dec, img) => HasDigest(after, img)
  BY <1>1 DEF HasDigest
<1> QED BY <1>1, <1>2, <1>3 DEF CopySaid, SessionSaid, WorkerSaid

\* What a session announces when it is opened is the only news.
LEMMA DeclaredGrows ==
  ASSUME TypeOK, NEW w \in Workers, Request(w) \/ Step(w) \/ Abort(w)
  PROVE  /\ Grows(declared, declared')
         /\ \/ declared' = declared
            \/ \E u \in Uploads : \E expires : OpenSession(w, u, expires)
<1>1. CASE Request(w)
  BY <1>1 DEF Request, ChunkRequest, SingleRequest, AccessRequest, StartChunk,
              ChunkArrives, MergeArrives, StartSingle, UploadArrives, Read,
              Delete, DeleteRepository, histVars, Grows
<1>2. CASE Lookup(w)
  BY <1>2 DEF Lookup, RepoCached, RepoSelected, RepoMissing, FillRepo,
              ImageCached, ImageSelected, ImageMissing, FillImage, Conflict,
              histVars, Grows
<1>3. ASSUME NEW u \in Uploads, NEW expires, OpenSession(w, u, expires)
      PROVE  Grows(declared, declared')
  BY <1>3 DEF OpenSession, Grows, TypeOK, SharedOK
<1>4. CASE ChunkStep(w)
  BY <1>3, <1>4
     DEF ChunkStep, OpenChunked, WriteChunk, RecordChunk, CheckSlices,
         CheckDigest, CopySlice, RemoveSlice, CopyFails, SaveMerged, SaveRows,
         SaveRejected, CommitMerge, Settle, LoseCommit, DeleteKeys, histVars, Grows
<1>5. CASE SingleStep(w)
  BY <1>3, <1>5
     DEF SingleStep, OpenSingle, PutFile, VerifyFile, SaveUploaded, SaveRows,
         SaveRejected, CommitUpload, Settle, histVars, Grows
<1>6. CASE AccessStep(w)
  BY <1>6 DEF AccessStep, DeleteFile, DeleteFiles, Unlink, ListImages, DeleteRow,
              DeleteRows, CommitDelete, histVars, Grows
<1>7. CASE Abort(w)
  BY <1>7 DEF Abort, histVars, Grows
<1> QED BY <1>1, <1>2, <1>4, <1>5, <1>6, <1>7 DEF Step

\* What keeps the four parts of DigestsSaid.
LEMMA SaidStay ==
  ASSUME TypeOK, DigestsSaid, NEW w \in Workers, NEW l, NEW p, Jump(w, l, p),
         Grows(declared, declared'), WorkerSaid(declared', l, p),
         \A u \in Uploads : info'[u] = info[u] \/ SessionSaid(declared', info'[u]),
         \A t \in Tags : imgCache'[t] = imgCache[t] \/ CopySaid(declared', imgCache'[t]),
         \A r \in (imageRows \cup tx.images)' :
           r \in imageRows \cup tx.images \/ Said(declared', r.tag, r.digest)
  PROVE  DigestsSaid'
<1>1. \A v \in Workers : WorkerSaid(declared', loc'[v], pc'[v])
  <2>1. ASSUME NEW v \in Workers, v # w
        PROVE  loc'[v] = loc[v] /\ pc'[v] = pc[v]
    BY <2>1 DEF Jump, TypeOK, WorkersOK
  <2>2. loc'[w] = l /\ pc'[w] = p
    BY DEF Jump, TypeOK, WorkersOK
  <2> QED BY <2>1, <2>2, GrowingSays DEF DigestsSaid
<1>2. \A u \in Uploads : SessionSaid(declared', info'[u])
  BY GrowingSays DEF DigestsSaid
<1>3. \A t \in Tags : CopySaid(declared', imgCache'[t])
  BY GrowingSays DEF DigestsSaid
<1>4. \A r \in imageRows' \cup tx'.images : Said(declared', r.tag, r.digest)
  BY GrowingSays DEF DigestsSaid
<1> QED BY <1>1, <1>2, <1>3, <1>4 DEF DigestsSaid

\* A handler that does not upload, or goes on with the image it has.
LEMMA IdleSaid ==
  ASSUME NEW dec
  PROVE  /\ WorkerSaid(dec, NoLocal, "idle") /\ SessionSaid(dec, NoSession)
         /\ CopySaid(dec, NoRow)
BY DEF WorkerSaid, HasDigest, NoLocal, Begin, NoSession, Announced, Uploading,
       SessionSaid, CopySaid

LEMMA OnwardSaid ==
  ASSUME NEW dec, NEW l, NEW p, NEW m, NEW q, WorkerSaid(dec, l, p),
         m.op = l.op, m.img = l.img, q # "fillImg",
         l.op = "merge" => q \in MergePC,
         l.op = "merge" /\ q \in CheckedPC => p \in CheckedPC
  PROVE  WorkerSaid(dec, m, q)
BY DEF WorkerSaid

\* What an upload is going to save was announced.
LEMMA SavesSaid ==
  ASSUME DigestsSaid, NEW w \in Workers, loc[w].op \in {"merge", "upload"}
  PROVE  Said(declared, loc[w].img.tag, loc[w].img.digest)
<1>1. Offered(declared, loc[w].img) /\ HasDigest(declared, loc[w].img)
  BY DEF DigestsSaid, WorkerSaid, Uploading
<1>2. Offered(declared, loc[w].img) =>
        Said(declared, loc[w].img.tag, loc[w].img.request)
  <2>1. OfferOf(loc[w].img).digest = loc[w].img.request
    BY DEF OfferOf
  <2> QED BY <2>1 DEF Offered, Said
<1> QED BY <1>1, <1>2 DEF HasDigest

\* Requests bring an image that asks for what it has.
LEMMA RequestSaid ==
  ASSUME TypeOK, DigestsSaid, NEW w \in Workers, Request(w)
  PROVE  DigestsSaid'
<1>1. UNCHANGED <<imageRows, tx, imgCache, info, declared>>
  BY DEF Request, ChunkRequest, SingleRequest, AccessRequest, StartChunk,
         ChunkArrives, MergeArrives, StartSingle, UploadArrives, Read, Delete,
         DeleteRepository, dbVars, cacheVars, sessVars, histVars
<1>2. ASSUME NEW op, NEW u, NEW img, NEW idx, NEW d, NEW p,
             Arrive(w, Begin(op, u, img, idx, d), p), p # "fillImg",
             HasDigest(declared, img), op \in Uploading => Offered(declared, img),
             op = "merge" => p = "check"
      PROVE  DigestsSaid'
  <2>1. WorkerSaid(declared, Begin(op, u, img, idx, d), p)
    BY <1>2 DEF WorkerSaid, Begin, MergePC, CheckedPC
  <2>2. Jump(w, Begin(op, u, img, idx, d), p)
    BY <1>2 DEF Arrive
  <2> QED BY <1>1, <2>1, <2>2, SaidStay DEF Grows
<1>3. \A kind, t, d, n, f : HasDigest(declared, Announced(kind, t, d, n, f))
  BY DEF Announced, HasDigest
<1>4. \A t : HasDigest(declared, Named(t)) /\ HasDigest(declared, NoSession)
  BY DEF Named, NoSession, Announced, HasDigest
<1>5. \A u \in Uploads : info[u] # NoSession =>
        HasDigest(declared, info[u]) /\ Offered(declared, info[u])
  BY DEF DigestsSaid, SessionSaid
<1>6. NoSession.n = 0 /\ NoSession.kind = "none"
  BY DEF NoSession, Announced
<1>7. CASE ChunkRequest(w)
  <2>1. ASSUME NEW t \in Tags, NEW d \in Payloads, NEW n \in 1 .. MaxChunks,
               NEW f \in BOOLEAN, StartChunk(w, t, d, n, f)
        PROVE  DigestsSaid'
    BY <1>2, <1>3, <2>1 DEF StartChunk, Uploading
  <2>2. ASSUME NEW u \in Uploads, NEW idx \in 0 .. MaxChunks - 1,
               NEW d \in Payloads, ChunkArrives(w, u, idx, d)
        PROVE  DigestsSaid'
    <3>1. info[u] # NoSession
      BY <1>6, <2>2 DEF ChunkArrives
    <3> QED BY <1>2, <1>5, <2>2, <3>1 DEF ChunkArrives
  <2>3. ASSUME NEW u \in Uploads, MergeArrives(w, u)
        PROVE  DigestsSaid'
    BY <1>2, <1>5, <2>3 DEF MergeArrives
  <2> QED BY <1>7, <2>1, <2>2, <2>3 DEF ChunkRequest
<1>8. CASE SingleRequest(w)
  <2>1. ASSUME NEW t \in Tags, NEW d \in Payloads, NEW f \in BOOLEAN,
               StartSingle(w, t, d, f)
        PROVE  DigestsSaid'
    BY <1>2, <1>3, <2>1 DEF StartSingle, Uploading
  <2>2. ASSUME NEW u \in Uploads, NEW d \in Payloads, UploadArrives(w, u, d)
        PROVE  DigestsSaid'
    BY <1>2, <1>5, <1>6, <2>2 DEF UploadArrives
  <2> QED BY <1>8, <2>1, <2>2 DEF SingleRequest
<1>9. CASE AccessRequest(w)
  BY <1>2, <1>4, <1>9 DEF AccessRequest, Read, Delete, DeleteRepository, Uploading
<1> QED BY <1>7, <1>8, <1>9 DEF Request

\* Look-ups take over rows and copies, digest and tag together.
LEMMA LookupSaid ==
  ASSUME TypeOK, DigestsSaid, PinsForced, NEW w \in Workers, Lookup(w)
  PROVE  DigestsSaid'
<1>0. loc[w] \in Local /\ WorkerSaid(declared, loc[w], pc[w])
  BY DEF TypeOK, WorkersOK, DigestsSaid
<1>1. UNCHANGED <<imageRows, tx, info, declared>>
  BY DEF Lookup, RepoCached, RepoSelected, RepoMissing, FillRepo, ImageCached,
         ImageSelected, ImageMissing, FillImage, Conflict, dbVars, sessVars, histVars
<1>2. ASSUME NEW l, NEW p, Jump(w, l, p), WorkerSaid(declared, l, p),
             \A t \in Tags : imgCache'[t] = imgCache[t] \/ CopySaid(declared, imgCache'[t])
      PROVE  DigestsSaid'
  BY <1>1, <1>2, SaidStay DEF Grows
<1>3. ASSUME Finish(w),
             \A t \in Tags : imgCache'[t] = imgCache[t] \/ CopySaid(declared, imgCache'[t])
      PROVE  DigestsSaid'
  BY <1>2, <1>3, IdleSaid DEF Finish, Go
<1>4. CASE Conflict(w)
  BY <1>3, <1>4 DEF Conflict, cacheVars
<1>5. ASSUME ~Conflict(w)
      PROVE  loc[w].op \notin Uploading
  BY <1>5
     DEF Lookup, RepoCached, RepoSelected, RepoMissing, FillRepo, ImageCached,
         ImageSelected, ImageMissing, FillImage, GetsImage, PinsForced, LookupPC
<1>6. ASSUME NEW l, NEW p, l.op \notin Uploading, HasDigest(declared, l.img),
             p = "fillImg" => Said(declared, l.img.tag, l.img.digest)
      PROVE  WorkerSaid(declared, l, p)
  BY <1>6 DEF WorkerSaid, Uploading
<1>7. ASSUME NEW l, Continue(w, l), l.op \notin Uploading, HasDigest(declared, l.img),
             \A t \in Tags : imgCache'[t] = imgCache[t] \/ CopySaid(declared, imgCache'[t])
      PROVE  DigestsSaid'
  BY <1>2, <1>3, <1>6, <1>7 DEF Continue, Go, AfterImage
<1>8. ASSUME NEW row, Said(declared, row.tag, row.digest)
      PROVE  /\ Holding(loc[w], row).op = loc[w].op
             /\ HasDigest(declared, Holding(loc[w], row).img)
             /\ Said(declared, Holding(loc[w], row).img.tag,
                     Holding(loc[w], row).img.digest)
  <2>1. /\ Holding(loc[w], row).op = loc[w].op
        /\ Holding(loc[w], row).img.tag = row.tag
        /\ Holding(loc[w], row).img.digest = row.digest
    BY <1>0 DEF Holding, Local, Image
  <2> QED BY <1>8, <2>1 DEF HasDigest
<1>9. CASE ImageCached(w)
  <2>1. PICK t \in Tags : /\ imgCache[t] # NoRow
                          /\ Continue(w, Holding(loc[w], imgCache[t]))
    <3>1. loc[w].img.tag \in Tags
      BY <1>0, <1>9 DEF ImageCached, CacheHit, Local, Image
    <3> QED BY <1>9, <3>1 DEF ImageCached, CacheHit
  <2>2. Said(declared, imgCache[t].tag, imgCache[t].digest)
    BY <2>1 DEF DigestsSaid, CopySaid
  <2>3. ~Conflict(w) /\ imgCache' = imgCache
    BY <1>9 DEF ImageCached, GetsImage, Conflict, cacheVars
  <2> QED BY <1>5, <1>7, <1>8, <2>1, <2>2, <2>3
<1>10. CASE ImageSelected(w)
  <2>1. PICK row \in imageRows : Go(w, Holding(loc[w], row), "fillImg")
    BY <1>10 DEF ImageSelected, Selected
  <2>2. Said(declared, row.tag, row.digest)
    BY DEF DigestsSaid
  <2>3. ~Conflict(w) /\ imgCache' = imgCache
    BY <1>10 DEF ImageSelected, GetsImage, Conflict, cacheVars
  <2>4. WorkerSaid(declared, Holding(loc[w], row), "fillImg")
    BY <1>5, <1>6, <1>8, <2>2, <2>3
  <2> QED BY <1>2, <2>1, <2>3, <2>4 DEF Go
<1>11. CASE FillImage(w)
  <2>1. Said(declared, HeldRow(loc[w]).tag, HeldRow(loc[w]).digest)
    BY <1>0, <1>11 DEF FillImage, WorkerSaid, HeldRow
  <2>2. \A t \in Tags : imgCache'[t] = imgCache[t] \/ imgCache'[t] = HeldRow(loc[w])
    BY <1>11 DEF FillImage, TypeOK, SharedOK
  <2>3. ~Conflict(w)
    BY <1>11 DEF FillImage, Conflict
  <2> QED BY <1>0, <1>5, <1>7, <1>11, <2>1, <2>2, <2>3
          DEF FillImage, WorkerSaid, CopySaid
<1>12. ASSUME RepoCached(w) \/ RepoSelected(w) \/ RepoMissing(w) \/ FillRepo(w)
              \/ ImageMissing(w)
       PROVE  DigestsSaid'
  <2>1. imgCache' = imgCache /\ ~Conflict(w)
    BY <1>12 DEF RepoCached, RepoSelected, RepoMissing, FillRepo, ImageMissing,
                 GetsImage, Conflict, cacheVars
  <2>2. \A i \in Nat : /\ [loc[w] EXCEPT !.repo = i].img = loc[w].img
                       /\ [loc[w] EXCEPT !.repo = i].op = loc[w].op
    BY <1>0 DEF Local
  <2>3. \A i \in Nat : LET l == [loc[w] EXCEPT !.img.repoId = i]
                       IN  /\ l.op = loc[w].op /\ l.img.tag = loc[w].img.tag
                           /\ l.img.digest = loc[w].img.digest
                           /\ l.img.request = loc[w].img.request
    BY <1>0 DEF Local, Image
  <2>4. repoCache \in Nat /\ repoRow \in Nat /\ loc[w].repo \in Nat
    BY <1>0 DEF TypeOK, SharedOK, Local
  <2>5. ASSUME NEW l, NEW p, Go(w, l, p), p # "fillImg", l.op = loc[w].op,
               HasDigest(declared, l.img)
        PROVE  DigestsSaid'
    BY <1>2, <1>5, <1>6, <2>1, <2>5 DEF Go
  <2>6. HasDigest(declared, loc[w].img)
    BY <1>0 DEF WorkerSaid
  <2>7. CASE ImageMissing(w)
    <3> DEFINE l == [loc[w] EXCEPT !.img.repoId = loc[w].repo]
    <3>1. l.op = loc[w].op /\ HasDigest(declared, l.img)
      BY <2>3, <2>4, <2>6 DEF HasDigest
    <3>2. Go(w, l, "session") \/ Finish(w)
      BY <2>7 DEF ImageMissing
    <3> HIDE DEF l
    <3> QED BY <1>3, <2>1, <2>5, <3>1, <3>2
  <2>8. CASE RepoCached(w) \/ RepoSelected(w)
    <3>1. PICK i \in Nat : /\ Go(w, [loc[w] EXCEPT !.repo = i], "img")
                              \/ Go(w, [loc[w] EXCEPT !.repo = i], "fillRepo")
      BY <2>4, <2>8 DEF RepoCached, RepoSelected
    <3> QED BY <2>2, <2>5, <2>6, <3>1
  <2>9. CASE RepoMissing(w) \/ FillRepo(w)
    BY <1>3, <2>1, <2>5, <2>6, <2>9 DEF RepoMissing, FillRepo
  <2> QED BY <1>12, <2>7, <2>8, <2>9
<1> QED BY <1>4, <1>9, <1>10, <1>11, <1>12 DEF Lookup

\* A merge that compares the digest has one to compare it with.
LEMMA MergeHasDigest ==
  ASSUME TypeOK, Compared, NEW w \in Workers, pc[w] = "digest"
  PROVE  Chunked(loc[w].img)
BY DEF Compared, NoSingles, NoMerges, TypeOK, WorkersOK, Resolved, UploadPC

\* The steps of the handlers after the look-up.
LEMMA StepSaid ==
  ASSUME TypeOK, IdsHaveTags, Compared, DigestsSaid, NEW w \in Workers,
         ChunkStep(w) \/ SingleStep(w) \/ AccessStep(w) \/ Abort(w)
  PROVE  DigestsSaid'
<1>0. loc[w] \in Local /\ WorkerSaid(declared, loc[w], pc[w])
  BY DEF TypeOK, WorkersOK, DigestsSaid
<1>1. Grows(declared, declared')
  BY DeclaredGrows DEF Step
<1> DEFINE RowsKept == \A r \in (imageRows \cup tx.images)' :
             r \in imageRows \cup tx.images \/ Said(declared', r.tag, r.digest)
           CopiesKept == \A t \in Tags : imgCache'[t] = imgCache[t] \/ imgCache'[t] = NoRow
           SessionsKept == \A u \in Uploads :
             info'[u] = info[u] \/ SessionSaid(declared', info'[u])
<1>2. ASSUME RowsKept, CopiesKept, SessionsKept, NEW l, NEW p, Jump(w, l, p),
             WorkerSaid(declared, l, p)
      PROVE  DigestsSaid'
  <2>1. WorkerSaid(declared', l, p) /\ CopySaid(declared', NoRow)
    BY <1>1, <1>2, GrowingSays, IdleSaid
  <2> QED BY <1>1, <1>2, <2>1, SaidStay
<1>3. ASSUME RowsKept, CopiesKept, SessionsKept, Finish(w)
      PROVE  DigestsSaid'
  BY <1>2, <1>3, IdleSaid DEF Finish, Go
<1>4. ASSUME RowsKept, CopiesKept, SessionsKept, NEW l, NEW p, Go(w, l, p),
             l.op = loc[w].op, l.img = loc[w].img, p # "fillImg",
             loc[w].op = "merge" => p \in MergePC,
             loc[w].op = "merge" /\ p \in CheckedPC => pc[w] \in CheckedPC
      PROVE  DigestsSaid'
  <2>1. WorkerSaid(declared, l, p)
    BY <1>0, <1>4, OnwardSaid
  <2> QED BY <1>2, <1>4, <2>1 DEF Go
<1>5. ASSUME imageRows' = imageRows, tx' = tx \/ tx' = NoTx
      PROVE  RowsKept
  BY <1>5 DEF NoTx
<1>6. ASSUME UNCHANGED imgCache PROVE CopiesKept
  BY <1>6
<1>7. ASSUME UNCHANGED info PROVE SessionsKept
  BY <1>7
<1>8. ASSUME NEW u \in Uploads, NEW expires, OpenSession(w, u, expires),
             loc[w].op \in {"startChunk", "startSingle"}
      PROVE  DigestsSaid'
  <2>1. loc[w].img.tag \in Tags
    BY <1>8 DEF TypeOK, WorkersOK, Resolved, UploadOps
  <2>2. Offered(declared', loc[w].img)
    BY <1>8, <2>1 DEF OpenSession, Offered, TypeOK, SharedOK
  <2>3. HasDigest(declared', loc[w].img)
    BY <1>0, <1>1, GrowingSays DEF WorkerSaid, HasDigest
  <2>4. SessionsKept
    BY <1>8, <2>2, <2>3 DEF OpenSession, TypeOK, SharedOK, SessionSaid
  <2>5. UNCHANGED <<imageRows, tx, imgCache>>
    BY <1>8 DEF OpenSession, dbVars, cacheVars
  <2>6. RowsKept /\ CopiesKept
    BY <1>5, <1>6, <2>5
  <2> QED BY <1>3, <1>8, <2>4, <2>6 DEF OpenSession
<1>9. ASSUME NEW always \in BOOLEAN, SaveRows(w, always),
             loc[w].op \in {"merge", "upload"}
      PROVE  DigestsSaid'
  <2> DEFINE img == loc[w].img
             new == [id |-> nextImageId, repoId |-> RepoIdFor(img), tag |-> img.tag,
                     digest |-> img.digest]
  <2>1. Said(declared', img.tag, img.digest)
    BY <1>1, <1>9, GrowingSays, SavesSaid
  <2>2. imageRows' = imageRows /\ info' = info /\ pc[w] = "tx"
        /\ Go(w, loc[w], "commit")
    BY <1>9 DEF SaveRows, sessVars
  <2>3. RowsKept
    <3>1. CASE img.imgId = 0
      <4>1. tx'.images = imageRows \cup {new}
        BY <1>9, <3>1 DEF SaveRows
      <4>2. Said(declared', new.tag, new.digest)
        BY <2>1
      <4> HIDE DEF new
      <4> QED BY <2>2, <4>1, <4>2
    <3>2. CASE img.imgId # 0
      <4>1. tx'.images = UpdateDigest(imageRows, img.imgId, img.digest)
        BY <1>9, <3>2 DEF SaveRows
      <4>2. \A r \in imageRows : /\ [r EXCEPT !.digest = img.digest].tag = r.tag
                                 /\ [r EXCEPT !.digest = img.digest].digest = img.digest
        BY DEF TypeOK, SharedOK, ImageRow
      <4>3. \A r \in imageRows : r.id = img.imgId => r.tag = img.tag
        BY <3>2 DEF IdsHaveTags, Agreed, RowsAgree, WorkersAgree, Agrees, Known
      <4>4. ASSUME NEW r \in tx'.images
            PROVE  r \in imageRows \/ Said(declared', r.tag, r.digest)
        <5>1. PICK q \in imageRows : r = IF q.id = img.imgId
                                        THEN [q EXCEPT !.digest = img.digest] ELSE q
          BY <4>1 DEF UpdateDigest
        <5>2. CASE q.id = img.imgId
          <6>1. r.tag = img.tag /\ r.digest = img.digest
            BY <4>2, <4>3, <5>1, <5>2
          <6> QED BY <2>1, <6>1
        <5> QED BY <5>1, <5>2
      <4> QED BY <2>2, <4>4
    <3> QED BY <3>1, <3>2
  <2>4. CopiesKept
    BY <1>9 DEF SaveRows, ForgetImage, TypeOK, SharedOK
  <2>5. "commit" \in MergePC /\ pc[w] \in CheckedPC
    BY <2>2 DEF MergePC, CheckedPC
  <2> QED BY <1>4, <1>7, <2>2, <2>3, <2>4, <2>5
<1>10. ASSUME NEW always \in BOOLEAN, SaveRejected(w, always)
       PROVE  DigestsSaid'
  BY <1>3, <1>5, <1>6, <1>7, <1>10 DEF SaveRejected, dbVars, sessVars
<1>11. ASSUME Install(w), Finish(w) \/ Go(w, loc[w], "del")
       PROVE  DigestsSaid'
  <2>1. RowsKept
    BY <1>11 DEF Install, NoTx
  <2>2. CopiesKept /\ SessionsKept
    BY <1>11 DEF Install, cacheVars, sessVars
  <2> QED BY <1>3, <1>4, <1>11, <2>1, <2>2 DEF MergePC, CheckedPC
<1>12. CASE ChunkStep(w)
  <2>1. CASE CheckDigest(w)
    <3> DEFINE l == [loc[w] EXCEPT !.img.digest = slice[loc[w].img.tag]]
    <3>1. /\ l.op = loc[w].op /\ l.img.tag = loc[w].img.tag
          /\ l.img.request = loc[w].img.request /\ l.img.force = loc[w].img.force
          /\ l.img.digest = slice[loc[w].img.tag]
      BY <1>0 DEF Local, Image
    <3>2. RowsKept /\ CopiesKept /\ SessionsKept
      BY <1>5, <1>6, <1>7, <2>1 DEF CheckDigest, dbVars, cacheVars, sessVars
    <3>3. CASE Finish(w)
      BY <1>3, <3>2, <3>3
    <3>4. CASE ~Finish(w)
      <4>1. Go(w, l, "copy") /\ slice[loc[w].img.tag] = loc[w].img.request
        BY <2>1, <3>4, MergeHasDigest DEF CheckDigest, Chunked
      <4>2. OfferOf(l.img) = OfferOf(loc[w].img)
        BY <3>1 DEF OfferOf
      <4> HIDE DEF l
      <4>3. WorkerSaid(declared, l, "copy")
        BY <1>0, <3>1, <4>1, <4>2
           DEF WorkerSaid, HasDigest, Offered, MergePC, CheckedPC
      <4> QED BY <1>2, <3>2, <4>1, <4>3 DEF Go
    <3> QED BY <3>3, <3>4
  <2>2. CASE DeleteKeys(w)
    <3>1. SessionsKept
      BY <2>2, IdleSaid DEF DeleteKeys, TypeOK, SharedOK
    <3> QED BY <1>3, <1>5, <1>6, <2>2, <3>1 DEF DeleteKeys, dbVars, cacheVars
  <2>3. ASSUME \/ WriteChunk(w) \/ RecordChunk(w) \/ CheckSlices(w) \/ CopySlice(w)
               \/ RemoveSlice(w) \/ CopyFails(w) \/ LoseCommit(w)
        PROVE  DigestsSaid'
    <3>1. RowsKept /\ CopiesKept /\ SessionsKept
      BY <1>5, <1>6, <1>7, <2>3
         DEF WriteChunk, RecordChunk, CheckSlices, CopySlice, RemoveSlice,
             CopyFails, LoseCommit, dbVars, cacheVars, sessVars
    <3>2. WriteChunk(w) => loc[w].op # "merge"
      BY <1>0 DEF WriteChunk, WorkerSaid, MergePC
    <3> HIDE DEF RowsKept, CopiesKept, SessionsKept
    <3> QED BY <1>3, <1>4, <2>3, <3>1, <3>2
            DEF WriteChunk, RecordChunk, CheckSlices, CopySlice, RemoveSlice,
                CopyFails, LoseCommit, MergePC, CheckedPC
  <2> QED BY <1>8, <1>9, <1>10, <1>11, <1>12, <2>1, <2>2, <2>3
          DEF ChunkStep, OpenChunked, SaveMerged, CommitMerge
<1>13. CASE SingleStep(w)
  <2>1. CASE PutFile(w) \/ VerifyFile(w)
    <3>1. RowsKept /\ CopiesKept /\ SessionsKept
      BY <1>5, <1>6, <1>7, <2>1 DEF PutFile, VerifyFile, dbVars, cacheVars, sessVars
    <3>2. loc[w].op # "merge"
      BY <1>0, <2>1 DEF PutFile, VerifyFile, WorkerSaid, MergePC
    <3> HIDE DEF RowsKept, CopiesKept, SessionsKept
    <3> QED BY <1>3, <1>4, <2>1, <3>1, <3>2 DEF PutFile, VerifyFile
  <2> QED BY <1>8, <1>9, <1>10, <1>11, <1>13, <2>1
          DEF SingleStep, OpenSingle, SaveUploaded, CommitUpload
<1>14. CASE AccessStep(w)
  <2>1. CASE CommitDelete(w)
    BY <1>11, <2>1 DEF CommitDelete
  <2>2. ASSUME ~CommitDelete(w)
        PROVE  DigestsSaid'
    <3>1. RowsKept /\ CopiesKept /\ SessionsKept
      <4>1. RowsKept
        <5>1. CASE DeleteRow(w) \/ DeleteRows(w)
          BY <5>1 DEF DeleteRow, DeleteRows
        <5>2. CASE ~DeleteRow(w) /\ ~DeleteRows(w)
          BY <1>5, <1>14, <2>2, <5>2
             DEF AccessStep, DeleteFile, DeleteFiles, ListImages, dbVars
        <5> QED BY <5>1, <5>2
      <4>2. CopiesKept
        BY <1>14, <2>2 DEF AccessStep, DeleteFile, DeleteFiles, ListImages,
                    DeleteRow, DeleteRows, ForgetImage, cacheVars, TypeOK, SharedOK
      <4>3. SessionsKept
        BY <1>7, <1>14, <2>2 DEF AccessStep, DeleteFile, DeleteFiles, ListImages,
                          DeleteRow, DeleteRows, sessVars
      <4> QED BY <4>1, <4>2, <4>3
    <3>2. loc[w].op # "merge"
      BY <1>0, <1>14, <2>2
         DEF AccessStep, DeleteFile, DeleteFiles, ListImages, DeleteRow,
             DeleteRows, WorkerSaid, MergePC
    <3>3. \A S : /\ [loc[w] EXCEPT !.todo = S].op = loc[w].op
                 /\ [loc[w] EXCEPT !.todo = S].img = loc[w].img
      BY <1>0 DEF Local
    <3>4. \/ \E p \in {"txImage", "files", "commit"} :
               Go(w, loc[w], p) \/ \E S : Go(w, [loc[w] EXCEPT !.todo = S], p)
      BY <1>14, <2>2
         DEF AccessStep, DeleteFile, DeleteFiles, ListImages, DeleteRow, DeleteRows
    <3> HIDE DEF RowsKept, CopiesKept, SessionsKept
    <3> QED BY <1>4, <3>1, <3>2, <3>3, <3>4
  <2> QED BY <2>1, <2>2
<1>15. CASE Abort(w)
  <2>1. RowsKept /\ CopiesKept /\ SessionsKept
    BY <1>5, <1>6, <1>7, <1>15 DEF Abort, cacheVars, sessVars
  <2> QED BY <1>2, <1>15, <2>1, IdleSaid DEF Abort
<1> QED BY <1>12, <1>13, <1>14, <1>15

\* Without single uploads every session and every upload is a chunked one,
\* that announced the digest of at least one chunk.
LEMMA NoSinglesStay ==
  ASSUME TypeOK, NoSingles, NEW w \in Workers, Request(w) \/ Step(w) \/ Abort(w)
  PROVE  NoSingles'
<1>0. loc[w] \in Local
  BY DEF TypeOK, WorkersOK
<1>1. ASSUME NEW l, NEW p, Jump(w, l, p),
             l.op \in UploadOps => Chunked(l.img) /\ l.op # "upload",
             \A u \in Uploads : info'[u] = info[u] \/ info'[u] = NoSession
                                \/ Chunked(info'[u]),
             left' = left \/ \E e \in Events : Spend(e)
      PROVE  NoSingles'
  <2>1. left'["startSingle"] = 0
    BY <1>1 DEF Spend, NoSingles, TypeOK, Events, Ops
  <2>2. \A v \in Workers : loc'[v].op \in UploadOps =>
                           Chunked(loc'[v].img) /\ loc'[v].op # "upload"
    BY <1>1 DEF Jump, NoSingles, TypeOK, WorkersOK
  <2>3. \A u \in Uploads : info'[u] # NoSession => Chunked(info'[u])
    BY <1>1 DEF NoSingles
  <2> QED BY <2>1, <2>2, <2>3 DEF NoSingles, Chunked
<1>2. ASSUME Finish(w) \/ (Jump(w, NoLocal, "idle") /\ Spend("abort")),
             \A u \in Uploads : info'[u] = info[u] \/ info'[u] = NoSession
                                \/ Chunked(info'[u])
      PROVE  NoSingles'
  <2>1. NoLocal.op \notin UploadOps /\ "abort" \in Events
    BY DEF NoLocal, Begin, UploadOps, Events
  <2> QED BY <1>1, <1>2, <2>1 DEF Finish, Go
<1>3. ASSUME NEW l, NEW p, Go(w, l, p), l.op = loc[w].op,
             l.img.kind = loc[w].img.kind, l.img.request = loc[w].img.request,
             info' = info
      PROVE  NoSingles'
  <2>1. l.op \in UploadOps => Chunked(l.img) /\ l.op # "upload"
    BY <1>3 DEF NoSingles, Chunked
  <2> QED BY <1>1, <1>3, <2>1 DEF Go
<1>4. CASE Request(w)
  <2>1. info' = info
    BY <1>4 DEF Request, ChunkRequest, SingleRequest, AccessRequest, StartChunk,
                ChunkArrives, MergeArrives, StartSingle, UploadArrives, Read,
                Delete, DeleteRepository, sessVars
  <2>2. ASSUME NEW op \in Ops, NEW u, NEW img, NEW idx, NEW d, NEW p,
               Arrive(w, Begin(op, u, img, idx, d), p),
               op \in UploadOps => Chunked(img) /\ op # "upload"
        PROVE  NoSingles'
    <3>1. /\ Jump(w, Begin(op, u, img, idx, d), p) /\ Spend(op)
          /\ Begin(op, u, img, idx, d).op = op
          /\ Begin(op, u, img, idx, d).img = img
      BY <2>2 DEF Arrive, Begin
    <3> QED BY <1>1, <2>1, <2>2, <3>1 DEF Events
  <2>3. NoSession.n = 0 /\ NoSession.kind = "none"
    BY DEF NoSession, Announced
  <2>4. CASE ChunkRequest(w)
    <3>1. ASSUME NEW t \in Tags, NEW d \in Payloads, NEW n \in 1 .. MaxChunks,
                 NEW f \in BOOLEAN, StartChunk(w, t, d, n, f)
          PROVE  NoSingles'
      <4>1. Len(FileOf(d, n)) = n
        BY DEF FileOf
      <4>2. Chunked(Announced("chunk", t, FileOf(d, n), n, f))
        BY <4>1 DEF Chunked, Announced
      <4> QED BY <2>2, <3>1, <4>2 DEF StartChunk, Ops
    <3>2. ASSUME NEW u \in Uploads, NEW idx \in 0 .. MaxChunks - 1,
                 NEW d \in Payloads, ChunkArrives(w, u, idx, d)
          PROVE  NoSingles'
      <4>1. info[u] # NoSession
        BY <2>3, <3>2 DEF ChunkArrives
      <4> QED BY <2>2, <3>2, <4>1 DEF ChunkArrives, NoSingles, Ops
    <3>3. ASSUME NEW u \in Uploads, MergeArrives(w, u)
          PROVE  NoSingles'
      BY <2>2, <3>3 DEF MergeArrives, NoSingles, Ops
    <3> QED BY <2>4, <3>1, <3>2, <3>3 DEF ChunkRequest
  <2>5. CASE SingleRequest(w)
    <3>1. ASSUME NEW t \in Tags, NEW d \in Payloads, NEW f \in BOOLEAN,
                 StartSingle(w, t, d, f)
          PROVE  FALSE
      BY <3>1 DEF StartSingle, Arrive, Begin, Spend, NoSingles
    <3>2. ASSUME NEW u \in Uploads, NEW d \in Payloads, UploadArrives(w, u, d)
          PROVE  FALSE
      BY <2>3, <3>2 DEF UploadArrives, NoSingles, Chunked
    <3> QED BY <2>5, <3>1, <3>2 DEF SingleRequest
  <2>6. CASE AccessRequest(w)
    BY <2>2, <2>6 DEF AccessRequest, Read, Delete, DeleteRepository, Ops, UploadOps
  <2> QED BY <1>4, <2>4, <2>5, <2>6 DEF Request
<1>5. CASE Lookup(w)
  <2>1. info' = info
    BY <1>5 DEF Lookup, RepoCached, RepoSelected, RepoMissing, FillRepo,
                ImageCached, ImageSelected, ImageMissing, FillImage, Conflict, sessVars
  <2>2. ASSUME NEW l, NEW p, Go(w, l, p), l.op = loc[w].op,
               l.img.kind = loc[w].img.kind, l.img.request = loc[w].img.request
        PROVE  NoSingles'
    BY <1>3, <2>1, <2>2
  <2>3. ASSUME NEW l, Continue(w, l), l.op = loc[w].op,
               l.img.kind = loc[w].img.kind, l.img.request = loc[w].img.request
        PROVE  NoSingles'
    BY <1>2, <2>1, <2>2, <2>3 DEF Continue
  <2>4. \A row : LET l == Holding(loc[w], row)
                 IN  /\ l.op = loc[w].op /\ l.img.kind = loc[w].img.kind
                     /\ l.img.request = loc[w].img.request
    BY <1>0 DEF Holding, Local, Image
  <2>5. \A i : /\ [loc[w] EXCEPT !.repo = i].op = loc[w].op
               /\ [loc[w] EXCEPT !.repo = i].img = loc[w].img
    BY <1>0 DEF Local
  <2>6. \A i : LET l == [loc[w] EXCEPT !.img.repoId = i]
               IN  /\ l.op = loc[w].op /\ l.img.kind = loc[w].img.kind
                   /\ l.img.request = loc[w].img.request
    BY <1>0 DEF Local, Image
  <2>7. CASE ImageMissing(w)
    BY <1>2, <2>1, <2>2, <2>6, <2>7 DEF ImageMissing
  <2>8. CASE ImageCached(w) \/ ImageSelected(w)
    BY <2>2, <2>3, <2>4, <2>8 DEF ImageCached, ImageSelected
  <2>9. CASE RepoCached(w) \/ RepoSelected(w)
    BY <2>2, <2>5, <2>9 DEF RepoCached, RepoSelected
  <2>10. CASE RepoMissing(w) \/ FillRepo(w) \/ FillImage(w) \/ Conflict(w)
    BY <1>2, <2>1, <2>2, <2>3, <2>10 DEF RepoMissing, FillRepo, FillImage, Conflict
  <2> QED BY <1>5, <2>7, <2>8, <2>9, <2>10 DEF Lookup
<1>6. ASSUME NEW u \in Uploads, NEW expires, OpenSession(w, u, expires),
             loc[w].op \in UploadOps
      PROVE  NoSingles'
  <2>1. \A v \in Uploads : info'[v] = info[v] \/ Chunked(info'[v])
    BY <1>6 DEF OpenSession, NoSingles, TypeOK, SharedOK
  <2> QED BY <1>2, <1>6, <2>1 DEF OpenSession
<1>7. ASSUME NEW always, SaveRows(w, always) \/ SaveRejected(w, always)
      PROVE  NoSingles'
  BY <1>2, <1>3, <1>7 DEF SaveRows, SaveRejected, sessVars
<1>8. ASSUME Install(w), Finish(w) \/ Go(w, loc[w], "del")
      PROVE  NoSingles'
  BY <1>2, <1>3, <1>8 DEF Install, sessVars
<1>9. CASE ChunkStep(w)
  <2>1. CASE CheckDigest(w)
    <3> DEFINE l == [loc[w] EXCEPT !.img.digest = slice[loc[w].img.tag]]
    <3>1. /\ l.op = loc[w].op /\ l.img.kind = loc[w].img.kind
          /\ l.img.request = loc[w].img.request
      BY <1>0 DEF Local, Image
    <3>2. Go(w, l, "copy") \/ Finish(w)
      BY <2>1 DEF CheckDigest
    <3>3. info' = info
      BY <2>1 DEF CheckDigest, sessVars
    <3> HIDE DEF l
    <3> QED BY <1>2, <1>3, <3>1, <3>2, <3>3
  <2>2. CASE DeleteKeys(w)
    BY <1>2, <2>2 DEF DeleteKeys, TypeOK, SharedOK
  <2>3. ASSUME \/ WriteChunk(w) \/ RecordChunk(w) \/ CheckSlices(w) \/ CopySlice(w)
               \/ RemoveSlice(w) \/ CopyFails(w) \/ LoseCommit(w)
        PROVE  NoSingles'
    BY <1>2, <1>3, <2>3
       DEF WriteChunk, RecordChunk, CheckSlices, CopySlice, RemoveSlice,
           CopyFails, LoseCommit, sessVars
  <2> QED BY <1>6, <1>7, <1>8, <1>9, <2>1, <2>2, <2>3
          DEF ChunkStep, OpenChunked, SaveMerged, CommitMerge, UploadOps
<1>10. CASE SingleStep(w)
  <2>1. CASE PutFile(w) \/ VerifyFile(w)
    BY <1>2, <1>3, <2>1 DEF PutFile, VerifyFile, sessVars
  <2> QED BY <1>6, <1>7, <1>8, <1>10, <2>1
          DEF SingleStep, OpenSingle, SaveUploaded, CommitUpload, UploadOps
<1>11. CASE AccessStep(w)
  <2>1. \A S : /\ [loc[w] EXCEPT !.todo = S].op = loc[w].op
               /\ [loc[w] EXCEPT !.todo = S].img = loc[w].img
    BY <1>0 DEF Local
  <2>2. ASSUME ~CommitDelete(w)
        PROVE  /\ info' = info
               /\ \E p : Go(w, loc[w], p) \/ \E S : Go(w, [loc[w] EXCEPT !.todo = S], p)
    BY <1>11, <2>2 DEF AccessStep, DeleteFile, DeleteFiles, ListImages,
                       DeleteRow, DeleteRows, sessVars
  <2> QED BY <1>3, <1>8, <2>1, <2>2 DEF CommitDelete
<1>12. CASE Abort(w)
  BY <1>2, <1>12 DEF Abort, sessVars
<1> QED BY <1>4, <1>5, <1>9, <1>10, <1>11, <1>12 DEF Step

\* Without merges no handler gets to where slices are checked.
LEMMA NoMergesStay ==
  ASSUME TypeOK, NoMerges, NEW w \in Workers, Request(w) \/ Step(w) \/ Abort(w)
  PROVE  NoMerges'
<1>1. ASSUME NEW l, NEW p, Jump(w, l, p), p \notin {"check", "digest"},
             left' = left \/ \E e \in Events : Spend(e)
      PROVE  NoMerges'
  <2>1. left'["merge"] = 0
    BY <1>1 DEF Spend, NoMerges, TypeOK, Events, Ops
  <2> QED BY <1>1, <2>1 DEF Jump, NoMerges, TypeOK, WorkersOK
<1>2. CASE Request(w)
  <2>1. PICK l, p : /\ Arrive(w, l, p) /\ l.op \in Ops
                    /\ l.op = "merge" \/ p \in {"repo", "chunkWrite", "put"}
    <3>1. \A op, u, img, idx, d : Begin(op, u, img, idx, d).op = op
      BY DEF Begin
    <3>2. CASE ChunkRequest(w)
      <4>1. \E u, img, idx, d :
              \/ Arrive(w, Begin("startChunk", u, img, idx, d), "repo")
              \/ Arrive(w, Begin("chunk", u, img, idx, d), "chunkWrite")
              \/ Arrive(w, Begin("merge", u, img, idx, d), "check")
        BY <3>2 DEF ChunkRequest, StartChunk, ChunkArrives, MergeArrives
      <4> QED BY <3>1, <4>1 DEF Ops
    <3>3. CASE SingleRequest(w)
      <4>1. \E u, img, idx, d :
              \/ Arrive(w, Begin("startSingle", u, img, idx, d), "repo")
              \/ Arrive(w, Begin("upload", u, img, idx, d), "put")
        BY <3>3 DEF SingleRequest, StartSingle, UploadArrives
      <4> QED BY <3>1, <4>1 DEF Ops
    <3>4. CASE AccessRequest(w)
      <4>1. PICK op, img :
              op \in Ops /\ Arrive(w, Begin(op, NoUpload, img, 0, Hole), "repo")
        BY <3>4 DEF AccessRequest, Read, Delete, DeleteRepository, Ops
      <4> QED BY <3>1, <4>1
    <3> QED BY <1>2, <3>2, <3>3, <3>4 DEF Request
  <2>2. l.op # "merge" /\ l.op \in Events
    BY <2>1 DEF Arrive, Spend, NoMerges, Events
  <2> QED BY <1>1, <2>1, <2>2 DEF Arrive
<1>3. ASSUME NEW l, NEW p, Go(w, l, p), p \notin {"check", "digest"}
      PROVE  NoMerges'
  BY <1>1, <1>3 DEF Go
<1>4. ASSUME NEW l, Continue(w, l)
      PROVE  NoMerges'
  BY <1>3, <1>4 DEF Continue, Finish, AfterImage
<1>5. CASE Lookup(w)
  BY <1>3, <1>4, <1>5
     DEF Lookup, RepoCached, RepoSelected, RepoMissing, FillRepo, ImageCached,
         ImageSelected, ImageMissing, FillImage, Conflict, Finish
<1>6. CASE ChunkStep(w)
  <2>1. ~CheckSlices(w)
    BY DEF CheckSlices, NoMerges
  <2>2. ASSUME NEW u \in Uploads, OpenChunked(w, u)
        PROVE  NoMerges'
    BY <1>3, <2>2 DEF OpenChunked, OpenSession, Finish
  <2>3. CASE SaveMerged(w) \/ CommitMerge(w) \/ LoseCommit(w) \/ DeleteKeys(w)
    BY <1>3, <2>3 DEF SaveMerged, SaveRows, SaveRejected, CommitMerge,
                      LoseCommit, DeleteKeys, Finish
  <2> QED BY <1>3, <1>6, <2>1, <2>2, <2>3
          DEF ChunkStep, WriteChunk, RecordChunk, CheckDigest, CopySlice,
              RemoveSlice, CopyFails, Finish
<1>7. CASE SingleStep(w)
  <2>1. ASSUME NEW u \in Uploads, OpenSingle(w, u)
        PROVE  NoMerges'
    BY <1>3, <2>1 DEF OpenSingle, OpenSession, Finish
  <2>2. CASE SaveUploaded(w) \/ CommitUpload(w)
    BY <1>3, <2>2 DEF SaveUploaded, SaveRows, SaveRejected, CommitUpload, Finish
  <2> QED BY <1>3, <1>7, <2>1, <2>2 DEF SingleStep, PutFile, VerifyFile, Finish
<1>8. CASE AccessStep(w)
  <2>1. \E l : \E p \in {"txImage", "files", "commit", "idle"} : Go(w, l, p)
    BY <1>8 DEF AccessStep, DeleteFile, DeleteFiles, ListImages, DeleteRow,
                DeleteRows, CommitDelete, Finish
  <2> QED BY <1>3, <2>1
<1>9. CASE Abort(w)
  BY <1>1, <1>9 DEF Abort, Events
<1> QED BY <1>2, <1>5, <1>6, <1>7, <1>8, <1>9 DEF Step

\* The whole of it: a state that says only what was announced leads to one.
SaidInv == /\ TypeOK /\ IdsHaveTags /\ PinsForced
           /\ Compared /\ DigestsSaid

LEMMA InitSaid ==
  ASSUME Init, left["startSingle"] = 0 \/ left["merge"] = 0
  PROVE  SaidInv
<1>1. PinsForced
  BY DEF Init, PinsForced, Forced, Uploading, NoSession, Announced, NoLocal, Begin
<1>2. Compared
  BY DEF Init, Compared, NoSingles, NoMerges, NoLocal, Begin, UploadOps
<1>3. DigestsSaid
  BY IdleSaid DEF Init, DigestsSaid, NoTx
<1> QED BY <1>1, <1>2, <1>3, InitType, InitIdsHaveTags DEF SaidInv

LEMMA NextSaid ==
  ASSUME SaidInv, [Next]_vars
  PROVE  SaidInv'
<1> USE DEF SaidInv
<1>1. TypeOK' /\ IdsHaveTags'
  BY NextType, NextIdsHaveTags
<1>2. ASSUME NEW w \in Workers, Request(w) \/ Step(w) \/ Abort(w)
      PROVE  PinsForced' /\ Compared' /\ DigestsSaid'
  <2>1. PinsForced'
    BY <1>2, PinsForcedStay
  <2>2. Compared'
    BY <1>2, NoSinglesStay, NoMergesStay DEF Compared
  <2>3. DigestsSaid'
    BY <1>2, RequestSaid, LookupSaid, StepSaid DEF Step
  <2> QED BY <2>1, <2>2, <2>3
<1>3. ASSUME Expire \/ UNCHANGED vars
      PROVE  PinsForced' /\ Compared' /\ DigestsSaid'
  <2>1. UNCHANGED <<imageRows, tx, info, loc, pc, left, declared>>
    BY <1>3 DEF Expire, ExpireRepo, ExpireImage, vars, dbVars, sessVars, histVars
  <2>2. \A t \in Tags : imgCache'[t] = imgCache[t] \/ imgCache'[t] = NoRow
    BY <1>3 DEF Expire, ExpireRepo, ExpireImage, vars, cacheVars, TypeOK, SharedOK
  <2>3. PinsForced'
    BY <2>1 DEF PinsForced, Forced
  <2>4. Compared'
    BY <2>1 DEF Compared, NoSingles, NoMerges, Chunked
  <2>5. \A t \in Tags : CopySaid(declared, imgCache'[t])
    BY <2>2, IdleSaid DEF DigestsSaid
  <2>6. DigestsSaid'
    BY <2>1, <2>5 DEF DigestsSaid
  <2> QED BY <2>3, <2>4, <2>6
<1> QED BY <1>1, <1>2, <1>3 DEF Next, Quiet

\* Whatever uploads race, are repeated or fail, and whatever stale copies
\* they start from: what the database says of an image is a digest that some
\* upload of that tag announced.  A session of a single upload must not be
\* merged: its hash has no digest that the merge could compare with.
THEOREM RowsAreDeclared ==
  ASSUME \A b \in Budgets : b["startSingle"] = 0 \/ b["merge"] = 0
  PROVE  Spec => []RowDigestDeclared
<1>1. Init => SaidInv
  BY InitSaid DEF Init
<1>2. SaidInv /\ [Next]_vars => SaidInv'
  BY NextSaid
<1>3. SaidInv => RowDigestDeclared
  BY DEF SaidInv, DigestsSaid, Said, RowDigestDeclared
<1> QED BY <1>1, <1>2, <1>3, PTL DEF Spec

-----------------------------------------------------------------------------
(* The catalog: keys and repositories of rows *)

\* No two rows have one repository and tag: the unique key of table image.
SameKey(rows) ==
  \A r, s \in rows : r.repoId = s.repoId /\ r.tag = s.tag => r = s
KeysUnique == SameKey(imageRows) /\ SameKey(tx.images)

\* A repository id is below the counter wherever it is kept, and an image
\* that has an id, which it gets from a look-up, has the id of a repository.
Placed(next, i, repoId) == repoId < next /\ (i # 0 => repoId # 0)
BeforeImage == {"repo", "fillRepo", "img"}
WorkerPlaced(next, l, p) ==
  /\ Placed(next, l.img.imgId, l.img.repoId) /\ l.repo < next
  /\ p \in BeforeImage => l.img.imgId = 0
ReposPlaced ==
  /\ repoRow < nextRepoId /\ tx.repo < nextRepoId /\ repoCache < nextRepoId
  /\ \A r \in imageRows \cup tx.images : r.repoId < nextRepoId /\ r.repoId # 0
  /\ \A t \in Tags : Placed(nextRepoId, imgCache[t].id, imgCache[t].repoId)
  /\ \A u \in Uploads : Placed(nextRepoId, info[u].imgId, info[u].repoId)
  /\ \A w \in Workers : WorkerPlaced(nextRepoId, loc[w], pc[w])

LEMMA KeysUniqueStay ==
  ASSUME TypeOK, IdsUnique, KeysUnique, NEW w \in Workers,
         Request(w) \/ Step(w) \/ Abort(w)
  PROVE  KeysUnique'
<1>1. SameKey({})
  BY DEF SameKey
<1>2. ASSUME NEW always \in BOOLEAN, SaveRows(w, always)
      PROVE  KeysUnique'
  <2> DEFINE img == loc[w].img
             new == [id |-> nextImageId, repoId |-> RepoIdFor(img), tag |-> img.tag,
                     digest |-> img.digest]
  <2>1. imageRows' = imageRows
    BY <1>2 DEF SaveRows
  <2>2. CASE img.imgId = 0
    <3>1. tx'.images = imageRows \cup {new}
      BY <1>2, <2>2 DEF SaveRows
    <3>2. \A r \in imageRows : ~(r.repoId = new.repoId /\ r.tag = new.tag)
      BY <1>2, <2>2 DEF SaveRows, ImageTaken
    <3> HIDE DEF new
    <3> QED BY <2>1, <3>1, <3>2 DEF KeysUnique, SameKey
  <2>3. CASE img.imgId # 0
    <3>1. tx'.images = UpdateDigest(imageRows, img.imgId, img.digest)
      BY <1>2, <2>3 DEF SaveRows
    <3>2. \A r \in imageRows : /\ [r EXCEPT !.digest = img.digest].repoId = r.repoId
                               /\ [r EXCEPT !.digest = img.digest].tag = r.tag
      BY DEF TypeOK, SharedOK, ImageRow
    <3>3. ASSUME NEW r \in tx'.images
          PROVE  \E s \in imageRows :
                   /\ r.repoId = s.repoId /\ r.tag = s.tag
                   /\ r = IF s.id = img.imgId
                          THEN [s EXCEPT !.digest = img.digest] ELSE s
      BY <3>1, <3>2 DEF UpdateDigest
    <3> HIDE DEF img
    <3>4. SameKey(tx'.images)
      BY <3>3 DEF KeysUnique, SameKey
    <3> QED BY <2>1, <3>4 DEF KeysUnique, SameKey
  <2> QED BY <2>2, <2>3
<1>3. CASE DeleteRow(w) \/ DeleteRows(w)
  BY <1>3 DEF DeleteRow, DeleteRows, KeysUnique, SameKey
<1>4. CASE Install(w)
  BY <1>1, <1>4 DEF Install, KeysUnique, NoTx, SameKey
<1>5. CASE imageRows' = imageRows /\ (tx' = tx \/ tx' = NoTx)
  BY <1>1, <1>5 DEF KeysUnique, NoTx, SameKey
<1> QED BY <1>2, <1>3, <1>4, <1>5, DatabaseSteps

\* What keeps the parts of ReposPlaced.
LEMMA PlacedStay ==
  ASSUME TypeOK, ReposPlaced, NEW w \in Workers, NEW l, NEW p, Jump(w, l, p),
         nextRepoId' \in Nat, nextRepoId <= nextRepoId', WorkerPlaced(nextRepoId', l, p),
         repoRow' = repoRow \/ repoRow' < nextRepoId',
         tx'.repo = tx.repo \/ tx'.repo < nextRepoId',
         repoCache' = repoCache \/ repoCache' < nextRepoId',
         \A r \in (imageRows \cup tx.images)' :
           \/ \E s \in imageRows \cup tx.images : s.repoId = r.repoId
           \/ r.repoId < nextRepoId' /\ r.repoId # 0,
         \A t \in Tags : \/ imgCache'[t] = imgCache[t]
                         \/ Placed(nextRepoId', imgCache'[t].id, imgCache'[t].repoId),
         \A u \in Uploads : \/ info'[u] = info[u]
                            \/ Placed(nextRepoId', info'[u].imgId, info'[u].repoId)
  PROVE  ReposPlaced'
<1>0. \A i \in Nat : i < nextRepoId => i < nextRepoId'
  BY DEF TypeOK, SharedOK
<1>1. repoRow' < nextRepoId' /\ tx'.repo < nextRepoId' /\ repoCache' < nextRepoId'
  BY <1>0 DEF ReposPlaced, TypeOK, SharedOK, Tx
<1>2. \A r \in imageRows' \cup tx'.images : r.repoId < nextRepoId' /\ r.repoId # 0
  <2>1. \A s \in imageRows \cup tx.images : s.repoId \in Nat
    BY DEF TypeOK, SharedOK, Tx, ImageRow
  <2> QED BY <1>0, <2>1 DEF ReposPlaced
<1>3. \A t \in Tags : Placed(nextRepoId', imgCache'[t].id, imgCache'[t].repoId)
  <2>1. \A t \in Tags : imgCache[t].repoId \in Nat
    BY DEF TypeOK, SharedOK, ImageRow, NoRow
  <2> QED BY <1>0, <2>1 DEF ReposPlaced, Placed
<1>4. \A u \in Uploads : Placed(nextRepoId', info'[u].imgId, info'[u].repoId)
  <2>1. \A u \in Uploads : info[u].repoId \in Nat
    BY DEF TypeOK, SharedOK, Session, Image, NoSession, Announced
  <2> QED BY <1>0, <2>1 DEF ReposPlaced, Placed
<1>5. \A v \in Workers : WorkerPlaced(nextRepoId', loc'[v], pc'[v])
  <2>1. \A v \in Workers : loc[v].img.repoId \in Nat /\ loc[v].repo \in Nat
    BY DEF TypeOK, WorkersOK, Local, Image
  <2>2. \A v \in Workers : \/ loc'[v] = loc[v] /\ pc'[v] = pc[v]
                           \/ loc'[v] = l /\ pc'[v] = p
    BY DEF Jump, TypeOK, WorkersOK
  <2> QED BY <1>0, <2>1, <2>2 DEF ReposPlaced, WorkerPlaced, Placed
<1> QED BY <1>1, <1>2, <1>3, <1>4, <1>5 DEF ReposPlaced, WorkerPlaced, Placed

LEMMA NoValuesPlaced ==
  ASSUME NEW next \in Nat \ {0}
  PROVE  /\ WorkerPlaced(next, NoLocal, "idle")
         /\ Placed(next, NoSession.imgId, NoSession.repoId)
         /\ Placed(next, NoRow.id, NoRow.repoId)
BY DEF WorkerPlaced, BeforeImage, Placed, NoLocal, Begin, NoSession, Announced, NoRow

LEMMA RequestPlaced ==
  ASSUME TypeOK, ReposPlaced, NEW w \in Workers, Request(w)
  PROVE  ReposPlaced'
<1>0. nextRepoId \in Nat \ {0}
  BY DEF TypeOK, SharedOK
<1>1. UNCHANGED <<repoRow, imageRows, tx, nextRepoId, repoCache, imgCache, info>>
  BY DEF Request, ChunkRequest, SingleRequest, AccessRequest, StartChunk,
         ChunkArrives, MergeArrives, StartSingle, UploadArrives, Read, Delete,
         DeleteRepository, dbVars, cacheVars, sessVars
<1>2. ASSUME NEW op, NEW u, NEW img, NEW idx, NEW d, NEW p,
             Arrive(w, Begin(op, u, img, idx, d), p),
             Placed(nextRepoId, img.imgId, img.repoId),
             p = "repo" => img.imgId = 0, p \notin {"fillRepo", "img"}
      PROVE  ReposPlaced'
  <2>1. WorkerPlaced(nextRepoId, Begin(op, u, img, idx, d), p)
    BY <1>0, <1>2 DEF WorkerPlaced, BeforeImage, Begin
  <2>2. Jump(w, Begin(op, u, img, idx, d), p)
    BY <1>2 DEF Arrive
  <2> QED BY <1>0, <1>1, <2>1, <2>2, PlacedStay
<1>3. \A kind, t, d, n, f :
        /\ Announced(kind, t, d, n, f).imgId = 0
        /\ Placed(nextRepoId, Announced(kind, t, d, n, f).imgId,
                  Announced(kind, t, d, n, f).repoId)
  BY <1>0 DEF Announced, Placed
<1>4. /\ \A t : Placed(nextRepoId, Named(t).imgId, Named(t).repoId)
      /\ \A t : Named(t).imgId = 0 /\ NoSession.imgId = 0
      /\ Placed(nextRepoId, NoSession.imgId, NoSession.repoId)
  BY <1>0 DEF Named, NoSession, Announced, Placed
<1>5. \A u \in Uploads : Placed(nextRepoId, info[u].imgId, info[u].repoId)
  BY DEF ReposPlaced
<1>6. CASE ChunkRequest(w)
  BY <1>2, <1>3, <1>5, <1>6 DEF ChunkRequest, StartChunk, ChunkArrives, MergeArrives
<1>7. CASE SingleRequest(w)
  BY <1>2, <1>3, <1>5, <1>7 DEF SingleRequest, StartSingle, UploadArrives
<1>8. CASE AccessRequest(w)
  BY <1>2, <1>4, <1>8 DEF AccessRequest, Read, Delete, DeleteRepository
<1> QED BY <1>6, <1>7, <1>8 DEF Request

LEMMA LookupPlaced ==
  ASSUME TypeOK, ReposPlaced, NEW w \in Workers, Lookup(w)
  PROVE  ReposPlaced'
<1>0. loc[w] \in Local /\ nextRepoId \in Nat \ {0}
  BY DEF TypeOK, SharedOK, WorkersOK
<1>1. UNCHANGED <<repoRow, imageRows, tx, nextRepoId, info>>
  BY DEF Lookup, RepoCached, RepoSelected, RepoMissing, FillRepo, ImageCached,
         ImageSelected, ImageMissing, FillImage, Conflict, dbVars, sessVars
<1>2. WorkerPlaced(nextRepoId, loc[w], pc[w])
  BY DEF ReposPlaced
<1>3. /\ repoCache' = repoCache \/ repoCache' < nextRepoId
      /\ \A t \in Tags : \/ imgCache'[t] = imgCache[t]
                         \/ Placed(nextRepoId, imgCache'[t].id, imgCache'[t].repoId)
  <2>1. CASE FillRepo(w)
    BY <1>2, <2>1 DEF FillRepo, WorkerPlaced
  <2>2. CASE FillImage(w)
    <3>1. Placed(nextRepoId, HeldRow(loc[w]).id, HeldRow(loc[w]).repoId)
      BY <1>2 DEF WorkerPlaced, HeldRow
    <3>2. \A t \in Tags : imgCache'[t] = imgCache[t] \/ imgCache'[t] = HeldRow(loc[w])
      BY <2>2 DEF FillImage, TypeOK, SharedOK
    <3> QED BY <2>2, <3>1, <3>2 DEF FillImage
  <2>3. CASE ~FillRepo(w) /\ ~FillImage(w)
    BY <2>3 DEF Lookup, RepoCached, RepoSelected, RepoMissing, ImageCached,
                ImageSelected, ImageMissing, Conflict, cacheVars
  <2> QED BY <2>1, <2>2, <2>3
<1>4. ASSUME NEW l, NEW p, Jump(w, l, p), WorkerPlaced(nextRepoId, l, p)
      PROVE  ReposPlaced'
  BY <1>0, <1>1, <1>3, <1>4, PlacedStay
<1>5. ASSUME Finish(w) PROVE ReposPlaced'
  BY <1>0, <1>4, <1>5, NoValuesPlaced DEF Finish, Go
<1>6. ASSUME NEW l, Continue(w, l), \A p : p \notin BeforeImage => WorkerPlaced(nextRepoId, l, p)
      PROVE  ReposPlaced'
  BY <1>4, <1>5, <1>6 DEF Continue, AfterImage, BeforeImage, Go
<1>7. ASSUME NEW row, Placed(nextRepoId, row.id, row.repoId)
      PROVE  \A p : p \notin BeforeImage => WorkerPlaced(nextRepoId, Holding(loc[w], row), p)
  <2>1. /\ Holding(loc[w], row).img.imgId = row.id
        /\ Holding(loc[w], row).img.repoId = row.repoId
        /\ Holding(loc[w], row).repo = loc[w].repo
    BY <1>0 DEF Holding, Local, Image
  <2> QED BY <1>2, <1>7, <2>1 DEF WorkerPlaced
<1>8. CASE ImageCached(w)
  <2>1. loc[w].img.tag \in Tags
    BY <1>0, <1>8 DEF ImageCached, CacheHit, Local, Image
  <2>2. Placed(nextRepoId, imgCache[loc[w].img.tag].id, imgCache[loc[w].img.tag].repoId)
    BY <2>1 DEF ReposPlaced
  <2> QED BY <1>6, <1>7, <1>8, <2>2 DEF ImageCached
<1>9. CASE ImageSelected(w)
  <2>1. PICK row \in imageRows : Go(w, Holding(loc[w], row), "fillImg")
    BY <1>9 DEF ImageSelected, Selected
  <2>2. Placed(nextRepoId, row.id, row.repoId)
    BY DEF ReposPlaced, Placed
  <2> QED BY <1>4, <1>7, <2>1, <2>2 DEF Go, BeforeImage
<1>10. CASE FillImage(w)
  BY <1>2, <1>6, <1>10 DEF FillImage, WorkerPlaced
<1>11. CASE ImageMissing(w)
  <2> DEFINE l == [loc[w] EXCEPT !.img.repoId = loc[w].repo]
  <2>1. loc[w].img.imgId = 0
    BY <1>2, <1>11 DEF ImageMissing, GetsImage, WorkerPlaced, BeforeImage
  <2>2. l.img.imgId = 0 /\ l.img.repoId = loc[w].repo /\ l.repo = loc[w].repo
    BY <1>0, <2>1 DEF Local, Image
  <2>3. WorkerPlaced(nextRepoId, l, "session")
    BY <1>2, <2>2 DEF WorkerPlaced, Placed
  <2>4. Go(w, l, "session") \/ Finish(w)
    BY <1>11 DEF ImageMissing
  <2> HIDE DEF l
  <2> QED BY <1>4, <1>5, <2>3, <2>4 DEF Go
<1>12. CASE RepoCached(w) \/ RepoSelected(w)
  <2>1. PICK i, p : /\ i \in Nat /\ i < nextRepoId
                    /\ Go(w, [loc[w] EXCEPT !.repo = i], p)
    BY <1>12 DEF RepoCached, RepoSelected, ReposPlaced, TypeOK, SharedOK
  <2>2. /\ [loc[w] EXCEPT !.repo = i].img = loc[w].img
        /\ [loc[w] EXCEPT !.repo = i].repo = i
    BY <1>0 DEF Local
  <2>3. WorkerPlaced(nextRepoId, [loc[w] EXCEPT !.repo = i], p)
    BY <1>2, <1>12, <2>1, <2>2 DEF WorkerPlaced, BeforeImage, RepoCached, RepoSelected
  <2> QED BY <1>4, <2>1, <2>3 DEF Go
<1>13. CASE RepoMissing(w) \/ FillRepo(w) \/ Conflict(w)
  <2>1. WorkerPlaced(nextRepoId, loc[w], "session")
    BY <1>2 DEF WorkerPlaced, BeforeImage
  <2>2. FillRepo(w) => WorkerPlaced(nextRepoId, loc[w], "img")
    BY <1>2 DEF FillRepo, WorkerPlaced, BeforeImage
  <2> QED BY <1>4, <1>5, <1>13, <2>1, <2>2 DEF RepoMissing, FillRepo, Conflict, Go
<1> QED BY <1>8, <1>9, <1>10, <1>11, <1>12, <1>13 DEF Lookup

LEMMA SavePlaced ==
  ASSUME TypeOK, ReposPlaced, NEW w \in Workers, NEW always \in BOOLEAN,
         SaveRows(w, always)
  PROVE  ReposPlaced'
<1> DEFINE img == loc[w].img
           new == [id |-> nextImageId, repoId |-> RepoIdFor(img), tag |-> img.tag,
                   digest |-> img.digest]
<1>1. nextRepoId \in Nat \ {0} /\ img.repoId \in Nat
  BY DEF TypeOK, SharedOK, WorkersOK, Local, Image
<1>2. /\ nextRepoId' = IF img.repoId = 0 THEN nextRepoId + 1 ELSE nextRepoId
      /\ tx'.repo = IF img.repoId = 0 THEN nextRepoId ELSE repoRow
      /\ UNCHANGED <<repoRow, imageRows, info>> /\ Go(w, loc[w], "commit")
      /\ pc[w] = "tx" /\ repoCache' \in {0, repoCache}
  BY DEF SaveRows, ForgetRepo, sessVars
<1>3. nextRepoId' \in Nat \ {0} /\ nextRepoId <= nextRepoId'
  BY <1>1, <1>2
<1>4. /\ repoRow \in Nat /\ repoRow < nextRepoId
      /\ Placed(nextRepoId, img.imgId, img.repoId)
      /\ loc[w].repo \in Nat /\ loc[w].repo < nextRepoId
  BY DEF ReposPlaced, WorkerPlaced, TypeOK, SharedOK, WorkersOK, Local
<1>5. tx'.repo < nextRepoId'
  BY <1>1, <1>2, <1>4
<1>6. WorkerPlaced(nextRepoId', loc[w], "commit")
  BY <1>1, <1>3, <1>4 DEF WorkerPlaced, Placed, BeforeImage
<1>7. repoCache' = repoCache \/ repoCache' < nextRepoId'
  BY <1>2, <1>3
<1>8. \A t \in Tags : \/ imgCache'[t] = imgCache[t]
                      \/ Placed(nextRepoId', imgCache'[t].id, imgCache'[t].repoId)
  <2>1. \A t \in Tags : imgCache'[t] = imgCache[t] \/ imgCache'[t] = NoRow
    BY DEF SaveRows, ForgetImage, TypeOK, SharedOK
  <2> QED BY <1>3, <2>1, NoValuesPlaced
<1>9. \A r \in tx'.images : \/ \E s \in imageRows : s.repoId = r.repoId
                            \/ r.repoId < nextRepoId' /\ r.repoId # 0
  <2>1. CASE img.imgId = 0
    <3>1. tx'.images = imageRows \cup {new}
      BY <2>1 DEF SaveRows
    <3>2. RepoIdFor(img) < nextRepoId' /\ RepoIdFor(img) # 0
      BY <1>1, <1>2, <1>4 DEF RepoIdFor, Placed
    <3>3. new.repoId = RepoIdFor(img)
      OBVIOUS
    <3> HIDE DEF new, img
    <3> QED BY <3>1, <3>2, <3>3
  <2>2. CASE img.imgId # 0
    <3>1. tx'.images = UpdateDigest(imageRows, img.imgId, img.digest)
      BY <2>2 DEF SaveRows
    <3>2. \A r \in imageRows : [r EXCEPT !.digest = img.digest].repoId = r.repoId
      BY DEF TypeOK, SharedOK, ImageRow
    <3> HIDE DEF img
    <3> QED BY <3>1, <3>2 DEF UpdateDigest
  <2> QED BY <2>1, <2>2
<1> HIDE DEF img, new
<1> QED BY <1>2, <1>3, <1>5, <1>6, <1>7, <1>8, <1>9, PlacedStay DEF Go

LEMMA StepPlaced ==
  ASSUME TypeOK, ReposPlaced, NEW w \in Workers,
         ChunkStep(w) \/ SingleStep(w) \/ AccessStep(w) \/ Abort(w)
  PROVE  ReposPlaced'
<1>0. loc[w] \in Local /\ nextRepoId \in Nat \ {0}
  BY DEF TypeOK, SharedOK, WorkersOK
<1> DEFINE ReposKept == \/ UNCHANGED <<repoRow, tx>>
                        \/ repoRow' = repoRow /\ tx' = NoTx
                        \/ Install(w) \/ DeleteRow(w) \/ DeleteRows(w)
           RowsKept == \A r \in (imageRows \cup tx.images)' : r \in imageRows \cup tx.images
           CopiesKept == /\ repoCache' \in {0, repoCache}
                         /\ \A t \in Tags : imgCache'[t] = imgCache[t] \/ imgCache'[t] = NoRow
           SessionsKept == \A u \in Uploads :
             \/ info'[u] = info[u] \/ info'[u] = NoSession
             \/ OpenSession(w, u, FALSE) \/ OpenSession(w, u, TRUE)
<1>1. ASSUME nextRepoId' = nextRepoId, RowsKept, CopiesKept, SessionsKept, ReposKept,
             NEW l, NEW p, Jump(w, l, p), WorkerPlaced(nextRepoId, l, p)
      PROVE  ReposPlaced'
  <2>1. /\ repoRow' = repoRow \/ repoRow' < nextRepoId
        /\ tx'.repo = tx.repo \/ tx'.repo < nextRepoId
    BY <1>0, <1>1 DEF Install, DeleteRow, DeleteRows, NoTx, ReposPlaced
  <2>2. /\ repoCache' = repoCache \/ repoCache' < nextRepoId
        /\ \A t \in Tags : \/ imgCache'[t] = imgCache[t]
                           \/ Placed(nextRepoId, imgCache'[t].id, imgCache'[t].repoId)
    BY <1>0, <1>1, NoValuesPlaced
  <2>3. \A u \in Uploads : \/ info'[u] = info[u]
                           \/ Placed(nextRepoId, info'[u].imgId, info'[u].repoId)
    BY <1>0, <1>1, NoValuesPlaced
       DEF OpenSession, ReposPlaced, WorkerPlaced, TypeOK, SharedOK
  <2> HIDE DEF ReposKept, CopiesKept, SessionsKept
  <2> QED BY <1>0, <1>1, <2>1, <2>2, <2>3, PlacedStay
<1>2. ASSUME nextRepoId' = nextRepoId, RowsKept, CopiesKept, SessionsKept, ReposKept,
             Finish(w)
      PROVE  ReposPlaced'
  BY <1>0, <1>1, <1>2, NoValuesPlaced DEF Finish, Go
<1>3. ASSUME nextRepoId' = nextRepoId, RowsKept, CopiesKept, SessionsKept, ReposKept,
             NEW l, NEW p, Go(w, l, p), l.repo = loc[w].repo,
             l.img.imgId = loc[w].img.imgId, l.img.repoId = loc[w].img.repoId,
             p \notin BeforeImage
      PROVE  ReposPlaced'
  <2>1. WorkerPlaced(nextRepoId, l, p)
    BY <1>3 DEF ReposPlaced, WorkerPlaced
  <2> QED BY <1>1, <1>3, <2>1 DEF Go
<1>4. ASSUME UNCHANGED <<dbVars, cacheVars, sessVars>>
      PROVE  /\ nextRepoId' = nextRepoId /\ RowsKept /\ CopiesKept /\ SessionsKept
             /\ ReposKept
  BY <1>4 DEF dbVars, cacheVars, sessVars
<1>5. ASSUME NEW u \in Uploads, NEW expires \in BOOLEAN, OpenSession(w, u, expires)
      PROVE  ReposPlaced'
  <2>1. nextRepoId' = nextRepoId /\ RowsKept /\ CopiesKept /\ ReposKept
    BY <1>5 DEF OpenSession, dbVars, cacheVars
  <2>2. SessionsKept
    BY <1>5 DEF OpenSession, TypeOK, SharedOK
  <2> QED BY <1>2, <1>5, <2>1, <2>2 DEF OpenSession
<1>6. ASSUME NEW always \in BOOLEAN, SaveRejected(w, always)
      PROVE  ReposPlaced'
  <2>1. /\ nextRepoId' = nextRepoId /\ RowsKept /\ CopiesKept /\ SessionsKept
        /\ ReposKept /\ Finish(w)
    BY <1>6 DEF SaveRejected, ForgetRepo, dbVars, sessVars
  <2> QED BY <1>2, <2>1
<1>7. ASSUME Install(w), Finish(w) \/ Go(w, loc[w], "del")
      PROVE  ReposPlaced'
  <2>1. /\ nextRepoId' = nextRepoId /\ RowsKept /\ CopiesKept /\ SessionsKept /\ ReposKept
    BY <1>7 DEF Install, NoTx, cacheVars, sessVars
  <2> QED BY <1>2, <1>3, <1>7, <2>1 DEF BeforeImage
<1>8. CASE ChunkStep(w)
  <2>1. CASE CheckDigest(w)
    <3> DEFINE l == [loc[w] EXCEPT !.img.digest = slice[loc[w].img.tag]]
    <3>1. /\ l.repo = loc[w].repo /\ l.img.imgId = loc[w].img.imgId
          /\ l.img.repoId = loc[w].img.repoId
      BY <1>0 DEF Local, Image
    <3>2. Go(w, l, "copy") \/ Finish(w)
      BY <2>1 DEF CheckDigest
    <3>3. UNCHANGED <<dbVars, cacheVars, sessVars>>
      BY <2>1 DEF CheckDigest
    <3> HIDE DEF l
    <3> QED BY <1>2, <1>3, <1>4, <3>1, <3>2, <3>3 DEF BeforeImage
  <2>2. CASE DeleteKeys(w)
    <3>1. SessionsKept
      BY <2>2 DEF DeleteKeys, TypeOK, SharedOK
    <3>2. nextRepoId' = nextRepoId /\ RowsKept /\ CopiesKept /\ ReposKept
      BY <2>2 DEF DeleteKeys, dbVars, cacheVars
    <3> QED BY <1>2, <2>2, <3>1, <3>2 DEF DeleteKeys
  <2>3. CASE RecordChunk(w) \/ LoseCommit(w)
    <3>1. /\ nextRepoId' = nextRepoId /\ CopiesKept /\ SessionsKept
          /\ UNCHANGED <<repoRow, imageRows>> /\ (tx' = tx \/ tx' = NoTx)
      BY <2>3 DEF RecordChunk, LoseCommit, dbVars, cacheVars, sessVars
    <3>2. RowsKept /\ ReposKept
      BY <3>1 DEF NoTx
    <3>3. Finish(w) \/ Go(w, loc[w], "del")
      BY <2>3 DEF RecordChunk, LoseCommit
    <3> HIDE DEF CopiesKept, SessionsKept, RowsKept, ReposKept
    <3> QED BY <1>2, <1>3, <3>1, <3>2, <3>3 DEF BeforeImage
  <2>4. CASE WriteChunk(w) \/ CheckSlices(w) \/ CopySlice(w) \/ RemoveSlice(w)
             \/ CopyFails(w)
    <3>1. UNCHANGED <<dbVars, cacheVars, sessVars>>
      BY <2>4 DEF WriteChunk, CheckSlices, CopySlice, RemoveSlice, CopyFails
    <3>2. Finish(w) \/ \E p : Go(w, loc[w], p) /\ p \notin BeforeImage
      BY <2>4 DEF WriteChunk, CheckSlices, CopySlice, RemoveSlice, CopyFails,
                  BeforeImage
    <3> QED BY <1>2, <1>3, <1>4, <3>1, <3>2
  <2>5. CASE SaveMerged(w)
    BY <1>6, <2>5, SavePlaced DEF SaveMerged
  <2>6. CASE CommitMerge(w)
    BY <1>7, <2>6 DEF CommitMerge
  <2>7. ASSUME NEW u \in Uploads, OpenChunked(w, u)
        PROVE  ReposPlaced'
    BY <1>5, <2>7 DEF OpenChunked
  <2> QED BY <1>8, <2>1, <2>2, <2>3, <2>4, <2>5, <2>6, <2>7 DEF ChunkStep
<1>9. CASE SingleStep(w)
  <2>1. CASE PutFile(w) \/ VerifyFile(w)
    BY <1>2, <1>3, <1>4, <2>1 DEF PutFile, VerifyFile, BeforeImage
  <2>2. CASE SaveUploaded(w)
    BY <1>6, <2>2, SavePlaced DEF SaveUploaded
  <2>3. CASE CommitUpload(w)
    BY <1>7, <2>3 DEF CommitUpload
  <2>4. ASSUME NEW u \in Uploads, OpenSingle(w, u)
        PROVE  ReposPlaced'
    BY <1>5, <2>4 DEF OpenSingle
  <2> QED BY <1>9, <2>1, <2>2, <2>3, <2>4 DEF SingleStep
<1>10. CASE AccessStep(w)
  <2>1. ASSUME UNCHANGED <<dbVars, cacheVars, sessVars>>, NEW S,
               Go(w, [loc[w] EXCEPT !.todo = S], "files")
        PROVE  ReposPlaced'
    <3> DEFINE l == [loc[w] EXCEPT !.todo = S]
    <3>1. l.repo = loc[w].repo /\ l.img = loc[w].img
      BY <1>0 DEF Local
    <3>2. Go(w, l, "files")
      BY <2>1
    <3> HIDE DEF l, CopiesKept, SessionsKept, RowsKept, ReposKept
    <3> QED BY <1>3, <1>4, <2>1, <3>1, <3>2 DEF BeforeImage
  <2>2. CASE \E removed \in BOOLEAN : DeleteFile(w, removed) \/ DeleteFiles(w, removed)
    <3>1. /\ UNCHANGED <<dbVars, cacheVars, sessVars>>
          /\ Go(w, loc[w], "txImage") \/ \E S : Go(w, [loc[w] EXCEPT !.todo = S], "files")
      BY <2>2 DEF DeleteFile, DeleteFiles
    <3> HIDE DEF CopiesKept, SessionsKept, RowsKept, ReposKept
    <3> QED BY <1>3, <1>4, <2>1, <3>1 DEF BeforeImage
  <2>3. CASE \E listed \in BOOLEAN : ListImages(w, listed)
    <3>1. /\ UNCHANGED <<dbVars, cacheVars, sessVars>>
          /\ \E S : Go(w, [loc[w] EXCEPT !.todo = S], "files")
      BY <2>3 DEF ListImages
    <3> QED BY <2>1, <3>1
  <2>4. CASE DeleteRow(w) \/ DeleteRows(w)
    <3>1. nextRepoId' = nextRepoId /\ SessionsKept /\ ReposKept /\ Go(w, loc[w], "commit")
      BY <2>4 DEF DeleteRow, DeleteRows, sessVars
    <3>2. RowsKept
      BY <2>4 DEF DeleteRow, DeleteRows
    <3>3. CopiesKept
      BY <2>4 DEF DeleteRow, DeleteRows, ForgetImage, ForgetRepo, TypeOK, SharedOK
    <3> QED BY <1>3, <3>1, <3>2, <3>3 DEF BeforeImage
  <2>5. CASE CommitDelete(w)
    BY <1>7, <2>5 DEF CommitDelete
  <2> QED BY <1>10, <2>2, <2>3, <2>4, <2>5 DEF AccessStep
<1>11. CASE Abort(w)
  <2>1. /\ nextRepoId' = nextRepoId /\ RowsKept /\ CopiesKept /\ SessionsKept
        /\ ReposKept
    BY <1>11 DEF Abort, NoTx, cacheVars, sessVars
  <2> QED BY <1>0, <1>1, <1>11, <2>1, NoValuesPlaced DEF Abort
<1> QED BY <1>8, <1>9, <1>10, <1>11

\* So does the end of a cached copy.
LEMMA ExpiryPlaced ==
  ASSUME TypeOK, ReposPlaced, Expire \/ UNCHANGED vars
  PROVE  ReposPlaced'
<1>1. UNCHANGED <<repoRow, imageRows, tx, nextRepoId, info, loc, pc>>
  BY DEF Expire, ExpireRepo, ExpireImage, vars, dbVars, sessVars
<1>2. nextRepoId \in Nat \ {0}
  BY DEF TypeOK, SharedOK
<1>3. repoCache' = repoCache \/ repoCache' = 0
  BY DEF Expire, ExpireRepo, ExpireImage, vars, cacheVars
<1>4. \A t \in Tags : imgCache'[t] = imgCache[t] \/ imgCache'[t] = NoRow
  BY DEF Expire, ExpireRepo, ExpireImage, vars, cacheVars, TypeOK, SharedOK
<1>5. /\ repoCache' < nextRepoId
      /\ \A t \in Tags : Placed(nextRepoId, imgCache'[t].id, imgCache'[t].repoId)
  BY <1>2, <1>3, <1>4, NoValuesPlaced DEF ReposPlaced
<1> QED BY <1>1, <1>5 DEF ReposPlaced

-----------------------------------------------------------------------------
(* The catalog: what a transaction is going to publish *)

ListedIn(repo, rows, t) == {r \in rows : repo # 0 /\ r.repoId = repo /\ r.tag = t}
CatalogOf(repo, rows) ==
  [t \in Tags |-> IF ListedIn(repo, rows, t) = {} THEN NoFile
                  ELSE (CHOOSE r \in ListedIn(repo, rows, t) : TRUE).digest]

Withdraws(before, after) ==
  \E S \in SUBSET Tags :
    after = [t \in Tags |-> IF t \in S THEN NoFile ELSE before[t]]
Publishes(dec, before, after) ==
  \E t \in Tags : \E o \in dec[t] :
    /\ before[t] = NoFile \/ o.force
    /\ after = [before EXCEPT ![t] = o.digest]

\* From the moment it is open until it is committed, a transaction is a step
\* of the catalog: it publishes an offer for one tag, or withdraws images.
TxPublishes ==
  tx.owner # Nobody =>
    LET after == CatalogOf(tx.repo, tx.images)
    IN  Withdraws(CatalogNow, after) \/ Publishes(declared, CatalogNow, after)

LEMMA CatalogIs == CatalogNow = CatalogOf(repoRow, imageRows)
BY DEF CatalogNow, CatalogOf, Listed, ListedIn

\* The image of a tag is that of its row, and none if there is no row.
LEMMA CatalogHas ==
  ASSUME NEW rows, SameKey(rows), NEW row \in rows, NEW t \in Tags,
         NEW repo, repo # 0, row.repoId = repo, row.tag = t
  PROVE  CatalogOf(repo, rows)[t] = row.digest
<1>1. row \in ListedIn(repo, rows, t)
  BY DEF ListedIn
<1>2. \A r \in ListedIn(repo, rows, t) : r = row
  BY DEF ListedIn, SameKey
<1>3. (CHOOSE r \in ListedIn(repo, rows, t) : TRUE) = row
  BY <1>1, <1>2
<1> QED BY <1>1, <1>3 DEF CatalogOf

LEMMA CatalogLacks ==
  ASSUME NEW rows, NEW t \in Tags, NEW repo,
         \A r \in rows : repo # 0 /\ r.repoId = repo => r.tag # t
  PROVE  CatalogOf(repo, rows)[t] = NoFile
BY DEF CatalogOf, ListedIn

\* Rows that are not listed do not count.
LEMMA CatalogSame ==
  ASSUME NEW rows, NEW more, NEW t \in Tags, NEW repo, NEW other,
         ListedIn(repo, rows, t) = ListedIn(other, more, t)
  PROVE  CatalogOf(repo, rows)[t] = CatalogOf(other, more)[t]
BY DEF CatalogOf

LEMMA CatalogsEqual ==
  ASSUME NEW repo, NEW rows, NEW f, f = [t \in Tags |-> f[t]],
         \A t \in Tags : CatalogOf(repo, rows)[t] = f[t]
  PROVE  CatalogOf(repo, rows) = f
<1>1. CatalogOf(repo, rows) = [t \in Tags |-> CatalogOf(repo, rows)[t]]
  BY DEF CatalogOf
<1> QED BY <1>1

\* A merge publishes what its upload announced.
LEMMA MergePublishes ==
  ASSUME TypeOK, IdsHaveTags, IdsUnique, KeysUnique, KeysUnique', ReposPlaced,
         PinsForced, DigestsSaid, NEW w \in Workers, NEW always \in BOOLEAN,
         SaveRows(w, always), loc[w].op = "merge"
  PROVE  LET after == CatalogOf(tx'.repo, tx'.images)
         IN  Withdraws(CatalogNow, after) \/ Publishes(declared, CatalogNow, after)
<1> DEFINE img == loc[w].img
           new == [id |-> nextImageId, repoId |-> RepoIdFor(img), tag |-> img.tag,
                   digest |-> img.digest]
           after == CatalogOf(tx'.repo, tx'.images)
<1>1. PICK t \in Tags : t = img.tag
  BY DEF SaveRows, TypeOK, WorkersOK, Resolved, UploadPC
<1>2. PICK o \in declared[t] : o.digest = img.digest /\ o.force = img.force
  <2>1. pc[w] = "tx"
    BY DEF SaveRows
  <2>2. OfferOf(img) \in declared[t] /\ img.digest = img.request
    BY <1>1, <2>1 DEF DigestsSaid, WorkerSaid, Offered, Uploading, CheckedPC
  <2> QED BY <2>2 DEF OfferOf
<1>3. CatalogNow = CatalogOf(repoRow, imageRows)
  BY CatalogIs
<1>4. CatalogNow = [s \in Tags |-> CatalogNow[s]]
  BY DEF CatalogNow
<1>5. \A r \in imageRows : r.repoId \in Nat /\ r.repoId < nextRepoId /\ nextRepoId \in Nat \ {0}
  BY DEF ReposPlaced, TypeOK, SharedOK, ImageRow
<1>6. ASSUME after = [CatalogNow EXCEPT ![t] = img.digest],
             CatalogNow[t] = NoFile \/ img.force
      PROVE  Publishes(declared, CatalogNow, after)
  BY <1>2, <1>6 DEF Publishes
<1>7. ASSUME \A s \in Tags : after[s] = IF s = t THEN img.digest ELSE CatalogNow[s],
             CatalogNow[t] = NoFile \/ img.force
      PROVE  Publishes(declared, CatalogNow, after)
  <2> DEFINE f == [CatalogNow EXCEPT ![t] = img.digest]
  <2>1. f = [s \in Tags |-> IF s = t THEN img.digest ELSE CatalogNow[s]]
    BY <1>4
  <2>2. f = [s \in Tags |-> f[s]] /\ \A s \in Tags : after[s] = f[s]
    BY <1>7, <2>1
  <2> HIDE DEF f
  <2>3. after = f
    BY <2>2, CatalogsEqual
  <2> QED BY <1>6, <1>7, <2>3 DEF f
<1>8. ASSUME \A s \in Tags : after[s] = CatalogNow[s]
      PROVE  Withdraws(CatalogNow, after)
  <2>1. after = CatalogNow
    BY <1>4, <1>8, CatalogsEqual
  <2>2. CatalogNow = [s \in Tags |-> IF s \in {} THEN NoFile ELSE CatalogNow[s]]
    BY <1>4
  <2>3. Withdraws(CatalogNow, CatalogNow)
    <3>1. \E S \in SUBSET Tags :
            CatalogNow = [s \in Tags |-> IF s \in S THEN NoFile ELSE CatalogNow[s]]
      <4> WITNESS {} \in SUBSET Tags
      <4> QED BY <2>2
    <3> QED BY <3>1 DEF Withdraws
  <2> QED BY <2>1, <2>3
<1>9. CASE img.imgId = 0
  <2>1. tx'.images = imageRows \cup {new}
    BY <1>9 DEF SaveRows
  <2>2. new.repoId = RepoIdFor(img) /\ new.tag = t /\ new.digest = img.digest
    BY <1>1
  <2>3. RepoIdFor(img) # 0
    BY <1>5 DEF RepoIdFor, ReposPlaced, TypeOK, SharedOK
  <2>4. CASE img.repoId = 0
    <3>1. repoRow = 0 /\ tx'.repo = nextRepoId /\ RepoIdFor(img) = nextRepoId
      BY <2>4 DEF SaveRows, RepoTaken, RepoIdFor
    <3>2. \A s \in Tags : CatalogNow[s] = NoFile
      BY <1>3, <3>1, CatalogLacks
    <3> HIDE DEF new, after
    <3>3. \A r \in imageRows : r.repoId # nextRepoId
      BY <1>5
    <3>4. after[t] = img.digest
      BY <2>1, <2>2, <2>3, <3>1, CatalogHas DEF KeysUnique, after
    <3>5. \A s \in Tags : s # t => after[s] = NoFile
      <4> SUFFICES ASSUME NEW s \in Tags, s # t
                   PROVE  after[s] = NoFile
        OBVIOUS
      <4>1. \A r \in tx'.images : r.repoId = tx'.repo => r.tag # s
        BY <2>1, <2>2, <3>1, <3>3
      <4> QED BY <4>1, CatalogLacks DEF after
    <3> QED BY <1>7, <3>2, <3>4, <3>5 DEF after
  <2>5. CASE img.repoId # 0
    <3>1. tx'.repo = repoRow /\ RepoIdFor(img) = img.repoId
      BY <2>5 DEF SaveRows, RepoIdFor
    <3>2. \A r \in imageRows : ~(r.repoId = img.repoId /\ r.tag = t)
      BY <1>1, <1>9, <3>1 DEF SaveRows, ImageTaken
    <3> HIDE DEF new, after
    <3>3. ASSUME NEW s \in Tags, repoRow # img.repoId \/ s # t
          PROVE  after[s] = CatalogNow[s]
      <4>1. ListedIn(repoRow, tx'.images, s) = ListedIn(repoRow, imageRows, s)
        BY <2>1, <2>2, <3>1, <3>3 DEF ListedIn
      <4> QED BY <1>3, <3>1, <4>1, CatalogSame DEF after
    <3>4. CASE repoRow # img.repoId
      BY <1>8, <3>3, <3>4 DEF after
    <3>5. CASE repoRow = img.repoId
      <4>1. CatalogNow[t] = NoFile
        BY <1>3, <3>2, <3>5, CatalogLacks
      <4>2. after[t] = img.digest
        BY <2>1, <2>2, <2>3, <3>1, <3>5, CatalogHas DEF KeysUnique, after
      <4> QED BY <1>7, <3>3, <4>1, <4>2 DEF after
    <3> QED BY <3>4, <3>5
  <2> QED BY <2>4, <2>5
<1>10. CASE img.imgId # 0
  <2>1. tx'.images = UpdateDigest(imageRows, img.imgId, img.digest)
    BY <1>10 DEF SaveRows
  <2>2. img.repoId # 0
    BY <1>10 DEF ReposPlaced, WorkerPlaced, Placed
  <2>3. tx'.repo = repoRow
    BY <2>2 DEF SaveRows
  <2>4. img.force
    BY <1>10 DEF PinsForced, Forced, Uploading
  <2>5. \A r \in imageRows : r.id = img.imgId => r.tag = t
    BY <1>1, <1>10 DEF IdsHaveTags, Agreed, RowsAgree, WorkersAgree, Agrees, Known
  <2>6. \A r \in imageRows : /\ [r EXCEPT !.digest = img.digest].repoId = r.repoId
                             /\ [r EXCEPT !.digest = img.digest].tag = r.tag
                             /\ [r EXCEPT !.digest = img.digest].digest = img.digest
    BY DEF TypeOK, SharedOK, ImageRow
  <2>7. ASSUME NEW q \in imageRows, q.id = img.imgId
        PROVE  [q EXCEPT !.digest = img.digest] \in tx'.images
    BY <2>1, <2>7 DEF UpdateDigest
  <2>8. ASSUME NEW q \in imageRows, q.id # img.imgId
        PROVE  q \in tx'.images
    BY <2>1, <2>8 DEF UpdateDigest
  <2>9. ASSUME NEW r \in tx'.images
        PROVE  \/ r \in imageRows /\ r.id # img.imgId
               \/ \E q \in imageRows : /\ q.id = img.imgId
                                       /\ r = [q EXCEPT !.digest = img.digest]
    BY <2>1 DEF UpdateDigest
  <2> HIDE DEF img, after
  <2>10. ASSUME NEW s \in Tags, \A q \in imageRows : q.id = img.imgId /\ q.repoId = repoRow => s # t
         PROVE  after[s] = CatalogNow[s]
    <3>1. ListedIn(repoRow, tx'.images, s) = ListedIn(repoRow, imageRows, s)
      <4>1. ASSUME NEW r \in ListedIn(repoRow, tx'.images, s)
            PROVE  r \in ListedIn(repoRow, imageRows, s)
        <5>1. r \in tx'.images /\ repoRow # 0 /\ r.repoId = repoRow /\ r.tag = s
          BY <4>1 DEF ListedIn
        <5>2. ASSUME NEW q \in imageRows, q.id = img.imgId,
                     r = [q EXCEPT !.digest = img.digest]
              PROVE  FALSE
          <6>1. r.repoId = q.repoId /\ r.tag = t
            BY <2>5, <2>6, <5>2
          <6> QED BY <2>10, <5>1, <5>2, <6>1
        <5>3. r \in imageRows
          BY <2>9, <5>1, <5>2
        <5> QED BY <5>1, <5>3 DEF ListedIn
      <4>2. ASSUME NEW r \in ListedIn(repoRow, imageRows, s)
            PROVE  r \in ListedIn(repoRow, tx'.images, s)
        BY <2>5, <2>8, <2>10 DEF ListedIn
      <4> QED BY <4>1, <4>2
    <3> QED BY <1>3, <2>3, <3>1, CatalogSame DEF after
  <2>11. CASE \E q \in imageRows : q.id = img.imgId /\ q.repoId = repoRow /\ repoRow # 0
    <3>1. PICK q \in imageRows : q.id = img.imgId /\ q.repoId = repoRow /\ repoRow # 0
      BY <2>11
    <3> DEFINE new2 == [q EXCEPT !.digest = img.digest]
    <3>2. /\ new2 \in tx'.images /\ new2.repoId = repoRow /\ new2.tag = t
          /\ new2.digest = img.digest
      BY <2>5, <2>6, <2>7, <3>1
    <3> HIDE DEF new2
    <3>3. after[t] = img.digest
      BY <2>3, <3>1, <3>2, CatalogHas DEF KeysUnique, after
    <3>4. \A s \in Tags : s # t => after[s] = CatalogNow[s]
      BY <2>10
    <3> QED BY <1>7, <2>4, <3>3, <3>4 DEF after
  <2>12. CASE \A q \in imageRows : q.id = img.imgId /\ q.repoId = repoRow => repoRow = 0
    <3>1. \A q \in imageRows : q.repoId # 0
      BY DEF ReposPlaced
    <3>2. \A s \in Tags : after[s] = CatalogNow[s]
      BY <2>10, <2>12, <3>1
    <3> QED BY <1>8, <3>2 DEF after
  <2> QED BY <2>11, <2>12
<1> QED BY <1>9, <1>10

\* A delete withdraws the image of its tag, or every image, of the repository
\* that it looked up; if that is not the one there is, nothing.
LEMMA DeleteWithdraws ==
  ASSUME TypeOK, KeysUnique, ReposPlaced, NEW w \in Workers,
         DeleteRow(w) \/ DeleteRows(w)
  PROVE  Withdraws(CatalogNow, CatalogOf(tx'.repo, tx'.images))
<1> DEFINE after == CatalogOf(tx'.repo, tx'.images)
           Without(S) == [s \in Tags |-> IF s \in S THEN NoFile ELSE CatalogNow[s]]
<1>1. CatalogNow = CatalogOf(repoRow, imageRows)
  BY CatalogIs
<1>2. ASSUME NEW S \in SUBSET Tags,
             \A s \in Tags : after[s] = IF s \in S THEN NoFile ELSE CatalogNow[s]
      PROVE  Withdraws(CatalogNow, after)
  <2>1. Without(S) = [s \in Tags |-> Without(S)[s]] /\ \A s \in Tags : after[s] = Without(S)[s]
    BY <1>2
  <2> HIDE DEF Without
  <2>2. after = Without(S)
    BY <2>1, CatalogsEqual
  <2> QED BY <2>2 DEF Without, Withdraws
<1> HIDE DEF after, Without
<1>3. ASSUME NEW s \in Tags, ListedIn(tx'.repo, tx'.images, s) = ListedIn(repoRow, imageRows, s)
      PROVE  after[s] = CatalogNow[s]
  BY <1>1, <1>3, CatalogSame DEF after
<1>4. ASSUME \A s \in Tags : after[s] = CatalogNow[s]
      PROVE  Withdraws(CatalogNow, after)
  <2>1. {} \in SUBSET Tags /\ \A s \in Tags :
          after[s] = IF s \in {} THEN NoFile ELSE CatalogNow[s]
    BY <1>4
  <2> QED BY <1>2, <2>1
<1>5. CASE DeleteRow(w)
  <2>1. /\ tx'.repo = repoRow
        /\ tx'.images = {r \in imageRows : ~(r.repoId = loc[w].repo /\ r.tag = loc[w].img.tag)}
    BY <1>5 DEF DeleteRow
  <2>2. CASE loc[w].repo = repoRow
    <3>1. ASSUME NEW s \in Tags, s = loc[w].img.tag
          PROVE  after[s] = NoFile
      <4>1. \A r \in tx'.images : r.repoId = tx'.repo => r.tag # s
        BY <2>1, <2>2, <3>1
      <4> QED BY <4>1, CatalogLacks DEF after
    <3>2. ASSUME NEW s \in Tags, s # loc[w].img.tag
          PROVE  after[s] = CatalogNow[s]
      BY <1>3, <2>1, <3>2 DEF ListedIn
    <3>3. \A s \in Tags : after[s] = IF s \in {loc[w].img.tag} \cap Tags
                                    THEN NoFile ELSE CatalogNow[s]
      BY <3>1, <3>2
    <3> QED BY <1>2, <3>3 DEF after
  <2>3. CASE loc[w].repo # repoRow
    <3>1. \A s \in Tags : after[s] = CatalogNow[s]
      BY <1>3, <2>1, <2>3 DEF ListedIn
    <3> QED BY <1>4, <3>1 DEF after
  <2> QED BY <2>2, <2>3
<1>6. CASE DeleteRows(w)
  <2>1. /\ tx'.repo = IF repoRow = loc[w].repo THEN 0 ELSE repoRow
        /\ tx'.images = {r \in imageRows : r.repoId # loc[w].repo}
    BY <1>6 DEF DeleteRows
  <2>2. CASE loc[w].repo = repoRow
    <3>1. ASSUME NEW s \in Tags
          PROVE  after[s] = NoFile
      <4>1. tx'.repo = 0
        BY <2>1, <2>2
      <4> QED BY <4>1, CatalogLacks DEF after
    <3>2. \A s \in Tags : after[s] = IF s \in Tags THEN NoFile ELSE CatalogNow[s]
      BY <3>1
    <3> QED BY <1>2, <3>2 DEF after
  <2>3. CASE loc[w].repo # repoRow
    <3>1. \A s \in Tags : after[s] = CatalogNow[s]
      BY <1>3, <2>1, <2>3 DEF ListedIn
    <3> QED BY <1>4, <3>1 DEF after
  <2> QED BY <2>2, <2>3
<1> QED BY <1>5, <1>6 DEF after

\* Only a commit changes the catalog.
LEMMA OnlyInstall ==
  ASSUME NEW w \in Workers, Request(w) \/ Step(w) \/ Abort(w)
  PROVE  Install(w) \/ UNCHANGED <<repoRow, imageRows>>
<1>1. CASE Request(w)
  BY <1>1 DEF Request, ChunkRequest, SingleRequest, AccessRequest, StartChunk,
              ChunkArrives, MergeArrives, StartSingle, UploadArrives, Read,
              Delete, DeleteRepository, dbVars
<1>2. CASE Lookup(w)
  BY <1>2 DEF Lookup, RepoCached, RepoSelected, RepoMissing, FillRepo,
              ImageCached, ImageSelected, ImageMissing, FillImage, Conflict, dbVars
<1>3. CASE ChunkStep(w)
  BY <1>3 DEF ChunkStep, OpenChunked, OpenSession, WriteChunk, RecordChunk,
              CheckSlices, CheckDigest, CopySlice, RemoveSlice, CopyFails,
              SaveMerged, SaveRows, SaveRejected, CommitMerge, LoseCommit,
              DeleteKeys, dbVars
<1>4. CASE SingleStep(w)
  BY <1>4 DEF SingleStep, OpenSingle, OpenSession, PutFile, VerifyFile,
              SaveUploaded, SaveRows, SaveRejected, CommitUpload, dbVars
<1>5. CASE AccessStep(w)
  BY <1>5 DEF AccessStep, DeleteFile, DeleteFiles, ListImages, DeleteRow,
              DeleteRows, CommitDelete, dbVars
<1>6. CASE Abort(w)
  BY <1>6 DEF Abort
<1> QED BY <1>1, <1>2, <1>3, <1>4, <1>5, <1>6 DEF Step

LEMMA GrowingPublishes ==
  ASSUME NEW dec, NEW more, Grows(dec, more), NEW before, NEW after,
         Publishes(dec, before, after)
  PROVE  Publishes(more, before, after)
BY DEF Publishes, Grows

\* Without single uploads, the inductive form of ImplementsCatalog.
CatInv == SaidInv /\ NoSingles /\ IdsUnique /\ KeysUnique /\ ReposPlaced /\ TxPublishes

LEMMA TxPublishesStays ==
  ASSUME CatInv, KeysUnique', NEW w \in Workers, Request(w) \/ Step(w) \/ Abort(w)
  PROVE  TxPublishes'
<1> USE DEF CatInv, SaidInv
<1>1. Grows(declared, declared')
  BY DeclaredGrows
<1>2. ASSUME UNCHANGED <<repoRow, imageRows, tx>>
      PROVE  TxPublishes'
  <2>1. CatalogNow' = CatalogNow
    BY <1>2 DEF CatalogNow, Listed
  <2>2. CatalogOf(tx'.repo, tx'.images) = CatalogOf(tx.repo, tx.images)
    BY <1>2
  <2> QED BY <1>1, <1>2, <2>1, <2>2, GrowingPublishes DEF TxPublishes
<1>3. ASSUME tx' = NoTx
      PROVE  TxPublishes'
  BY <1>3 DEF TxPublishes, NoTx
<1>4. ASSUME UNCHANGED <<repoRow, imageRows>>,
             \/ Withdraws(CatalogNow, CatalogOf(tx'.repo, tx'.images))
             \/ Publishes(declared, CatalogNow, CatalogOf(tx'.repo, tx'.images))
      PROVE  TxPublishes'
  <2>1. CatalogNow' = CatalogNow
    BY <1>4 DEF CatalogNow, Listed
  <2> QED BY <1>1, <1>4, <2>1, GrowingPublishes DEF TxPublishes
<1>5. ASSUME NEW always \in BOOLEAN, SaveRows(w, always), loc[w].op \in {"merge", "upload"}
      PROVE  TxPublishes'
  <2>1. loc[w].op = "merge"
    BY <1>5 DEF NoSingles, UploadOps
  <2>2. UNCHANGED <<repoRow, imageRows>>
    BY <1>5 DEF SaveRows
  <2> QED BY <1>4, <1>5, <2>1, <2>2, MergePublishes
<1>6. CASE DeleteRow(w) \/ DeleteRows(w)
  <2>1. UNCHANGED <<repoRow, imageRows>>
    BY <1>6 DEF DeleteRow, DeleteRows
  <2> QED BY <1>4, <1>6, <2>1, DeleteWithdraws
<1>7. CASE Install(w)
  BY <1>3, <1>7 DEF Install
<1> QED BY <1>2, <1>3, <1>5, <1>6, <1>7, DatabaseSteps, OnlyInstall

LEMMA NextCatInv ==
  ASSUME CatInv, [Next]_vars
  PROVE  CatInv'
<1> USE DEF CatInv
<1>1. SaidInv'
  BY NextSaid
<1>2. ASSUME NEW w \in Workers, Request(w) \/ Step(w) \/ Abort(w)
      PROVE  CatInv'
  <2>1. IdsUnique' /\ KeysUnique' /\ NoSingles'
    BY <1>2, IdsUniqueStay, KeysUniqueStay, NoSinglesStay DEF SaidInv
  <2>2. ReposPlaced'
    BY <1>2, RequestPlaced, LookupPlaced, StepPlaced DEF SaidInv, Step
  <2> QED BY <1>1, <1>2, <2>1, <2>2, TxPublishesStays
<1>3. CASE Expire \/ UNCHANGED vars
  <2>1. UNCHANGED <<repoRow, imageRows, tx, nextRepoId, info, loc, pc, left, declared>>
    BY <1>3 DEF Expire, ExpireRepo, ExpireImage, vars, dbVars, sessVars, histVars
  <2>2. IdsUnique' /\ KeysUnique' /\ NoSingles'
    BY <2>1 DEF IdsUnique, KeysUnique, NoSingles, Chunked
  <2>3. ReposPlaced'
    BY <1>3, ExpiryPlaced DEF SaidInv
  <2>4. TxPublishes'
    <3>1. CatalogNow' = CatalogNow
      BY <2>1 DEF CatalogNow, Listed
    <3> QED BY <2>1, <3>1 DEF TxPublishes
  <2> QED BY <1>1, <2>2, <2>3, <2>4
<1> QED BY <1>2, <1>3 DEF Next, Quiet

\* The step of the catalog that a step of the service is.
LEMMA StepImplements ==
  ASSUME CatInv, CatInv', [Next]_vars
  PROVE  [Abstract!Next]_<<CatalogNow, declared>>
<1> USE DEF CatInv, SaidInv
<1>1. ASSUME UNCHANGED <<repoRow, imageRows>>
      PROVE  CatalogNow' = CatalogNow
  BY <1>1 DEF CatalogNow, Listed
<1>2. ASSUME NEW w \in Workers, Install(w), declared' = declared
      PROVE  Abstract!Next
  <2>1. CatalogNow' = CatalogOf(tx.repo, tx.images)
    BY <1>2, CatalogIs DEF Install, CatalogNow, Listed, CatalogOf, ListedIn
  <2>2. tx.owner # Nobody
    BY <1>2, ConstantsAssumption DEF Install
  <2>3. CASE Withdraws(CatalogNow, CatalogNow')
    <3>1. PICK S \in SUBSET Tags :
            CatalogNow' = [t \in Tags |-> IF t \in S THEN NoFile ELSE CatalogNow[t]]
      BY <2>3 DEF Withdraws
    <3>2. Abstract!Withdraw(S)
      BY <1>2, <3>1 DEF Abstract!Withdraw
    <3> QED BY <3>1, <3>2 DEF Abstract!Next
  <2>4. CASE Publishes(declared, CatalogNow, CatalogNow')
    <3>1. PICK t \in Tags : \E o \in declared[t] :
            /\ CatalogNow[t] = NoFile \/ o.force
            /\ CatalogNow' = [CatalogNow EXCEPT ![t] = o.digest]
      BY <2>4 DEF Publishes
    <3>2. PICK o \in declared[t] :
            /\ CatalogNow[t] = NoFile \/ o.force
            /\ CatalogNow' = [CatalogNow EXCEPT ![t] = o.digest]
      BY <3>1
    <3>3. Abstract!Publish(t, o)
      BY <1>2, <3>2 DEF Abstract!Publish
    <3> QED BY <3>2, <3>3 DEF Abstract!Next
  <2> QED BY <2>1, <2>2, <2>3, <2>4 DEF TxPublishes
<1>3. ASSUME NEW w \in Workers, NEW u \in Uploads, NEW expires, OpenSession(w, u, expires)
      PROVE  [Abstract!Next]_<<CatalogNow, declared>>
  <2>0. PICK t : t = loc[w].img.tag
    OBVIOUS
  <2>1. CatalogNow' = CatalogNow
    BY <1>1, <1>3 DEF OpenSession, dbVars
  <2>2. CASE t \in Tags
    <3>1. declared' = [declared EXCEPT ![t] = declared'[t]] /\ declared[t] \subseteq declared'[t]
      BY <1>3, <2>0, <2>2 DEF OpenSession, TypeOK, SharedOK
    <3>2. declared'[t] \subseteq Abstract!Offer
      BY <2>2 DEF TypeOK, SharedOK, Offer, Abstract!Offer
    <3>3. Abstract!Announce(t)
      BY <2>1, <3>1, <3>2 DEF Abstract!Announce
    <3> QED BY <2>2, <3>3 DEF Abstract!Next
  <2>3. CASE t \notin Tags
    <3>1. declared' = declared
      BY <1>3, <2>0, <2>3 DEF OpenSession, TypeOK, SharedOK
    <3> QED BY <2>1, <3>1
  <2> QED BY <2>2, <2>3
<1>4. ASSUME NEW w \in Workers, Request(w) \/ Step(w) \/ Abort(w)
      PROVE  [Abstract!Next]_<<CatalogNow, declared>>
  <2>1. Install(w) \/ CatalogNow' = CatalogNow
    BY <1>1, <1>4, OnlyInstall
  <2>2. declared' = declared \/ \E u \in Uploads : \E expires : OpenSession(w, u, expires)
    BY <1>4, DeclaredGrows
  <2> QED BY <1>2, <1>3, <2>1, <2>2
<1>5. CASE Expire \/ UNCHANGED vars
  <2>1. UNCHANGED <<repoRow, imageRows, declared>>
    BY <1>5 DEF Expire, ExpireRepo, ExpireImage, vars, dbVars, histVars
  <2> QED BY <1>1, <2>1
<1> QED BY <1>4, <1>5 DEF Next, Quiet

\* Chunked uploads and deletes of a repository, with all their sessions,
\* copies, files and transactions, are a catalog to their clients: an image
\* appears or is replaced only by what some upload of its tag announced, and
\* is replaced only with force, whatever races, stale copies and failures
\* there are.
THEOREM ServiceIsCatalog ==
  ASSUME \A b \in Budgets : b["startSingle"] = 0
  PROVE  Spec => ImplementsCatalog
<1>1. Init => CatInv /\ Abstract!Init
  <2> SUFFICES ASSUME Init PROVE CatInv /\ Abstract!Init
    OBVIOUS
  <2>1. left["startSingle"] = 0
    BY DEF Init
  <2>2. NoSingles
    BY <2>1 DEF Init, NoSingles, NoLocal, Begin, UploadOps
  <2>3. IdsUnique /\ KeysUnique
    BY DEF Init, NoTx, IdsUnique, SameId, KeysUnique, SameKey
  <2>4. ReposPlaced
    BY NoValuesPlaced
       DEF Init, ReposPlaced, NoTx, WorkerPlaced, NoLocal, Begin, NoSession,
           Announced, NoRow, Placed, BeforeImage
  <2>5. TxPublishes
    BY DEF Init, NoTx, TxPublishes
  <2>6. Abstract!Init
    BY DEF Init, Abstract!Init, CatalogNow, Listed
  <2> QED BY <2>1, <2>2, <2>3, <2>4, <2>5, <2>6, InitSaid DEF CatInv
<1>2. CatInv /\ [Next]_vars => CatInv'
  BY NextCatInv
<1>3. CatInv /\ CatInv' /\ [Next]_vars => [Abstract!Next]_<<CatalogNow, declared>>
  BY StepImplements
<1> QED BY <1>1, <1>2, <1>3, PTL DEF Spec, ImplementsCatalog, Abstract!Spec

-----------------------------------------------------------------------------
(* Files and rows: who works where *)

\* The requests that write a file and then its row.
PutsImage(l) == l.op \in {"merge", "upload"}

\* Only deletes get to the steps of deletes.
Working(l, p) ==
  /\ p \in {"file", "txImage"} => l.op = "delete"
  /\ p = "files" => l.op = "deleteRepo"
AllWorking == \A w \in Workers : Working(loc[w], pc[w])

LEMMA WorkingOn ==
  ASSUME TypeOK, AllWorking, NEW w \in Workers, NEW l, NEW p, Jump(w, l, p), Working(l, p)
  PROVE  AllWorking'
<1>1. \A v \in Workers : \/ loc'[v] = loc[v] /\ pc'[v] = pc[v]
                         \/ loc'[v] = l /\ pc'[v] = p
  BY DEF Jump, TypeOK, WorkersOK
<1> QED BY <1>1 DEF AllWorking, Working

LEMMA AllWorkingStay ==
  ASSUME TypeOK, AllWorking, NEW w \in Workers, Request(w) \/ Step(w) \/ Abort(w)
  PROVE  AllWorking'
<1>1. ASSUME NEW l, NEW p, Jump(w, l, p), Working(l, p)
      PROVE  AllWorking'
  BY <1>1, WorkingOn
<1>2. ASSUME NEW l, NEW p, Go(w, l, p), p \notin {"file", "files", "txImage"}
      PROVE  AllWorking'
  BY <1>1, <1>2 DEF Go, Working
<1>3. ASSUME Finish(w)
      PROVE  AllWorking'
  BY <1>2, <1>3 DEF Finish
<1>4. Working(loc[w], pc[w]) /\ loc[w] \in Local
  BY DEF AllWorking, TypeOK, WorkersOK
<1>5. CASE Request(w)
  <2>1. PICK l, p : /\ Arrive(w, l, p) /\ l.op \in Ops
                    /\ p \in {"repo", "chunkWrite", "check", "put"}
    BY <1>5, RequestShape
  <2> QED BY <1>1, <2>1 DEF Arrive, Working
<1>6. CASE Lookup(w)
  <2>1. ASSUME NEW l, Continue(w, l)
        PROVE  AllWorking'
    <3>1. CASE AfterImage(l) = "file"
      BY <1>1, <2>1, <3>1 DEF Continue, AfterImage, Go, Working
    <3>2. CASE AfterImage(l) # "file"
      BY <1>2, <1>3, <2>1, <3>2 DEF Continue, AfterImage
    <3> QED BY <3>1, <3>2
  <2> QED BY <1>2, <1>3, <1>6, <2>1
          DEF Lookup, RepoCached, RepoSelected, RepoMissing, FillRepo, ImageCached,
              ImageSelected, ImageMissing, FillImage, Conflict
<1>7. CASE ChunkStep(w)
  BY <1>2, <1>3, <1>7
     DEF ChunkStep, OpenChunked, OpenSession, WriteChunk, RecordChunk, CheckSlices,
         CheckDigest, CopySlice, RemoveSlice, CopyFails, SaveMerged, SaveRows,
         SaveRejected, CommitMerge, LoseCommit, DeleteKeys
<1>8. CASE SingleStep(w)
  BY <1>2, <1>3, <1>8
     DEF SingleStep, OpenSingle, OpenSession, PutFile, VerifyFile, SaveUploaded,
         SaveRows, SaveRejected, CommitUpload
<1>9. CASE AccessStep(w)
  <2>1. \A todo : [loc[w] EXCEPT !.todo = todo].op = loc[w].op
    BY <1>4 DEF Local
  <2>2. ASSUME NEW todo, Go(w, [loc[w] EXCEPT !.todo = todo], "files"),
               loc[w].op = "deleteRepo"
        PROVE  AllWorking'
    BY <1>1, <2>1, <2>2 DEF Go, Working
  <2>3. ASSUME NEW removed \in BOOLEAN, DeleteFile(w, removed)
        PROVE  AllWorking'
    BY <1>1, <1>4, <2>3 DEF DeleteFile, Go, Working
  <2>4. ASSUME NEW removed \in BOOLEAN, DeleteFiles(w, removed)
        PROVE  AllWorking'
    BY <1>4, <2>2, <2>4 DEF DeleteFiles, Working
  <2>5. ASSUME NEW listed \in BOOLEAN, ListImages(w, listed)
        PROVE  AllWorking'
    BY <2>2, <2>5 DEF ListImages
  <2>6. CASE DeleteRow(w) \/ DeleteRows(w) \/ CommitDelete(w)
    BY <1>2, <1>3, <2>6 DEF DeleteRow, DeleteRows, CommitDelete
  <2> QED BY <1>9, <2>3, <2>4, <2>5, <2>6 DEF AccessStep
<1>10. CASE Abort(w)
  BY <1>1, <1>10 DEF Abort, Working
<1> QED BY <1>5, <1>6, <1>7, <1>8, <1>9, <1>10 DEF Step

-----------------------------------------------------------------------------
(* What has been compared stays in its file *)

\* Where a handler relies on the image file being the one it has compared.
Relies(l, p) == p \in {"remove", "tx"} \/ (p = "commit" /\ PutsImage(l))

\* The slice file that a merge is sure of is as it has measured it, or gone;
\* and so is the image file that a handler was the last to write.
Fits(images, slices, authors, merges, w, l, p) ==
  /\ p = "copy" /\ w \in merges => slices[l.img.tag] \in {l.img.digest, NoFile}
  /\ Relies(l, p) /\ authors[l.img.tag] = w => images[l.img.tag] = l.img.digest
AllFit == \A w \in Workers : Fits(full, slice, author, sure, w, loc[w], pc[w])

FitVars == <<full, slice, author, sure>>

LEMMA RelyTag ==
  ASSUME TypeOK, NEW v \in Workers, pc[v] = "copy" \/ Relies(loc[v], pc[v])
  PROVE  loc[v].img.tag \in Tags
BY DEF Relies, PutsImage, TypeOK, WorkersOK, Resolved, UploadPC, UploadOps

LEMMA FitOn ==
  ASSUME TypeOK, AllFit, NEW w \in Workers, NEW l, NEW p, Jump(w, l, p),
         Fits(full', slice', author', sure', w, l, p),
         \A v \in Workers \ {w} : pc[v] = "copy" /\ v \in sure' =>
           /\ v \in sure
           /\ slice'[loc[v].img.tag] \in {slice[loc[v].img.tag], NoFile},
         \A v \in Workers \ {w} :
           Relies(loc[v], pc[v]) /\ author'[loc[v].img.tag] = v =>
             /\ author[loc[v].img.tag] = v
             /\ full'[loc[v].img.tag] = full[loc[v].img.tag]
  PROVE  AllFit'
<1> SUFFICES ASSUME NEW v \in Workers
             PROVE  Fits(full', slice', author', sure', v, loc'[v], pc'[v])
  BY DEF AllFit, Fits, Relies, PutsImage
<1>1. CASE v = w
  <2>1. loc'[v] = l /\ pc'[v] = p
    BY <1>1 DEF Jump, TypeOK, WorkersOK
  <2> QED BY <1>1, <2>1
<1>2. CASE v # w
  <2>1. loc'[v] = loc[v] /\ pc'[v] = pc[v]
    BY <1>2 DEF Jump, TypeOK, WorkersOK
  <2>2. Fits(full, slice, author, sure, v, loc[v], pc[v])
    BY DEF AllFit
  <2>3. pc[v] = "copy" /\ v \in sure' =>
          slice'[loc[v].img.tag] \in {loc[v].img.digest, NoFile}
    BY <1>2, <2>2 DEF Fits
  <2>4. Relies(loc[v], pc[v]) /\ author'[loc[v].img.tag] = v =>
          full'[loc[v].img.tag] = loc[v].img.digest
    BY <1>2, <2>2 DEF Fits
  <2> QED BY <2>1, <2>3, <2>4 DEF Fits
<1> QED BY <1>1, <1>2

\* A file that is replaced is nobody else's any more.
LEMMA ReplacedApart ==
  ASSUME TypeOK, NEW w \in Workers, NEW t \in Tags, NEW a \in {w, Nobody},
         Replaced(t, a), \A s \in Tags \ {t} : full'[s] = full[s],
         NEW v \in Workers \ {w}, Relies(loc[v], pc[v]), author'[loc[v].img.tag] = v
  PROVE  /\ author[loc[v].img.tag] = v
         /\ full'[loc[v].img.tag] = full[loc[v].img.tag]
<1>1. loc[v].img.tag \in Tags
  BY RelyTag
<1>2. loc[v].img.tag # t
  BY ConstantsAssumption DEF Replaced, TypeOK, SharedOK
<1> QED BY <1>1, <1>2 DEF Replaced, TypeOK, SharedOK

LEMMA AllFitStay ==
  ASSUME TypeOK, AllWorking, AllFit, NEW w \in Workers, Request(w) \/ Step(w) \/ Abort(w)
  PROVE  AllFit'
<1>1. ASSUME UNCHANGED FitVars, NEW l, NEW p, Jump(w, l, p),
             Fits(full, slice, author, sure, w, l, p)
      PROVE  AllFit'
  BY <1>1, FitOn DEF FitVars
<1>2. ASSUME UNCHANGED FitVars, NEW l, NEW p, Go(w, l, p),
             p \notin {"copy", "remove", "tx", "commit"}
      PROVE  AllFit'
  BY <1>1, <1>2 DEF Go, Fits, Relies
<1>3. ASSUME UNCHANGED FitVars, Finish(w)
      PROVE  AllFit'
  BY <1>2, <1>3 DEF Finish
<1>4. /\ Fits(full, slice, author, sure, w, loc[w], pc[w]) /\ loc[w] \in Local
      /\ Working(loc[w], pc[w])
  BY DEF AllFit, AllWorking, TypeOK, WorkersOK
<1>5. CASE Request(w)
  <2>1. UNCHANGED FitVars
    BY <1>5 DEF Request, ChunkRequest, SingleRequest, AccessRequest, StartChunk,
                ChunkArrives, MergeArrives, StartSingle, UploadArrives, Read,
                Delete, DeleteRepository, fileVars, histVars, FitVars
  <2>2. PICK l, p : /\ Arrive(w, l, p) /\ l.op \in Ops
                    /\ p \in {"repo", "chunkWrite", "check", "put"}
    BY <1>5, RequestShape
  <2> QED BY <1>1, <2>1, <2>2 DEF Arrive, Fits, Relies
<1>6. CASE Lookup(w)
  <2>1. UNCHANGED FitVars
    BY <1>6 DEF Lookup, RepoCached, RepoSelected, RepoMissing, FillRepo, ImageCached,
                ImageSelected, ImageMissing, FillImage, Conflict, fileVars, histVars,
                FitVars
  <2>2. ASSUME NEW l, Continue(w, l)
        PROVE  AllFit'
    BY <1>2, <1>3, <2>1, <2>2 DEF Continue, AfterImage
  <2> QED BY <1>2, <1>3, <1>6, <2>1, <2>2
          DEF Lookup, RepoCached, RepoSelected, RepoMissing, FillRepo, ImageCached,
              ImageSelected, ImageMissing, FillImage, Conflict
<1>7. ASSUME NEW always \in BOOLEAN, SaveRows(w, always) \/ SaveRejected(w, always)
      PROVE  AllFit'
  <2>1. UNCHANGED FitVars
    BY <1>7 DEF SaveRows, SaveRejected, fileVars, histVars, FitVars
  <2>2. CASE SaveRejected(w, always)
    BY <1>3, <2>1, <2>2 DEF SaveRejected
  <2>3. CASE SaveRows(w, always)
    <3>1. Jump(w, loc[w], "commit") /\ Relies(loc[w], pc[w])
      BY <2>3 DEF SaveRows, Go, Relies
    <3>2. Fits(full, slice, author, sure, w, loc[w], "commit")
      BY <1>4, <3>1 DEF Fits
    <3> QED BY <1>1, <2>1, <3>1, <3>2
  <2> QED BY <1>7, <2>2, <2>3
<1>8. CASE ChunkStep(w)
  <2>1. CASE WriteChunk(w)
    <3>1. PICK t \in Tags : t = loc[w].img.tag
      BY <2>1 DEF WriteChunk, TypeOK, WorkersOK, Resolved, UploadPC
    <3>2. /\ \A s \in Tags \ {t} : slice'[s] = slice[s]
          /\ full' = full /\ author' = author
          /\ sure' = {v \in sure : loc[v].img.tag # t}
          /\ Jump(w, loc[w], "chunkRecord")
      BY <2>1, <3>1 DEF WriteChunk, Go, TypeOK, SharedOK
    <3>3. ASSUME NEW v \in Workers \ {w}, pc[v] = "copy", v \in sure'
          PROVE  v \in sure /\ slice'[loc[v].img.tag] = slice[loc[v].img.tag]
      <4>1. loc[v].img.tag \in Tags
        BY <3>3, RelyTag
      <4> QED BY <3>2, <3>3, <4>1
    <3>4. Fits(full', slice', author', sure', w, loc[w], "chunkRecord")
      BY DEF Fits, Relies
    <3> QED BY <3>2, <3>3, <3>4, FitOn
  <2>2. CASE CopySlice(w)
    <3>1. PICK t \in Tags : t = loc[w].img.tag
      BY <2>2 DEF CopySlice, TypeOK, WorkersOK, Resolved, UploadPC
    <3>2. PICK a \in {w, Nobody} :
            Replaced(t, a) /\ (a = w => w \in sure)
      BY <2>2, <3>1, ConstantsAssumption DEF CopySlice
    <3>3. /\ \A s \in Tags \ {t} : full'[s] = full[s]
          /\ slice' = slice /\ sure' = sure \ {w} /\ full'[t] = slice[t]
          /\ slice[t] # NoFile /\ pc[w] = "copy" /\ Jump(w, loc[w], "remove")
      BY <2>2, <3>1 DEF CopySlice, Go, TypeOK, SharedOK
    <3>4. author'[t] = w => full'[t] = loc[w].img.digest
      <4>1. author'[t] = a
        BY <3>2 DEF Replaced, TypeOK, SharedOK
      <4> QED BY <1>4, <3>1, <3>2, <3>3, <4>1, ConstantsAssumption DEF Fits
    <3>5. Fits(full', slice', author', sure', w, loc[w], "remove")
      BY <3>1, <3>4 DEF Fits
    <3>6. ASSUME NEW v \in Workers \ {w}, Relies(loc[v], pc[v]),
                 author'[loc[v].img.tag] = v
          PROVE  /\ author[loc[v].img.tag] = v
                 /\ full'[loc[v].img.tag] = full[loc[v].img.tag]
      BY <3>2, <3>3, <3>6, ReplacedApart
    <3> QED BY <3>3, <3>5, <3>6, FitOn
  <2>3. CASE RemoveSlice(w)
    <3>1. PICK t \in Tags : t = loc[w].img.tag
      BY <2>3 DEF RemoveSlice, TypeOK, WorkersOK, Resolved, UploadPC
    <3>2. /\ slice' = [slice EXCEPT ![t] = NoFile]
          /\ full' = full /\ author' = author /\ sure' = sure /\ pc[w] = "remove"
          /\ Jump(w, loc[w], "tx") \/ Jump(w, NoLocal, "idle")
      BY <2>3, <3>1 DEF RemoveSlice, Finish, Go, histVars
    <3>3. \A s \in Tags : slice'[s] \in {slice[s], NoFile}
      BY <3>2 DEF TypeOK, SharedOK
    <3>4. ASSUME NEW v \in Workers \ {w}, pc[v] = "copy"
          PROVE  slice'[loc[v].img.tag] \in {slice[loc[v].img.tag], NoFile}
      BY <3>3, <3>4, RelyTag
    <3>5. Fits(full', slice', author', sure', w, loc[w], "tx")
      BY <1>4, <3>2 DEF Fits, Relies
    <3>6. Fits(full', slice', author', sure', w, NoLocal, "idle")
      BY DEF Fits, Relies
    <3> QED BY <3>2, <3>4, <3>5, <3>6, FitOn
  <2>4. CASE CheckDigest(w)
    <3> DEFINE l == [loc[w] EXCEPT !.img.digest = slice[loc[w].img.tag]]
    <3>1. l.img.digest = slice[loc[w].img.tag] /\ l.img.tag = loc[w].img.tag
      BY <1>4 DEF Local, Image
    <3>2. UNCHANGED <<full, slice, author>>
      BY <2>4 DEF CheckDigest, fileVars
    <3>3. \/ Go(w, l, "copy") /\ sure' = sure \cup {w}
          \/ Finish(w) /\ sure' = sure
      BY <2>4 DEF CheckDigest, l
    <3> HIDE DEF l
    <3>4. CASE Finish(w) /\ sure' = sure
      BY <1>3, <3>2, <3>4 DEF FitVars
    <3>5. CASE Go(w, l, "copy") /\ sure' = sure \cup {w}
      <4>1. Fits(full', slice', author', sure', w, l, "copy")
        BY <3>1, <3>2 DEF Fits, Relies
      <4>2. \A v \in Workers \ {w} : v \in sure' => v \in sure
        BY <3>5
      <4> QED BY <3>2, <3>5, <4>1, <4>2, FitOn DEF Go
    <3> QED BY <3>3, <3>4, <3>5
  <2>5. CASE SaveMerged(w)
    BY <1>7, <2>5 DEF SaveMerged
  <2>6. CASE \/ \E u \in Uploads : OpenChunked(w, u)
             \/ RecordChunk(w) \/ CheckSlices(w) \/ CopyFails(w)
             \/ CommitMerge(w) \/ LoseCommit(w) \/ DeleteKeys(w)
    <3>1. UNCHANGED FitVars
      BY <2>6 DEF OpenChunked, OpenSession, RecordChunk, CheckSlices, CopyFails,
                  CommitMerge, Install, Settle, LoseCommit, DeleteKeys, fileVars,
                  histVars, FitVars
    <3> QED BY <1>2, <1>3, <2>6, <3>1
            DEF OpenChunked, OpenSession, RecordChunk, CheckSlices, CopyFails,
                CommitMerge, LoseCommit, DeleteKeys
  <2> QED BY <1>8, <2>1, <2>2, <2>3, <2>4, <2>5, <2>6 DEF ChunkStep
<1>9. CASE SingleStep(w)
  <2>1. CASE PutFile(w)
    <3>1. PICK t \in Tags : t = loc[w].img.tag
      BY <2>1 DEF PutFile, TypeOK, WorkersOK, Resolved, UploadPC
    <3>2. /\ \A s \in Tags \ {t} : full'[s] = full[s]
          /\ slice' = slice /\ sure' = sure /\ Replaced(t, w)
          /\ Jump(w, loc[w], "verify")
      BY <2>1, <3>1 DEF PutFile, Go, TypeOK, SharedOK
    <3>3. Fits(full', slice', author', sure', w, loc[w], "verify")
      BY DEF Fits, Relies
    <3>4. ASSUME NEW v \in Workers \ {w}, Relies(loc[v], pc[v]),
                 author'[loc[v].img.tag] = v
          PROVE  /\ author[loc[v].img.tag] = v
                 /\ full'[loc[v].img.tag] = full[loc[v].img.tag]
      BY <3>2, <3>4, ReplacedApart
    <3> QED BY <3>2, <3>3, <3>4, FitOn
  <2>2. CASE VerifyFile(w)
    <3>1. UNCHANGED FitVars
      BY <2>2 DEF VerifyFile, fileVars, histVars, FitVars
    <3>2. CASE full[loc[w].img.tag] = loc[w].img.digest
      BY <1>1, <2>2, <3>1, <3>2 DEF VerifyFile, Go, Fits
    <3> QED BY <1>3, <2>2, <3>1, <3>2 DEF VerifyFile
  <2>3. CASE SaveUploaded(w)
    BY <1>7, <2>3 DEF SaveUploaded
  <2>4. CASE (\E u \in Uploads : OpenSingle(w, u)) \/ CommitUpload(w)
    <3>1. UNCHANGED FitVars
      BY <2>4 DEF OpenSingle, OpenSession, CommitUpload, Install, Settle, fileVars,
                  FitVars
    <3> QED BY <1>3, <2>4, <3>1 DEF OpenSingle, OpenSession, CommitUpload
  <2> QED BY <1>9, <2>1, <2>2, <2>3, <2>4 DEF SingleStep
<1>10. CASE AccessStep(w)
  <2>1. ASSUME NEW t \in Tags, NEW removed \in BOOLEAN, NEW l, NEW p, Go(w, l, p),
               p \in {"txImage", "files"}, UNCHANGED slice,
               IF removed THEN Unlink(t) ELSE UNCHANGED <<full, histVars>>
        PROVE  AllFit'
    <3>1. CASE removed
      <4>1. /\ \A s \in Tags \ {t} : full'[s] = full[s]
            /\ Replaced(t, Nobody) /\ sure' = sure
        BY <2>1, <3>1 DEF Unlink, TypeOK, SharedOK
      <4>2. Fits(full', slice', author', sure', w, l, p)
        BY <2>1 DEF Fits, Relies
      <4>3. ASSUME NEW v \in Workers \ {w}, Relies(loc[v], pc[v]),
                   author'[loc[v].img.tag] = v
            PROVE  /\ author[loc[v].img.tag] = v
                   /\ full'[loc[v].img.tag] = full[loc[v].img.tag]
        BY <4>1, <4>3, ReplacedApart
      <4> QED BY <2>1, <4>1, <4>2, <4>3, FitOn DEF Go
    <3>2. CASE ~removed
      BY <1>2, <2>1, <3>2 DEF histVars, FitVars
    <3> QED BY <3>1, <3>2
  <2>2. ASSUME NEW removed \in BOOLEAN, DeleteFile(w, removed)
        PROVE  AllFit'
    <3>1. loc[w].img.tag \in Tags
      BY <2>2 DEF DeleteFile, TypeOK, WorkersOK, Resolved
    <3> QED BY <2>1, <2>2, <3>1 DEF DeleteFile
  <2>3. ASSUME NEW removed \in BOOLEAN, DeleteFiles(w, removed)
        PROVE  AllFit'
    <3>1. loc[w].todo \subseteq Tags
      BY <1>4 DEF Local
    <3> QED BY <2>1, <2>3, <3>1 DEF DeleteFiles
  <2>4. ASSUME NEW listed \in BOOLEAN, ListImages(w, listed)
        PROVE  AllFit'
    BY <1>2, <2>4 DEF ListImages, fileVars, histVars, FitVars
  <2>5. CASE DeleteRow(w) \/ DeleteRows(w)
    <3>1. UNCHANGED FitVars /\ Jump(w, loc[w], "commit")
      BY <2>5 DEF DeleteRow, DeleteRows, Go, fileVars, histVars, FitVars
    <3>2. ~PutsImage(loc[w])
      BY <1>4, <2>5 DEF DeleteRow, DeleteRows, Working, PutsImage
    <3> QED BY <1>1, <3>1, <3>2 DEF Fits, Relies
  <2>6. CASE CommitDelete(w)
    BY <1>3, <2>6 DEF CommitDelete, Install, fileVars, histVars, FitVars
  <2> QED BY <1>10, <2>2, <2>3, <2>4, <2>5, <2>6 DEF AccessStep
<1>11. CASE Abort(w)
  BY <1>1, <1>11 DEF Abort, Fits, Relies, fileVars, histVars, FitVars
<1> QED BY <1>5, <1>6, <1>8, <1>9, <1>10, <1>11 DEF Step

-----------------------------------------------------------------------------
(* Transactions and rows *)

\* Whether the transaction of an upload stores a row for the image of l.
HasRowIn(images, repo, l) ==
  \E r \in images :
    /\ r.repoId = repo /\ r.tag = l.img.tag
    /\ IF l.img.imgId = 0 THEN l.img.repoId \in {0, repo} ELSE r.id = l.img.imgId

LEMMA StoresIs == \A w : Stores(w) <=> HasRowIn(tx.images, tx.repo, loc[w])
BY DEF Stores, HasRowIn

\* Of the repository it leaves, a transaction changes or adds no row but the
\* one it stores, which gets the digest of its image.
Brings(images, repo, l) ==
  \A r \in images : r.repoId = repo =>
    IF PutsImage(l) /\ r.tag = l.img.tag /\ HasRowIn(images, repo, l)
    THEN r.digest = l.img.digest
    ELSE r \in imageRows /\ repo = repoRow

TxFits ==
  /\ \A w \in Workers : tx.owner = w => pc[w] = "commit"
  /\ tx.owner # Nobody => Brings(tx.images, tx.repo, loc[tx.owner])

\* The inductive form of FileMatchesRow.
FileInv ==
  /\ TypeOK /\ IdsHaveTags /\ IdsUnique /\ KeysUnique /\ ReposPlaced
  /\ AllWorking /\ AllFit /\ TxFits /\ FileMatchesRow

LEMMA SaveFits ==
  ASSUME FileInv, KeysUnique', NEW w \in Workers, NEW always \in BOOLEAN,
         SaveRows(w, always), PutsImage(loc[w])
  PROVE  TxFits'
<1> DEFINE img == loc[w].img
           after == tx'.images
           repo == tx'.repo
<1> USE DEF FileInv
<1>1. /\ imageRows' = imageRows /\ repoRow' = repoRow /\ tx'.owner = w
      /\ Go(w, loc[w], "commit")
  BY DEF SaveRows
<1>2. loc'[w] = loc[w] /\ pc'[w] = "commit"
  BY <1>1 DEF Go, Jump, TypeOK, WorkersOK
<1>3. /\ repo = IF img.repoId = 0 THEN nextRepoId ELSE repoRow
      /\ img.imgId # 0 => img.repoId # 0
      /\ \A r \in imageRows : r.repoId # nextRepoId
  <2>1. Placed(nextRepoId, img.imgId, img.repoId)
    BY DEF ReposPlaced, WorkerPlaced
  <2>2. \A r \in imageRows : r.repoId < nextRepoId /\ r.repoId \in Nat
    BY DEF ReposPlaced, TypeOK, SharedOK, ImageRow
  <2>3. nextRepoId \in Nat
    BY DEF TypeOK, SharedOK
  <2>4. \A r \in imageRows : r.repoId # nextRepoId
    BY <2>2, <2>3
  <2> QED BY <2>1, <2>4 DEF SaveRows, Placed
<1>4. SameKey(after)
  BY DEF KeysUnique
<1>5. SUFFICES ASSUME NEW r \in after, r.repoId = repo
               PROVE  IF r.tag = img.tag /\ HasRowIn(after, repo, loc[w])
                      THEN r.digest = img.digest
                      ELSE r \in imageRows /\ repo = repoRow
  <2>1. \A v \in Workers : tx'.owner = v => pc'[v] = "commit"
    BY <1>1, <1>2
  <2>2. \A r \in after : r.repoId = repo =>
          IF PutsImage(loc[w]) /\ r.tag = img.tag /\ HasRowIn(after, repo, loc[w])
          THEN r.digest = img.digest ELSE r \in imageRows /\ repo = repoRow
    BY <1>5
  <2>3. Brings(tx.images, tx.repo, loc[w])'
    BY <1>1, <1>2, <2>2 DEF Brings
  <2> QED BY <1>1, <2>1, <2>3 DEF TxFits
<1>6. CASE img.imgId = 0
  <2> DEFINE new == [id |-> nextImageId, repoId |-> RepoIdFor(img), tag |-> img.tag,
                     digest |-> img.digest]
  <2>1. after = imageRows \cup {new}
    BY <1>6 DEF SaveRows
  <2>2. new.repoId = RepoIdFor(img) /\ new.tag = img.tag /\ new.digest = img.digest
    OBVIOUS
  <2>3. RepoIdFor(img) = IF img.repoId = 0 THEN nextRepoId ELSE img.repoId
    BY DEF RepoIdFor
  <2>4. \A s \in imageRows : ~(s.repoId = RepoIdFor(img) /\ s.tag = img.tag)
    BY <1>6 DEF SaveRows, ImageTaken
  <2>5. HasRowIn(after, repo, loc[w]) => img.repoId \in {0, repo}
    BY <1>6 DEF HasRowIn
  <2>6. new \in after /\ new.repoId = repo => HasRowIn(after, repo, loc[w])
    <3> HIDE DEF after, repo
    <3> QED BY <1>3, <1>6, <2>2, <2>3 DEF HasRowIn
  <2> HIDE DEF new, after, repo, img
  <2> QED BY <1>3, <1>5, <2>1, <2>2, <2>3, <2>4, <2>5, <2>6
<1>7. CASE img.imgId # 0
  <2>1. after = UpdateDigest(imageRows, img.imgId, img.digest)
    BY <1>7 DEF SaveRows
  <2>2. \A s \in imageRows : LET d == [s EXCEPT !.digest = img.digest]
          IN d.id = s.id /\ d.tag = s.tag /\ d.repoId = s.repoId /\ d.digest = img.digest
    BY DEF TypeOK, SharedOK, ImageRow
  <2>3. \A s \in after : IF s.id = img.imgId THEN s.digest = img.digest
                                             ELSE s \in imageRows
    BY <2>1, <2>2 DEF UpdateDigest
  <2>4. \A s \in after : \E o \in imageRows : s.id = o.id /\ s.tag = o.tag
    BY <2>1, <2>2 DEF UpdateDigest
  <2>5. \A o \in imageRows : o.id = img.imgId => o.tag = img.tag
    <3>1. PICK own \in IdTags : Agreed(own)
      BY DEF IdsHaveTags
    <3> QED BY <1>7, <3>1 DEF Agreed, RowsAgree, WorkersAgree, Agrees, Known
  <2>6. repo = repoRow
    BY <1>3, <1>7
  <2>7. CASE HasRowIn(after, repo, loc[w])
    <3>1. PICK o \in after : o.repoId = repo /\ o.tag = img.tag /\ o.id = img.imgId
      BY <1>7, <2>7 DEF HasRowIn
    <3>2. r.tag = img.tag => r = o
      BY <1>4, <1>5, <3>1 DEF SameKey
    <3>3. r.tag # img.tag => r.id # img.imgId
      BY <2>4, <2>5
    <3> HIDE DEF after, repo, img
    <3> QED BY <1>5, <2>3, <2>6, <2>7, <3>1, <3>2, <3>3
  <2>8. CASE ~HasRowIn(after, repo, loc[w])
    <3>1. r.id # img.imgId
      <4>1. r.id = img.imgId => r.tag = img.tag
        BY <2>4, <2>5
      <4> QED BY <1>5, <1>7, <2>8, <4>1 DEF HasRowIn
    <3> HIDE DEF after, repo, img
    <3> QED BY <1>5, <2>3, <2>6, <2>8, <3>1
  <2> QED BY <2>7, <2>8
<1> QED BY <1>6, <1>7

\* A delete brings no row at all.
LEMMA DeleteFits ==
  ASSUME FileInv, NEW w \in Workers, DeleteRow(w) \/ DeleteRows(w)
  PROVE  TxFits'
<1> USE DEF FileInv
<1>1. /\ imageRows' = imageRows /\ repoRow' = repoRow /\ tx'.owner = w
      /\ tx'.images \subseteq imageRows /\ tx'.repo \in {0, repoRow}
      /\ Go(w, loc[w], "commit") /\ pc[w] \in {"txImage", "files"}
  BY DEF DeleteRow, DeleteRows
<1>2. loc'[w] = loc[w] /\ pc'[w] = "commit"
  BY <1>1 DEF Go, Jump, TypeOK, WorkersOK
<1>3. ~PutsImage(loc[w])
  BY <1>1 DEF AllWorking, Working, PutsImage
<1>4. \A r \in imageRows : r.repoId # 0
  BY DEF ReposPlaced
<1>5. \A v \in Workers : tx'.owner = v => pc'[v] = "commit"
  BY <1>1, <1>2
<1> QED BY <1>1, <1>2, <1>3, <1>4, <1>5 DEF TxFits, Brings

LEMMA TxFitsStays ==
  ASSUME FileInv, KeysUnique', NEW w \in Workers, Request(w) \/ Step(w) \/ Abort(w)
  PROVE  TxFits'
<1> USE DEF FileInv
<1>1. ASSUME UNCHANGED <<repoRow, imageRows, tx>>, pc[w] # "commit" \/ tx.owner # w,
             NEW l, NEW p, Jump(w, l, p)
      PROVE  TxFits'
  <2>1. tx.owner # w
    BY <1>1 DEF TxFits
  <2>2. \A v \in Workers : tx.owner = v => loc'[v] = loc[v] /\ pc'[v] = pc[v]
    BY <1>1, <2>1 DEF Jump, TypeOK, WorkersOK
  <2>3. tx.owner \in Workers \cup {Nobody}
    BY DEF TypeOK, SharedOK, Tx
  <2> QED BY <1>1, <2>2, <2>3 DEF TxFits, Brings
<1>2. CASE tx' = NoTx
  BY <1>2, ConstantsAssumption DEF TxFits, NoTx
<1>3. CASE Install(w)
  BY <1>2, <1>3 DEF Install
<1>4. CASE DeleteRow(w) \/ DeleteRows(w)
  BY <1>4, DeleteFits
<1>5. CASE \E always \in BOOLEAN : SaveRows(w, always) /\ loc[w].op \in {"merge", "upload"}
  BY <1>5, SaveFits DEF PutsImage
<1> QED BY <1>1, <1>2, <1>3, <1>4, <1>5, DatabaseSteps, OnlyInstall

\* A commit settles the tag of its image, and a writer unsettles its tag
\* before it writes.
LEMMA FileMatchesRowStays ==
  ASSUME FileInv, NEW w \in Workers, Request(w) \/ Step(w) \/ Abort(w)
  PROVE  FileMatchesRow'
<1> USE DEF FileInv
<1>1. ASSUME UNCHANGED <<repoRow, imageRows, full, torn>>
      PROVE  FileMatchesRow'
  BY <1>1 DEF FileMatchesRow, Listed
<1>2. ASSUME UNCHANGED <<repoRow, imageRows>>, NEW t \in Tags, NEW a, Replaced(t, a),
             \A s \in Tags \ {t} : full'[s] = full[s]
      PROVE  FileMatchesRow'
  BY <1>2 DEF FileMatchesRow, Listed, Replaced
<1>3. ASSUME Install(w)
      PROVE  /\ full' = full /\ tx.owner = w /\ pc[w] = "commit"
             /\ repoRow' = tx.repo /\ imageRows' = tx.images
             /\ Brings(tx.images, tx.repo, loc[w])
  <2>1. tx.owner = w /\ tx.owner # Nobody
    BY <1>3, ConstantsAssumption DEF Install
  <2> QED BY <1>3, <2>1 DEF Install, fileVars, TxFits
<1>4. ASSUME Install(w), Settle(w), loc[w].op \in {"merge", "upload"}
      PROVE  FileMatchesRow'
  <2>1. PICK t \in Tags : t = loc[w].img.tag
    BY <1>4 DEF TypeOK, WorkersOK, Resolved, UploadOps
  <2>2. PutsImage(loc[w]) /\ (Stores(w) <=> HasRowIn(tx.images, tx.repo, loc[w]))
    BY <1>4, StoresIs DEF PutsImage
  <2>3. author[t] = w => full[t] = loc[w].img.digest
    BY <1>3, <1>4, <2>1, <2>2 DEF AllFit, Fits, Relies
  <2>4. torn' = IF ~Stores(w) THEN torn
                ELSE IF author[t] = w THEN torn \ {t} ELSE torn \cup {t}
    BY <1>4, <2>1 DEF Settle
  <2> SUFFICES ASSUME NEW s \in Tags, NEW r \in tx.images, tx.repo # 0,
                      r.repoId = tx.repo, r.tag = s, s \notin torn'
               PROVE  full[s] = r.digest
    BY <1>3, <1>4 DEF FileMatchesRow, Listed
  <2>5. CASE s = t /\ Stores(w)
    <3>1. author[t] = w
      BY <2>4, <2>5
    <3>2. r.digest = loc[w].img.digest
      BY <1>3, <1>4, <2>1, <2>2, <2>5 DEF Brings
    <3> QED BY <2>3, <2>5, <3>1, <3>2
  <2>6. CASE ~(s = t /\ Stores(w))
    <3>1. r \in imageRows /\ tx.repo = repoRow
      BY <1>3, <1>4, <2>1, <2>2, <2>6 DEF Brings
    <3>2. s \notin torn
      BY <2>4, <2>6
    <3> QED BY <3>1, <3>2 DEF FileMatchesRow, Listed
  <2> QED BY <2>5, <2>6
<1>5. CASE Request(w)
  BY <1>1, <1>5 DEF Request, ChunkRequest, SingleRequest, AccessRequest, StartChunk,
                    ChunkArrives, MergeArrives, StartSingle, UploadArrives, Read, Delete,
                    DeleteRepository, dbVars, fileVars, histVars
<1>6. CASE Lookup(w)
  BY <1>1, <1>6 DEF Lookup, RepoCached, RepoSelected, RepoMissing, FillRepo,
                    ImageCached, ImageSelected, ImageMissing, FillImage, Conflict,
                    dbVars, fileVars, histVars
<1>7. CASE ChunkStep(w)
  <2>1. CASE CopySlice(w)
    <3>1. PICK t \in Tags : t = loc[w].img.tag
      BY <2>1 DEF CopySlice, TypeOK, WorkersOK, Resolved, UploadPC
    <3>2. /\ \E a : Replaced(t, a)
          /\ UNCHANGED <<repoRow, imageRows>>
      BY <2>1, <3>1 DEF CopySlice, dbVars
    <3>3. \A s \in Tags \ {t} : full'[s] = full[s]
      BY <2>1, <3>1 DEF CopySlice, TypeOK, SharedOK
    <3> QED BY <1>2, <3>2, <3>3
  <2>2. CASE CommitMerge(w)
    BY <1>4, <2>2 DEF CommitMerge
  <2>3. CASE \/ \E u \in Uploads : OpenChunked(w, u)
             \/ WriteChunk(w) \/ RecordChunk(w) \/ CheckSlices(w) \/ CheckDigest(w)
             \/ RemoveSlice(w) \/ CopyFails(w) \/ SaveMerged(w)
             \/ LoseCommit(w) \/ DeleteKeys(w)
    BY <1>1, <2>3 DEF OpenChunked, OpenSession, WriteChunk, RecordChunk, CheckSlices,
                      CheckDigest, RemoveSlice, CopyFails, SaveMerged, SaveRows,
                      SaveRejected, LoseCommit, DeleteKeys, dbVars, fileVars, histVars
  <2> QED BY <1>7, <2>1, <2>2, <2>3 DEF ChunkStep
<1>8. CASE SingleStep(w)
  <2>1. CASE PutFile(w)
    <3>1. PICK t \in Tags : t = loc[w].img.tag
      BY <2>1 DEF PutFile, TypeOK, WorkersOK, Resolved, UploadPC
    <3>2. Replaced(t, w) /\ UNCHANGED <<repoRow, imageRows>>
      BY <2>1, <3>1 DEF PutFile, dbVars
    <3>3. \A s \in Tags \ {t} : full'[s] = full[s]
      BY <2>1, <3>1 DEF PutFile, TypeOK, SharedOK
    <3> QED BY <1>2, <3>2, <3>3
  <2>2. CASE CommitUpload(w)
    BY <1>4, <2>2 DEF CommitUpload
  <2>3. CASE \/ \E u \in Uploads : OpenSingle(w, u)
             \/ VerifyFile(w) \/ SaveUploaded(w)
    BY <1>1, <2>3 DEF OpenSingle, OpenSession, VerifyFile, SaveUploaded, SaveRows,
                      SaveRejected, dbVars, fileVars, histVars
  <2> QED BY <1>8, <2>1, <2>2, <2>3 DEF SingleStep
<1>9. CASE AccessStep(w)
  <2>1. ASSUME NEW t \in Tags, NEW removed \in BOOLEAN, UNCHANGED dbVars,
               IF removed THEN Unlink(t) ELSE UNCHANGED <<full, histVars>>
        PROVE  FileMatchesRow'
    <3>1. CASE removed
      <4>1. Replaced(t, Nobody) /\ \A s \in Tags \ {t} : full'[s] = full[s]
        BY <2>1, <3>1 DEF Unlink, TypeOK, SharedOK
      <4> QED BY <1>2, <2>1, <4>1 DEF dbVars
    <3>2. CASE ~removed
      BY <1>1, <2>1, <3>2 DEF dbVars, histVars
    <3> QED BY <3>1, <3>2
  <2>2. ASSUME NEW removed \in BOOLEAN, DeleteFile(w, removed)
        PROVE  FileMatchesRow'
    <3>1. loc[w].img.tag \in Tags
      BY <2>2 DEF DeleteFile, TypeOK, WorkersOK, Resolved
    <3> QED BY <2>1, <2>2, <3>1 DEF DeleteFile
  <2>3. ASSUME NEW removed \in BOOLEAN, DeleteFiles(w, removed)
        PROVE  FileMatchesRow'
    <3>1. loc[w].todo \subseteq Tags
      BY DEF TypeOK, WorkersOK, Local
    <3> QED BY <2>1, <2>3, <3>1 DEF DeleteFiles
  <2>4. ASSUME (\E listed \in BOOLEAN : ListImages(w, listed)) \/ DeleteRow(w) \/ DeleteRows(w)
        PROVE  FileMatchesRow'
    BY <1>1, <2>4 DEF ListImages, DeleteRow, DeleteRows, dbVars, fileVars, histVars
  <2>5. CASE CommitDelete(w)
    <3>1. ~PutsImage(loc[w]) /\ Install(w) /\ torn' = torn
      BY <2>5 DEF CommitDelete, PutsImage, histVars
    <3> QED BY <1>3, <3>1 DEF Brings, FileMatchesRow, Listed
  <2> QED BY <1>9, <2>2, <2>3, <2>4, <2>5 DEF AccessStep
<1>10. CASE Abort(w)
  BY <1>1, <1>10 DEF Abort, fileVars, histVars
<1> QED BY <1>5, <1>6, <1>7, <1>8, <1>9, <1>10 DEF Step

-----------------------------------------------------------------------------

\* The file of an image that can be found is the file that its row describes,
\* in any interleaving of uploads of both kinds, merges, deletes and failures,
\* unless another request came between the file and the commit of its row.
THEOREM FilesMatchRows == Spec => []FileMatchesRow
<1>1. Init => FileInv
  <2> SUFFICES ASSUME Init PROVE FileInv
    OBVIOUS
  <2>1. IdsUnique /\ KeysUnique
    BY DEF Init, NoTx, IdsUnique, SameId, KeysUnique, SameKey
  <2>2. ReposPlaced
    BY NoValuesPlaced
       DEF Init, ReposPlaced, NoTx, WorkerPlaced, NoLocal, Begin, NoSession,
           Announced, NoRow, Placed, BeforeImage
  <2>3. AllWorking /\ AllFit
    BY DEF Init, AllWorking, Working, AllFit, Fits, Relies
  <2>4. FileMatchesRow
    BY DEF Init, FileMatchesRow, Listed
  <2>5. TxFits
    BY ConstantsAssumption DEF Init, TxFits, NoTx
  <2> QED BY InitType, InitIdsHaveTags, <2>1, <2>2, <2>3, <2>4, <2>5 DEF FileInv
<1>2. FileInv /\ [Next]_vars => FileInv'
  <2> SUFFICES ASSUME FileInv, [Next]_vars PROVE FileInv'
    OBVIOUS
  <2> USE DEF FileInv
  <2>1. TypeOK' /\ IdsHaveTags'
    BY NextType, NextIdsHaveTags
  <2>2. ASSUME NEW w \in Workers, Request(w) \/ Step(w) \/ Abort(w)
        PROVE  FileInv'
    <3>1. IdsUnique' /\ KeysUnique'
      BY <2>2, IdsUniqueStay, KeysUniqueStay
    <3>2. ReposPlaced'
      BY <2>2, RequestPlaced, LookupPlaced, StepPlaced DEF Step
    <3>3. AllWorking' /\ AllFit'
      BY <2>2, AllWorkingStay, AllFitStay
    <3>4. TxFits' /\ FileMatchesRow'
      BY <2>2, <3>1, TxFitsStays, FileMatchesRowStays
    <3> QED BY <2>1, <3>1, <3>2, <3>3, <3>4
  <2>3. CASE Expire \/ UNCHANGED vars
    <3>1. UNCHANGED <<repoRow, imageRows, tx, nextRepoId, info, loc, pc, FitVars, torn>>
      BY <2>3 DEF Expire, ExpireRepo, ExpireImage, vars, dbVars, sessVars, fileVars,
                  histVars, FitVars
    <3>2. IdsUnique' /\ KeysUnique' /\ AllWorking'
      BY <3>1 DEF IdsUnique, KeysUnique, AllWorking
    <3>3. AllFit' /\ TxFits' /\ FileMatchesRow'
      BY <3>1 DEF FitVars, AllFit, TxFits, Brings, FileMatchesRow, Listed
    <3>4. ReposPlaced'
      BY <2>3, ExpiryPlaced
    <3> QED BY <2>1, <3>2, <3>3, <3>4
  <2> QED BY <2>2, <2>3 DEF Next, Quiet
<1>3. FileInv => FileMatchesRow
  BY DEF FileInv
<1> QED BY <1>1, <1>2, <1>3, PTL DEF Spec
=============================================================================

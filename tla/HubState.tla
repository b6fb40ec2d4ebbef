------------------------------ MODULE HubState ------------------------------
(***************************************************************************)
(* The state that the image endpoints of vmihub share, and the steps that  *)
(* every endpoint takes through internal/models:                           *)
(*                                                                         *)
(*   - the MySQL rows of ONE repository (username/name) and of its images; *)
(*   - the redis copies of those rows that internal/models keeps           *)
(*     (cache-aside, ten minutes of life);                                 *)
(*   - the blobs of the local store: the image file username/name:tag and  *)
(*     the slice file username/_slice_name:tag of every tag;               *)
(*   - the redis hashes of the upload sessions;                            *)
(*   - one worker per HTTP request in progress: where the handler stands   *)
(*     (pc) and the values it holds (loc).                                 *)
(*                                                                         *)
(* Two repositories share no row, no cache key and no file, so one         *)
(* repository is enough.  A step of a worker is one call to redis, MySQL   *)
(* or the store: other workers run between any two calls.                  *)
(***************************************************************************)
EXTENDS Integers, Sequences, FiniteSets

CONSTANTS
  Workers,      \* requests that can be in progress at the same time
  Uploads,      \* upload ids (uuids: never used twice)
  Tags,         \* image tags
  Payloads,     \* what one chunk of a file can hold
  Latest,       \* the default tag "" or "latest"
  Hole,         \* a chunk of a file that was skipped over and never written
  NoUpload,     \* no upload id
  Nobody,       \* no worker
  MaxChunks,    \* bound: chunks of an upload
  Budgets       \* bounds: how many requests to every endpoint and how many
                \* failures there may be; for reads, 0 for none and anything
                \* else for any number

\* The endpoints, and the failures of requests.
Ops    == {"startChunk", "chunk", "merge", "startSingle", "upload",
           "delete", "deleteRepo", "read"}
Events == Ops \cup {"abort"}

ASSUME ConstantsAssumption ==
  /\ Latest \notin Tags
  /\ NoUpload \notin Uploads
  /\ Nobody \notin Workers
  /\ Hole \notin Payloads
  /\ MaxChunks \in Nat \ {0}
  /\ Budgets \subseteq [Events -> Nat]

VARIABLES
  repoRow,      \* id of the row of table repository, 0 if there is none
  imageRows,    \* the rows of table image
  nextRepoId,   \* AUTO_INCREMENT counters
  nextImageId,
  tx,           \* the open transaction: its owner and what it will commit
  repoCache,    \* redis: id of the cached repository, 0 if none
  imgCache,     \* redis: the cached image of every tag, NoRow if none
  full,         \* store: content of the image file of every tag
  slice,        \* store: content of the slice file of every tag
  info,         \* redis: the hash /vmihub/chunk/info/<uploadID>
  chunks,       \* redis: the keys of the hash /vmihub/chunk/slice/<uploadID>
  ttl,          \* redis: does the info key carry a time to live?
  pc, loc,      \* the workers
  left,         \* what is left of the budget
  declared,     \* history: digest and force of the uploads started for a tag
  torn,         \* history: tags whose file is not the work of the last commit
  author,       \* history: the handler that wrote the file of a tag last
  sure          \* history: merges whose slice file is as they measured it

dbVars   == <<repoRow, imageRows, nextRepoId, nextImageId, tx>>
cacheVars == <<repoCache, imgCache>>
fileVars == <<full, slice>>
sessVars == <<info, chunks, ttl>>
histVars == <<declared, torn, author, sure>>
vars == <<dbVars, cacheVars, fileVars, sessVars, pc, loc, left, histVars>>

-----------------------------------------------------------------------------
(* Data *)

\* The content of a file, one cell per chunk.  A file that is not there has
\* no cell: no handler ever creates an empty file.  A digest stands for the
\* content it was computed from (SHA-256 taken as injective).
Cell    == Payloads \cup {Hole}
Content == Seq(Cell)
NoFile  == <<>>

ImageRow == [id : Nat, repoId : Nat, tag : Tags, digest : Content]
NoRow    == [id |-> 0, repoId |-> 0, tag |-> Latest, digest |-> <<>>]

\* What a session keeps: the models.Image that was marshalled into the hash
\* (tag, Repo.ID, ID, Digest) and the fields next to it (the digest of the
\* request, nChunks, force).  HGetAll of a missing key is an empty map, not
\* an error: the handler then works on zero values.
Image   == [kind : {"none", "chunk", "single"}, tag : Tags \cup {Latest},
            repoId : Nat, imgId : Nat, digest : Content,
            request : Content, n : Nat, force : BOOLEAN]
Session == {s \in Image : s.tag \in Tags}
\* The image of a request that starts an upload, before any look-up.
Announced(kind, t, d, n, f) ==
  [kind |-> kind, tag |-> t, repoId |-> 0, imgId |-> 0,
   digest |-> d, request |-> d, n |-> n, force |-> f]
NoSession == Announced("none", Latest, <<>>, 0, FALSE)

\* The local variables of a handler: the endpoint, the upload id, repo.ID of
\* the repository it looked up, the image it works on, the index and the
\* bytes of the request body, the files it still has to delete.
Local == [op : Ops \cup {"none"}, u : Uploads \cup {NoUpload}, repo : Nat,
          img : Image, idx : 0 .. MaxChunks - 1, data : Cell,
          todo : SUBSET Tags]
Begin(op, u, img, idx, d) ==
  [op |-> op, u |-> u, repo |-> 0, img |-> img, idx |-> idx, data |-> d, todo |-> {}]
NoLocal == Begin("none", NoUpload, NoSession, 0, Hole)

PC == {"idle",
       "repo", "fillRepo", "img", "fillImg",           \* look-up
       "session",                                      \* start an upload
       "chunkWrite", "chunkRecord",                    \* upload a chunk
       "check", "digest", "copy", "remove", "del",     \* merge
       "put", "verify",                                \* single upload
       "file", "files", "txImage",                     \* delete
       "tx", "commit"}                                 \* save and commit

\* What the start of an upload announces.
OfferOf(img) == [digest |-> img.request, force |-> img.force]

NoTx == [owner |-> Nobody, repo |-> 0, images |-> {}]

\* Only requests that look an image up can still work with the default tag.
UploadOps == {"startChunk", "chunk", "merge", "startSingle", "upload"}
UploadPC  == {"session", "chunkWrite", "chunkRecord", "check", "digest",
              "copy", "remove", "del", "put", "verify", "tx"}
Resolved(l, p) ==
  /\ p \in UploadPC => l.op \in UploadOps
  /\ l.op \in UploadOps \/ p \in {"fillImg", "file", "txImage"} => l.img.tag \in Tags

WorkerOK(l, p) == l \in Local /\ p \in PC /\ Resolved(l, p)
Tx    == [owner : Workers \cup {Nobody}, repo : Nat, images : SUBSET ImageRow]
Offer == [digest : Content, force : BOOLEAN]

SharedOK ==
  /\ repoRow \in Nat /\ nextRepoId \in Nat \ {0}
  /\ imageRows \subseteq ImageRow /\ nextImageId \in Nat \ {0}
  /\ tx \in Tx
  /\ repoCache \in Nat
  /\ imgCache \in [Tags -> ImageRow \cup {NoRow}]
  /\ full \in [Tags -> Content] /\ slice \in [Tags -> Content]
  /\ info \in [Uploads -> Session \cup {NoSession}]
  /\ chunks \in [Uploads -> SUBSET (0 .. MaxChunks - 1)]
  /\ ttl \in [Uploads -> BOOLEAN]
  /\ declared \in [Tags -> SUBSET Offer] /\ torn \subseteq Tags
  /\ author \in [Tags -> Workers \cup {Nobody}] /\ sure \subseteq Workers

WorkersOK ==
  /\ pc \in [Workers -> PC] /\ loc \in [Workers -> Local]
  /\ \A w \in Workers : Resolved(loc[w], pc[w])

TypeOK == SharedOK /\ WorkersOK /\ left \in [Events -> Nat]

Init ==
  /\ repoRow = 0 /\ nextRepoId = 1
  /\ imageRows = {} /\ nextImageId = 1
  /\ tx = NoTx
  /\ repoCache = 0
  /\ imgCache = [t \in Tags |-> NoRow]
  /\ full = [t \in Tags |-> NoFile] /\ slice = [t \in Tags |-> NoFile]
  /\ info = [u \in Uploads |-> NoSession]
  /\ chunks = [u \in Uploads |-> {}]
  /\ ttl = [u \in Uploads |-> FALSE]
  /\ pc = [w \in Workers |-> "idle"] /\ loc = [w \in Workers |-> NoLocal]
  /\ left \in Budgets
  /\ declared = [t \in Tags |-> {}] /\ torn = {}
  /\ author = [t \in Tags |-> Nobody] /\ sure = {}

-----------------------------------------------------------------------------
(* Control of a worker *)

\* w goes on with local variables l at p.
Jump(w, l, p) ==
  /\ loc' = [loc EXCEPT ![w] = l]
  /\ pc' = [pc EXCEPT ![w] = p]

Go(w, l, p) == Jump(w, l, p) /\ UNCHANGED left

\* The handler of w answers and is gone.
Finish(w) == Go(w, NoLocal, "idle")

\* Reads change nothing but the cache: they need no bound.
Spend(event) ==
  /\ left[event] > 0
  /\ left' = IF event = "read" THEN left ELSE [left EXCEPT ![event] = @ - 1]

\* A request for an endpoint arrives.
Arrive(w, l, p) ==
  /\ pc[w] = "idle"
  /\ Spend(l.op)
  /\ Jump(w, l, p)

IsStart(op) == op \in {"startChunk", "startSingle"}

\* The request fails where it stands: a call to redis, MySQL or the store
\* returns an error and the handler answers 4xx/5xx, or the process dies.
\* An open transaction is rolled back; nothing else is undone.
Abort(w) ==
  /\ pc[w] # "idle"
  /\ tx' = IF tx.owner = w THEN NoTx ELSE tx
  /\ Spend("abort") /\ Jump(w, NoLocal, "idle")
  /\ UNCHANGED <<repoRow, imageRows, nextRepoId, nextImageId,
                 cacheVars, fileVars, sessVars, histVars>>

-----------------------------------------------------------------------------
(* Look-up: models.QueryRepo, then Repository.GetImage *)

\* The image that w works on becomes the stored (or cached) image row.
Holding(l, row) == [l EXCEPT !.img.tag = row.tag, !.img.repoId = row.repoId,
                             !.img.imgId = row.id, !.img.digest = row.digest]

HeldRow(l) == [id |-> l.img.imgId, repoId |-> l.img.repoId, tag |-> l.img.tag,
               digest |-> l.img.digest]

\* Mutant: a hit renews the copy.
RepoCached_Renewed(w) ==
  /\ pc[w] = "repo" /\ repoCache # 0
  /\ Go(w, [loc[w] EXCEPT !.repo = repoCache], "fillRepo")
  /\ UNCHANGED <<dbVars, cacheVars, fileVars, sessVars, histVars>>

RepoCached(w) ==
  /\ pc[w] = "repo" /\ repoCache # 0
  /\ Go(w, [loc[w] EXCEPT !.repo = repoCache], "img")
  /\ UNCHANGED <<dbVars, cacheVars, fileVars, sessVars, histVars>>

RepoSelected(w) ==
  /\ pc[w] = "repo" /\ repoCache = 0 /\ repoRow # 0
  /\ Go(w, [loc[w] EXCEPT !.repo = repoRow], "fillRepo")
  /\ UNCHANGED <<dbVars, cacheVars, fileVars, sessVars, histVars>>

\* An upload may create the repository; every other endpoint answers 404.
RepoMissing(w) ==
  /\ pc[w] = "repo" /\ repoCache = 0 /\ repoRow = 0
  /\ IF IsStart(loc[w].op) THEN Go(w, loc[w], "session") ELSE Finish(w)
  /\ UNCHANGED <<dbVars, cacheVars, fileVars, sessVars, histVars>>

FillRepo(w) ==
  /\ pc[w] = "fillRepo"
  /\ repoCache' = loc[w].repo
  /\ Go(w, loc[w], "img")
  /\ UNCHANGED <<dbVars, imgCache, fileVars, sessVars, histVars>>

\* The row that GetImage selects, as a set of at most one row.  The default
\* tag means the newest image: ORDER BY created_at, which follows the ids.
Selected(repo, tag) ==
  LET mine == {r \in imageRows : r.repoId = repo}
  IN IF tag = Latest THEN {r \in mine : \A s \in mine : s.id <= r.id}
                     ELSE {r \in mine : r.tag = tag}

\* Only a named tag is looked up in redis.
CacheHit(tag) == tag # Latest /\ imgCache[tag] # NoRow

AfterImage(l) == IF IsStart(l.op) THEN "session"
                 ELSE IF l.op = "delete" THEN "file" ELSE "idle"

Continue(w, l) == IF AfterImage(l) = "idle" THEN Finish(w)
                                            ELSE Go(w, l, AfterImage(l))

GetsImage(w) == pc[w] = "img" /\ loc[w].op # "deleteRepo"

ImageCached(w) ==
  /\ GetsImage(w) /\ CacheHit(loc[w].img.tag)
  /\ Continue(w, Holding(loc[w], imgCache[loc[w].img.tag]))
  /\ UNCHANGED <<dbVars, cacheVars, fileVars, sessVars, histVars>>

\* Mutant: the SELECT forgets the tag.
ImageSelected_AnyTag(w) ==
  /\ GetsImage(w) /\ ~CacheHit(loc[w].img.tag)
  /\ \E row \in Selected(loc[w].repo, Latest) :
       Go(w, [Holding(loc[w], row) EXCEPT !.img.tag = loc[w].img.tag], "fillImg")
  /\ UNCHANGED <<dbVars, cacheVars, fileVars, sessVars, histVars>>

ImageSelected(w) ==
  /\ GetsImage(w) /\ ~CacheHit(loc[w].img.tag)
  /\ \E row \in Selected(loc[w].repo, loc[w].img.tag) :
       Go(w, Holding(loc[w], row), "fillImg")
  /\ UNCHANGED <<dbVars, cacheVars, fileVars, sessVars, histVars>>

\* The image of an upload is a new one of the repository looked up.
ImageMissing(w) ==
  /\ GetsImage(w) /\ ~CacheHit(loc[w].img.tag)
  /\ Selected(loc[w].repo, loc[w].img.tag) = {}
  /\ IF IsStart(loc[w].op)
     THEN Go(w, [loc[w] EXCEPT !.img.repoId = loc[w].repo], "session")
     ELSE Finish(w)
  /\ UNCHANGED <<dbVars, cacheVars, fileVars, sessVars, histVars>>

\* The copy goes under the tag of the row, whatever tag was asked for.
FillImage(w) ==
  /\ pc[w] = "fillImg"
  /\ imgCache' = [imgCache EXCEPT ![loc[w].img.tag] = HeldRow(loc[w])]
  /\ Continue(w, loc[w])
  /\ UNCHANGED <<dbVars, repoCache, fileVars, sessVars, histVars>>

\* 409: the image exists and the request does not force.
Conflict(w) ==
  /\ pc[w] = "session"
  /\ loc[w].img.imgId # 0 /\ ~loc[w].img.force
  /\ Finish(w)
  /\ UNCHANGED <<dbVars, cacheVars, fileVars, sessVars, histVars>>

Lookup(w) ==
  \/ RepoCached(w) \/ RepoSelected(w) \/ RepoMissing(w) \/ FillRepo(w)
  \/ ImageCached(w) \/ ImageSelected(w) \/ ImageMissing(w) \/ FillImage(w)
  \/ Conflict(w)

\* Mutant: the 409 is missing.
OpenSession_NoConflict(w, u, expires) ==
  /\ pc[w] = "session"
  /\ info[u] = NoSession /\ chunks[u] = {}
  /\ \A v \in Workers : loc[v].u # u
  /\ ttl' = [ttl EXCEPT ![u] = expires]
  /\ info' = [info EXCEPT ![u] = loc[w].img]
  /\ declared' = [declared EXCEPT ![loc[w].img.tag] = @ \cup {OfferOf(loc[w].img)}]
  /\ Finish(w)
  /\ UNCHANGED <<dbVars, cacheVars, fileVars, chunks, torn, author, sure>>

\* The session of an upload: the hash is written under a new id, with a time
\* to live or without.  An id of which redis and the handlers know nothing
\* any more stands for a new one.
OpenSession(w, u, expires) ==
  /\ pc[w] = "session"
  /\ loc[w].img.imgId = 0 \/ loc[w].img.force
  /\ info[u] = NoSession /\ chunks[u] = {}
  /\ \A v \in Workers : loc[v].u # u
  /\ ttl' = [ttl EXCEPT ![u] = expires]
  /\ info' = [info EXCEPT ![u] = loc[w].img]
  /\ declared' = [declared EXCEPT ![loc[w].img.tag] = @ \cup {OfferOf(loc[w].img)}]
  /\ Finish(w)
  /\ UNCHANGED <<dbVars, cacheVars, fileVars, chunks, torn, author, sure>>

\* The ten minutes of a cached copy are over.
ExpireRepo ==
  /\ repoCache # 0
  /\ repoCache' = 0
  /\ UNCHANGED <<dbVars, imgCache, fileVars, sessVars, pc, loc, left, histVars>>

ExpireImage(t) ==
  /\ imgCache[t] # NoRow
  /\ imgCache' = [imgCache EXCEPT ![t] = NoRow]
  /\ UNCHANGED <<dbVars, repoCache, fileVars, sessVars, pc, loc, left, histVars>>

-----------------------------------------------------------------------------
(* Transactions: Repository.Save, Repository.SaveImage, Commit *)

\* Two transactions on one repository meet on its row and unique-key locks,
\* so one at a time is open; tx holds the rows its commit will install.
\* The copies in redis are deleted while the transaction is still open, and
\* the error of a DEL that fails is ignored.
ForgetRepo == repoCache' \in {0, repoCache}
ForgetImage(t) == imgCache' \in {[imgCache EXCEPT ![t] = NoRow], imgCache}

UpdateDigest(rows, id, d) ==
  {IF r.id = id THEN [r EXCEPT !.digest = d] ELSE r : r \in rows}

\* Mutant: no unique key on username and name.
RepoTaken_Never(img) == FALSE

\* A new repository is inserted by an image whose Repo has no ID.
RepoTaken(img) == img.repoId = 0 /\ repoRow # 0
RepoIdFor(img) == IF img.repoId = 0 THEN nextRepoId ELSE img.repoId
ImageTaken(img) ==
  /\ img.imgId = 0
  /\ \E r \in imageRows : r.repoId = RepoIdFor(img) /\ r.tag = img.tag

\* Begin, Save (always, or only for a new repository) and SaveImage.
SaveRows(w, alwaysSave) ==
  LET img   == loc[w].img
      saves == alwaysSave \/ img.repoId = 0
      new   == [id |-> nextImageId, repoId |-> RepoIdFor(img), tag |-> img.tag,
                digest |-> img.digest]
  IN /\ pc[w] = "tx" /\ tx.owner = Nobody
     /\ ~RepoTaken(img) /\ ~ImageTaken(img)
     /\ tx' = [owner  |-> w,
               repo   |-> IF img.repoId = 0 THEN nextRepoId ELSE repoRow,
               images |-> IF img.imgId = 0 THEN imageRows \cup {new}
                          ELSE UpdateDigest(imageRows, img.imgId, img.digest)]
     /\ nextRepoId' = IF img.repoId = 0 THEN nextRepoId + 1 ELSE nextRepoId
     /\ nextImageId' = IF img.imgId = 0 THEN nextImageId + 1 ELSE nextImageId
     /\ IF saves THEN ForgetRepo ELSE UNCHANGED repoCache
     /\ ForgetImage(img.tag)
     /\ Go(w, loc[w], "commit")
     /\ UNCHANGED <<repoRow, imageRows, fileVars, sessVars, histVars>>

\* A unique key is taken: rolled back, but the redis copy of the repository
\* that Save has deleted stays deleted.
SaveRejected(w, alwaysSave) ==
  LET img == loc[w].img IN
  /\ pc[w] = "tx" /\ tx.owner = Nobody
  /\ RepoTaken(img) \/ ImageTaken(img)
  /\ IF alwaysSave /\ img.repoId # 0 THEN ForgetRepo ELSE UNCHANGED repoCache
  /\ Finish(w)
  /\ UNCHANGED <<dbVars, imgCache, fileVars, sessVars, histVars>>

\* Commit of the transaction of w; where w goes on is up to its handler.
Install(w) ==
  /\ pc[w] = "commit" /\ tx.owner = w
  /\ repoRow' = tx.repo /\ imageRows' = tx.images
  /\ tx' = NoTx
  /\ UNCHANGED <<nextRepoId, nextImageId, cacheVars, fileVars, sessVars>>

-----------------------------------------------------------------------------
(* History: whose file it is *)

\* w writes the image file of t, or Nobody does whose digest it will be.
Replaced(t, w) ==
  /\ torn' = torn \cup {t}
  /\ author' = [author EXCEPT ![t] = w]

\* The commit of an upload stores a row for the image: the one it inserted,
\* or the one with its id, unless that is gone.
Stores(w) ==
  LET img == loc[w].img
  IN \E r \in tx.images :
       /\ r.repoId = tx.repo /\ r.tag = img.tag
       /\ IF img.imgId = 0 THEN img.repoId \in {0, tx.repo} ELSE r.id = img.imgId

\* The row that w commits is about the file, if w was the last to write it.
Settle(w) ==
  LET t == loc[w].img.tag
  IN /\ torn' = IF ~Stores(w) THEN torn
                ELSE IF author[t] = w THEN torn \ {t} ELSE torn \cup {t}
     /\ UNCHANGED <<declared, author, sure>>
=============================================================================

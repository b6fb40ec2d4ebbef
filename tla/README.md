# vmihub: TLA+ models, model checks and proofs

vmihub stores images of virtual machines.  A Go service (`src/internal`, `src/cmd`)
keeps users, repositories and images in MySQL, copies of hot rows and the state of
uploads in redis, and the files in a local directory or in S3.  A Go client
(`src/client`) pushes and pulls images and keeps a local copy of them.

This project models both: the uploads, merges, look-ups and deletes of images with every
call to redis, MySQL and the store a step of its own; the S3 store; the pool that writes a
large file; users, sessions and tokens; the redis lock and its retry task; the lists; the
ranges of chunks; and the client's push, pull and local store.

## 1. Inventory

| component | code | state | operations | what makes it hard, what makes it correct |
|---|---|---|---|---|
| chunked upload API | `internal/api/image/chunk.go`, `util.go`, `internal/common/image.go` | none of its own: a handler holds what it has read from redis, MySQL and the store | start, upload a chunk, merge, download a chunk | a merge makes ten calls to three systems with no lock; all sessions of a tag write one slice file; what was checked when the session started is never checked again. Rows must stay truthful about what was announced, change only by force, and have a file |
| single upload API | `internal/api/image/image.go` 280-525, 625-895 | as above | start, upload a body or a URL | the file in place is overwritten, then verified, then the row is saved; the id can be used again; above 4 GiB a pool of workers writes chunks |
| image read and delete API | `internal/api/image/image.go` | as above | info, download, delete an image, delete a repository, lists | file first, row second, errors of the first only logged; the delete of a repository goes on after errors; pages of a list are queries of their own |
| repository and image models | `internal/models/image.go`, the migration | tables `repository`, `image` (unique keys), copies in redis for ten minutes | QueryRepo, GetImage, GetImages, Save, SaveImage, Delete, DeleteImage | cache-aside: a copy may be put back while the row changes. A stale copy must do no lasting harm and must go away |
| local storage | `internal/storage/local/local.go` | one file per image, one slice file per tag | Put, ChunkWrite, Copy, Move, Delete, GetDigest | no file is written atomically; Move is copy and remove |
| S3 storage | `internal/storage/s3/s3.go` | objects; one multipart upload per session | the same interface | parts are completed in the order of a map; the slice object is shared by all sessions of a tag and a large one is copied range by range. An object must be a whole file of one session, and a failed chunk must leave the session usable |
| upload sessions | redis, written by both upload APIs | an info hash and a slice hash per upload id | create, read, extend, delete | time to live; `HGetAll` of a missing key is an empty map |
| per-image lock | `internal/utils/redis.go` | a redis key | lock, unlock | no handler takes it. It expires under its holder, and its unlock is retried: neither may free the mutex of the next holder |
| user and token models | `internal/models/user.go` | tables `user`, `private_token`; two copies of a user in redis, by name and by id | look-ups, Update, UpdatePwd, tokens | cache-aside with two keys; Update writes both columns from what may be an old copy. A replaced password must not come back |
| user API and authentication | `internal/api/user`, `internal/common`, `internal/middlewares` | cookie sessions in redis, web tokens at the clients | login, logout, refresh, change or reset a password, private tokens, Authenticate | four credentials that end at different times; a token is selected, then deleted |
| retry task | `internal/utils/retry.go` | attempts, interval | Run, Stop | a cancellation races a timer |
| names, tags, digests | `internal/utils/image.go`, `pkg/utils` | none | NormalizeTag, ParseImageName | string formatting |
| client push and pull | `client/image` | results, retries, the local file | push in chunks, pull, download in chunks | a pool of goroutines over a channel that is closed early; retries of chunks that may have been stored; the hub may replace an image between two requests |
| client metadata database | `client/types/image.go` | a bolt bucket and the files of a directory | load, remove, copy | file and record change one after the other; a crash may come between |
| server process, middlewares, validators, ids, mocks, generated docs | `cmd`, `config`, `internal/...` | configuration | start-up, routing, logging | nothing that these properties depend on |

Interactions.  Every HTTP request is a goroutine.  A handler looks the repository up
(redis, then MySQL, then a copy into redis), the image (the same), then calls redis,
the store and MySQL in an order of its own.  There is no lock in the service: what
keeps two requests apart is the unique keys and row locks of MySQL.  Requests of one
upload meet in its two redis hashes; requests of one tag meet in the slice file, the
image file, the row and its copy in redis.  Requests of one user meet in the user's row and
its two copies, and in the private tokens.  The client talks to the hub request by request:
a push is one upload session, a pull one look-up and as many downloads as there are chunks,
with nothing that holds the image still in between.

The hazards that follow from this are listed in `PROJECT.json`, each at its line with
the properties that would catch it; those without a property name what is missing.

## 2. Modules

```
HubState        state, look-up, sessions, transactions: what all handlers share
 |- ChunkUpload     StartImageChunkUpload, UploadImageChunk, MergeChunk
 |- SingleUpload    StartImageUpload, UploadImage
 '- ImageAccess     GetImageInfo/DownloadImage, DeleteImage, DeleteRepository
      '- ImageHub       all endpoints together; fairness; the properties
           |- MCHub      instances for TLC
           '- HubProofs  theorems checked by TLAPS: types, files, ids and
                         digests of rows, replacement by force, the catalog
Catalog         the abstract specification that ImageHub is checked to implement

S3Upload        the chunked upload over the other store            S3Proofs
DataWrite       how one upload reaches the store: from a URL or a body, in one Put or
                from a pool of goroutines                          WriteProofs
ChunkRanges     the six places where code cuts an image into pieces, in bytes
Listing         the paged list of repositories and the default tag, under writes
                                                                   ListProofs
UserCache       a user's row and its two copies                    UserProofs
Sessions        cookie sessions, web tokens, private tokens        SessionProofs
RedisLock       the mutex, and RetryTask as its unlock             LockProofs
ClientPush      one push: caller, goroutines, channel, retries
ClientStore     the client's file and record, Pull, crashes
 '- MCTransfers     these two and ChunkRanges, side by side       TransferProofs
```

The second group composes with the first by what it takes from it: `ClientPush` and
`ClientStore` model the hub by what it answers, which `ImageHub` shows it does;
`S3Upload` replaces the local store of `ChunkUpload`; `DataWrite` is the inside of the step
`PutFile` of `SingleUpload`; `Sessions` takes the look-up of the user from `UserCache`.
`MC...` modules hold the instances for TLC; modules without one have a configuration of
plain values.  `MCTransfers` puts the three modules of an image on its way between client
and hub side by side: a behaviour is one push, a row of pulls, or one job that cuts an
image into pieces.

### State and actions of the image service

| variable | stands for |
|---|---|
| `repoRow`, `imageRows`, `nextRepoId`, `nextImageId` | the rows of one repository and of its images, the AUTO_INCREMENT counters |
| `tx` | the open transaction: its owner and the rows its commit installs |
| `repoCache`, `imgCache` | the copies in redis |
| `full`, `slice` | the image file and the slice file of every tag: one cell per chunk |
| `info`, `chunks`, `ttl` | the two hashes of every upload id, and whether the first one expires |
| `pc`, `loc` | every request in progress: its next call, and its local variables |
| `left` | the bound of the model: requests and failures that may still come |
| `declared`, `torn`, `author`, `sure` | history, for properties only: what was announced for a tag when an upload was started; tags whose file is not the work of the last commit; the handler that wrote the file of a tag last; merges whose slice file is still as they measured it |

One action per call to redis, MySQL or the store; a request is the sequence of them that
its handler makes, and any other request runs between two of them.

| code | actions |
|---|---|
| `QueryRepo`, `GetImage` (every handler) | `RepoCached`, `RepoSelected`, `RepoMissing`, `FillRepo`, `ImageCached`, `ImageSelected`, `ImageMissing`, `FillImage`, `Conflict` (409) |
| `StartImageChunkUpload` | `StartChunk`, look-up, `OpenChunked` |
| `UploadImageChunk` | `ChunkArrives`, `WriteChunk`, `RecordChunk` |
| `MergeChunk` | `MergeArrives`, `CheckSlices`, `CheckDigest`, `CopySlice`, `RemoveSlice` or `CopyFails`, `SaveMerged`, `CommitMerge` or `LoseCommit`, `DeleteKeys` |
| `StartImageUpload`, `UploadImage` | `StartSingle`, look-up, `OpenSingle`; `UploadArrives`, `PutFile`, `VerifyFile`, `SaveUploaded`, `CommitUpload` |
| `GetImageInfo`, `DownloadImage` | `Read`, look-up |
| `DeleteImage`, `DeleteRepository` | `Delete`, look-up, `DeleteFile`, `DeleteRow`, `CommitDelete`; `DeleteRepository`, look-up, `ListImages`, `DeleteFiles`, `DeleteRows`, `CommitDelete` |
| redis | `ExpireRepo`, `ExpireImage` |
| an error of any call, or the end of the process | `Abort` |

### The other modules

| module | state | code and its actions |
|---|---|---|
| `S3Upload` | `info`, `list` (redis), `open`, `parts`, `slice`, `full` (S3), `row`; the workers | `StartImageChunkUpload`: `CreateChunkWrite`, `OpenSession`; `UploadImageChunk`: `ChunkArrives`, `ChunkWrite` or `PartFails`, `Record`; `MergeChunk`: `MergeArrives`, `CompleteChunkWrite`, `GetDigest`, `HeadObject`, `CopyObject` or `CopyPart`/`CompleteCopy`, `DeleteSlice`, `SaveImage`, `DeleteSession` |
| `DataWrite` | one request, its `temp` file, `object`, `parts`, the goroutines `running`, `failed`, `saved` | `processRemoteImageFile`: `Fetch`, `Check`; `writeSingleFile`: `PutSmall`; `writeSingleFileWithChunk`: `StartChunks`, `Submit`, `WaitAll`, `Errors`, `CompleteChunks`, per goroutine `OpenTemp`, `WriteChunk`, `WriteFails`; `SaveImage`, `Return` |
| `ChunkRanges` | a `job` (who cuts what, with which sizes), the `pieces` so far | `pushWithChunk`, `downloadWithChunk` with `DownloadImageChunk`, `PutWithChunk`, `Move` of S3, `writeSingleFileWithChunk`: one step per piece, computed as the code computes it, with the width of an integer and with what `humanize` does to a size |
| `Listing` | `repos`, `images` with their times, a reader with its page and what it was given | writes: `Push`, `Overwrite`, `SetPrivate`, `Delete`, `DeleteRepo`; `ListRepositories`: `List`, `SelectRows`, `NextPage`; `GetImage` of the default tag: `GetLatest` |
| `UserCache` | `row`, `tx`, `cached` (two copies), the workers | `GetUser`, `GetUserByID`: `Get`, `Select`, `Fill`; `CheckAndGetUser`: `Compare`; `Update`, `Commit`; `UpdatePwd`; `deleteUserInRedis`: `DeleteCopies`; `Expire` |
| `Sessions` | the clock, `session` per client, `issued` pairs of web tokens, `tokens` | `LoginUser`, `GetUserToken`, `UpdateUser`: `...Arrives`, `Save`; `LogoutUser`; `RefreshToken`; `changePwd`: `ChangePwdArrives`, `DropSession`; `CreatePrivateToken`: `CreateArrives`, `Insert` or `LoseInsert`; `DeletePrivateToken`: `DeleteArrives`, `SelectToken`, `Remove` or `LoseRemove`; `Authenticate` is the guard `Authenticated` |
| `RedisLock` | the key, the callers, their contexts, timers, iterations | `LockRedisKey`: `Lock`, `Unlock`; `RetryTask.Run`: `Abort`, `Attempt`, `Timer`, `GiveUp`; `Expire` |
| `ClientPush` | caller, goroutines (`task`), `results` (the channel), `retries`, what the hub has | `pushWithChunk`: `StartChunks`, `Submit`, `Collect`, `Resubmit`, `Merge`; `Send`, `Answer`, `PutResult`; `Upload`; `Expire` of the session |
| `ClientStore` | `file`, `record`, `pieces`, `slice` on the disk, the pull in progress, what the hub has | `Pull`: `NewImage`, `GetInfo`, `Cached`, `Request`, `Verify`; `CopyFile`: `OpenFile`, `Copy`, `Update`; `downloadWithChunk`: `GetChunk`, `GiveUp`, `Collect`, `MergeSlice`, `CopyFrom`, `CleanSlice`; `RemoveImage`: `Forget`, `RemoveFile`; `Crash`, `Replace` |

### Abstractions

- One repository.  Two repositories share no row, no cache key and no file.
- The content of a file is a sequence of chunks; a digest is the content it was taken of
  (SHA-256 taken as injective).  The sessions of one tag use one chunk size.  Every
  declared content repeats one payload: what the properties tell apart is whether bytes
  of two uploads mix, and in which chunk.
- Writing one file is one step: no other call sees half of `io.Copy`.  What comes after
  it (removing the slice file, verifying the file in place) are steps of their own.
- Upload ids are uuids.  An id that is in no hash and in no handler stands for a new one.
- Two transactions on the repository meet on the locks of its row and unique keys, so at
  most one is open; the copies in redis are deleted while it is open, and that may fail
  unnoticed (`ForgetRepo`, `ForgetImage`).
- `created_at` follows the ids.  The default tag is the newest row.  Two rows of one
  second are a listed hazard.
- A request that is refused before it changes anything (no permission, bad parameters, an
  unknown upload id) is no step.  Permissions, labels, sizes, the private flag and the
  snapshot column are left out: nothing here depends on them.
- The modules of the image service use the local store; `S3Upload` has the other one.  It
  reads the two hashes of a session in one step: a session that expires between the two is
  in `ChunkUpload`.  What S3 itself does is external: a part replaces the one of its number, an
  upload is completed with ascending part numbers and the tags of the parts it holds.
- `Sessions`: a client waits for an answer before it sends the next request; two clients
  overlap freely.  Several requests of one cookie at a time are not modelled.  Passwords are
  in `UserCache`.
- `UserCache` keeps the last password asked for as history; hashes stand for passwords.
- `ChunkRanges` counts bytes, and says of a piece where it comes from and where it goes;
  sizes of the unit of `humanize` are rounded as the library rounds them.
- `Listing`: rows of equal times come in any order, in another one each time, as MySQL may
  give them.  It is the list of repositories only: the two queries of `ListImages` select
  and filter a column `region_code` that neither table has, so that list always answers 500.
- `ClientPush` knows of the hub what it compares, keeps and answers: which store it writes
  to, whether the file is long enough to be written in parts, and whether a longer one is in
  its place (`target`).
- `ClientStore`: a content is a sequence of cells that say which image they are from, so a
  mixture of two is visible; a crash keeps every write made before it (the code calls no
  `fsync`, and losing writes is not modelled).

## 3. Properties and runs

### The image service

Runs of module `MCHub`.  Two workers, two upload ids, two payloads.

| run | properties | requests (budget) | shows |
|---|---|---|---|
| `MergeRaces` | `TypeOK`, `RowDigestDeclared`, `RowHasFile`, `RowReplacedOnlyByForce` | 2 starts, 3 chunks, 2 merges, 1 failure; 2 chunks per file | whatever two sessions of a tag do to each other's slice file, a row says only what was announced, has a file, and changes by force only |
| `TagMix` | `UpdateHitsOwnTag`, `ImplementsCatalog` | 2 tags, 2 starts, 2 chunks, 2 merges, and 1 delete, of a named or the default tag or of the repository | a row id kept by a session or by a stale copy never becomes another tag's; the database is a `Catalog`, and what outlives a repository does not spoil the catalog of the next one |
| `FileRaces` | `FileMatchesRow` | 1 start of each kind and either 2 chunks, 2 merges and 2 uploads, or 1 chunk, 1 merge, 2 uploads and a delete of the image, of the repository, or a failure; 1 chunk per file | the file of an image is the one its row describes, unless another request came between the file and its row |
| `CacheFresh` | `CacheBecomesFresh` | 2 starts, 2 uploads and 1 delete of the repository, or 1 upload and a delete of each kind; readers for ever | liveness: once writers are done, the copies become the rows and stay so |

`ImplementsCatalog` is a refinement: `CatalogNow` is the digest of every tag's row in the
repository that exists, `declared` the offers; every step of the service is a step of
`Catalog` or changes neither.  Its point is `Publish`: an image of a tag that has one is
replaced only by a forced offer, and always by something offered.  `RowReplacedOnlyByForce`
says more of one row (the step belongs to the transaction of the forced upload) and holds
for single uploads, too (section 4); `RowDigestDeclared` and `ImplementsCatalog` do not hold
with single uploads, because a merge of the id of a single upload compares no digest.

`FileMatchesRow` is what a reader would expect of the service, and needs care to say: file
and row change in two steps and nothing keeps the writers of an image apart.  The file is
the row's wherever the request that committed the row was also the last to write the file;
a tag for which that is not so is in `torn`.  It gets there when somebody writes or removes
the file and has not committed, and leaves when that one commits (`Settle`), whoever else
did what meanwhile.  Three kinds of commits and writes do not count, and TLC finds
`FileMatchesRow` violated when any of the three is left out:

- a commit of a handler whose file another one has replaced (`author`): two merges, or an
  upload and a merge, that wrote in one order and committed in the other;
- a commit whose UPDATE hit no row, because the image or its repository was deleted since
  the session was opened (`Stores`);
- a merge whose slice file was written to between its comparison and its copy (`sure`).

What is left says that a file that somebody's commit stands for was compared after it was
written, or written from what was compared; that a delete that failed, an upload that was refused
after it had overwritten the file, and a lost commit spoil no other tag; and that an image
that was uploaded again is right again.  Mutant: an upload that does not verify its file.

### The stores, the pool and the lists

| run | properties | instance | shows |
|---|---|---|---|
| `S3Races` | `TypeOK`, `WholeFiles`, `SessionStaysOpen` | 2 sessions of a tag, 1 or 2 parts each, 3 chunks, 2 merges, 1 failure; objects of 2 parts are copied in ranges | sessions share slice and image object, and still an object is a whole file of one session: S3 keeps parts apart until they are completed. The abort that is never sent is what keeps a session usable after a failed chunk |
| `PoolWrite` | `TypeOK`, `SavedIsStored`, `TempOutlivesReaders`, `Returns` | 3 chunks, a pool of 2, both stores, a file in place of 0, 2 or 3 chunks | a committed row has its whole object whatever fails; no goroutine reads a file that was removed; the request ends |
| `ListPages` | `TypeOK`, `PagesExact`, `PagesMissNone`, `LatestAdvances` | 3 repositories, 3 images, pages of one row, 3 seconds, 1 overwrite, delete or change of visibility | pages of a list that is not written miss and repeat nothing, pushes only push rows back, and the default tag does not go back |

Move copies a large object in ranges of the slice object as it is at each of them.  When
the merge of another session replaces the slice object in between, the image object can mix
two files: `WholeFiles` excepts that copy (`replaced`, `suspect`) and no other.

### Users and the lock

| run | properties | instance | shows |
|---|---|---|---|
| `ProfileRaces` | `TypeOK`, `PasswordStays`, `LoginsCurrent`, `OthersKept`, `CopiesConverge` | 2 workers, 2 writes (profile updates or password changes), a DEL that may fail, 1 failure, reads without bound | an update that works on an old copy never brings an old password back. As long as no two requests overlap and nothing fails (`calm`), a replaced password is refused at once and an update of one field leaves the other. Liveness: once the writers rest, the copies are the row and stay so, though readers refill them for ever |
| `TokenRaces` | `TypeOK`, `DeleteMeansGone`, `DeleteSparesNewer` | 2 clients, 1 name, 3 tokens, 3 seconds; any INSERT, DELETE or commit of a token may be lost | the two steps of a token's delete take the token that was meant and no newer one; a token that is left is the selected one, and its DELETE or commit was lost |
| `LockRetry` | `TypeOK`, `HoldersExclude`, `UnlockReturns` | 2 callers, 3 attempts | repeated and late unlocks free nobody else's mutex; the unlock returns |

### Between client and hub

`Transfers` runs the three parts of `MCTransfers`; each behaviour is of one part, the
others keep their initial state, and fairness and properties are those of the part.

| part | properties | instance | shows |
|---|---|---|---|
| push | `MergeAsksAll`, `PushedIsWhole`, `QuietAfterSuccess`, `TransfersEnd` | 4 chunks, a pool of 2, every request or answer may be lost, and the commit of a merge; single and remote pushes over both stores, whole or in parts, over a shorter or a longer file | the merge is asked for when the hub has every chunk; success means a whole image, but in the two cases below, and no goroutine left; the push ends although caller and goroutines wait for each other |
| pull | `RecordHasFile`, `PullReturnsRecorded`, `TransfersEnd` | 3 images of 1, 3 and 4 cells, chunks of 2, 3 pulls, 1 crash, 1 broken answer, 1 removal | no record without a file, a pull that succeeds returns what its record says, and every pull ends |
| cut | `WholeImage`, `SlicesServed` | sizes of up to 4 chunks, one byte less or more; 4 chunk sizes, one of each unit of `humanize`; requests for slices from -1 to two behind the last | each of the six cuts covers every byte once and in place and has no empty piece; a slice that is asked for is the one that comes, or nothing |
| all | `TypesOK` | | |

`PushedIsWhole` excepts two cases in which nobody looks.  A body that the client's goroutine
cut off ends properly, and neither `Put` of S3 nor anything behind a file that is written in
parts compares a digest (`CutOffUnseen`); `Put` of the local store does.  And parts that go into a
longer file of the local store leave its tail (`TailKept`).  It says of the row that it is
committed, except after a merge, which answers success when its commit is lost.  For pushes in
chunks the hub is the local store's; what a merge over S3 puts together is in `S3Upload`.

`PullMixes` is the same module with pulls only, and shows a disagreement of the code with
its comment: a chunked pull while the hub replaces the image passes the second check of the
digest ("check digest again"), which compares the file with itself.  The finding in
`PROJECT.json` quotes the lines.

### What the models show of the code besides

Places where the code does something else than a comment or message next to it says, or
than one would expect.  The models follow the code; no property contradicts it.

- `chunk.go:226`: `Expire` comes before the key exists, so the keys of a chunked upload never
  expire (`ttl`), though the comment says "set redis expiration time".
- `chunk.go:178`: whether an image may be overwritten is asked when the session starts; two
  sessions of a new image, neither forced, both pass, and the second merge replaces the file
  of the first one's row before its INSERT is refused.
- `chunk.go:545`: the error of `Commit` is dropped; the merge answers success and deletes the
  session, and there is no row.
- `chunk.go:435`: `HGetAll` never answers `redis.Nil`; a merge for the id of a single upload
  runs on zero chunks and no digest.
- `image.go:327`: a forced single upload is verified against the digest of the old image.
- `image.go:852` with `local.go:114`: a forced upload through the pool writes into the old file
  and cuts nothing off; `SavedIsStored` is stated for old files that are not longer.
- `s3.go:115`: `Put` of S3 stores the digest it is given as metadata and compares nothing, though
  the local `Put` answers `ErrInvalidDigest`.
- `s3.go:244`: the parts come in the order of a Go map; S3 refuses a list that does not ascend.
- `chunk.go:93`: the slice right behind the last one is answered with success and no byte.
- `client/image/chunk.go:124`: the chunk size goes through a text of two digits; with 1024
  the hub cuts pieces of 1000 bytes, and the pull loses the tail.
- `models/image.go:401-529`: the image lists of a user name `region_code`, which is in neither
  table of the migration nor in the struct that is scanned: they always fail.  The migration's
  table `user` in turn has a unique key on a column `namespace` that it does not have; the
  models take the table to be there.
- `models/user.go:60-95`: the error of `Commit` is dropped, so a private token may be reported as
  created or deleted and not be.
- `user.go:162`: a change of the password drops the session of the request's own cookie and
  ignores an error of the store; sessions of the user's other clients go on.
- `retry.go:30`: a task whose context is cancelled may end before its first attempt.
- `user.go:35`: the logout route attaches no user to the request, so its handler answers
  before it deletes the session.

### Bounds

`Budgets` are the mixes of requests of an instance: how many of every endpoint come and how
many fail; reads are not bounded.  Every hazard needs at most two sessions of a tag, or one
session and one delete, so two starts and two merges show them; two chunks per file are
enough for a file that mixes two sessions, has a hole, or lacks a chunk; three chunk
requests leave one to be late or repeated.  `FileRaces` has one chunk per file, so that
uploads of both kinds and a delete fit beside each other: a chunk that is written late is
enough to make two contents of one file.  One failure is enough because a failed request
leaves nothing but its own half-done work.  Two workers make every pair of requests overlap.

In `S3Races` three chunk requests for two sessions of one or two parts leave one to repeat
or replace another, and one copy goes whole, the other in ranges; in `PoolWrite` three chunks
and a pool of two make one chunk wait for a goroutine; in a push of `Transfers` four chunks
leave results in the channel while others are sent and repeated.  Its cuts need no more than
four pieces: every formula is linear in the index, and what can go wrong is at the first, the
last and the one behind it.  Its pulls have a first image of two full chunks, a second that
ends within its second chunk and a small one, so that an image gets shorter within a chunk,
across the threshold, and while it is downloaded.  `ListPages` has pages of one row, so every
row is at the edge of a page.  In `ProfileRaces` the second of two writes may work on a copy
from before the first.

### Fairness

`FairSpec` assumes that a request in progress reaches its next call or fails
(`WF(Step \/ Abort)`: the Go scheduler runs every goroutine, and calls to redis, MySQL and
disk return or fail) and that redis drops a key whose ten minutes are over.  Nothing is
assumed of clients: no request has to come.  `CacheBecomesFresh` needs the second
part because readers refill copies without end and nothing else would ever
take a stale one away.

`ProfileRaces` assumes the same of requests on a user and of the redis copies.  `PoolWrite`
and `Transfers` assume that the caller and each goroutine go on while they can: goroutines
that are not blocked run, and a call returns or fails.  The last is an assumption about the
network: the client's calls go through `http.DefaultClient`, which has no timeout of its
own, so a peer that keeps a connection open and silent would hold a push or a pull for as
long as the caller's context allows.  None of them assumes that a call succeeds; in a pull a
chunk may be given up instead, as the retry with a limit of time does.  `LockRetry` assumes
that the task, which waits for a timer or a context, goes on.

`Quiet` is the service with no request: it lets TLC's deadlock check stay on, so that a
handler that waits for ever would be reported.

## 4. Proofs

All theorems hold for any values of the constants that the named assumption of the module
allows (`ConstantsAssumption`, `TransfersAssumption`).  Where one needs more, it says so in
its statement; each of these hypotheses is met by the instance of the run that checks the
property, and what happens without it is said below.  Every inductive invariant was first
checked by TLC on that instance.

### The image service: `HubProofs`

For any sets of workers, ids, tags and payloads, any number of chunks, and any budget:

- `TypeCorrect`: `Spec => []TypeOK`.  `TypeOK` contains `Resolved`, which makes it
  inductive: a handler that has got past the look-up works on a named tag.
- `ImagesHaveFiles`: if no client deletes, `Spec => []RowHasFile`.  `RowHasFile` is not
  inductive: it says nothing of the rows that an open transaction will install, nor of the
  handlers that are about to open one.  `FilesFirst` adds both: the tag of every handler
  between its write of the file and its transaction, and of every row of the transaction,
  has a file.  `NoDelete` says that no handler ever is in one of the two delete endpoints,
  from which follows that a file that is there stays (`FilesStay`).
- `SessionsHitOwnTag`: `Spec => []UpdateHitsOwnTag`.  A session copies its id from a
  handler, which has it from a row or from a stale copy in redis, which is from a row that
  may be gone.  `IdsHaveTags` therefore speaks of every place where an id is kept: one map
  from the ids below the AUTO_INCREMENT counter to tags agrees with all of them.  An INSERT
  extends the map by the id of the counter, and every other step only moves pairs of an id
  and a tag that agree already.
- `OnlyForceReplaces`: `Spec => RowReplacedOnlyByForce`, a property of steps.  A commit
  installs what its transaction collected earlier, so the invariant `TxHonest` says it of
  the open transaction: where a row of it differs from the table, its owner, who can do
  nothing but commit or fail, was forced.  That rests on `PinsForced` (whoever holds a row's
  id while uploading was forced: the 409 of the start handlers, carried through the
  session), on `IdsHaveTags`, and on `IdsUnique` (one row per id).  `DatabaseSteps` is the
  list of the five things any step can do to table and transaction.
- `RowsAreDeclared`: `Spec => []RowDigestDeclared`, if single uploads and merges do not meet
  in one behaviour.  `DigestsSaid` follows a digest from the offer through session, handler,
  transaction, row and copies; a merge takes it from the slice file, so it is announced only
  behind the comparison (`CheckedPC`).  The hypothesis, carried by `Compared`, is needed: a
  merge for the id of a single upload compares no digest at all (section 3).
- `ServiceIsCatalog`: `Spec => ImplementsCatalog`, if there are no single uploads: the initial
  state is one of the catalog's, and each step of the service is a step of the catalog or
  leaves `CatalogNow` and the offers alone.  Only a start declares; only a commit publishes
  or withdraws.  `TxPublishes` says that the open transaction is one catalog step away from the
  table, which is where `Publish` needs the offer: forced, unless the tag has no image.  It
  rests on `SaidInv` above, `KeysUnique` (one row per repository and tag) and `ReposPlaced` (no
  id of a repository is kept anywhere that the counter has not given out, so that the rows
  of a deleted repository are never listed again).  With single uploads the refinement does
  not hold: a forced one may put a digest back that was read from a stale copy.
- `FilesMatchRows`: `Spec => []FileMatchesRow`, with no assumption on the budget.  `FileInv`
  is its inductive form.  `AllWorking` says which requests can be at a call that writes;
  `AllFit` that a merge that is `sure` finds in the slice file what it measured, and that
  the last `author` of a file finds in it what it is going to save; `TxFits` that the open
  transaction, where it stores a row for its handler's tag, stores the handler's digest, and
  leaves every other row of the repository alone.  A commit of the author therefore makes
  file and row agree, and any other commit of an upload puts its tag into `torn`.
  `KeysUnique` and `ReposPlaced` say that there is one row per tag to speak of, also when
  the repository is deleted and made again under handlers that hold its old id.

### Stores

- `WriteProofs`: `TypeCorrect`; `ReadersHaveFile`, `Spec => []TempOutlivesReaders`; and, if no
  file in place was longer than the new one, `CommittedIsStored`, `Spec => []SavedIsStored`.
  `Phases` ties the place of the caller to what may be running: behind `WaitAll` nothing is,
  whichever goroutines failed.  `ChunksStored` says that a chunk that was submitted, is not
  pending and has not failed is in the store; `SavesLast` that a row is only saved once the
  write has succeeded.
- `S3Proofs`: `TypeCorrect`; `ObjectsAreWhole`, `Spec => []WholeFiles`; `ChunksCanBeSentAgain`,
  `Spec => []SessionStaysOpen`.  The parts of a merge come in the order of a Go map, and S3
  accepts an ascending list only: `AscendingIsIdentity` (a counting argument) shows that an
  ascending list of all the chunks of a session is its file, which is `Merging`.
  `ListsKeyed` says that redis has one chunk per index, `Starting` that nobody else knows an
  upload before its session is written, `Copying` that the ranges copied so far are of one
  session unless the source was replaced meanwhile.

### The list of repositories: `ListProofs`

`TypeCorrect`; `MissesNone`, `Spec => []PagesMissNone`; `ReadsExactly`, `Spec => []PagesExact`;
`DefaultTagAdvances`, `Spec => LatestAdvances`; for any repositories, any length of pages and any
number of rows.

- Each query sorts anew, and the next page comes from another order of other rows.  What stays
  is the rank of a row, the number of rows above it: `RankIsPlace` shows that in every order
  of rows with different times a row has the place of its rank, and `RankGrows` that an
  upload only lets ranks grow.  `ComesLater` is the inductive form of `PagesMissNone`: a row
  that was there at the start was given already, or its rank is behind the pages read so
  far and the reader goes on.  A page that is not the last is full (`FullBefore`), which is
  what the reader goes by, since the answer has no total.
- `PagesFull` adds what holds while nobody writes: the rows given are of the list, as many as
  fit on the pages.  With `ComesLater` these are all of them, so none twice.
- `LatestThere`: an image as new as the one last seen under the default tag is still there.
  A delete of any image of the repository ends that promise.

### Users, sessions, lock

- `UserProofs`: `TypeCorrect`; `NoOldPassword`, `Spec => []PasswordStays`.  `TxKeepsPwd` says
  that the open transaction belongs to the one profile update that has not committed yet, and
  that the row it installs has the password of the row that is there; `UsersFound` that a
  handler behind its look-up has a user.  `OldPasswordRefused`, `Spec => []LoginsCurrent`, and
  `UpdateKeepsOthers`, `Spec => OthersKept`, are about behaviours that were calm so far, and so
  is their invariant `Serial`: at most one request is under way, the copies are the row
  except before the DEL of a writer, and the request works on the row.
- `SessionProofs`: `TypeCorrect`; `DeletedIsGone`, `Spec => DeleteMeansGone`; `NewerIsSpared`,
  `Spec => DeleteSparesNewer`.  `TokensOK` (one token per name, ids below the counter) and
  `DeletesOK` (what a delete that selected its row knows of the tokens of that name) make the
  two steps of a delete one, also where INSERTs, DELETEs and commits are lost.
- `LockProofs`: `TypeCorrect`; `MutexExcludes`, `Spec => []HoldersExclude`, from
  `HolderInRedis`: until a mutex expires under a holder, the key has the value of every
  holder.  The type invariant needs `CallsCounted`, the calls of a task are its iterations.

### Between client and hub: `TransferProofs`

- A push, for any number of chunks, pool and losses: `AsksWhenComplete`, `SuccessIsWhole` and
  `SuccessIsQuiet`.  The caller only counts successes, so `PushInv` says where every chunk is:
  unsent, in a goroutine, in the channel or about to be sent again, in one place only
  (`OnePlace`), with as many others as the counter says (`CountedOnce`), all of them
  stored (`SuccessIsStored`).  `SuccessIsWhole` covers every target: both stores, one piece or parts,
  a longer file in place or not.
- A pull, for any images and chunk length, any number of crashes and broken answers:
  `RecordsHaveFiles`, from the places where a file may be missing (`FilePhases`).
  `PullsReturnRecorded`, if the hub does not go back to an earlier image (`Returning = FALSE`):
  `TrustInv` says that where record and file differ, the record is of an image older than the hub's,
  so that no later pull trusts it.  When the hub goes back, a crash between file and record
  leaves a record that a later pull trusts beside a file that it does not describe.
- Cuts, for any sizes of image and chunk: `CutsAreWhole` and `AsksAreServed`.  `RangeInv` gives
  the bytes of every piece so far; `CeilIsLeast` and `FloorAndRest` show that the two ways
  to count the pieces agree, `ServedOf` that the hub's unsigned arithmetic serves what is left
  of a slice for every index it does not refuse, and nothing behind the end.  `SizesAgree`, that
  a chunk size survives being written as text (`humanize`), is needed for pulls only: with
  1024 the hub cuts pieces of 1000 bytes.
- `TypesCorrect`: every state of the three is well typed.

### What is only model-checked

- Liveness under fairness: `CacheBecomesFresh`, `Returns`, `CopiesConverge`, `UnlockReturns`,
  `TransfersEnd`.
- `PullMixes` is a counterexample; there is nothing to prove.

## 5. Plan

Done: the image service over the local store and its catalog; S3; the pool; users, sessions
and tokens; the lock and its retry task; the list of repositories; chunk ranges; the client.  Proved: the
theorems of section 4.

Left, in this order:

1. A push composed with the sessions of `ChunkUpload` instead of a hub that answers what it
   may: the states of both multiply, so only with one chunk each.
2. Two requests of one cookie at a time in `Sessions`.

Not modelled: HTTP plumbing, logging, configuration, generated documents, mocks, the
validators, object ids: no state, or no behaviour of their own.  Names, tags and digests are
string formatting: a default tag is normalised before the modelled part of a handler starts.
`ListImages` and its queries, which fail on a column that is not there.
`QueryImagesByRepoIDs`, `GetPublicImages`, `CreateUser` and `CleanRedisMutex` are called by no
handler.

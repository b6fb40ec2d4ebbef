------------------------------ MODULE ClientStore ------------------------------
(***************************************************************************)
(* The client's copy of one image: the file, its record in the metadata    *)
(* database (client/types/image.go), and Pull, which compares the record   *)
(* with what the hub announces and downloads in one request or in chunks   *)
(* (client/image).  The hub may replace the image at any time, a request   *)
(* may break off, and the client may crash between any two steps.  A       *)
(* content is a sequence of cells, and a digest stands for its content.    *)
(***************************************************************************)
EXTENDS Naturals, Sequences, SequencesExt

CONSTANTS
  Versions,     \* the images that the tag holds on the hub, one after the other
  Size,         \* their sizes in cells
  Threshold,    \* a larger image is downloaded in chunks
  ChunkLen,     \* cells of a chunk
  None,         \* no file, no record
  Returning,    \* may the hub go back to an earlier image?
  Budget        \* bound: crashes, requests that break off, removals, pulls

Events == {"crash", "fail", "remove", "pull"}

Cell    == [version : Versions, at : Nat]
Content == Seq(Cell)

\* What the constants must be; the module that takes an instance assumes it.
ConstantsOK ==
  /\ Versions \subseteq Nat /\ 1 \in Versions
  /\ Size \in [Versions -> Nat \ {0}]
  /\ Threshold \in Nat /\ ChunkLen \in Nat \ {0}
  /\ None \notin Content
  /\ Returning \in BOOLEAN /\ Budget \in [Events -> Nat]

VARIABLES
  hub,          \* the version that the hub has
  file, record, \* the image file and the digest in the metadata database
  pieces,       \* the files of the chunks
  slice,        \* the file that they are merged into
  pc, policy,   \* the call in progress
  digest,       \* img.Digest
  announced,    \* what GetInfo said
  body,         \* what is copied into the image file or the merged one
  todo, failed, \* the chunks still to download or to merge; did one fail?
  left          \* what is left of Budget

disk == <<file, record, pieces, slice>>
vars == <<hub, disk, pc, policy, digest, announced, body, todo, failed, left>>

-----------------------------------------------------------------------------

Image(v) == [i \in 1 .. Size[v] |-> [version |-> v, at |-> i]]

\* Mutant: one chunk too many.
NChunks_OneMore(n) == n \div ChunkLen + 1

\* The chunks of a content of n cells.
NChunks(n) == (n + ChunkLen - 1) \div ChunkLen

Indices == UNION {0 .. (Size[v] + ChunkLen - 1) \div ChunkLen - 1 : v \in Versions}

\* A content written over another without O_TRUNC.
Over(new, old) ==
  IF old = None THEN new ELSE new \o SubSeq(old, Len(new) + 1, Len(old))

Torn(s) == Prefixes(s) \ {s}

Policies == {"Always", "IfNotPresent", "Never"}
PC == {"idle", "ok", "new", "info", "cached", "request", "open", "copy", "update",
       "chunks", "merge", "clean", "verify", "remove"}

TypeOK ==
  /\ hub \in Versions
  /\ {file, record, slice} \ {None} \subseteq Content
  /\ pieces \in [Indices -> Content \cup {None}]
  /\ pc \in PC /\ policy \in Policies
  /\ {digest, announced, body} \ {None} \subseteq Content
  /\ todo \subseteq Indices /\ failed \in BOOLEAN
  /\ pc \in {"copy", "update"} => file # None
  /\ left \in [Events -> Nat]

Init ==
  /\ hub = 1
  /\ file = None /\ record = None /\ slice = None
  /\ pieces = [i \in Indices |-> None]
  /\ pc = "idle" /\ policy = "Always"
  /\ digest = None /\ announced = None /\ body = None
  /\ todo = {} /\ failed = FALSE /\ left = Budget

Spend(event) == left[event] > 0 /\ left' = [left EXCEPT ![event] = @ - 1]
Keep == UNCHANGED <<hub, policy, left>>

\* The hub replaces the image.
Replace ==
  /\ hub' \in {v \in Versions \ {hub} : Returning \/ v > hub}
  /\ UNCHANGED <<disk, pc, policy, digest, announced, body, todo, failed, left>>

\* The client dies, or a call fails and the caller gets the error: what is on
\* the disk stays as it is.
Crash ==
  /\ pc \notin {"idle", "ok"}
  /\ Spend("crash")
  /\ pc' = "idle" /\ todo' = {} /\ failed' = FALSE
  /\ digest' = None /\ announced' = None /\ body' = None
  /\ UNCHANGED <<hub, disk, policy>>

Goto(p) == pc' = p /\ Keep

-----------------------------------------------------------------------------
(* The metadata database *)

\* Load: a file without a record gets one, computed from the file.
Loaded == IF file # None /\ record = None THEN file ELSE record
Meta   == IF file = None THEN None ELSE Loaded

\* Mutant: the file goes first.
Forget_FileFirst ==
  /\ pc \in {"idle", "ok"}
  /\ Spend("remove")
  /\ file' = None /\ pc' = "remove"
  /\ UNCHANGED <<hub, policy, record, pieces, slice, digest, announced, body, todo, failed>>

\* RemoveImage: the record goes first, then the file.
Forget ==
  /\ pc \in {"idle", "ok"}
  /\ Spend("remove")
  /\ record' = None /\ pc' = "remove"
  /\ UNCHANGED <<hub, policy, file, pieces, slice, digest, announced, body, todo, failed>>

RemoveFile ==
  /\ pc = "remove"
  /\ file' = None /\ record' = None
  /\ Goto("idle")
  /\ UNCHANGED <<pieces, slice, digest, announced, body, todo, failed>>

-----------------------------------------------------------------------------
(* Pull *)

Pull ==
  /\ pc \in {"idle", "ok"}
  /\ policy' \in Policies
  /\ Spend("pull")
  /\ pc' = "new"
  /\ announced' = None /\ digest' = None /\ body' = None
  /\ UNCHANGED <<hub, disk, todo, failed>>

\* NewImage loads the record; Never then returns no image, and IfNotPresent
\* the one whose file exists.
NewImage ==
  /\ pc = "new"
  /\ record' = Loaded
  /\ IF policy = "Never" THEN Goto("idle") /\ UNCHANGED digest
     ELSE IF policy = "IfNotPresent" /\ file # None
          THEN Goto("ok") /\ digest' = Meta
          ELSE Goto("info") /\ UNCHANGED digest
  /\ UNCHANGED <<file, pieces, slice, announced, body, todo, failed>>

GetInfo ==
  /\ pc = "info"
  /\ digest' = Image(hub) /\ announced' = Image(hub)
  /\ Goto("cached")
  /\ UNCHANGED <<disk, body, todo, failed>>

\* Cached, and the way to download.
Cached ==
  /\ pc = "cached"
  /\ record' = Loaded
  /\ IF Meta = digest THEN Goto("ok") /\ UNCHANGED todo
     ELSE IF Len(announced) > Threshold
          THEN Goto("chunks") /\ todo' = 0 .. NChunks(Len(announced)) - 1
          ELSE Goto("request") /\ UNCHANGED todo
  /\ failed' = FALSE
  /\ UNCHANGED <<file, pieces, slice, digest, announced, body>>

\* download: the answer comes from the image that the hub has now.
Request ==
  /\ pc = "request"
  /\ body' = Image(hub)
  /\ Goto("open")
  /\ UNCHANGED <<disk, digest, announced, todo, failed>>

-----------------------------------------------------------------------------
(* CopyFile *)

\* Mutant: the record is written before the file.
OpenFile_RecordFirst ==
  /\ pc = "open"
  /\ file' = <<>> /\ record' = body
  /\ Goto("copy")
  /\ UNCHANGED <<pieces, slice, digest, announced, body, todo, failed>>

\* O_TRUNC.
OpenFile ==
  /\ pc = "open"
  /\ file' = <<>>
  /\ Goto("copy")
  /\ UNCHANGED <<record, pieces, slice, digest, announced, body, todo, failed>>

\* io.Copy; when the answer breaks off the file keeps what came.
Copy ==
  /\ pc = "copy"
  /\ \/ file' = body /\ Goto("update")
     \/ file' \in Torn(body) /\ Spend("fail") /\ pc' = "idle" /\ UNCHANGED <<hub, policy>>
  /\ UNCHANGED <<record, pieces, slice, digest, announced, body, todo, failed>>

\* update: the record and img.Digest become those of the file.
Update ==
  /\ pc = "update"
  /\ record' = file /\ digest' = file
  /\ Goto(IF Len(announced) > Threshold THEN "clean" ELSE "verify")
  /\ UNCHANGED <<file, pieces, slice, announced, body, todo, failed>>

\* "check digest again": Cached once more.
Verify ==
  /\ pc = "verify"
  /\ record' = Loaded
  /\ Goto(IF Meta = digest THEN "ok" ELSE "idle")
  /\ UNCHANGED <<file, pieces, slice, digest, announced, body, todo, failed>>

-----------------------------------------------------------------------------
(* downloadWithChunk *)

\* The chunk that the hub serves: an index right behind the image gets an
\* empty one if the image ends there, and else an answer that breaks off.
Served(i) == SubSeq(Image(hub), i * ChunkLen + 1,
                    IF (i + 1) * ChunkLen < Size[hub] THEN (i + 1) * ChunkLen ELSE Size[hub])

\* DownloadImageChunk: the file of the chunk is not truncated.
GetChunk(i) ==
  /\ pc = "chunks" /\ i \in todo
  /\ i * ChunkLen <= Size[hub]
  /\ pieces' = [pieces EXCEPT ![i] = Over(Served(i), @)]
  /\ todo' = todo \ {i}
  /\ UNCHANGED <<hub, policy, left, file, record, slice, pc, digest, announced, body, failed>>

\* The answer breaks off; the chunk is tried again, with growing pauses.
ChunkBreaks(i) ==
  /\ pc = "chunks" /\ i \in todo
  /\ i * ChunkLen <= Size[hub] /\ Spend("fail")
  /\ \E p \in Torn(Served(i)) : pieces' = [pieces EXCEPT ![i] = Over(p, @)]
  /\ UNCHANGED <<hub, policy, file, record, slice, pc, digest, announced, body, todo, failed>>

\* Mutant: a chunk that was given up hands over no result.
GiveUp_NoResult(i) ==
  /\ pc = "chunks" /\ i \in todo
  /\ i * ChunkLen > Size[hub] \/ left["fail"] = 0
  /\ failed' = TRUE
  /\ UNCHANGED <<hub, policy, left, disk, pc, digest, announced, body, todo>>

\* A quarter of an hour of attempts is over.
GiveUp(i) ==
  /\ pc = "chunks" /\ i \in todo
  /\ i * ChunkLen > Size[hub] \/ left["fail"] = 0
  /\ todo' = todo \ {i} /\ failed' = TRUE
  /\ UNCHANGED <<hub, policy, left, disk, pc, digest, announced, body>>

\* The caller has a result for every chunk; mergeSliceFile opens the merged
\* file, which is not truncated either.
Collect ==
  /\ pc = "chunks" /\ todo = {}
  /\ IF failed THEN Goto("idle") /\ UNCHANGED <<slice, body, todo>>
     ELSE /\ Goto("merge")
          /\ slice' = IF slice = None THEN <<>> ELSE slice
          /\ body' = <<>> /\ todo' = 0 .. NChunks(Len(announced)) - 1
  /\ UNCHANGED <<file, record, pieces, digest, announced, failed>>

\* The files of the chunks are copied into it one behind the other.
MergeSlice(i) ==
  /\ pc = "merge" /\ i \in todo /\ \A j \in todo : i <= j
  /\ body' = body \o pieces[i]
  /\ slice' = Over(body', slice)
  /\ todo' = todo \ {i}
  /\ UNCHANGED <<hub, policy, left, file, record, pieces, pc, digest, announced, failed>>

CopyFrom ==
  /\ pc = "merge" /\ todo = {}
  /\ body' = slice
  /\ Goto("open")
  /\ UNCHANGED <<disk, digest, announced, todo, failed>>

\* The merged file is removed, the files of the chunks stay.
CleanSlice ==
  /\ pc = "clean"
  /\ slice' = None
  /\ Goto("verify")
  /\ UNCHANGED <<file, record, pieces, digest, announced, body, todo, failed>>

-----------------------------------------------------------------------------

Step ==
  \/ RemoveFile \/ NewImage \/ GetInfo \/ Cached \/ Request
  \/ OpenFile \/ Copy \/ Update \/ Verify
  \/ Collect \/ (\E i \in Indices : MergeSlice(i)) \/ CopyFrom \/ CleanSlice
Worker(i) == GetChunk(i) \/ GiveUp(i)

Next ==
  \/ Pull \/ Forget \/ Step
  \/ \E i \in Indices : Worker(i) \/ ChunkBreaks(i)
  \/ Replace \/ Crash

Spec == /\ Init /\ [][Next]_vars
        /\ WF_vars(Step) /\ \A i \in Indices : WF_vars(Worker(i))

-----------------------------------------------------------------------------
(* Properties *)

\* File and record are two writes.  A record without a file, which would tell
\* of an image that is not there, never is: not after a crash either.
RecordHasFile == record # None => file # None

\* A crash or an answer that breaks off while the file is replaced leaves the
\* record of the old image with a torn file.  As long as the hub does not go
\* back to that image the next pull with policy Always does not trust it: the
\* file of a pull that succeeds is the one the record and img.Digest describe.
PullReturnsRecorded ==
  pc = "ok" /\ policy = "Always" => file = record /\ file = digest

\* Every call of the client comes to an end, also when chunks fail for good.
PullEnds == pc \notin {"idle", "ok"} ~> pc \in {"idle", "ok"}

\* "check digest again" (client/image/image.go): the file of a pull that
\* succeeds is the one that the hub announced.
PulledIsAnnounced ==
  pc = "ok" /\ policy = "Always" => file = announced
=============================================================================

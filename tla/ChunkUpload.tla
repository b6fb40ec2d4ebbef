----------------------------- MODULE ChunkUpload -----------------------------
(***************************************************************************)
(* The chunked upload of internal/api/image/chunk.go over the local store: *)
(* StartImageChunkUpload, UploadImageChunk (any number at a time) and      *)
(* MergeChunk.                                                             *)
(*                                                                         *)
(* The chunks of every session of a tag go into ONE slice file, named by   *)
(* the tag and not by the upload id; the merge takes the digest of that    *)
(* file, moves it over the image file and then saves the row.              *)
(***************************************************************************)
EXTENDS HubState

\* The file whose n chunks all hold d.
FileOf(d, n) == [k \in 1 .. n |-> d]

\* O_WRONLY|O_CREATE, seek to idx * chunkSize, write: nothing is truncated,
\* and what is skipped over becomes a hole.
WriteAt(file, idx, d) ==
  [k \in 1 .. (IF idx < Len(file) THEN Len(file) ELSE idx + 1) |->
     IF k = idx + 1 THEN d ELSE IF k <= Len(file) THEN file[k] ELSE Hole]

-----------------------------------------------------------------------------
(* StartImageChunkUpload *)

\* nChunks and the digest of the whole file come with the request; a default
\* tag has been replaced by the head of the digest (NormalizeTag).
StartChunk(w, t, d, n, f) ==
  /\ Arrive(w, Begin("startChunk", NoUpload,
                     Announced("chunk", t, FileOf(d, n), n, f), 0, Hole), "repo")
  /\ UNCHANGED <<dbVars, cacheVars, fileVars, sessVars, histVars>>

\* CreateChunkWrite makes a new id.  Expire comes before the HSet that makes
\* the key, and redis gives a time to live only to a key that exists.
OpenChunked(w, u) ==
  /\ loc[w].op = "startChunk"
  /\ OpenSession(w, u, info[u] # NoSession)

-----------------------------------------------------------------------------
(* UploadImageChunk *)

\* HGetAll of the info hash; the index is below nChunks, which is 0 when
\* there is no hash (or the hash of a single upload).
ChunkArrives(w, u, idx, d) ==
  /\ idx < info[u].n
  /\ Arrive(w, Begin("chunk", u, info[u], idx, d), "chunkWrite")
  /\ UNCHANGED <<dbVars, cacheVars, fileVars, sessVars, histVars>>

WriteChunk(w) ==
  /\ pc[w] = "chunkWrite"
  /\ slice' = [slice EXCEPT ![loc[w].img.tag] =
                 WriteAt(@, loc[w].idx, loc[w].data)]
  /\ sure' = {v \in sure : loc[v].img.tag # loc[w].img.tag}
  /\ Go(w, loc[w], "chunkRecord")
  /\ UNCHANGED <<dbVars, cacheVars, full, sessVars, declared, torn, author>>

\* Mutant: the part number of the store is recorded, not the index.
RecordChunk_PartNumber(w) ==
  /\ pc[w] = "chunkRecord"
  /\ chunks' = [chunks EXCEPT ![loc[w].u] = @ \cup {loc[w].idx + 1}]
  /\ Finish(w)
  /\ UNCHANGED <<dbVars, cacheVars, fileVars, info, ttl, histVars>>

\* HSet creates the slice hash when it is not there, also after a merge has
\* deleted it.
RecordChunk(w) ==
  /\ pc[w] = "chunkRecord"
  /\ chunks' = [chunks EXCEPT ![loc[w].u] = @ \cup {loc[w].idx}]
  /\ Finish(w)
  /\ UNCHANGED <<dbVars, cacheVars, fileVars, info, ttl, histVars>>

-----------------------------------------------------------------------------
(* MergeChunk *)

\* HGetAll of the info hash.  Without a hash the image has no Repo and the
\* handler ends in a 400 or a recovered panic: nothing changes.
MergeArrives(w, u) ==
  /\ info[u] # NoSession
  /\ Arrive(w, Begin("merge", u, info[u], 0, Hole), "check")
  /\ UNCHANGED <<dbVars, cacheVars, fileVars, sessVars, histVars>>

\* checkChunkSlices: as many keys as chunks, and every index among them.
AllRecorded(w) == chunks[loc[w].u] = 0 .. loc[w].img.n - 1

CheckSlices(w) ==
  /\ pc[w] = "check"
  /\ IF AllRecorded(w) THEN Go(w, loc[w], "digest") ELSE Finish(w)
  /\ UNCHANGED <<dbVars, cacheVars, fileVars, sessVars, histVars>>

\* Mutant: the digest is taken over without a comparison.
CheckDigest_NotCompared(w) ==
  /\ pc[w] = "digest"
  /\ IF slice[loc[w].img.tag] # NoFile
     THEN Go(w, [loc[w] EXCEPT !.img.digest = slice[loc[w].img.tag]], "copy")
          /\ sure' = sure \cup {w}
     ELSE Finish(w) /\ UNCHANGED sure
  /\ UNCHANGED <<dbVars, cacheVars, fileVars, sessVars, declared, torn, author>>

\* Mutant: the rows are saved without moving the slice file.
CheckDigest_NotMoved(w) ==
  /\ pc[w] = "digest"
  /\ IF slice[loc[w].img.tag] = loc[w].img.request
     THEN Go(w, [loc[w] EXCEPT !.img.digest = loc[w].img.request], "tx")
     ELSE Finish(w)
  /\ UNCHANGED <<dbVars, cacheVars, fileVars, sessVars, histVars>>

\* CompleteChunkWrite does nothing here.  GetSize and GetDigest of the slice
\* file; the digest field of the hash is compared unless it is missing.
CheckDigest(w) ==
  LET measured == slice[loc[w].img.tag]
      asked    == IF loc[w].img.kind = "chunk" THEN loc[w].img.request ELSE <<>>
  IN /\ pc[w] = "digest"
     /\ IF measured # NoFile /\ (asked # <<>> => asked = measured)
        THEN Go(w, [loc[w] EXCEPT !.img.digest = measured], "copy")
             /\ sure' = sure \cup {w}
        ELSE Finish(w) /\ UNCHANGED sure
     /\ UNCHANGED <<dbVars, cacheVars, fileVars, sessVars, declared, torn, author>>

\* Store.Move, first half: the image file is truncated and written.
CopySlice(w) ==
  LET t == loc[w].img.tag IN
  /\ pc[w] = "copy" /\ slice[t] # NoFile
  /\ full' = [full EXCEPT ![t] = slice[t]]
  /\ Replaced(t, IF w \in sure THEN w ELSE Nobody)
  /\ sure' = sure \ {w}
  /\ Go(w, loc[w], "remove")
  /\ UNCHANGED <<dbVars, cacheVars, slice, sessVars, declared>>

\* Store.Move, second half; a slice file that is gone is an error.
RemoveSlice(w) ==
  LET t == loc[w].img.tag IN
  /\ pc[w] = "remove"
  /\ slice' = [slice EXCEPT ![t] = NoFile]
  /\ IF slice[t] # NoFile THEN Go(w, loc[w], "tx") ELSE Finish(w)
  /\ UNCHANGED <<dbVars, cacheVars, full, sessVars, histVars>>

\* The slice file vanished before it could be opened.
CopyFails(w) ==
  /\ pc[w] = "copy" /\ slice[loc[w].img.tag] = NoFile
  /\ Finish(w)
  /\ UNCHANGED <<dbVars, cacheVars, fileVars, sessVars, histVars>>

\* Save only when the session knew no repository, then SaveImage.
SaveMerged(w) ==
  /\ loc[w].op = "merge"
  /\ SaveRows(w, FALSE) \/ SaveRejected(w, FALSE)

CommitMerge(w) ==
  /\ loc[w].op = "merge"
  /\ Install(w) /\ Settle(w)
  /\ Go(w, loc[w], "del")

\* The error of Commit is ignored: the merge goes on as if it had succeeded.
LoseCommit(w) ==
  /\ loc[w].op = "merge" /\ pc[w] = "commit"
  /\ tx' = NoTx
  /\ Go(w, loc[w], "del")
  /\ UNCHANGED <<repoRow, imageRows, nextRepoId, nextImageId,
                 cacheVars, fileVars, sessVars, histVars>>

\* One DEL of both hashes.
DeleteKeys(w) ==
  /\ pc[w] = "del"
  /\ info' = [info EXCEPT ![loc[w].u] = NoSession]
  /\ chunks' = [chunks EXCEPT ![loc[w].u] = {}]
  /\ ttl' = [ttl EXCEPT ![loc[w].u] = FALSE]
  /\ Finish(w)
  /\ UNCHANGED <<dbVars, cacheVars, fileVars, histVars>>

-----------------------------------------------------------------------------
ChunkRequest(w) ==
  \/ \E t \in Tags, d \in Payloads, n \in 1 .. MaxChunks, f \in BOOLEAN :
       StartChunk(w, t, d, n, f)
  \/ \E u \in Uploads, idx \in 0 .. MaxChunks - 1, d \in Payloads :
       ChunkArrives(w, u, idx, d)
  \/ \E u \in Uploads : MergeArrives(w, u)

ChunkStep(w) ==
  \/ \E u \in Uploads : OpenChunked(w, u)
  \/ WriteChunk(w) \/ RecordChunk(w)
  \/ CheckSlices(w) \/ CheckDigest(w)
  \/ CopySlice(w) \/ RemoveSlice(w) \/ CopyFails(w)
  \/ SaveMerged(w) \/ CommitMerge(w) \/ LoseCommit(w) \/ DeleteKeys(w)
=============================================================================

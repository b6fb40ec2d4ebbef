----------------------------- MODULE ImageAccess -----------------------------
(***************************************************************************)
(* The endpoints of internal/api/image/image.go that read or delete what   *)
(* was uploaded: GetImageInfo and DownloadImage up to the image they find, *)
(* DeleteImage and DeleteRepository, over the local store.                 *)
(*                                                                         *)
(* A delete takes the file first and the row afterwards, in a transaction  *)
(* of its own that deletes the redis copy before it commits.               *)
(***************************************************************************)
EXTENDS HubState

\* A request that names the tag t, for any image there is.
Named(t) == [NoSession EXCEPT !.tag = t]

\* GetImageInfo, DownloadImage: all they change is the cache.
Read(w, t) ==
  /\ Arrive(w, Begin("read", NoUpload, Named(t), 0, Hole), "repo")
  /\ UNCHANGED <<dbVars, cacheVars, fileVars, sessVars, histVars>>

Delete(w, t) ==
  /\ Arrive(w, Begin("delete", NoUpload, Named(t), 0, Hole), "repo")
  /\ UNCHANGED <<dbVars, cacheVars, fileVars, sessVars, histVars>>

Unlink(t) ==
  /\ full' = [full EXCEPT ![t] = NoFile]
  /\ Replaced(t, Nobody)
  /\ UNCHANGED <<declared, sure>>

\* The error of a failed storage delete is only logged.
DeleteFile(w, removed) ==
  /\ pc[w] = "file"
  /\ IF removed THEN Unlink(loc[w].img.tag)
                ELSE UNCHANGED <<full, histVars>>
  /\ Go(w, loc[w], "txImage")
  /\ UNCHANGED <<dbVars, cacheVars, slice, sessVars>>

\* DELETE by the id of the repository looked up, not by the image's.
DeleteRow(w) ==
  /\ pc[w] = "txImage" /\ tx.owner = Nobody
  /\ tx' = [owner |-> w, repo |-> repoRow, images |->
              {r \in imageRows : ~(r.repoId = loc[w].repo /\ r.tag = loc[w].img.tag)}]
  /\ ForgetImage(loc[w].img.tag)
  /\ Go(w, loc[w], "commit")
  /\ UNCHANGED <<repoRow, imageRows, nextRepoId, nextImageId, repoCache,
                 fileVars, sessVars, histVars>>

DeleteRepository(w) ==
  /\ Arrive(w, Begin("deleteRepo", NoUpload, NoSession, 0, Hole), "repo")
  /\ UNCHANGED <<dbVars, cacheVars, fileVars, sessVars, histVars>>

\* Repository.GetImages reads the rows, never the cache.  When it fails the
\* error is answered, but the handler goes on, without any image.
ListImages(w, listed) ==
  /\ pc[w] = "img" /\ loc[w].op = "deleteRepo"
  /\ Go(w, [loc[w] EXCEPT !.todo =
              {t \in Tags : listed /\ \E r \in imageRows :
                               r.repoId = loc[w].repo /\ r.tag = t}], "files")
  /\ UNCHANGED <<dbVars, cacheVars, fileVars, sessVars, histVars>>

DeleteFiles(w, removed) ==
  /\ pc[w] = "files"
  /\ \E t \in loc[w].todo :
       /\ IF removed THEN Unlink(t) ELSE UNCHANGED <<full, histVars>>
       /\ Go(w, [loc[w] EXCEPT !.todo = @ \ {t}], "files")
  /\ UNCHANGED <<dbVars, cacheVars, slice, sessVars>>

\* Repository.Delete: the rows of the images and of the repository, and the
\* redis copy of the repository.  The copies of the images stay.
DeleteRows(w) ==
  /\ pc[w] = "files" /\ loc[w].todo = {} /\ tx.owner = Nobody
  /\ tx' = [owner  |-> w,
            repo   |-> IF repoRow = loc[w].repo THEN 0 ELSE repoRow,
            images |-> {r \in imageRows : r.repoId # loc[w].repo}]
  /\ ForgetRepo
  /\ Go(w, loc[w], "commit")
  /\ UNCHANGED <<repoRow, imageRows, nextRepoId, nextImageId, imgCache,
                 fileVars, sessVars, histVars>>

CommitDelete(w) ==
  /\ loc[w].op \in {"delete", "deleteRepo"}
  /\ Install(w)
  /\ Finish(w)
  /\ UNCHANGED histVars

AccessRequest(w) ==
  \/ \E t \in Tags \cup {Latest} : Read(w, t) \/ Delete(w, t)
  \/ DeleteRepository(w)

AccessStep(w) ==
  \/ \E removed \in BOOLEAN : DeleteFile(w, removed) \/ DeleteFiles(w, removed)
  \/ \E listed \in BOOLEAN : ListImages(w, listed)
  \/ DeleteRow(w) \/ DeleteRows(w) \/ CommitDelete(w)
=============================================================================

---------------------------- MODULE SingleUpload ----------------------------
(***************************************************************************)
(* The upload of a file in one request, internal/api/image/image.go over   *)
(* the local store: StartImageUpload and UploadImage, for files below the  *)
(* 4 GiB from which on writeDataToStorage writes in chunks.                *)
(*                                                                         *)
(* The hash of the session is not deleted by the upload: the same id can   *)
(* be used again.                                                          *)
(***************************************************************************)
EXTENDS HubState

\* The whole file is one cell here.
StartSingle(w, t, d, f) ==
  /\ Arrive(w, Begin("startSingle", NoUpload,
                     Announced("single", t, <<d>>, 0, f), 0, Hole), "repo")
  /\ UNCHANGED <<dbVars, cacheVars, fileVars, sessVars, histVars>>

\* No Expire at all here.
OpenSingle(w, u) ==
  /\ loc[w].op = "startSingle"
  /\ OpenSession(w, u, FALSE)

\* HGetAll; a hash with other keys than image and force is refused, and so
\* is an image without Repo.
UploadArrives(w, u, d) ==
  /\ info[u].kind = "single"
  /\ Arrive(w, Begin("upload", u, info[u], 0, d), "put")
  /\ UNCHANGED <<dbVars, cacheVars, fileVars, sessVars, histVars>>

\* Store.Put, first half: the image file is truncated and written.
PutFile(w) ==
  LET t == loc[w].img.tag IN
  /\ pc[w] = "put"
  /\ full' = [full EXCEPT ![t] = <<loc[w].data>>]
  /\ Replaced(t, w)
  /\ Go(w, loc[w], "verify")
  /\ UNCHANGED <<dbVars, cacheVars, slice, sessVars, declared, sure>>

\* Mutant: the file in place is not verified.
VerifyFile_Trusted(w) ==
  /\ pc[w] = "verify"
  /\ Go(w, loc[w], "tx")
  /\ UNCHANGED <<dbVars, cacheVars, fileVars, sessVars, histVars>>

\* Store.Put, second half: the digest of the file in place is compared with
\* the one of the image in the session.
VerifyFile(w) ==
  /\ pc[w] = "verify"
  /\ IF full[loc[w].img.tag] = loc[w].img.digest
     THEN Go(w, loc[w], "tx") ELSE Finish(w)
  /\ UNCHANGED <<dbVars, cacheVars, fileVars, sessVars, histVars>>

\* Save always, then SaveImage.
SaveUploaded(w) ==
  /\ loc[w].op = "upload"
  /\ SaveRows(w, TRUE) \/ SaveRejected(w, TRUE)

CommitUpload(w) ==
  /\ loc[w].op = "upload"
  /\ Install(w) /\ Settle(w)
  /\ Finish(w)

SingleRequest(w) ==
  \/ \E t \in Tags, d \in Payloads, f \in BOOLEAN : StartSingle(w, t, d, f)
  \/ \E u \in Uploads, d \in Payloads : UploadArrives(w, u, d)

SingleStep(w) ==
  \/ \E u \in Uploads : OpenSingle(w, u)
  \/ PutFile(w) \/ VerifyFile(w) \/ SaveUploaded(w) \/ CommitUpload(w)
=============================================================================

------------------------------- MODULE S3Upload -------------------------------
(***************************************************************************)
(* The chunked upload of module ChunkUpload over the other store,          *)
(* internal/storage/s3: an upload session is a multipart upload of S3, a   *)
(* chunk is a part, and the slice object only exists once the parts are    *)
(* completed.  The sessions are for one tag: they share the slice object   *)
(* and the image object.  S3 itself is external; what it does is modelled  *)
(* as the code relies on it.                                               *)
(***************************************************************************)
EXTENDS Naturals, Sequences, FiniteSets

CONSTANTS
  Workers,      \* requests that can be in progress at the same time
  Uploads,      \* upload ids
  NoUpload,     \* no upload id
  Bodies,       \* what a chunk request can carry ...
  Intended,     \* ... and what the digest of the upload is computed from
  CopyLimit,    \* a slice object of this size or more is copied in parts
  MaxChunks,    \* bound: chunks of an upload
  Budget        \* bound: requests of every kind, and failures

Events == {"chunk", "merge", "fail"}

ASSUME ConstantsAssumption ==
  /\ NoUpload \notin Uploads /\ Intended \in Bodies
  /\ MaxChunks \in Nat \ {0} /\ CopyLimit \in Nat
  /\ Budget \in [Events -> Nat]

VARIABLES
  info,         \* redis: the hash of a session
  list,         \* redis: the chunks of a session, with their entity tags
  open,         \* S3: the multipart uploads in progress
  parts,        \* S3: the parts of every multipart upload
  slice, full,  \* S3: the slice object and the image object of the tag
  row,          \* MySQL: the digest of the image
  completed,    \* history: the uploads that S3 has completed
  replaced,     \* history: workers that copy the slice object in ranges, under
                \* which another merge has replaced it
  suspect,      \* history: was the image object copied by one of them?
  pc, loc,      \* the workers
  left          \* what is left of Budget

sessVars == <<info, list>>
s3Vars   == <<open, parts, slice, full>>
histVars == <<completed, replaced, suspect>>
vars == <<sessVars, s3Vars, row, histVars, pc, loc, left>>

-----------------------------------------------------------------------------
(* Data *)

\* A part: the upload and the index it is for, and what it holds.  Its entity
\* tag stands for the same.
Part    == [upload : Uploads, idx : 0 .. MaxChunks - 1, body : Bodies]
Content == Seq(Part)
Nothing == <<>>

\* A session: nChunks, and whether the client gave a digest.
Session   == [n : 1 .. MaxChunks, checked : BOOLEAN]
NoSession == [n |-> 0, checked |-> FALSE]

\* The file that the client of u means to upload.
FileOf(u, n) == [i \in 1 .. n |-> [upload |-> u, idx |-> i - 1, body |-> Intended]]

Held(s, idx) == {p \in s : p.idx = idx}
\* A part replaces the one of the same number.
With(s, p) == (s \ Held(s, p.idx)) \cup {p}

Local == [upload : Uploads \cup {NoUpload}, sess : Session \cup {NoSession},
          part : SUBSET Part, order : Content, digest : Content,
          size : Nat, copied : Content]
NoLocal == [upload |-> NoUpload, sess |-> NoSession, part |-> {},
            order |-> <<>>, digest |-> <<>>, size |-> 0, copied |-> <<>>]

PC == {"idle", "info", "part", "record",
       "complete", "digest", "head", "copy", "parts", "delete", "save", "del"}

TypeOK ==
  /\ info \in [Uploads -> Session \cup {NoSession}]
  /\ list \in [Uploads -> SUBSET Part] /\ parts \in [Uploads -> SUBSET Part]
  /\ open \subseteq Uploads /\ completed \subseteq Uploads
  /\ replaced \subseteq Workers /\ suspect \in BOOLEAN
  /\ {slice, full, row} \subseteq Content
  /\ pc \in [Workers -> PC] /\ loc \in [Workers -> Local]
  /\ left \in [Events -> Nat]

Init ==
  /\ info = [u \in Uploads |-> NoSession]
  /\ list = [u \in Uploads |-> {}] /\ parts = [u \in Uploads |-> {}]
  /\ open = {} /\ completed = {} /\ replaced = {} /\ suspect = FALSE
  /\ slice = Nothing /\ full = Nothing /\ row = Nothing
  /\ pc = [w \in Workers |-> "idle"] /\ loc = [w \in Workers |-> NoLocal]
  /\ left = Budget

-----------------------------------------------------------------------------

Jump(w, l, p) ==
  /\ loc' = [loc EXCEPT ![w] = l]
  /\ pc' = [pc EXCEPT ![w] = p]
Go(w, l, p) == Jump(w, l, p) /\ UNCHANGED left
Finish(w)   == Go(w, NoLocal, "idle")
Spend(event) == left[event] > 0 /\ left' = [left EXCEPT ![event] = @ - 1]

\* A call to redis, MySQL or S3 fails, or the process dies; before a part is
\* stored that is PartFails.
Abort(w) ==
  /\ pc[w] \notin {"idle", "part"}
  /\ Spend("fail") /\ Jump(w, NoLocal, "idle")
  /\ UNCHANGED <<sessVars, s3Vars, row, histVars>>

-----------------------------------------------------------------------------
(* StartImageChunkUpload *)

\* CreateMultipartUpload gives the id of the session.
CreateChunkWrite(w, u, n, checked) ==
  /\ pc[w] = "idle"
  /\ info[u] = NoSession /\ u \notin open \cup completed
  /\ open' = open \cup {u}
  /\ Go(w, [NoLocal EXCEPT !.upload = u, !.sess = [n |-> n, checked |-> checked]], "info")
  /\ UNCHANGED <<sessVars, parts, slice, full, row, histVars>>

OpenSession(w) ==
  /\ pc[w] = "info"
  /\ info' = [info EXCEPT ![loc[w].upload] = loc[w].sess]
  /\ Finish(w)
  /\ UNCHANGED <<list, s3Vars, row, histVars>>

-----------------------------------------------------------------------------
(* UploadImageChunk *)

ChunkArrives(w, u, idx, body) ==
  /\ pc[w] = "idle"
  /\ idx < info[u].n
  /\ Spend("chunk")
  /\ Jump(w, [NoLocal EXCEPT !.upload = u, !.sess = info[u],
                             !.part = {[upload |-> u, idx |-> idx, body |-> body]}], "part")
  /\ UNCHANGED <<sessVars, s3Vars, row, histVars>>

\* ChunkWrite: UploadPart.  S3 refuses a part of an upload that is closed.
ChunkWrite(w) ==
  LET u == loc[w].upload IN
  /\ pc[w] = "part"
  /\ IF u \in open
     THEN \E p \in loc[w].part : /\ parts' = [parts EXCEPT ![u] = With(@, p)]
                                 /\ Go(w, loc[w], "record")
     ELSE UNCHANGED parts /\ Finish(w)
  /\ UNCHANGED <<sessVars, open, slice, full, row, histVars>>

\* Mutant: the request that aborts the multipart upload is sent.
PartFails_Aborts(w) ==
  /\ pc[w] = "part"
  /\ Spend("fail") /\ Jump(w, NoLocal, "idle")
  /\ open' = open \ {loc[w].upload}
  /\ parts' = [parts EXCEPT ![loc[w].upload] = {}]
  /\ UNCHANGED <<sessVars, slice, full, row, histVars>>

\* UploadPart fails: AbortMultipartUploadRequest builds a request and nothing
\* sends it.
PartFails(w) ==
  /\ pc[w] = "part"
  /\ Spend("fail") /\ Jump(w, NoLocal, "idle")
  /\ UNCHANGED <<sessVars, s3Vars, row, histVars>>

\* Mutant: the chunk is recorded under its part number.
Record_PartNumber(w) ==
  /\ pc[w] = "record"
  /\ \E p \in loc[w].part :
       list' = [list EXCEPT ![loc[w].upload] = With(@, [p EXCEPT !.idx = @ + 1])]
  /\ Finish(w)
  /\ UNCHANGED <<info, s3Vars, row, histVars>>

Record(w) ==
  /\ pc[w] = "record"
  /\ \E p \in loc[w].part : list' = [list EXCEPT ![loc[w].upload] = With(@, p)]
  /\ Finish(w)
  /\ UNCHANGED <<info, s3Vars, row, histVars>>

-----------------------------------------------------------------------------
(* MergeChunk *)

\* The orders in which a Go map can give the chunks of a session.
Orders(s) == {o \in [1 .. Cardinality(s) -> s] :
                \A i, j \in DOMAIN o : o[i] = o[j] => i = j}

\* Mutant: the chunks are not counted.
Complete_Any(u) == list[u] # {}

\* checkChunkSlices: one chunk for every index below nChunks.
Complete(u) == {p.idx : p \in list[u]} = 0 .. info[u].n - 1

MergeArrives(w, u) ==
  /\ pc[w] = "idle"
  /\ info[u] # NoSession /\ Complete(u)
  /\ Spend("merge")
  /\ \E o \in Orders(list[u]) :
       Jump(w, [NoLocal EXCEPT !.upload = u, !.sess = info[u], !.order = o], "complete")
  /\ UNCHANGED <<sessVars, s3Vars, row, histVars>>

Ascending(o) == \A i, j \in DOMAIN o : i < j => o[i].idx < o[j].idx

\* What S3 accepts: an open upload, ascending part numbers, and the entity
\* tags of the parts that it holds.
Accepted(u, o) ==
  /\ u \in open
  /\ Ascending(o)
  /\ \A i \in DOMAIN o : o[i] \in parts[u]

CompleteChunkWrite(w) ==
  LET u == loc[w].upload
      o == loc[w].order
  IN /\ pc[w] = "complete"
     /\ IF Accepted(u, o)
        THEN /\ slice' = o
             /\ open' = open \ {u} /\ parts' = [parts EXCEPT ![u] = {}]
             /\ completed' = completed \cup {u}
             /\ replaced' = replaced \cup {v \in Workers : pc[v] = "parts"}
             /\ Go(w, loc[w], "digest")
        ELSE Finish(w) /\ UNCHANGED <<slice, open, parts, completed, replaced>>
     /\ UNCHANGED <<sessVars, full, row, suspect>>

\* GetDigest: there is no metadata on an object made of parts, the content is
\* read.  It is compared with the digest of the request, if there is one.
GetDigest(w) ==
  /\ pc[w] = "digest"
  /\ IF slice # Nothing
        /\ (loc[w].sess.checked => slice = FileOf(loc[w].upload, loc[w].sess.n))
     THEN Go(w, [loc[w] EXCEPT !.digest = slice], "head")
     ELSE Finish(w)
  /\ UNCHANGED <<sessVars, s3Vars, row, histVars>>

\* Move: the size of the slice object decides how it is copied.
HeadObject(w) ==
  /\ pc[w] = "head"
  /\ replaced' = replaced \ {w}
  /\ IF slice = Nothing THEN Finish(w)
     ELSE Go(w, [loc[w] EXCEPT !.size = Len(slice)],
             IF Len(slice) < CopyLimit THEN "copy" ELSE "parts")
  /\ UNCHANGED <<sessVars, s3Vars, row, completed, suspect>>

CopyObject(w) ==
  /\ pc[w] = "copy"
  /\ IF slice = Nothing THEN Finish(w) /\ UNCHANGED full
                        ELSE full' = slice /\ Go(w, loc[w], "delete")
  /\ suspect' = IF slice = Nothing THEN suspect ELSE FALSE
  /\ UNCHANGED <<sessVars, open, parts, slice, row, completed, replaced>>

\* UploadPartCopy, the next range of the slice object as it is now.
CopyPart(w) ==
  LET i == Len(loc[w].copied) + 1 IN
  /\ pc[w] = "parts" /\ i <= loc[w].size
  /\ IF i > Len(slice) THEN Finish(w)
     ELSE Go(w, [loc[w] EXCEPT !.copied = Append(@, slice[i])], "parts")
  /\ UNCHANGED <<sessVars, s3Vars, row, histVars>>

\* The copied parts become the image object.
CompleteCopy(w) ==
  /\ pc[w] = "parts" /\ Len(loc[w].copied) = loc[w].size
  /\ full' = loc[w].copied /\ suspect' = (w \in replaced)
  /\ Go(w, loc[w], "delete")
  /\ UNCHANGED <<sessVars, open, parts, slice, row, completed, replaced>>

\* The end of Move; an object that is gone is no error.
DeleteSlice(w) ==
  /\ pc[w] = "delete"
  /\ slice' = Nothing
  /\ Go(w, loc[w], "save")
  /\ UNCHANGED <<sessVars, open, parts, full, row, histVars>>

\* The transaction, as far as one row goes (module HubState has the rest).
SaveImage(w) ==
  /\ pc[w] = "save"
  /\ row' = loc[w].digest
  /\ Go(w, loc[w], "del")
  /\ UNCHANGED <<sessVars, s3Vars, histVars>>

DeleteSession(w) ==
  /\ pc[w] = "del"
  /\ info' = [info EXCEPT ![loc[w].upload] = NoSession]
  /\ list' = [list EXCEPT ![loc[w].upload] = {}]
  /\ Finish(w)
  /\ UNCHANGED <<s3Vars, row, histVars>>

-----------------------------------------------------------------------------

Request(w) ==
  \E u \in Uploads :
    \/ \E n \in 1 .. MaxChunks, c \in BOOLEAN : CreateChunkWrite(w, u, n, c)
    \/ \E i \in 0 .. MaxChunks - 1, b \in Bodies : ChunkArrives(w, u, i, b)
    \/ MergeArrives(w, u)

Step(w) ==
  \/ OpenSession(w) \/ ChunkWrite(w) \/ PartFails(w) \/ Record(w)
  \/ CompleteChunkWrite(w) \/ GetDigest(w)
  \/ HeadObject(w) \/ CopyObject(w) \/ CopyPart(w) \/ CompleteCopy(w) \/ DeleteSlice(w)
  \/ SaveImage(w) \/ DeleteSession(w) \/ Abort(w)

Next == \E w \in Workers : Request(w) \/ Step(w)

Spec == Init /\ [][Next]_vars

-----------------------------------------------------------------------------
(* Properties *)

\* Sessions of one tag share the slice and the image object, their chunks are
\* sent in any order and more than once, and merges overlap.  Still an object
\* always is a whole file of one session, its chunks in order: what does not
\* hold over the local store, where chunks are written into the slice file.
\* Only an image object that was copied in ranges, while the merge of another
\* session replaced the slice object, can be a mixture.
WholeFile(content) ==
  content # Nothing =>
    \E u \in completed :
      /\ \A i \in DOMAIN content : content[i].upload = u /\ content[i].idx = i - 1
      /\ info[u] # NoSession => Len(content) = info[u].n
WholeFiles == WholeFile(slice) /\ (suspect \/ WholeFile(full))

\* A client whose chunk failed can send it again: the multipart upload of a
\* session stays open until it is completed, whatever fails.
SessionStaysOpen ==
  \A u \in Uploads : info[u] # NoSession => u \in open \cup completed
=============================================================================

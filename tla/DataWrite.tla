------------------------------- MODULE DataWrite -------------------------------
(***************************************************************************)
(* What one request does to bring a file into the store and into the       *)
(* database: processRemoteImageFile for an upload from a URL, the body of  *)
(* UploadImage, then writeDataToStorage, which writes a small file with    *)
(* one Put and a large one in chunks from a pool of goroutines that all    *)
(* read the temporary file (internal/api/image/image.go).                  *)
(***************************************************************************)
EXTENDS Naturals, Sequences, FiniteSets

CONSTANTS
  N,            \* chunks of a large file
  Pool,         \* goroutines of the pool (30 in the code)
  Stores,       \* the stores in use: "local", "s3"
  OldLens       \* lengths in chunks of the file that the image may have

ASSUME ConstantsAssumption ==
  /\ N \in Nat \ {0} /\ Pool \in Nat \ {0}
  /\ Stores \subseteq {"local", "s3"}
  /\ OldLens \subseteq Nat

VARIABLES
  req,          \* what the request is: it never changes
  digest,       \* img.Digest: of the file, of another one, or empty
  temp,         \* is the temporary file there?
  object,       \* the image in the store, a cell per chunk
  parts,        \* the chunks of the multipart upload (S3)
  next,         \* the next chunk that goes to the pool
  running,      \* the goroutines: those that opened the file, and those to do it
  failed,       \* hasErr
  saved,        \* the digest that was committed with the image row
  pc

vars == <<req, digest, temp, object, parts, next, running, failed, saved, pc>>

-----------------------------------------------------------------------------

Chunks  == 0 .. N - 1
Cells   == {"old", "new", "hole"}
Digests == {"new", "other", "none"}
Uploaded == [i \in 1 .. N |-> "new"]

Request == [source : {"url", "body"}, large : BOOLEAN, store : Stores]

PC == {"fetch", "check", "write", "submit", "errors", "complete", "save",
       "return", "gone"}

TypeOK ==
  /\ req \in Request /\ digest \in Digests /\ temp \in BOOLEAN
  /\ object \in Seq(Cells) /\ parts \subseteq Chunks
  /\ next \in 0 .. N
  /\ running \subseteq Chunks \X {"start", "read", "lost"}
  /\ Cardinality(running) <= Pool
  /\ failed \in BOOLEAN /\ saved \in Digests \cup {"nothing"} /\ pc \in PC

Init ==
  /\ req \in Request /\ digest \in Digests
  /\ \E k \in OldLens : object = [i \in 1 .. k |-> "old"]
  /\ temp = FALSE /\ parts = {} /\ next = 0 /\ running = {}
  /\ failed = FALSE /\ saved = "nothing" /\ pc = "fetch"

Goto(p) == pc' = p

\* The temporary file is written; what it takes to do that may fail.
Fetch ==
  /\ pc = "fetch"
  /\ \/ temp' = TRUE /\ Goto(IF req.source = "url" THEN "check" ELSE "write")
     \/ UNCHANGED temp /\ Goto("return")
  /\ UNCHANGED <<req, digest, object, parts, next, running, failed, saved>>

\* Only a file from a URL is compared with the digest of the image, which is
\* set if it is empty.
Check ==
  /\ pc = "check"
  /\ IF digest = "other" THEN Goto("return") /\ UNCHANGED digest
                         ELSE Goto("write") /\ digest' = "new"
  /\ UNCHANGED <<req, temp, object, parts, next, running, failed, saved>>

\* writeSingleFile: Put replaces the object; the local store then compares
\* the digest, S3 keeps it as metadata.
PutSmall ==
  /\ pc = "write" /\ ~req.large
  /\ \/ /\ object' = Uploaded
        /\ Goto(IF req.store = "local" /\ digest # "new" THEN "return" ELSE "save")
     \/ UNCHANGED object /\ Goto("return")
  /\ UNCHANGED <<req, digest, temp, parts, next, running, failed, saved>>

\* CreateChunkWrite.
StartChunks ==
  /\ pc = "write" /\ req.large
  /\ Goto("submit") \/ Goto("return")
  /\ UNCHANGED <<req, digest, temp, object, parts, next, running, failed, saved>>

\* Mutant: a goroutine per chunk, without a pool.
Submit_NoPool ==
  /\ pc = "submit" /\ next < N
  /\ running' = running \cup {<<next, "start">>}
  /\ next' = next + 1
  /\ UNCHANGED <<req, digest, temp, object, parts, failed, saved, pc>>

\* wg.Add and Invoke, which waits for a goroutine of the pool; a pool that
\* waits and is not released refuses no task.
Submit ==
  /\ pc = "submit" /\ next < N
  /\ Cardinality(running) < Pool
  /\ running' = running \cup {<<next, "start">>}
  /\ next' = next + 1
  /\ UNCHANGED <<req, digest, temp, object, parts, failed, saved, pc>>

\* A goroutine opens the temporary file.
OpenTemp(i) ==
  /\ <<i, "start">> \in running
  /\ running' = (running \ {<<i, "start">>}) \cup (IF temp THEN {<<i, "read">>} ELSE {})
  /\ failed' = (failed \/ ~temp)
  /\ UNCHANGED <<req, digest, temp, object, parts, next, saved, pc>>

\* A cell is written into a file; what lies before it and was never written
\* is a hole.  Nothing is cut off.
WriteAt(file, i) ==
  [j \in 1 .. (IF i + 1 > Len(file) THEN i + 1 ELSE Len(file)) |->
     IF j = i + 1 THEN "new" ELSE IF j <= Len(file) THEN file[j] ELSE "hole"]

\* ChunkWrite: into the image file itself, or a part.
WriteChunk(i) ==
  /\ <<i, "read">> \in running
  /\ running' = running \ {<<i, "read">>}
  /\ IF req.store = "local" THEN object' = WriteAt(object, i) /\ UNCHANGED parts
                            ELSE parts' = parts \cup {i} /\ UNCHANGED object
  /\ UNCHANGED <<req, digest, temp, next, failed, saved, pc>>

\* Mutant: the goroutine leaves without wg.Done.
WriteFails_NoDone(i) ==
  /\ <<i, "read">> \in running
  /\ running' = (running \ {<<i, "read">>}) \cup {<<i, "lost">>}
  /\ failed' = TRUE
  /\ UNCHANGED <<req, digest, temp, object, parts, next, saved, pc>>

WriteFails(i) ==
  /\ <<i, "read">> \in running
  /\ running' = running \ {<<i, "read">>}
  /\ failed' = TRUE
  /\ UNCHANGED <<req, digest, temp, object, parts, next, saved, pc>>

\* Mutant: nobody waits for the goroutines.
WaitAll_Not ==
  /\ pc = "submit" /\ next = N
  /\ Goto("errors")
  /\ UNCHANGED <<req, digest, temp, object, parts, next, running, failed, saved>>

\* wg.Wait.
WaitAll ==
  /\ pc = "submit" /\ next = N /\ running = {}
  /\ Goto("errors")
  /\ UNCHANGED <<req, digest, temp, object, parts, next, running, failed, saved>>

\* Mutant: an error of a goroutine is only logged.
Errors_Ignored ==
  /\ pc = "errors"
  /\ Goto("complete")
  /\ UNCHANGED <<req, digest, temp, object, parts, next, running, failed, saved>>

Errors ==
  /\ pc = "errors"
  /\ Goto(IF failed THEN "return" ELSE "complete")
  /\ UNCHANGED <<req, digest, temp, object, parts, next, running, failed, saved>>

\* CompleteChunkWrite: S3 makes the object of the parts, in the order of the
\* list, which here is that of the indices; the local store does nothing.
CompleteChunks ==
  /\ pc = "complete"
  /\ \/ /\ object' = IF req.store = "local" THEN object
                     ELSE [j \in 1 .. Cardinality(parts) |-> "new"]
        /\ Goto("save")
     \/ UNCHANGED object /\ Goto("return")
  /\ UNCHANGED <<req, digest, temp, parts, next, running, failed, saved>>

\* The transaction (module HubState has it in detail).
SaveImage ==
  /\ pc = "save"
  /\ saved' \in {saved, digest}
  /\ Goto("return")
  /\ UNCHANGED <<req, digest, temp, object, parts, next, running, failed>>

\* The handler returns; the deferred os.Remove.
Return ==
  /\ pc = "return"
  /\ temp' = FALSE
  /\ Goto("gone")
  /\ UNCHANGED <<req, digest, object, parts, next, running, failed, saved>>

Handler ==
  \/ Fetch \/ Check \/ PutSmall \/ StartChunks \/ Submit \/ WaitAll \/ Errors
  \/ CompleteChunks \/ SaveImage \/ Return
Goroutine(i) == OpenTemp(i) \/ WriteChunk(i) \/ WriteFails(i)

Next == Handler \/ (\E i \in Chunks : Goroutine(i))

Spec == /\ Init /\ [][Next]_vars
        /\ WF_vars(Handler) /\ \A i \in Chunks : WF_vars(Goroutine(i))

-----------------------------------------------------------------------------
(* Properties *)

\* When the row is committed the object is the whole uploaded file, whatever
\* failed in the pool and in which order; and the digest of a file from a URL
\* is the one that is committed.
SavedIsStored ==
  saved # "nothing" =>
    /\ object = Uploaded
    /\ req.source = "url" => saved = "new"

\* The caller removes the temporary file when the write returns: by then no
\* goroutine of the pool still reads it or is about to.
TempOutlivesReaders == running # {} => temp

\* The request comes to an end, whichever goroutines fail.
Returns == <>(pc = "gone")
=============================================================================

------------------------------ MODULE ClientPush ------------------------------
(***************************************************************************)
(* One Push of the client (client/image/image.go): an image above the      *)
(* threshold goes to the hub in chunks, from a pool of goroutines that     *)
(* hand their results to the caller over a channel; a smaller one in one   *)
(* request; one with a URL is fetched by the hub itself.  The hub is       *)
(* modelled by what it compares, keeps and answers: how it does that is in *)
(* the modules of the server.  Requests and answers can be lost.           *)
(***************************************************************************)
EXTENDS Naturals, Sequences, FiniteSets

CONSTANTS
  N,            \* chunks of the image
  Pool,         \* goroutines of the pool (10 in the code)
  Kinds         \* pushes to look at: "chunks", "single", "remote"

ASSUME ConstantsAssumption ==
  /\ N \in Nat \ {0} /\ Pool \in Nat \ {0}
  /\ Kinds \subseteq {"chunks", "single", "remote"}

VARIABLES
  kind,         \* how the image is pushed: it never changes
  target,       \* hub: what it writes the file over: it never changes
  pc,           \* the caller
  next,         \* the next chunk of the first round
  again,        \* the chunk to submit again, N if there is none
  task,         \* the goroutines: how far the one of a chunk is
  results,      \* resCh, the channel of results
  closed,       \* is it closed?
  retries, success,
  answer,       \* what Push returned
  session,      \* hub: the state of the upload session
  stored,       \* hub: the chunks that were uploaded and recorded
  image,        \* hub: the file of the tag
  saved,        \* hub: is the row of this push committed?
  late          \* history: a goroutine sent on the closed channel

hub  == <<session, stored, image, saved>>
vars == <<kind, target, pc, next, again, task, results, closed, retries, success,
          answer, hub, late>>

-----------------------------------------------------------------------------

Chunks == 0 .. N - 1
Result == [idx : Chunks, ok : BOOLEAN]
Images == {"old", "partial", "mixed", "pushed"}
\* The store; is the file long enough to be written in parts; is there a
\* longer one in its place.
Targets == [over : {"local", "s3"}, parts : BOOLEAN, longer : BOOLEAN]
Plain   == [over |-> "local", parts |-> FALSE, longer |-> FALSE]
Tasks  == {"none", "send", "answer", "ok", "error"}
PC     == {"start", "submit", "collect", "again", "merge", "upload", "done"}

TypeOK ==
  /\ kind \in Kinds /\ target \in Targets /\ pc \in PC
  /\ next \in 0 .. N /\ again \in 0 .. N
  /\ task \in [Chunks -> Tasks]
  /\ results \in Seq(Result) /\ closed \in BOOLEAN
  /\ retries \in 0 .. N /\ success \in 0 .. N
  /\ answer \in {"none", "ok", "error"}
  /\ session \in {"none", "open", "gone"}
  /\ stored \subseteq Chunks /\ image \in Images /\ saved \in BOOLEAN
  /\ late \in BOOLEAN

Init ==
  /\ kind \in Kinds
  /\ target \in Targets /\ (kind = "chunks" => target = Plain)  \* see Merge
  /\ pc = "start" /\ next = 0 /\ again = N
  /\ task = [i \in Chunks |-> "none"]
  /\ results = <<>> /\ closed = FALSE
  /\ retries = N /\ success = 0
  /\ answer = "none"
  /\ session = "none" /\ stored = {} /\ image = "old" /\ saved = FALSE
  /\ late = FALSE

Busy == {i \in Chunks : task[i] # "none"}

\* The deferred calls: the pool is released, which waits for nobody, and the
\* channel is closed.
Return(a) == pc' = "done" /\ answer' = a /\ closed' = TRUE

-----------------------------------------------------------------------------
(* uploadWithChunk *)

\* StartUploadImageChunk, with the digest of the local record.
StartChunks ==
  /\ pc = "start" /\ kind = "chunks"
  /\ \/ session' = "open" /\ pc' = "submit" /\ UNCHANGED <<answer, closed>>
     \/ session' \in {"none", "open"} /\ Return("error")
  /\ UNCHANGED <<kind, target, next, again, task, results, retries, success, stored, image, saved, late>>

\* Invoke waits for a goroutine of the pool.
Invoke(i) ==
  /\ Cardinality(Busy) < Pool
  /\ task' = [task EXCEPT ![i] = "send"]

Submit ==
  /\ pc = "submit"
  /\ IF next < N THEN Invoke(next) /\ next' = next + 1 /\ UNCHANGED pc
                 ELSE pc' = "collect" /\ UNCHANGED <<task, next>>
  /\ UNCHANGED <<kind, target, again, results, closed, retries, success, answer, hub, late>>

\* Mutant: every result counts, an error too.
Collect_CountsAll ==
  /\ pc = "collect" /\ results # <<>>
  /\ results' = Tail(results)
  /\ success' = success + 1
  /\ pc' = IF success' = N THEN "merge" ELSE "collect"
  /\ UNCHANGED <<kind, target, next, again, task, closed, retries, answer, hub, late>>

\* Mutant: the last result is not waited for.
Collect_OffByOne ==
  /\ pc = "collect" /\ results # <<>>
  /\ results' = Tail(results)
  /\ Head(results).ok /\ success' = success + 1
  /\ pc' = IF success' + 1 >= N THEN "merge" ELSE "collect"
  /\ UNCHANGED <<kind, target, next, again, task, closed, retries, answer, hub, late>>

\* Mutant: the retries are counted and have no limit.
Collect_NoLimit ==
  /\ pc = "collect" /\ results # <<>>
  /\ results' = Tail(results)
  /\ IF Head(results).ok
     THEN /\ success' = success + 1 /\ UNCHANGED again
          /\ pc' = IF success' = N THEN "merge" ELSE "collect"
     ELSE pc' = "again" /\ again' = Head(results).idx /\ UNCHANGED success
  /\ UNCHANGED <<kind, target, next, task, closed, retries, answer, hub, late>>

\* One result: the number of retries is shared by all chunks.
Collect ==
  /\ pc = "collect" /\ results # <<>>
  /\ results' = Tail(results)
  /\ IF Head(results).ok
     THEN /\ success' = success + 1
          /\ pc' = IF success' = N THEN "merge" ELSE "collect"
          /\ UNCHANGED <<again, answer, closed>>
     ELSE /\ UNCHANGED success
          /\ IF retries > 0 THEN /\ pc' = "again" /\ again' = Head(results).idx
                                 /\ UNCHANGED <<answer, closed>>
                            ELSE Return("error") /\ UNCHANGED again
  /\ UNCHANGED <<kind, target, next, task, retries, hub, late>>

Resubmit ==
  /\ pc = "again"
  /\ Invoke(again)
  /\ retries' = retries - 1 /\ again' = N /\ pc' = "collect"
  /\ UNCHANGED <<kind, target, next, results, closed, success, answer, hub, late>>

\* UploadImageChunk: the chunk is read from the file at cIdx * ChunkSize and
\* sent.  The hub stores it, unless its session is gone or it fails.
Send(i) ==
  /\ task[i] = "send"
  /\ \/ session = "open" /\ stored' = stored \cup {i} /\ task' = [task EXCEPT ![i] = "answer"]
     \/ UNCHANGED stored /\ task' = [task EXCEPT ![i] = "error"]
  /\ UNCHANGED <<kind, target, pc, next, again, results, closed, retries, success,
                 answer, session, image, saved, late>>

\* The answer, which may get lost.
Answer(i) ==
  /\ task[i] = "answer"
  /\ \E t \in {"ok", "error"} : task' = [task EXCEPT ![i] = t]
  /\ UNCHANGED <<kind, target, pc, next, again, results, closed, retries, success,
                 answer, hub, late>>

\* Mutant: a channel that holds one result.
Capacity_One == 1

Capacity == N

\* resCh <- result.  On the closed channel that panics; the pool recovers the
\* panic of a task and logs it.
PutResult(i) ==
  /\ task[i] \in {"ok", "error"}
  /\ IF closed THEN late' = TRUE /\ UNCHANGED results
     ELSE /\ Len(results) < Capacity
          /\ results' = Append(results, [idx |-> i, ok |-> task[i] = "ok"])
          /\ UNCHANGED late
  /\ task' = [task EXCEPT ![i] = "none"]
  /\ UNCHANGED <<kind, target, pc, next, again, closed, retries, success, answer, hub>>

\* MergeChunk: the hub merges when it has every chunk, compares the digest,
\* moves the file, whatever was in its place, and saves the row.  Each of that
\* may fail; that the commit did, or the end of the session, is not reported.
Merge ==
  /\ pc = "merge"
  /\ \/ /\ session = "open" /\ stored = Chunks
        /\ image' = "pushed" /\ saved' \in BOOLEAN /\ session' \in {"open", "gone"}
        /\ \E a \in {"ok", "error"} : Return(a)
     \/ UNCHANGED <<image, saved, session>> /\ Return("error")
  /\ UNCHANGED <<kind, target, next, again, task, results, retries, success, stored, late>>

\* The time to live of the session in redis ends.
Expire ==
  /\ session = "open"
  /\ session' = "gone"
  /\ UNCHANGED <<kind, target, pc, next, again, task, results, closed, retries, success,
                 answer, stored, image, saved, late>>

-----------------------------------------------------------------------------
(* uploadSingle *)

\* Mutant: the hub does not compare the digest.
Accepts_Any(sent) == TRUE

\* Put of the local store compares the digest that startUpload gave.  Put of
\* S3 does not, nor does anything compare a file that is written in parts.
Accepts(sent) == target.over = "s3" \/ target.parts \/ sent = "pushed"

\* The parts of the local store go into the file that is there, and nothing
\* cuts off what it has beyond them.
Written(sent) ==
  IF target.over = "local" /\ target.parts /\ target.longer THEN "mixed" ELSE sent

\* What a write that fails may leave.
Torn == {image, "partial", "mixed", "pushed"}

\* startUpload: with a URL in the request the hub fetches the file, compares
\* its size and digest, writes it and saves the row, and its answer to this
\* request is the result of the push.
StartUpload ==
  /\ pc = "start" /\ kind \in {"single", "remote"}
  /\ \/ /\ kind = "single"
        /\ session' = "open" /\ pc' = "upload" /\ UNCHANGED <<image, saved, answer, closed>>
     \/ /\ kind = "remote"
        /\ image' = Written("pushed") /\ saved' = TRUE /\ UNCHANGED session
        /\ \E a \in {"ok", "error"} : Return(a)
     \/ /\ image' \in (IF kind = "remote" THEN Torn ELSE {image})
        /\ UNCHANGED <<saved, session>> /\ Return("error")
  /\ UNCHANGED <<kind, target, next, again, task, results, retries, success, stored, late>>

\* upload: a goroutine feeds the file into the body of the request.  When it
\* cannot read on it still ends the body properly: what arrives then is a
\* shorter file.  Its error is looked at only if the hub refuses.
Upload ==
  /\ pc = "upload"
  /\ \/ \E sent \in {"pushed", "partial"} :
          /\ session = "open" /\ Accepts(sent)
          /\ image' = Written(sent) /\ saved' = TRUE
          /\ \E a \in {"ok", "error"} : Return(a)
     \/ image' \in Torn /\ UNCHANGED saved /\ Return("error")
  /\ UNCHANGED <<kind, target, next, again, task, results, retries, success, session,
                 stored, late>>

-----------------------------------------------------------------------------

Caller ==
  StartChunks \/ Submit \/ Collect \/ Resubmit \/ Merge \/ StartUpload \/ Upload
Goroutine(i) == Send(i) \/ Answer(i) \/ PutResult(i)

Next == Caller \/ (\E i \in Chunks : Goroutine(i)) \/ Expire

Spec == /\ Init /\ [][Next]_vars
        /\ WF_vars(Caller) /\ \A i \in Chunks : WF_vars(Goroutine(i))

-----------------------------------------------------------------------------
(* Properties *)

\* Chunks fail, are sent again although the hub has them, and come back in
\* any order.  The merge is asked for only when the hub has been given every
\* chunk.
MergeAsksAll == pc = "merge" => stored = Chunks

\* The two cases in which nobody would see that the file is not whole: a body
\* that was cut off and that the hub does not compare, and the rest of a
\* longer file behind parts of the local store.
CutOffUnseen == kind = "single" /\ (target.over = "s3" \/ target.parts)
TailKept == kind # "chunks" /\ target.over = "local" /\ target.parts /\ target.longer

\* A push that reports success has put the whole file under the tag, whatever
\* was lost on the way, but in the two cases above, and has replaced what was
\* there in those too.  The row is saved with it, but for a merge, whose commit
\* may have failed.
PushedIsWhole ==
  answer = "ok" =>
    /\ image = "pushed" \/ CutOffUnseen \/ TailKept
    /\ image # "old"
    /\ saved \/ kind = "chunks"

\* The channel is closed when Push returns.  After a success no goroutine is
\* left that could still send on it or read the file; only after an error
\* one may be, and its panic is the pool's to recover.
QuietAfterSuccess ==
  /\ answer = "ok" => Busy = {}
  /\ late => answer = "error"

\* The caller waits for a goroutine while it submits, and the goroutines for
\* room in the channel: still Push returns, and its goroutines end.
PushReturns == <>[](pc = "done" /\ Busy = {})
=============================================================================

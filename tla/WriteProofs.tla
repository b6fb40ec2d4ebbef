----------------------------- MODULE WriteProofs -----------------------------
(***************************************************************************)
(* Theorems of DataWrite for any number of chunks, any size of the pool,   *)
(* any set of stores, and files of any length in place.                    *)
(***************************************************************************)
EXTENDS DataWrite, FiniteSetTheorems, TLAPS

-----------------------------------------------------------------------------
(* Type correctness *)

\* A cell written into a file makes a file that is long enough, holds the
\* cell in its place and keeps the others.
LEMMA WriteAtFile ==
  ASSUME NEW file \in Seq(Cells), NEW i \in Nat
  PROVE  /\ WriteAt(file, i) \in Seq(Cells)
         /\ Len(WriteAt(file, i)) = IF i + 1 > Len(file) THEN i + 1 ELSE Len(file)
         /\ WriteAt(file, i)[i + 1] = "new"
         /\ \A j \in 1 .. Len(file) : j # i + 1 => WriteAt(file, i)[j] = file[j]
<1> DEFINE k == IF i + 1 > Len(file) THEN i + 1 ELSE Len(file)
           F == [j \in 1 .. k |-> IF j = i + 1 THEN "new"
                                  ELSE IF j <= Len(file) THEN file[j] ELSE "hole"]
<1>1. k \in Nat /\ i + 1 \in 1 .. k /\ Len(file) <= k
  OBVIOUS
<1>2. \A j \in 1 .. k : F[j] \in Cells
  BY DEF Cells
<1>3. F \in Seq(Cells) /\ Len(F) = k
  <2>1. F \in [1 .. k -> Cells]
    BY <1>2
  <2> HIDE DEF F, k
  <2> QED BY <1>1, <2>1
<1>4. F[i + 1] = "new" /\ \A j \in 1 .. Len(file) : j # i + 1 => F[j] = file[j]
  BY <1>1
<1>5. WriteAt(file, i) = F
  BY DEF WriteAt
<1> QED BY <1>3, <1>4, <1>5

LEMMA UploadedFile == Uploaded \in Seq(Cells) /\ Len(Uploaded) = N
BY ConstantsAssumption DEF Uploaded, Cells

\* The goroutines are finitely many.
LEMMA RunningFinite == ASSUME TypeOK PROVE IsFiniteSet(running)
<1>1. IsFiniteSet(Chunks)
  BY FS_Interval, ConstantsAssumption DEF Chunks
<1>2. IsFiniteSet({"start", "read", "lost"})
  <2>1. {"start", "read", "lost"} = (({} \cup {"start"}) \cup {"read"}) \cup {"lost"}
    OBVIOUS
  <2>2. IsFiniteSet(({} \cup {"start"}) \cup {"read"})
    BY FS_EmptySet, FS_AddElement
  <2> QED BY <2>1, <2>2, FS_AddElement
<1>3. IsFiniteSet(Chunks \X {"start", "read", "lost"})
  BY <1>1, <1>2, FS_Product
<1> QED BY <1>3, FS_Subset DEF TypeOK

\* A goroutine more or less.
LEMMA PoolSteps ==
  ASSUME TypeOK, NEW x, NEW y, x \in running
  PROVE  /\ Cardinality(running \ {x}) <= Pool
         /\ Cardinality((running \ {x}) \cup {y}) <= Pool
<1>1. IsFiniteSet(running \ {x}) /\ Cardinality(running \ {x}) = Cardinality(running) - 1
  BY RunningFinite, FS_RemoveElement
<1>2. Cardinality(running) \in Nat /\ Cardinality(running) <= Pool
  BY RunningFinite, FS_CardinalityType DEF TypeOK
<1>3. Cardinality((running \ {x}) \cup {y}) <= Cardinality(running \ {x}) + 1
  BY <1>1, <1>2, FS_AddElement
<1>4. Cardinality((running \ {x}) \cup {y}) \in Nat
  BY <1>1, FS_AddElement, FS_CardinalityType
<1> QED BY <1>1, <1>2, <1>3, <1>4, ConstantsAssumption

LEMMA PoolGrows ==
  ASSUME TypeOK, NEW y, Cardinality(running) < Pool
  PROVE  Cardinality(running \cup {y}) <= Pool
<1>1. Cardinality(running) \in Nat
  BY RunningFinite, FS_CardinalityType
<1>2. Cardinality(running \cup {y}) \in {Cardinality(running), Cardinality(running) + 1}
  BY RunningFinite, FS_AddElement
<1> QED BY <1>1, <1>2, ConstantsAssumption

LEMMA TypeInit == Init => TypeOK
<1> SUFFICES ASSUME Init PROVE TypeOK
  OBVIOUS
<1>1. object \in Seq(Cells)
  BY ConstantsAssumption DEF Init, Cells
<1>2. Cardinality(running) <= Pool
  BY FS_EmptySet, ConstantsAssumption DEF Init
<1>3. saved \in Digests \cup {"nothing"} /\ next \in 0 .. N
  BY ConstantsAssumption DEF Init
<1>4. running \subseteq Chunks \X {"start", "read", "lost"} /\ parts \subseteq Chunks
  BY DEF Init
<1>5. temp \in BOOLEAN /\ failed \in BOOLEAN /\ pc \in PC
  BY DEF Init, PC
<1> QED BY <1>1, <1>2, <1>3, <1>4, <1>5 DEF Init, TypeOK

LEMMA TypeStep == TypeOK /\ [Next]_vars => TypeOK'
<1> SUFFICES ASSUME TypeOK, [Next]_vars PROVE TypeOK'
  OBVIOUS
<1>1. CASE Handler
  <2> USE DEF TypeOK, PC, Goto
  <2>1. CASE Fetch BY <2>1 DEF Fetch
  <2>2. CASE Check BY <2>2 DEF Check, Digests
  <2>3. CASE PutSmall BY <2>3, UploadedFile DEF PutSmall
  <2>4. CASE StartChunks BY <2>4 DEF StartChunks
  <2>5. CASE Submit
    <3>1. running' \subseteq Chunks \X {"start", "read", "lost"} /\ next' \in 0 .. N
      BY <2>5, ConstantsAssumption DEF Submit, Chunks
    <3>2. Cardinality(running') <= Pool
      BY <2>5, PoolGrows DEF Submit
    <3> QED BY <2>5, <3>1, <3>2 DEF Submit
  <2>6. CASE WaitAll BY <2>6 DEF WaitAll
  <2>7. CASE Errors BY <2>7 DEF Errors
  <2>8. CASE CompleteChunks
    <3>1. IsFiniteSet(parts)
      <4>1. IsFiniteSet(Chunks)
        BY FS_Interval, ConstantsAssumption DEF Chunks
      <4> QED BY <4>1, FS_Subset
    <3>2. [j \in 1 .. Cardinality(parts) |-> "new"] \in Seq(Cells)
      BY <3>1, FS_CardinalityType DEF Cells
    <3> QED BY <2>8, <3>2 DEF CompleteChunks
  <2>9. CASE SaveImage BY <2>9 DEF SaveImage
  <2>10. CASE Return BY <2>10 DEF Return
  <2> QED BY <1>1, <2>1, <2>2, <2>3, <2>4, <2>5, <2>6, <2>7, <2>8, <2>9, <2>10 DEF Handler
<1>2. ASSUME NEW i \in Chunks, Goroutine(i) PROVE TypeOK'
  <2>1. CASE OpenTemp(i)
    <3>1. running' \subseteq Chunks \X {"start", "read", "lost"}
      BY <2>1 DEF OpenTemp, TypeOK
    <3>2. Cardinality(running') <= Pool
      BY <2>1, PoolSteps DEF OpenTemp
    <3> QED BY <2>1, <3>1, <3>2 DEF OpenTemp, TypeOK
  <2>2. CASE WriteChunk(i)
    <3>1. i \in Nat
      BY ConstantsAssumption DEF Chunks
    <3>2. Cardinality(running') <= Pool
      BY <2>2, PoolSteps DEF WriteChunk
    <3> QED BY <2>2, <3>1, <3>2, WriteAtFile DEF WriteChunk, TypeOK
  <2>3. CASE WriteFails(i)
    <3>1. Cardinality(running') <= Pool
      BY <2>3, PoolSteps DEF WriteFails
    <3> QED BY <2>3, <3>1 DEF WriteFails, TypeOK
  <2> QED BY <1>2, <2>1, <2>2, <2>3 DEF Goroutine
<1>3. CASE UNCHANGED vars
  BY <1>3 DEF vars, TypeOK
<1> QED BY <1>1, <1>2, <1>3 DEF Next

\* Every reachable state is well typed, and the pool never has more goroutines
\* than it was made with.
THEOREM TypeCorrect == Spec => []TypeOK
<1> QED BY TypeInit, TypeStep, PTL DEF Spec

-----------------------------------------------------------------------------
(* The temporary file *)

\* Where the request is, and what that says of the pool: goroutines only run
\* while the handler submits or waits, and the file is there from its first
\* use on until then.
Phases ==
  /\ pc \in {"check", "write", "submit"} => temp
  /\ running # {} => pc = "submit"
  /\ pc \in {"fetch", "check", "write"} => next = 0 /\ parts = {} /\ ~failed
  /\ pc \in {"submit", "errors", "complete"} => req.large
  /\ pc \in {"errors", "complete"} => next = N
  /\ pc = "complete" => ~failed

LEMMA PhasesStep == TypeOK /\ Phases /\ [Next]_vars => Phases'
<1> SUFFICES ASSUME TypeOK, Phases, [Next]_vars PROVE Phases'
  OBVIOUS
<1> USE DEF Phases
<1>1. CASE Handler
  <2> USE DEF Goto
  <2>1. CASE Fetch BY <2>1 DEF Fetch
  <2>2. CASE Check BY <2>2 DEF Check
  <2>3. CASE PutSmall BY <2>3 DEF PutSmall
  <2>4. CASE StartChunks BY <2>4 DEF StartChunks
  <2>5. CASE Submit BY <2>5 DEF Submit
  <2>6. CASE WaitAll BY <2>6 DEF WaitAll
  <2>7. CASE Errors BY <2>7 DEF Errors
  <2>8. CASE CompleteChunks BY <2>8 DEF CompleteChunks
  <2>9. CASE SaveImage BY <2>9 DEF SaveImage
  <2>10. CASE Return BY <2>10 DEF Return
  <2> QED BY <1>1, <2>1, <2>2, <2>3, <2>4, <2>5, <2>6, <2>7, <2>8, <2>9, <2>10 DEF Handler
<1>2. ASSUME NEW i \in Chunks, Goroutine(i) PROVE Phases'
  BY <1>2 DEF Goroutine, OpenTemp, WriteChunk, WriteFails
<1>3. CASE UNCHANGED vars
  BY <1>3 DEF vars
<1> QED BY <1>1, <1>2, <1>3 DEF Next

LEMMA PhasesInit == Init => Phases
BY DEF Init, Phases

\* The caller of writeDataToStorage removes the temporary file when it returns:
\* by then no goroutine of the pool reads it or is about to, whichever failed.
THEOREM ReadersHaveFile == Spec => []TempOutlivesReaders
<1>1. Phases => TempOutlivesReaders
  BY DEF Phases, TempOutlivesReaders
<1> QED BY <1>1, TypeCorrect, PhasesInit, PhasesStep, PTL DEF Spec

-----------------------------------------------------------------------------
(* The file that is committed *)

\* Has the store chunk i of the file?
InStore(i) ==
  IF req.store = "local" THEN i + 1 \in 1 .. Len(object) /\ object[i + 1] = "new"
                         ELSE i \in parts

Pending(i) == \E s \in {"start", "read", "lost"} : <<i, s>> \in running

\* Unless a goroutine has failed, a chunk that was submitted and is not in the
\* works any more is stored; the file is never longer than the new one.
ChunksStored ==
  /\ Len(object) <= N
  /\ pc \in {"submit", "errors", "complete"} /\ ~failed =>
       \A i \in Chunks : i < next /\ ~Pending(i) => InStore(i)

\* Nothing is saved before the whole file is stored and its digest is known.
SavesLast ==
  /\ pc \notin {"return", "gone"} => saved = "nothing"
  /\ pc = "save" \/ saved # "nothing" => object = Uploaded
  /\ pc \in {"write", "submit", "errors", "complete", "save"} /\ req.source = "url"
       => digest = "new"
  /\ saved # "nothing" /\ req.source = "url" => saved = "new"

Inv == TypeOK /\ Phases /\ ChunksStored /\ SavesLast

LEMMA InvInit ==
  ASSUME OldLens \subseteq 0 .. N
  PROVE  Init => Inv
<1> SUFFICES ASSUME Init PROVE Inv
  OBVIOUS
<1>1. ChunksStored
  <2>1. PICK k \in OldLens : object = [i \in 1 .. k |-> "old"]
    BY DEF Init
  <2>2. k \in Nat /\ k <= N
    BY ConstantsAssumption
  <2>3. Len(object) = k
    BY <2>1, <2>2
  <2> QED BY <2>2, <2>3 DEF ChunksStored, Init
<1>2. SavesLast
  BY DEF SavesLast, Init
<1> QED BY <1>1, <1>2, TypeInit, PhasesInit DEF Inv

\* At the end of the chunks the store has all of them: in the file in place ...
LEMMA LocalComplete ==
  ASSUME Inv, pc = "complete", req.store = "local"
  PROVE  object = Uploaded
<1>1. next = N /\ ~failed /\ \A i \in Chunks : ~Pending(i)
  BY DEF Inv, Phases, Pending
<1>2. \A i \in Chunks : i + 1 \in 1 .. Len(object) /\ object[i + 1] = "new"
  BY <1>1, ConstantsAssumption DEF Inv, ChunksStored, InStore, Chunks
<1>3. Len(object) = N
  <2>1. N - 1 \in Chunks
    BY ConstantsAssumption DEF Chunks
  <2> QED BY <1>2, <2>1, ConstantsAssumption DEF Inv, TypeOK, ChunksStored
<1>4. \A j \in 1 .. N : object[j] = "new"
  <2> TAKE j \in 1 .. N
  <2>1. j - 1 \in Chunks /\ (j - 1) + 1 = j
    BY ConstantsAssumption DEF Chunks
  <2> QED BY <1>2, <2>1
<1>5. object = [j \in 1 .. N |-> object[j]]
  BY <1>3 DEF Inv, TypeOK
<1> QED BY <1>4, <1>5 DEF Uploaded

\* ... or as parts.
LEMMA PartsComplete ==
  ASSUME Inv, pc = "complete", req.store # "local"
  PROVE  [j \in 1 .. Cardinality(parts) |-> "new"] = Uploaded
<1>1. next = N /\ ~failed /\ \A i \in Chunks : ~Pending(i)
  BY DEF Inv, Phases, Pending
<1>2. \A i \in Chunks : i \in parts
  BY <1>1, ConstantsAssumption DEF Inv, ChunksStored, InStore, Chunks
<1>3. parts = 0 .. N - 1
  BY <1>2 DEF Inv, TypeOK, Chunks
<1>4. Cardinality(0 .. N - 1) = N
  BY FS_Interval, ConstantsAssumption
<1> QED BY <1>3, <1>4 DEF Uploaded

LEMMA HandlerStep ==
  ASSUME Inv, Handler
  PROVE  ChunksStored' /\ SavesLast'
<1> USE DEF Goto
<1>1. CASE Fetch BY <1>1 DEF Fetch, Inv, ChunksStored, SavesLast
<1>2. CASE Check BY <1>2 DEF Check, Inv, ChunksStored, SavesLast, TypeOK, Digests
<1>3. CASE PutSmall
  <2>1. Len(object') <= N
    BY <1>3, UploadedFile, ConstantsAssumption DEF PutSmall, Inv, ChunksStored
  <2>2. pc' \in {"save", "return"}
    BY <1>3 DEF PutSmall
  <2>3. ChunksStored'
    BY <2>1, <2>2 DEF ChunksStored
  <2>4. SavesLast'
    BY <1>3 DEF PutSmall, Inv, SavesLast
  <2> QED BY <2>3, <2>4
<1>4. CASE StartChunks
  <2>1. next = 0
    BY <1>4 DEF StartChunks, Inv, Phases
  <2>2. \A i \in Chunks : ~(i < next)
    BY <2>1, ConstantsAssumption DEF Chunks
  <2> QED BY <1>4, <2>2 DEF StartChunks, Inv, ChunksStored, SavesLast
<1>5. CASE Submit
  <2>1. ASSUME NEW i \in Chunks, i < next', ~Pending(i)', ~failed PROVE InStore(i)'
    <3>1. i # next
      BY <1>5, <2>1 DEF Submit, Pending
    <3>2. i < next
      BY <1>5, <2>1, <3>1 DEF Submit, Chunks, Inv, TypeOK
    <3>3. ~Pending(i)
      BY <1>5, <2>1 DEF Submit, Pending
    <3> QED BY <1>5, <2>1, <3>2, <3>3 DEF Submit, Inv, ChunksStored, InStore
  <2> QED BY <1>5, <2>1 DEF Submit, Inv, ChunksStored, SavesLast
<1>6. CASE WaitAll
  BY <1>6 DEF WaitAll, Inv, ChunksStored, InStore, Pending, SavesLast
<1>7. CASE Errors
  BY <1>7 DEF Errors, Inv, ChunksStored, InStore, Pending, SavesLast
<1>8. CASE CompleteChunks
  <2>1. object' \in {object, Uploaded} /\ (pc' = "save" => object' = Uploaded)
    BY <1>8, LocalComplete, PartsComplete DEF CompleteChunks
  <2>2. pc' \in {"save", "return"}
    BY <1>8 DEF CompleteChunks
  <2>3. ChunksStored'
    <3>1. Len(object') <= N
      BY <2>1, UploadedFile, ConstantsAssumption DEF Inv, ChunksStored
    <3> QED BY <2>2, <3>1 DEF ChunksStored
  <2>4. SavesLast'
    BY <1>8, <2>1, <2>2 DEF CompleteChunks, Inv, SavesLast
  <2> QED BY <2>3, <2>4
<1>9. CASE SaveImage
  BY <1>9 DEF SaveImage, Inv, ChunksStored, SavesLast
<1>10. CASE Return
  BY <1>10 DEF Return, Inv, ChunksStored, SavesLast
<1> QED BY <1>1, <1>2, <1>3, <1>4, <1>5, <1>6, <1>7, <1>8, <1>9, <1>10 DEF Handler

LEMMA GoroutineStep ==
  ASSUME Inv, NEW i \in Chunks, Goroutine(i)
  PROVE  ChunksStored' /\ SavesLast'
<1>1. pc = "submit" /\ pc' = pc /\ temp
  BY DEF Goroutine, OpenTemp, WriteChunk, WriteFails, Inv, Phases
<1>2. SavesLast'
  BY <1>1 DEF Goroutine, OpenTemp, WriteChunk, WriteFails, Inv, SavesLast
<1>3. CASE OpenTemp(i)
  <2>1. \A j \in Chunks : Pending(j) => Pending(j)'
    BY <1>1, <1>3 DEF OpenTemp, Pending
  <2> QED BY <1>1, <1>2, <1>3, <2>1 DEF OpenTemp, Inv, ChunksStored, InStore
<1>4. CASE WriteChunk(i)
  <2>1. \A j \in Chunks \ {i} : Pending(j) => Pending(j)'
    BY <1>4 DEF WriteChunk, Pending
  <2>2. i \in Nat /\ i + 1 <= N
    BY ConstantsAssumption DEF Chunks
  <2>3. CASE req.store = "local"
    <3>1. object' = WriteAt(object, i) /\ req' = req
      BY <1>4, <2>3 DEF WriteChunk
    <3>2. /\ Len(object') = IF i + 1 > Len(object) THEN i + 1 ELSE Len(object)
          /\ object'[i + 1] = "new"
          /\ \A j \in 1 .. Len(object) : j # i + 1 => object'[j] = object[j]
      BY <2>2, <3>1, WriteAtFile DEF Inv, TypeOK
    <3>3. InStore(i)'
      BY <2>2, <2>3, <3>1, <3>2 DEF Inv, TypeOK, InStore
    <3>4. \A j \in Chunks \ {i} : InStore(j) => InStore(j)'
      BY <2>2, <2>3, <3>1, <3>2, ConstantsAssumption DEF Inv, TypeOK, InStore, Chunks
    <3>5. Len(object') <= N
      BY <2>2, <3>2 DEF Inv, ChunksStored
    <3> QED BY <1>1, <1>2, <1>4, <2>1, <3>3, <3>4, <3>5 DEF WriteChunk, Inv, ChunksStored
  <2>4. CASE req.store # "local"
    <3>1. object' = object /\ parts' = parts \cup {i} /\ req' = req
      BY <1>4, <2>4 DEF WriteChunk
    <3>2. InStore(i)' /\ \A j \in Chunks : InStore(j) => InStore(j)'
      BY <2>4, <3>1 DEF InStore
    <3> QED BY <1>1, <1>2, <1>4, <2>1, <3>1, <3>2 DEF WriteChunk, Inv, ChunksStored
  <2> QED BY <2>3, <2>4
<1>5. CASE WriteFails(i)
  BY <1>2, <1>5 DEF WriteFails, Inv, ChunksStored
<1> QED BY <1>3, <1>4, <1>5 DEF Goroutine

LEMMA InvStep == Inv /\ [Next]_vars => Inv'
<1> SUFFICES ASSUME Inv, [Next]_vars PROVE Inv'
  OBVIOUS
<1>1. TypeOK' /\ Phases'
  BY TypeStep, PhasesStep DEF Inv
<1>2. ChunksStored' /\ SavesLast'
  <2>1. CASE Handler BY <2>1, HandlerStep
  <2>2. ASSUME NEW i \in Chunks, Goroutine(i) PROVE ChunksStored' /\ SavesLast'
    BY <2>2, GoroutineStep
  <2>3. CASE UNCHANGED vars
    BY <2>3 DEF vars, Inv, ChunksStored, InStore, Pending, SavesLast
  <2> QED BY <2>1, <2>2, <2>3 DEF Next
<1> QED BY <1>1, <1>2 DEF Inv

\* When the row is committed, the object is the whole uploaded file and the
\* digest of a file from a URL is its own, whatever failed in the pool and in
\* which order the chunks were written: for every image that was not longer
\* than the new file before: the local store writes over a file without
\* truncating it, and the tail of a longer one stays.
THEOREM CommittedIsStored ==
  ASSUME OldLens \subseteq 0 .. N
  PROVE  Spec => []SavedIsStored
<1>1. Inv => SavedIsStored
  BY DEF Inv, SavesLast, SavedIsStored
<1>2. Init => Inv
  BY InvInit
<1> QED BY <1>1, <1>2, InvStep, PTL DEF Spec
=============================================================================
